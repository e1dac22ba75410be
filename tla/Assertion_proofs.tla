-------------------------- MODULE Assertion_proofs --------------------------
(***************************************************************************)
(* What is proved of the assertions for all integer types, programs of any *)
(* length and both disciplines of the client.                              *)
(***************************************************************************)
EXTENDS Assertion, TLAPS

(* -Half(t) .. Half(t) - 1 is half of the values below zero.                 *)
LEMMA TypeFacts ==
  ASSUME NEW t, IsType(t)
  PROVE  /\ t.count \in Nat /\ Half(t) \in Nat /\ t.count = 2 * Half(t) /\ Half(t) > 0
         /\ t.signed \in BOOLEAN
         /\ t.signed => Values(t) = -Half(t) .. Half(t) - 1
         /\ ~t.signed => Values(t) = 0 .. t.count - 1
  BY DEF IsType, Half, Values

(* The common type has at least as many values as either type.               *)
LEMMA CommonFacts ==
  ASSUME NEW s, NEW t, IsType(s), IsType(t)
  PROVE  LET c == CommonType(s, t) IN
           /\ IsType(c)
           /\ s.count <= c.count /\ t.count <= c.count
<1>1. IsType(Promote(s)) /\ s.count <= Promote(s).count
  BY TypeAssumption DEF Promote, IsType
<1>2. IsType(Promote(t)) /\ t.count <= Promote(t).count
  BY TypeAssumption DEF Promote, IsType
<1>3. \A a, b : IsType(a) /\ IsType(b) =>
        /\ IsType(Wider(a, b))
        /\ a.count <= Wider(a, b).count /\ b.count <= Wider(a, b).count
  BY DEF IsType, Wider
<1> DEFINE p == Promote(s)
           q == Promote(t)
<1>4. CommonType(s, t) = Wider(q, p) \/ CommonType(s, t) = Wider(p, q)
  BY DEF CommonType
<1>5. p.count \in Nat /\ q.count \in Nat /\ s.count \in Nat /\ t.count \in Nat
  BY <1>1, <1>2 DEF IsType
<1> HIDE DEF p, q
<1>6. IsType(CommonType(s, t)) /\ p.count <= CommonType(s, t).count
        /\ q.count <= CommonType(s, t).count
  BY <1>1, <1>2, <1>3, <1>4 DEF p, q
<1>7. CommonType(s, t).count \in Nat
  BY <1>6 DEF IsType
<1>8. s.count <= CommonType(s, t).count /\ t.count <= CommonType(s, t).count
  BY <1>1, <1>2, <1>5, <1>6, <1>7 DEF p, q
<1> QED
  BY <1>6, <1>8

(* What conversion to an unsigned type does to a value of no more bits.      *)
LEMMA ConvertFacts ==
  ASSUME NEW s, NEW c, IsType(s), IsType(c), s.count <= c.count, NEW v \in Values(s)
  PROVE  /\ v \in Int
         /\ c.signed \/ v >= 0 => Convert(v, c) = v
         /\ ~c.signed /\ v < 0 => Convert(v, c) \in Int /\ Convert(v, c) >= Half(c)
<1> DEFINE m == c.count
           h == Half(s)
           k == Half(c)
<1>1. m \in Nat /\ h \in Nat /\ k \in Nat /\ h > 0 /\ m = 2 * k /\ h <= k
  <2>1. s.count = 2 * h /\ h \in Nat /\ h > 0
    BY TypeFacts
  <2>2. m = 2 * k /\ k \in Nat
    BY TypeFacts
  <2>3. 2 * h <= 2 * k
    BY <2>1, <2>2
  <2> HIDE DEF m, h, k
  <2> QED
    BY <2>1, <2>2, <2>3
<1>2. v \in Int /\ -h <= v /\ v < m
  <2>1. CASE s.signed
    <3>1. v \in -h .. h - 1
      BY <2>1, TypeFacts
    <3> HIDE DEF m, h, k
    <3> QED
      BY <3>1, <1>1
  <2>2. CASE ~s.signed
    <3>1. v \in 0 .. s.count - 1 /\ s.count \in Nat /\ s.count <= m
      BY <2>2, TypeFacts
    <3> HIDE DEF m, h, k
    <3> QED
      BY <3>1, <1>1
  <2> QED
    BY <2>1, <2>2, TypeFacts
<1>3. Convert(v, c) = IF c.signed THEN v ELSE v % m
  BY DEF Convert
<1> HIDE DEF m, h, k
<1>4. v >= 0 => v % m = v
  BY <1>1, <1>2
<1>5. v < 0 => v % m = v + m
  BY <1>1, <1>2
<1>6. v < 0 => v + m \in Int /\ v + m >= k
  BY <1>1, <1>2
<1> QED
  BY <1>2, <1>3, <1>4, <1>5, <1>6, TypeFacts DEF k

(* i < n in C++ lets the indices below the bound pass, and no others where   *)
(* it is reliable.                                                           *)
LEMMA LessFacts ==
  ASSUME NEW s \in Type \cup {SizeType}, NEW t \in Type,
         NEW i \in Values(s), NEW n \in Values(t)
  PROVE  /\ i \in 0 .. n - 1 => Less(i, s, n, t)
         /\ Reliable(i, s, n, t) /\ Less(i, s, n, t) => i \in 0 .. n - 1
<1> DEFINE c == CommonType(s, t)
<1>1. IsType(s) /\ IsType(t)
  BY TypeAssumption
<1>2. IsType(c) /\ s.count <= c.count /\ t.count <= c.count
  BY <1>1, CommonFacts
<1>3. /\ i \in Int /\ n \in Int
      /\ c.signed \/ i >= 0 => Convert(i, c) = i
      /\ c.signed \/ n >= 0 => Convert(n, c) = n
      /\ ~c.signed /\ i < 0 => Convert(i, c) \in Int /\ Convert(i, c) >= Half(c)
  BY <1>1, <1>2, ConvertFacts
<1>4. Half(c) \in Nat
  BY <1>2, TypeFacts
<1>5. Less(i, s, n, t) <=> Convert(i, c) < Convert(n, c)
  BY DEF Less
<1>6. Reliable(i, s, n, t) <=> n >= 0 /\ (i < 0 => ~c.signed /\ n <= Half(c))
  BY DEF Reliable
<1> HIDE DEF c
<1>7. i \in 0 .. n - 1 => Less(i, s, n, t)
  BY <1>3, <1>5
<1>8. ASSUME Reliable(i, s, n, t), Less(i, s, n, t)
      PROVE  i \in 0 .. n - 1
  <2>1. n >= 0 /\ Convert(n, c) = n
    BY <1>3, <1>6, <1>8
  <2>2. CASE i >= 0
    BY <1>3, <1>5, <1>8, <2>1, <2>2
  <2>3. CASE i < 0
    <3>1. ~c.signed /\ n <= Half(c)
      BY <1>6, <1>8, <2>3
    <3>2. Convert(i, c) \in Int /\ Convert(i, c) >= Half(c)
      BY <1>3, <2>3, <3>1
    <3> QED
      BY <1>3, <1>4, <1>5, <1>8, <2>1, <3>1, <3>2
  <2> QED
    BY <1>3, <2>2, <2>3
<1> QED
  BY <1>7, <1>8

(* A lower counter is less than every bound that a higher one is less than.  *)
LEMMA LessMonotone ==
  ASSUME NEW t \in Type, NEW n, NEW i \in 0 .. SizeType.count - 1,
         NEW j \in 0 .. SizeType.count - 1, i <= j, Convert(n, CommonType(SizeType, t)) \in Int,
         Less(j, SizeType, n, t)
  PROVE  Less(i, SizeType, n, t)
<1> DEFINE c == CommonType(SizeType, t)
<1>1. IsType(SizeType) /\ IsType(t)
  BY TypeAssumption
<1>2. IsType(c) /\ SizeType.count <= c.count
  BY <1>1, CommonFacts
<1>3. Values(SizeType) = 0 .. SizeType.count - 1 /\ SizeType.count \in Nat
  BY <1>1, TypeAssumption, TypeFacts
<1>4. Convert(i, c) = i /\ Convert(j, c) = j /\ i \in Int /\ j \in Int
  <2>1. i \in Values(SizeType) /\ j \in Values(SizeType) /\ i >= 0 /\ j >= 0
    BY <1>3
  <2> QED
    BY <1>1, <1>2, <2>1, ConvertFacts
<1>5. Convert(j, c) < Convert(n, c)
  BY DEF Less
<1>6. Less(i, SizeType, n, t) <=> Convert(i, c) < Convert(n, c)
  BY DEF Less
<1> HIDE DEF c
<1>7. Convert(n, c) \in Int
  BY DEF c
<1> QED
  BY <1>4, <1>5, <1>6, <1>7

-----------------------------------------------------------------------------
(* The invariant: the counters are bounded by the lines executed.            *)
IInv ==
  /\ TypeOK
  /\ \A b \in Build : taken[b] <= 2 * line
  /\ Agree
  /\ IndexInBounds
  /\ Report

(* What two builds with the same counter ask and say is the same, and a      *)
(* lower counter fails no condition that a higher one meets.                 *)
Alike(holds, shown, first, second) ==
  /\ first \in {0, 1} /\ second \in {0, 1} /\ second <= first
  /\ first = 0 \/ taken["checked"] = taken["release"] =>
       (holds["checked"] <=> holds["release"]) /\ shown["checked"] = shown["release"]
  /\ holds["checked"] => holds["release"]

(* Every line is an assertion of this kind, of an index or of something      *)
(* else, or throws in both builds.                                           *)
AssertsNoIndex ==
  \E forced \in BOOLEAN, type \in ExceptionType : \E holds, shown, first, second :
    /\ Assert(forced, holds, type, shown, first, second)
    /\ Alike(holds, shown, first, second)
    /\ index' = {}

AssertsIndex ==
  \E forced, split \in BOOLEAN, takes \in {0, 1}, s \in Type \cup {SizeType}, t \in Type :
    \E n \in Values(t), i \in [Build -> Values(s)] : \E holds :
      /\ AssertIndex(forced, split, takes, i, s, n, t, holds)
      /\ Alike(holds, [b \in Build |-> {i[b] + takes}], takes, takes)
      /\ ~split => \A b \in Build : holds[b] <=> Less(i[b], s, n, t)

Throws ==
  \E e : /\ Throw(e)
         /\ e.type \in ExceptionType /\ e.what[1] = e.type
         /\ e.line # line + 1 => e = NullException /\ e.line = SizeType.count - 1

LEMMA OtherShape ==
  ASSUME IInv, NEW type \in ExceptionType, AssertOther(type)
  PROVE  AssertsNoIndex
<1>1. PICK forced \in BOOLEAN :
        \/ \E c \in BOOLEAN :
             Assert(forced, [b \in Build |-> c], type, [b \in Build |-> {}], 0, 0)
        \/ \E n \in 0 .. MaxLine :
             Assert(forced, [b \in Build |-> taken[b] < n], type, [b \in Build |-> {}], 1, 0)
  BY DEF AssertOther
<1>2. index' = {}
  BY DEF AssertOther
<1>3. ASSUME NEW c \in BOOLEAN
      PROVE  Alike([b \in Build |-> c], [b \in Build |-> {}], 0, 0)
  BY DEF Alike, Build
<1>4. ASSUME NEW n \in 0 .. MaxLine
      PROVE  Alike([b \in Build |-> taken[b] < n], [b \in Build |-> {}], 1, 0)
  <2>1. /\ taken["release"] \in Nat /\ taken["checked"] \in Nat
        /\ taken["release"] <= taken["checked"]
    BY ProgramAssumption DEF IInv, TypeOK, Agree, Build
  <2> DEFINE holds == [b \in Build |-> taken[b] < n]
  <2>2. /\ holds["checked"] <=> taken["checked"] < n
        /\ holds["release"] <=> taken["release"] < n
    BY DEF Build
  <2>3. [b \in Build |-> {}]["checked"] = [b \in Build |-> {}]["release"]
    BY DEF Build
  <2> HIDE DEF holds
  <2>4. holds["checked"] => holds["release"]
    BY <2>1, <2>2, ProgramAssumption
  <2>5. taken["checked"] = taken["release"] => (holds["checked"] <=> holds["release"])
    BY <2>2
  <2>6. Alike(holds, [b \in Build |-> {}], 1, 0)
    BY <2>3, <2>4, <2>5 DEF Alike
  <2> QED
    BY <2>6 DEF holds
<1> QED
  BY <1>1, <1>2, <1>3, <1>4 DEF AssertsNoIndex

LEMMA TakingShape ==
  ASSUME IInv, ASSERT_INDEX_Taking
  PROVE  AssertsIndex
<1>1. PICK forced \in BOOLEAN, t \in Type :
        \E n \in Values(t) :
          AssertIndex(forced, FALSE, 1, taken, SizeType, n, t,
                      [b \in Build |-> Less(taken[b], SizeType, n, t)])
  BY DEF ASSERT_INDEX_Taking
<1>2. PICK n \in Values(t) :
        AssertIndex(forced, FALSE, 1, taken, SizeType, n, t,
                    [b \in Build |-> Less(taken[b], SizeType, n, t)])
  BY <1>1
<1> DEFINE holds == [b \in Build |-> Less(taken[b], SizeType, n, t)]
           shown == [b \in Build |-> {taken[b] + 1}]
<1>3. /\ \A b \in Build : holds[b] <=> Less(taken[b], SizeType, n, t)
      /\ holds["checked"] <=> Less(taken["checked"], SizeType, n, t)
      /\ holds["release"] <=> Less(taken["release"], SizeType, n, t)
      /\ shown["checked"] = {taken["checked"] + 1}
      /\ shown["release"] = {taken["release"] + 1}
  BY DEF Build
<1>4. /\ \A b \in Build : taken[b] \in 0 .. SizeType.count - 1
      /\ taken["release"] \in 0 .. SizeType.count - 1
      /\ taken["checked"] \in 0 .. SizeType.count - 1
      /\ taken["release"] <= taken["checked"]
  <2>1. SizeType.count \in Nat
    BY TypeAssumption DEF IsType
  <2> QED
    BY <2>1, ProgramAssumption DEF IInv, TypeOK, Agree, Build
<1>5. Convert(n, CommonType(SizeType, t)) \in Int
  <2>1. IsType(SizeType) /\ IsType(t)
    BY TypeAssumption
  <2>2. IsType(CommonType(SizeType, t)) /\ t.count <= CommonType(SizeType, t).count
    BY <2>1, CommonFacts
  <2> QED
    BY <2>1, <2>2, ConvertFacts
<1>6. holds["checked"] => holds["release"]
  BY <1>3, <1>4, <1>5, LessMonotone
<1>7. taken \in [Build -> Values(SizeType)]
  <2>1. Values(SizeType) = 0 .. SizeType.count - 1
    BY TypeAssumption, TypeFacts
  <2> QED
    BY <1>4, <2>1 DEF IInv, TypeOK
<1>8. AssertIndex(forced, FALSE, 1, taken, SizeType, n, t, holds)
  BY <1>2
<1>9. Alike(holds, shown, 1, 1)
  <2> HIDE DEF holds, shown
  <2> QED
    BY <1>3, <1>6 DEF Alike
<1> HIDE DEF holds
<1> QED
  BY <1>3, <1>7, <1>8, <1>9 DEF AssertsIndex

LEMMA IndexShape ==
  ASSUME ASSERT_INDEX
  PROVE  AssertsIndex
<1>1. PICK forced \in BOOLEAN, split \in BOOLEAN, s \in Type, t \in Type :
        \E i \in Values(s), n \in Values(t) :
          \E test \in Tested(i, split, s, n, t) :
            AssertIndex(forced, split, 0, [b \in Build |-> i], s, n, t,
                        [b \in Build |-> test])
  BY DEF ASSERT_INDEX
<1>2. PICK i \in Values(s), n \in Values(t) :
        \E test \in Tested(i, split, s, n, t) :
          AssertIndex(forced, split, 0, [b \in Build |-> i], s, n, t, [b \in Build |-> test])
  BY <1>1
<1>3. PICK test \in Tested(i, split, s, n, t) :
        AssertIndex(forced, split, 0, [b \in Build |-> i], s, n, t, [b \in Build |-> test])
  BY <1>2
<1> DEFINE index_ == [b \in Build |-> i]
           holds == [b \in Build |-> test]
<1>4. Alike(holds, [b \in Build |-> {index_[b] + 0}], 0, 0)
  BY DEF Alike, Build
<1>5. index_ \in [Build -> Values(s)]
  OBVIOUS
<1>6. ~split => \A b \in Build : holds[b] <=> Less(index_[b], s, n, t)
  BY DEF Tested
<1>7. AssertIndex(forced, split, 0, index_, s, n, t, holds)
  BY <1>3
<1> HIDE DEF index_, holds
<1>8. \E m \in Values(t), j \in [Build -> Values(s)] : \E h :
        /\ AssertIndex(forced, split, 0, j, s, m, t, h)
        /\ Alike(h, [b \in Build |-> {j[b] + 0}], 0, 0)
        /\ ~split => \A b \in Build : h[b] <=> Less(j[b], s, m, t)
  BY <1>4, <1>5, <1>6, <1>7, Zenon
<1>9. 0 \in {0, 1} /\ s \in Type \cup {SizeType}
  OBVIOUS
<1> QED
  BY <1>8, <1>9, Zenon DEF AssertsIndex

LEMMA ThrowShape ==
  ASSUME INVALID_STATE \/ ThrowNull
  PROVE  Throws
<1>1. CASE INVALID_STATE
  BY <1>1 DEF INVALID_STATE, Throws, Exception, to_string, ExceptionType, Named
<1>2. CASE ThrowNull
  <2>1. Convert(-1, SizeType) = SizeType.count - 1
    <3> DEFINE m == SizeType.count
    <3>1. m \in Nat /\ m > 0
      BY TypeAssumption DEF IsType
    <3>2. Convert(-1, SizeType) = (-1) % m
      BY TypeAssumption DEF Convert
    <3> HIDE DEF m
    <3>3. (-1) % m = m - 1
      BY <3>1
    <3> QED
      BY <3>2, <3>3 DEF m
  <2> QED
    BY <1>2, <2>1 DEF ThrowNull, Throws, NullException, Exception, to_string, ExceptionType, Named
<1> QED
  BY <1>1, <1>2

LEMMA StepShapes == IInv /\ Next => AssertsNoIndex \/ AssertsIndex \/ Throws
  BY OtherShape, TakingShape, IndexShape, ThrowShape
     DEF Next, ASSERT, ASSERT_ARGUMENT, ASSERT_NON_NULL, ASSERT_NULL, ExceptionType, Named

-----------------------------------------------------------------------------
(* What an assertion does to the builds                                      *)
LEMMA AssertFacts ==
  ASSUME IInv, NEW forced, NEW type, NEW holds, NEW shown, NEW first, NEW second,
         Assert(forced, holds, type, shown, first, second),
         Alike(holds, shown, first, second), type \in ExceptionType
  PROVE  /\ line \in Nat /\ line' = line + 1 /\ line' \in 0 .. MaxLine
         /\ \A b \in Build :
              /\ thrown'[b] = IF Expands(b, forced) /\ ~holds[b]
                              THEN {Exception(type, line', shown[b])} ELSE {}
              /\ taken'[b] \in 0 .. 2 * MaxLine /\ taken'[b] <= 2 * line'
         /\ taken' \in [Build -> 0 .. 2 * MaxLine]
         /\ careful' \in BOOLEAN
         /\ Agree'
<1>1. /\ line \in Nat /\ line < MaxLine /\ line' = line + 1 /\ MaxLine \in Nat
      /\ first + second > 0 => forced \/ ~careful
      /\ careful' = careful /\ careful \in BOOLEAN
      /\ taken' = [b \in Build |->
                     taken[b] + IF ~Expands(b, forced) THEN 0
                                ELSE IF holds[b] THEN first ELSE first + second]
      /\ thrown' = [b \in Build |->
                      IF Expands(b, forced) /\ ~holds[b]
                      THEN {Exception(type, line + 1, shown[b])} ELSE {}]
  BY ProgramAssumption DEF Assert, Running, IInv, TypeOK
<1>2. /\ first \in {0, 1} /\ second \in {0, 1} /\ second <= first
      /\ first = 0 \/ taken["checked"] = taken["release"] =>
           (holds["checked"] <=> holds["release"]) /\ shown["checked"] = shown["release"]
      /\ holds["checked"] => holds["release"]
  BY DEF Alike
<1>3. \A b \in Build : taken[b] \in Nat /\ taken[b] <= 2 * line
  BY ProgramAssumption DEF IInv, TypeOK
<1>4. \A b \in Build : taken'[b] \in 0 .. 2 * MaxLine /\ taken'[b] <= 2 * line'
  <2> SUFFICES ASSUME NEW b \in Build
               PROVE  taken'[b] \in 0 .. 2 * MaxLine /\ taken'[b] <= 2 * line'
    OBVIOUS
  <2>1. \E k \in 0 .. 2 : taken'[b] = taken[b] + k
    BY <1>1, <1>2
  <2> QED
    BY <1>1, <1>3, <2>1
<1>5. /\ taken'["checked"] = taken["checked"] + IF holds["checked"] THEN first ELSE first + second
      /\ taken'["release"] = taken["release"] + IF ~forced THEN 0
                               ELSE IF holds["release"] THEN first ELSE first + second
  BY <1>1 DEF Build, Expands
<1>6. /\ thrown'["checked"] = IF ~holds["checked"]
                              THEN {Exception(type, line + 1, shown["checked"])} ELSE {}
      /\ thrown'["release"] = IF forced /\ ~holds["release"]
                              THEN {Exception(type, line + 1, shown["release"])} ELSE {}
  BY <1>1 DEF Build, Expands
<1>7. /\ taken["release"] \in Nat /\ taken["checked"] \in Nat
      /\ taken["release"] <= taken["checked"]
      /\ careful => taken["checked"] = taken["release"]
  BY <1>3 DEF IInv, Agree, Build
<1>8. taken'["release"] <= taken'["checked"]
  <2>1. CASE forced
    BY <1>2, <1>5, <1>7, <2>1
  <2>2. CASE ~forced
    BY <1>2, <1>5, <1>7, <2>2
  <2> QED
    BY <2>1, <2>2
<1>9. careful' => taken'["checked"] = taken'["release"]
  <2> SUFFICES ASSUME careful' PROVE taken'["checked"] = taken'["release"]
    OBVIOUS
  <2>1. taken["checked"] = taken["release"] /\ (holds["checked"] <=> holds["release"])
    BY <1>1, <1>2, <1>7
  <2>2. CASE forced
    BY <1>5, <2>1, <2>2
  <2>3. CASE ~forced
    <3>1. first = 0 /\ second = 0
      BY <1>1, <1>2, <2>3
    <3> QED
      BY <1>5, <2>1, <2>3, <3>1, <1>7
  <2> QED
    BY <2>2, <2>3
<1>10. taken'["checked"] = taken'["release"] => thrown'["release"] \subseteq thrown'["checked"]
  <2> SUFFICES ASSUME taken'["checked"] = taken'["release"], forced, ~holds["release"]
               PROVE  thrown'["release"] \subseteq thrown'["checked"]
    BY <1>6
  <2>1. ~holds["checked"]
    BY <1>2
  <2>2. /\ taken'["checked"] = taken["checked"] + (first + second)
        /\ taken'["release"] = taken["release"] + (first + second)
    BY <1>5, <2>1
  <2>3. first + second \in Nat
    BY <1>2
  <2>4. taken["checked"] = taken["release"]
    <3>1. \A x, y, k \in Nat : x + k = y + k => x = y
      OBVIOUS
    <3>2. taken["checked"] + (first + second) = taken["release"] + (first + second)
      BY <2>2
    <3> QED
      BY <1>7, <2>3, <3>1, <3>2
  <2> QED
    BY <1>2, <1>6, <2>1, <2>4
<1>11. taken' \in [Build -> 0 .. 2 * MaxLine]
  BY <1>1, <1>4
<1>12. Agree'
  BY <1>8, <1>9, <1>10 DEF Agree
<1>13. \A b \in Build : thrown'[b] = IF Expands(b, forced) /\ ~holds[b]
                                    THEN {Exception(type, line', shown[b])} ELSE {}
  BY <1>1
<1>14. line' \in 0 .. MaxLine
  BY <1>1
<1> QED
  BY <1>1, <1>4, <1>11, <1>12, <1>13, <1>14

LEMMA NoIndexStep ==
  ASSUME IInv, AssertsNoIndex
  PROVE  IInv'
<1>0. PICK forced \in BOOLEAN, type \in ExceptionType :
        \E holds, shown, first, second :
          /\ Assert(forced, holds, type, shown, first, second)
          /\ Alike(holds, shown, first, second)
          /\ index' = {}
  BY DEF AssertsNoIndex
<1>1. PICK holds, shown, first, second :
        /\ Assert(forced, holds, type, shown, first, second)
        /\ Alike(holds, shown, first, second)
        /\ index' = {}
  BY <1>0
<1>2. /\ line \in Nat /\ line' = line + 1 /\ line' \in 0 .. MaxLine
      /\ \A b \in Build :
           /\ thrown'[b] = IF Expands(b, forced) /\ ~holds[b]
                           THEN {Exception(type, line', shown[b])} ELSE {}
           /\ taken'[b] \in 0 .. 2 * MaxLine /\ taken'[b] <= 2 * line'
      /\ taken' \in [Build -> 0 .. 2 * MaxLine]
      /\ careful' \in BOOLEAN
      /\ Agree'
  BY <1>1, AssertFacts
<1>3. to_string(type) = type
  BY DEF to_string, ExceptionType
<1>4. ASSUME NEW b \in Build, NEW e \in thrown'[b]
      PROVE  e.type = type /\ e.line = line' /\ e.what[1] = type
  <2>1. e = Exception(type, line', shown[b])
    BY <1>2, <1>4
  <2> QED
    BY <1>3, <2>1 DEF Exception
<1>5. TypeOK'
  BY <1>1, <1>2, <1>4 DEF TypeOK
<1>6. IndexInBounds'
  BY <1>1 DEF IndexInBounds
<1>7. Report'
  BY <1>1, <1>4 DEF Report
<1> QED
  BY <1>2, <1>5, <1>6, <1>7 DEF IInv

LEMMA IndexStep ==
  ASSUME IInv, AssertsIndex
  PROVE  IInv'
<1>1. PICK forced \in BOOLEAN, split \in BOOLEAN, takes \in {0, 1},
           s \in Type \cup {SizeType}, t \in Type :
        \E n \in Values(t), i \in [Build -> Values(s)] : \E holds :
          /\ AssertIndex(forced, split, takes, i, s, n, t, holds)
          /\ Alike(holds, [b \in Build |-> {i[b] + takes}], takes, takes)
          /\ ~split => \A b \in Build : holds[b] <=> Less(i[b], s, n, t)
  BY DEF AssertsIndex
<1>2. PICK n \in Values(t), i \in [Build -> Values(s)] : \E holds :
        /\ AssertIndex(forced, split, takes, i, s, n, t, holds)
        /\ Alike(holds, [b \in Build |-> {i[b] + takes}], takes, takes)
        /\ ~split => \A b \in Build : holds[b] <=> Less(i[b], s, n, t)
  BY <1>1
<1>3. PICK holds :
        /\ AssertIndex(forced, split, takes, i, s, n, t, holds)
        /\ Alike(holds, [b \in Build |-> {i[b] + takes}], takes, takes)
        /\ ~split => \A b \in Build : holds[b] <=> Less(i[b], s, n, t)
  BY <1>2
<1> DEFINE shown == [b \in Build |-> {i[b] + takes}]
           x == [forced |-> forced, split |-> split, takes |-> takes,
                 i |-> i, s |-> s, n |-> n, t |-> t]
<1>4. "IndexOutOfBounds" \in ExceptionType /\ "IndexOutOfBounds" \in Named
  BY DEF ExceptionType, Named
<1>5. index' = {x}
  BY <1>3 DEF AssertIndex
<1>6. /\ line \in Nat /\ line' = line + 1 /\ line' \in 0 .. MaxLine
      /\ \A b \in Build :
           /\ thrown'[b] = IF Expands(b, forced) /\ ~holds[b]
                           THEN {Exception("IndexOutOfBounds", line', shown[b])} ELSE {}
           /\ taken'[b] \in 0 .. 2 * MaxLine /\ taken'[b] <= 2 * line'
      /\ taken' \in [Build -> 0 .. 2 * MaxLine]
      /\ careful' \in BOOLEAN
      /\ Agree'
  <2>1. /\ Assert(forced, holds, "IndexOutOfBounds", shown, takes, takes)
        /\ Alike(holds, shown, takes, takes)
    BY <1>3 DEF AssertIndex
  <2> HIDE DEF shown
  <2> QED
    BY <1>4, <2>1, AssertFacts
<1>7. ASSUME NEW b \in Build, ~split
      PROVE  /\ i[b] \in 0 .. n - 1 => holds[b]
             /\ Reliable(i[b], s, n, t) /\ holds[b] => i[b] \in 0 .. n - 1
  <2>1. holds[b] <=> Less(i[b], s, n, t)
    BY <1>3, <1>7
  <2>2. i[b] \in Values(s)
    OBVIOUS
  <2> QED
    BY <2>1, <2>2, LessFacts
<1>8. TypeOK'
  <2>1. x \in Index
    BY DEF Index
  <2>2. \A b \in Build : \A e \in thrown'[b] : e.type \in ExceptionType
    <3>1. ASSUME NEW b \in Build, NEW e \in thrown'[b]
          PROVE  e = Exception("IndexOutOfBounds", line', shown[b])
      BY <1>6, <3>1
    <3>2. \A sh : Exception("IndexOutOfBounds", line', sh).type = "IndexOutOfBounds"
      BY DEF Exception
    <3> HIDE DEF shown
    <3> QED
      BY <1>4, <3>1, <3>2
  <2> QED
    BY <1>5, <1>6, <2>1, <2>2 DEF TypeOK
<1>9. IndexInBounds'
  <2>1. ASSUME NEW b \in Build, Expands(b, forced), ~split
        PROVE  /\ i[b] \in 0 .. n - 1 => thrown'[b] = {}
               /\ Reliable(i[b], s, n, t) /\ thrown'[b] = {} => i[b] \in 0 .. n - 1
    BY <1>6, <1>7, <2>1
  <2> QED
    BY <1>5, <2>1 DEF IndexInBounds
<1>10. Report'
  <2>1. ASSUME NEW b \in Build, NEW e \in thrown'[b]
        PROVE  /\ e.what[1] = e.type /\ e.line = line'
               /\ e.what[2] = {i[b] + takes}
               /\ ~split => i[b] \notin 0 .. n - 1
    <3>1. e = Exception("IndexOutOfBounds", line', shown[b]) /\ ~holds[b]
      BY <1>6, <2>1
    <3>2. e.what[1] = e.type /\ e.line = line' /\ e.what[2] = {i[b] + takes}
      BY <1>4, <3>1 DEF Exception, to_string
    <3> QED
      BY <1>7, <3>1, <3>2
  <2> QED
    BY <1>5, <2>1 DEF Report
<1> QED
  BY <1>6, <1>8, <1>9, <1>10 DEF IInv

LEMMA ThrowStep ==
  ASSUME IInv, Throws
  PROVE  IInv'
<1>1. PICK e : /\ Throw(e)
               /\ e.type \in ExceptionType /\ e.what[1] = e.type
               /\ e.line # line + 1 => e = NullException /\ e.line = SizeType.count - 1
  BY DEF Throws
<1>2. /\ line' = line + 1 /\ line < MaxLine /\ taken' = taken /\ index' = {}
      /\ careful' = careful
      /\ \A b \in Build : thrown'[b] = {e}
      /\ thrown'["checked"] = thrown'["release"]
  BY <1>1 DEF Throw, Running, Build
<1>3. line \in Nat /\ line' \in 0 .. MaxLine /\ MaxLine \in Nat
  BY <1>2, ProgramAssumption DEF IInv, TypeOK
<1>4. TypeOK'
  BY <1>1, <1>2, <1>3 DEF IInv, TypeOK
<1>5. \A b \in Build : taken'[b] <= 2 * line'
  BY <1>2, <1>3, ProgramAssumption DEF IInv, TypeOK
<1>6. Agree'
  BY <1>2 DEF IInv, Agree
<1>7. IndexInBounds' /\ Report'
  BY <1>1, <1>2 DEF IndexInBounds, Report, NullException, Exception
<1> QED
  BY <1>4, <1>5, <1>6, <1>7 DEF IInv

LEMMA Invariance == Spec => []IInv
<1>1. Init => IInv
  BY ProgramAssumption DEF Init, IInv, TypeOK, Agree, IndexInBounds, Report, Build
<1>2. IInv /\ [Next]_vars => IInv'
  <2>1. IInv /\ Next => IInv'
    BY StepShapes, NoIndexStep, IndexStep, ThrowStep
  <2>2. IInv /\ UNCHANGED vars => IInv'
    BY DEF vars, IInv, TypeOK, Agree, IndexInBounds, Report, Expands
  <2> QED
    BY <2>1, <2>2
<1> QED
  BY <1>1, <1>2, PTL DEF Spec

(* Types, for all integer types and programs                                 *)
THEOREM AssertionTypes == Spec => []TypeOK
<1>1. IInv => TypeOK
  BY DEF IInv
<1> QED
  BY <1>1, Invariance, PTL

(* METHAN_ASSERT_INDEX lets exactly the indices below the bound pass where   *)
(* the comparison is reliable, and always those; with counter++ for the      *)
(* index too, but not with arguments that < takes apart.                     *)
THEOREM IndexChecked == Spec => []IndexInBounds
<1>1. IInv => IndexInBounds
  BY DEF IInv
<1> QED
  BY <1>1, Invariance, PTL

(* The release build does what the checked one does but throw, unless an     *)
(* argument that is compiled out has a side effect.                          *)
THEOREM BuildsAgree == Spec => []Agree
<1>1. IInv => Agree
  BY DEF IInv
<1> QED
  BY <1>1, Invariance, PTL

(* The type and line that an exception reports are those of the assertion    *)
(* that threw it, and so is the index, which is the next one for counter++.  *)
THEOREM ReportsRight == Spec => []Report
<1>1. IInv => Report
  BY DEF IInv
<1> QED
  BY <1>1, Invariance, PTL
=============================================================================
