--------------------------- MODULE ForEach_proofs ---------------------------
(***************************************************************************)
(* Proofs about METHAN_FOR_EACH_P<k>, for calls with any arguments.        *)
(*                                                                         *)
(* The inductive invariant says what the expansion keeps: the row and the  *)
(* calls of WHAT made so far add up to the count, and the list is the      *)
(* whole list less the arguments already used.                             *)
(***************************************************************************)
EXTENDS ForEach, SequenceTheorems, TLAPS

Count == PpNargs(call.args)
Whole == call.params \o VaArgs(call.args)

LEMMA FirstOf ==
  ASSUME NEW S, NEW s \in Seq(S), NEW k \in 0 .. Len(s)
  PROVE  /\ SubSeq(s, 1, k) \in Seq(S)
         /\ Len(SubSeq(s, 1, k)) = k
         /\ \A i \in 1 .. k : SubSeq(s, 1, k)[i] = s[i]
<1>1. Len(s) \in Nat /\ \A i \in 1 .. k : s[i] \in S
  BY LenProperties, ElementOfSeq
<1> QED
  BY <1>1, SubSeqProperties, Z3

LEMMA LastOf ==
  ASSUME NEW S, NEW s \in Seq(S), NEW m \in 1 .. Len(s)
  PROVE  /\ SubSeq(s, m, Len(s)) \in Seq(S)
         /\ Len(SubSeq(s, m, Len(s))) = (Len(s) - m) + 1
         /\ \A i \in 1 .. (Len(s) - m) + 1 : SubSeq(s, m, Len(s))[i] = s[(i + m) - 1]
<1>1. Len(s) \in Nat /\ \A i \in m .. Len(s) : s[i] \in S
  BY LenProperties, ElementOfSeq
<1> QED
  BY <1>1, SubSeqProperties, Z3

(* What row the count selects: the right one up to 62 arguments, and none    *)
(* that the arguments could end with beyond.                                 *)
LEMMA CountSelects ==
  ASSUME NEW s \in Seq(Nat), Blank \notin Nat
  PROVE  /\ VaArgs(s) \in Seq(Token)
         /\ Len(VaArgs(s)) \in Nat \ {0}
         /\ s # <<>> => VaArgs(s) = s
         /\ PpNargs(s) \in Nat
         /\ Len(VaArgs(s)) <= MaxRow => PpNargs(s) = Len(VaArgs(s))
         /\ Len(VaArgs(s)) = 63 => PpNargs(s) = 64
<1> DEFINE a == VaArgs(s)
           n == Len(a)
<1>1. a \in Seq(Token) /\ n \in Nat \ {0} /\ (s # <<>> => a = s)
  <2>1. s \in Seq(Token) /\ <<Blank>> \in Seq(Token) /\ Len(<<Blank>>) = 1
    BY SeqMonotonic DEF Token
  <2> QED
    BY <2>1, EmptySeq DEF VaArgs
<1>2. RSeqN \in Seq(Token) /\ Len(RSeqN) = 64
  <2>1. RSeqN \in Seq(Nat) /\ Len(RSeqN) = 64
    BY DEF RSeqN
  <2> QED
    BY <2>1, SeqMonotonic DEF Token
<1>3. \A i \in 1 .. n + 64 : (a \o RSeqN)[i] = IF i <= n THEN a[i] ELSE RSeqN[i - n]
  <2>1. \A i \in 1 .. Len(a) + Len(RSeqN) :
          (a \o RSeqN)[i] = IF i <= Len(a) THEN a[i] ELSE RSeqN[i - Len(a)]
    <3>1. a \in Seq(Token) /\ RSeqN \in Seq(Token)
      BY <1>1, <1>2
    <3> HIDE DEF a
    <3> QED
      BY <3>1, ConcatProperties
  <2> QED
    BY <1>2, <2>1
<1>4. PpNargs(s) = IF 64 <= n THEN a[64] ELSE RSeqN[64 - n]
  <2>1. 64 \in 1 .. n + 64
    <3> HIDE DEF n
    <3> QED
      BY <1>1
  <2> QED
    BY <1>3, <2>1 DEF PpNargs
<1>5. CASE 64 <= n
  <2>1. s # <<>> /\ a = s
    BY <1>5 DEF VaArgs
  <2>2. 64 \in 1 .. n
    <3> HIDE DEF n
    <3> QED
      BY <1>1, <1>5
  <2>3. PpNargs(s) \in Nat
    BY <1>4, <1>5, <2>1, <2>2, ElementOfSeq
  <2>4. ~(n <= MaxRow) /\ n # 63
    <3> HIDE DEF n
    <3> QED
      BY <1>1, <1>5 DEF MaxRow
  <2> QED
    BY <1>1, <2>3, <2>4
<1>6. CASE ~(64 <= n)
  <2> HIDE DEF n
  <2>1. 64 - n \in 1 .. 64
    BY <1>1, <1>6
  <2>2. RSeqN[64 - n] = IF 64 - n = 1 THEN 64 ELSE 64 - (64 - n)
    BY <2>1 DEF RSeqN
  <2>3. PpNargs(s) = IF n = 63 THEN 64 ELSE n
    BY <1>1, <1>4, <1>6, <2>2
  <2>4. PpNargs(s) \in Nat /\ (n <= MaxRow => PpNargs(s) = n) /\ (n = 63 => PpNargs(s) = 64)
    BY <1>1, <2>3 DEF MaxRow
  <2> QED
    BY <1>1, <2>4 DEF n
<1> QED
  BY <1>5, <1>6

-----------------------------------------------------------------------------
(* What has been written is what should be, as far as it goes.              *)
Written ==
  \A i \in 1 .. Len(out) :
    out[i] = Invocation(SubSeq(Whole, 1, call.table), Whole[call.table + i])

(* The expansion is on its way down the table.                              *)
Descending ==
  pc = "expand" =>
    /\ row + Len(out) = Count
    /\ out # <<>> => Count <= MaxRow /\ row >= 1
    /\ open = Len(out) + 1
    /\ Len(list) + Len(out) = Len(Whole)
    /\ \A i \in 1 .. call.table : list[i] = Whole[i]
    /\ \A i \in call.table + 1 .. Len(list) : list[i] = Whole[i + Len(out)]

(* The expansion has come to the end of the table.                          *)
Complete ==
  pc \in {"close", "done"} =>
    /\ Len(call.params) = call.table
    /\ Len(out) = Len(VaArgs(call.args))
    /\ pc = "close" => open >= 1

Inv ==
  /\ TypeOK
  /\ call \in Calls
  /\ pc = "call" => out = <<>>
  /\ Written
  /\ Descending
  /\ Complete

(* An argument is left for every row still to come, and when none is left    *)
(* for row 1 or row 0 the count was the number of arguments.                 *)
LEMMA RowsFit ==
  ASSUME Inv, pc = "expand", row \in 0 .. MaxRow
  PROVE  /\ Count \in 0 .. MaxRow
         /\ Len(list) >= call.table + row
         /\ Len(list) = call.table + row =>
              Len(call.params) = call.table /\ Len(VaArgs(call.args)) = Count
<1>1. /\ call.args \in Seq(Nat) /\ call.params \in Seq(Nat)
      /\ Len(call.params) >= call.table /\ call.table \in Nat
      /\ Len(out) \in Nat /\ Len(list) \in Nat
  BY DEF Inv, TypeOK, Call
<1>2. Blank \notin Nat
  BY CallsAssumption
<1>3. Len(Whole) = Len(call.params) + Len(VaArgs(call.args))
  <2>1. call.params \in Seq(Token) /\ VaArgs(call.args) \in Seq(Token)
    BY <1>1, <1>2, CountSelects, SeqMonotonic DEF Token
  <2> QED
    BY <2>1, ConcatProperties DEF Whole
<1>4. Count \in 0 .. MaxRow
  <2>1. Count \in Nat
    BY <1>1, <1>2, CountSelects DEF Count
  <2>2. row + Len(out) = Count /\ (out # <<>> => Count <= MaxRow)
    BY DEF Inv, Descending
  <2>3. out = <<>> => Len(out) = 0
    OBVIOUS
  <2> QED
    BY <2>1, <2>2, <2>3 DEF MaxRow
<1> DEFINE k == call.table
           O == Len(out)
           L == Len(list)
           P == Len(call.params)
           V == Len(VaArgs(call.args))
           W == Len(Whole)
<1>5. /\ row + O = Count /\ L + O = W /\ W = P + V /\ P >= k
      /\ (V <= MaxRow => Count = V) /\ (V = 63 => Count = 64)
      /\ k \in Nat /\ O \in Nat /\ L \in Nat /\ P \in Nat /\ V \in Nat
  <2>1. row + O = Count /\ L + O = W
    BY DEF Inv, Descending
  <2>2. V \in Nat /\ (V <= MaxRow => Count = V) /\ (V = 63 => Count = 64)
    BY <1>1, <1>2, CountSelects DEF Count
  <2>3. P \in Nat
    BY <1>1
  <2> QED
    BY <1>1, <1>3, <2>1, <2>2, <2>3
<1>6. L >= k + row /\ (L = k + row => P = k /\ V = Count)
  <2> HIDE DEF O, L, P, V, W
  <2> QED
    BY <1>4, <1>5 DEF MaxRow
<1> QED
  BY <1>4, <1>6

-----------------------------------------------------------------------------
LEMMA InitInv == Init => Inv
<1> SUFFICES ASSUME Init PROVE Inv
  OBVIOUS
<1>1. call \in Call
  BY CallsAssumption DEF Init
<1>2. TypeOK
  BY <1>1 DEF Init, TypeOK, MaxRow
<1>3. Len(out) = 0
  BY DEF Init
<1> QED
  BY <1>2, <1>3 DEF Init, Inv, Written, Descending, Complete

LEMMA DispatchInv == Inv /\ Dispatch => Inv'
<1> SUFFICES ASSUME Inv, Dispatch PROVE Inv'
  OBVIOUS
<1>1. /\ call.args \in Seq(Nat) /\ call.params \in Seq(Nat)
      /\ Len(call.params) >= call.table /\ call.table \in Nat
  BY DEF Inv, TypeOK, Call
<1>2. Blank \notin Nat
  BY CallsAssumption
<1>3. /\ VaArgs(call.args) \in Seq(Token) /\ Count \in Nat
  BY <1>1, <1>2, CountSelects DEF Count
<1>4. call.params \in Seq(Token)
  BY <1>1 DEF Token
<1>5. Whole \in Seq(Token) /\ list' = Whole /\ Whole' = Whole /\ Count' = Count
  BY <1>3, <1>4 DEF Dispatch, Whole, Count
<1>6. out = <<>> /\ out' = <<>> /\ call' = call /\ open' = 1 /\ row' = Count /\ pc' = "expand"
  BY DEF Dispatch, Inv, Count
<1>7. TypeOK'
  BY <1>3, <1>5, <1>6 DEF TypeOK, Inv, MaxRow, Ended
<1>8. Descending'
  BY <1>3, <1>5, <1>6, <1>1 DEF Descending
<1> QED
  BY <1>5, <1>6, <1>7, <1>8 DEF Inv, Written, Complete

LEMMA InvokeInv == Inv /\ Invoke => Inv'
<1> SUFFICES ASSUME Inv, Invoke PROVE Inv'
  OBVIOUS
<1> DEFINE k == call.table
           params == SubSeq(list, 1, k)
           O == Len(out)
           L == Len(list)
           W == Len(Whole)
<1>1. /\ call.args \in Seq(Nat) /\ call.params \in Seq(Nat)
      /\ Len(call.params) >= k /\ k \in Nat
      /\ out \in Seq([params : Seq(Token), x : Token]) /\ Len(out) \in Nat
      /\ list \in Seq(Token) /\ Len(list) \in Nat
      /\ open \in Nat /\ row \in Nat
  BY DEF Inv, TypeOK, Call, MaxRow
<1>2. Blank \notin Nat
  BY CallsAssumption
<1>3. /\ VaArgs(call.args) \in Seq(Token) /\ Len(VaArgs(call.args)) \in Nat \ {0}
  BY <1>1, <1>2, CountSelects
<1>4. Whole \in Seq(Token) /\ Len(Whole) = Len(call.params) + Len(VaArgs(call.args))
  <2>1. call.params \in Seq(Token)
    BY <1>1, SeqMonotonic DEF Token
  <2> QED
    BY <1>3, <2>1, ConcatProperties DEF Whole
<1>5. /\ Count \in 0 .. MaxRow
      /\ Len(list) >= k + row
      /\ Len(list) = k + row =>
           Len(call.params) = k /\ Len(VaArgs(call.args)) = Count
  BY RowsFit DEF Invoke
<1>6. call' = call /\ Whole' = Whole /\ Count' = Count /\ pc = "expand"
  BY DEF Invoke, Whole, Count
<1>7. /\ row + Len(out) = Count
      /\ open = Len(out) + 1
      /\ Len(list) + Len(out) = Len(Whole)
      /\ \A i \in 1 .. k : list[i] = Whole[i]
      /\ \A i \in k + 1 .. Len(list) : list[i] = Whole[i + Len(out)]
  BY <1>6 DEF Inv, Descending
<1>8. CASE row = 0
  <2>1. Len(list) = k
    BY <1>8 DEF Invoke, Takes
  <2>2. out' = out /\ open' = open /\ row' = row /\ list' = list /\ pc' = "close"
    BY <1>8 DEF Invoke
  <2>3. TypeOK'
    BY <1>6, <2>2 DEF TypeOK, Inv, Ended
  <2> QED
    BY <1>1, <1>5, <1>6, <1>7, <1>8, <2>1, <2>2, <2>3
       DEF Inv, Written, Descending, Complete
<1>9. CASE row >= 1
  <2> DEFINE new == Invocation(params, list[k + 1])
  <2>1. out' = Append(out, new)
    BY <1>9, <1>1 DEF Invoke
  <2>2. k + 1 \in 1 .. Len(list) /\ k \in 0 .. Len(list)
    BY <1>1, <1>5, <1>9
  <2>3. params \in Seq(Token) /\ Len(params) = k /\ \A i \in 1 .. k : params[i] = list[i]
    BY <1>1, <2>2, FirstOf
  <2>4. new \in [params : Seq(Token), x : Token]
    BY <1>1, <2>2, <2>3, ElementOfSeq DEF Invocation
  <2>5. /\ out' \in Seq([params : Seq(Token), x : Token])
        /\ Len(out') = Len(out) + 1
        /\ \A i \in 1 .. Len(out) : out'[i] = out[i]
        /\ out'[Len(out) + 1] = new
    BY <1>1, <2>1, <2>4, AppendProperties
  <2>6. params = SubSeq(Whole, 1, k)
    <3>1. k \in 0 .. W
      <4> DEFINE P == Len(call.params)
                 V == Len(VaArgs(call.args))
      <4>1. P \in Nat /\ V \in Nat /\ W = P + V /\ P >= k /\ k \in Nat
        BY <1>1, <1>3, <1>4
      <4> HIDE DEF P, V, W, k
      <4> QED
        BY <4>1
    <3>2. SubSeq(Whole, 1, k) \in Seq(Token) /\ Len(SubSeq(Whole, 1, k)) = k
          /\ \A i \in 1 .. k : SubSeq(Whole, 1, k)[i] = Whole[i]
      BY <1>4, <3>1, FirstOf
    <3> QED
      BY <1>7, <2>3, <3>2, SeqEqual
  <2>7. list[k + 1] = Whole[k + O + 1]
    <3>1. k + 1 \in k + 1 .. L /\ (k + 1) + O = k + O + 1
      <4>1. k \in Nat /\ O \in Nat /\ L \in Nat /\ k + 1 \in 1 .. L
        BY <1>1, <2>2
      <4> HIDE DEF O, L, k
      <4> QED
        BY <4>1
    <3> QED
      BY <1>7, <3>1
  <2>8. Written'
    <3> SUFFICES ASSUME NEW i \in 1 .. Len(out')
                 PROVE  out'[i] = Invocation(SubSeq(Whole, 1, k), Whole[k + i])
      BY <1>6 DEF Written
    <3>1. CASE i <= Len(out)
      BY <1>1, <2>5, <3>1 DEF Inv, Written
    <3>2. CASE i = Len(out) + 1
      <4>1. k + i = k + O + 1
        <5>1. k \in Nat /\ O \in Nat /\ i = O + 1
          BY <1>1, <3>2
        <5> HIDE DEF O, k
        <5> QED
          BY <5>1
      <4>2. out'[i] = new
        BY <2>5, <3>2
      <4> QED
        BY <2>6, <2>7, <4>1, <4>2
    <3> QED
      BY <1>1, <2>5, <3>1, <3>2
  <2>9. CASE row = 1
    <3>1. Len(list) = k + 1 /\ pc' = "close" /\ open' = open /\ row' = row /\ list' = list
      BY <2>9 DEF Invoke, Takes
    <3>2. TypeOK'
      BY <1>6, <2>5, <3>1 DEF TypeOK, Inv, Ended
    <3>3. Complete'
      BY <1>1, <1>5, <1>6, <1>7, <2>5, <2>9, <3>1 DEF Complete
    <3> QED
      BY <1>6, <2>8, <3>1, <3>2, <3>3 DEF Inv, Descending
  <2>10. CASE row >= 2
    <3> DEFINE rest == SubSeq(list, k + 2, Len(list))
    <3>1. /\ row' = row - 1 /\ open' = open + 1 /\ pc' = pc
          /\ list' = params \o VaArgs(rest)
      <4>1. ~(row <= 1) /\ row # 0
        BY <1>1, <2>10
      <4> QED
        BY <4>1 DEF Invoke
    <3>2. Len(list) >= k + 2
      BY <1>1, <1>5, <2>10
    <3>3. /\ rest \in Seq(Token) /\ Len(rest) = Len(list) - (k + 1)
          /\ \A i \in 1 .. Len(rest) : rest[i] = list[i + (k + 1)]
      <4>1. k + 2 \in 1 .. Len(list)
        BY <1>1, <3>2
      <4>2. /\ rest \in Seq(Token) /\ Len(rest) = (Len(list) - (k + 2)) + 1
            /\ \A i \in 1 .. (Len(list) - (k + 2)) + 1 : rest[i] = list[(i + (k + 2)) - 1]
        BY <1>1, <4>1, LastOf
      <4> QED
        <5> DEFINE R == Len(rest)
        <5>1. R = (L - (k + 2)) + 1 /\ L \in Nat /\ k \in Nat
          BY <1>1, <4>2
        <5>2. R = L - (k + 1)
          <6> HIDE DEF R, L, k
          <6> QED
            BY <5>1
        <5>3. ASSUME NEW i \in 1 .. R PROVE rest[i] = list[i + (k + 1)]
          <6>1. i \in 1 .. (L - (k + 2)) + 1 /\ (i + (k + 2)) - 1 = i + (k + 1)
            <7> HIDE DEF R, L, k
            <7> QED
              BY <5>1
          <6> QED
            BY <4>2, <6>1
        <5> QED
          BY <4>2, <5>2, <5>3
    <3>4. VaArgs(rest) = rest
      <4> DEFINE R == Len(rest)
      <4>1. R = L - (k + 1) /\ L >= k + 2 /\ L \in Nat /\ k \in Nat
        BY <1>1, <3>2, <3>3
      <4>2. R # 0
        <5> HIDE DEF R, L, k
        <5> QED
          BY <4>1
      <4>3. rest # <<>>
        BY <4>2, EmptySeq, Zenon
      <4> QED
        BY <4>3 DEF VaArgs
    <3>5. /\ list' \in Seq(Token) /\ Len(list') = Len(list) - 1
          /\ \A i \in 1 .. k : list'[i] = list[i]
          /\ \A i \in k + 1 .. Len(list') : list'[i] = list[i + 1]
      <4> DEFINE R == Len(rest)
                 LL == Len(list')
      <4>1. list' = params \o rest
        BY <3>1, <3>4
      <4>2. list' \in Seq(Token) /\ Len(list') = k + Len(rest)
        BY <2>3, <3>3, <4>1, ConcatProperties
      <4>3. \A i \in 1 .. k + Len(rest) : list'[i] = IF i <= k THEN params[i] ELSE rest[i - k]
        <5>1. \A i \in 1 .. Len(params) + Len(rest) :
                list'[i] = IF i <= Len(params) THEN params[i] ELSE rest[i - Len(params)]
          BY <2>3, <3>3, <4>1, ConcatProperties
        <5> QED
          BY <2>3, <5>1
      <4>4. Len(rest) \in Nat
        BY <3>3
      <4>5. ASSUME NEW i \in k + 1 .. Len(list')
            PROVE  list'[i] = list[i + 1]
        <5>1. i - k \in 1 .. R /\ i \in 1 .. k + R /\ ~(i <= k)
          <6>1. R \in Nat /\ LL = k + R /\ k \in Nat /\ i \in k + 1 .. LL
            BY <1>1, <4>2, <4>4
          <6> HIDE DEF R, LL
          <6> QED
            BY <6>1
        <5>2. list'[i] = rest[i - k] /\ rest[i - k] = list[(i - k) + (k + 1)]
          BY <5>1, <4>3, <3>3
        <5>3. (i - k) + (k + 1) = i + 1
          BY <1>1, <5>1
        <5> QED
          BY <5>2, <5>3
      <4>6. \A i \in 1 .. k : list'[i] = list[i]
        <5>1. ASSUME NEW i \in 1 .. k PROVE i \in 1 .. k + R /\ i <= k
          <6>1. k \in Nat /\ R \in Nat
            BY <1>1, <4>4
          <6> HIDE DEF R, k
          <6> QED
            BY <6>1
        <5> QED
          BY <2>3, <4>3, <5>1
      <4> QED
        BY <1>1, <3>3, <4>2, <4>5, <4>6
    <3>6. open' <= MaxRow
      <4>1. row + O = Count /\ open = O + 1 /\ O \in Nat /\ row \in Nat /\ row >= 2
            /\ Count \in 0 .. MaxRow /\ open' = open + 1
        BY <1>1, <1>5, <1>7, <2>10, <3>1
      <4> HIDE DEF O
      <4> QED
        BY <4>1 DEF MaxRow
    <3>7. TypeOK'
      <4>1. /\ call' \in Call /\ pc' \in {"call", "expand", "close"} \cup Ended
            /\ row' \in Nat /\ open' \in 0 .. MaxRow
        <5>1. call' \in Call
          BY <1>6 DEF TypeOK, Inv
        <5>2. pc' \in {"call", "expand", "close"} \cup Ended
          BY <3>1 DEF TypeOK, Inv
        <5>3. row' \in Nat
          BY <1>1, <2>10, <3>1
        <5>4. open \in Nat
          BY DEF TypeOK, Inv, MaxRow
        <5>5. open' \in 0 .. MaxRow
          BY <3>1, <3>6, <5>4 DEF MaxRow
        <5> QED
          BY <5>1, <5>2, <5>3, <5>5
      <4>2. list' \in Seq(Token) /\ out' \in Seq([params : Seq(Token), x : Token])
        BY <1>1, <1>6, <2>5, <2>10, <3>1, <3>5 DEF TypeOK, Inv
      <4> QED
        BY <4>1, <4>2 DEF TypeOK
    <3>8. Descending'
      <4>1. \A i \in k + 1 .. Len(list') : list'[i] = Whole[i + Len(out')]
        <5> SUFFICES ASSUME NEW i \in k + 1 .. Len(list')
                     PROVE  list'[i] = Whole[i + Len(out')]
          OBVIOUS
        <5>1. list'[i] = list[i + 1] /\ i + 1 \in k + 1 .. Len(list)
          BY <1>1, <3>5
        <5>2. list[i + 1] = Whole[i + 1 + Len(out)]
          BY <1>7, <5>1
        <5> QED
          BY <1>1, <2>5, <5>1, <5>2
      <4>2. row' + Len(out') = Count /\ open' = Len(out') + 1
            /\ Len(list') + Len(out') = Len(Whole) /\ Count <= MaxRow /\ row' >= 1
        <5> DEFINE OO == Len(out')
                   LL == Len(list')
        <5>1. /\ row + O = Count /\ open = O + 1 /\ L + O = W
              /\ OO = O + 1 /\ LL = L - 1 /\ O \in Nat /\ L \in Nat
              /\ row \in Nat /\ row >= 2 /\ row' = row - 1 /\ open' = open + 1
              /\ Count \in 0 .. MaxRow
          BY <1>1, <1>5, <1>7, <2>5, <2>10, <3>1, <3>5
        <5>2. row' + OO = Count /\ open' = OO + 1 /\ LL + OO = W
              /\ Count <= MaxRow /\ row' >= 1
          <6> HIDE DEF O, L, W, OO, LL
          <6> QED
            BY <5>1 DEF MaxRow
        <5> QED
          BY <5>2
      <4>3. \A i \in 1 .. k : list'[i] = Whole[i]
        BY <1>7, <3>5
      <4> QED
        BY <1>6, <4>1, <4>2, <4>3 DEF Descending
    <3> QED
      BY <1>6, <2>8, <3>1, <3>7, <3>8 DEF Inv, Complete
  <2> QED
    BY <1>1, <1>9, <2>9, <2>10
<1> QED
  BY <1>1, <1>8, <1>9

LEMMA CloseExpandInv == Inv /\ CloseExpand => Inv'
<1> SUFFICES ASSUME Inv, CloseExpand PROVE Inv'
  OBVIOUS
<1>1. /\ call' = call /\ row' = row /\ list' = list /\ out' = out
      /\ pc = "close" /\ pc' \in {"close", "done"} /\ open' = open - 1
      /\ pc' = "close" => open # 1
  BY DEF CloseExpand
<1>2. open \in 1 .. MaxRow
  BY <1>1 DEF Inv, TypeOK, Complete, MaxRow
<1>3. TypeOK'
  BY <1>1, <1>2 DEF Inv, TypeOK, Ended, MaxRow
<1>4. Whole' = Whole
  BY <1>1 DEF Whole
<1> QED
  BY <1>1, <1>2, <1>3, <1>4 DEF Inv, Written, Descending, Complete, MaxRow

LEMMA NextInv == Inv /\ [Next]_vars => Inv'
<1> SUFFICES ASSUME Inv, [Next]_vars PROVE Inv'
  OBVIOUS
<1>1. CASE WrongArity \/ NoSuchRow \/ TextSplits
  <2>1. /\ call' = call /\ row' = row /\ list' = list /\ open' = open /\ out' = out
        /\ pc' \in {"ill-formed", "unexpanded"}
    BY <1>1 DEF WrongArity, NoSuchRow, TextSplits
  <2>2. TypeOK' /\ Whole' = Whole
    BY <2>1 DEF Inv, TypeOK, Ended, Whole
  <2> QED
    BY <2>1, <2>2 DEF Inv, Written, Descending, Complete
<1>2. CASE UNCHANGED vars
  BY <1>2 DEF vars, Inv, TypeOK, Written, Descending, Complete, Whole, Count
<1> QED
  BY <1>1, <1>2, DispatchInv, InvokeInv, CloseExpandInv DEF Next

LEMMA Invariance == Spec => []Inv
<1> QED
  BY InitInv, NextInv, PTL DEF Spec

-----------------------------------------------------------------------------
(* The expansion stays within the tables, and the METHAN_EXPAND it opens are *)
(* never more than the rows.                                                 *)
THEOREM TypeCorrect == Spec => []TypeOK
<1>1. Inv => TypeOK
  BY DEF Inv
<1> QED
  BY <1>1, Invariance, PTL

(* A call with one argument or more that expands without a complaint calls   *)
(* WHAT once on each argument, in order, whatever the arguments are: past    *)
(* the end of the tables a call may fail to expand, never expand to less.    *)
THEOREM EachArgumentOnce ==
  ASSUME \A c \in Calls : c.args # <<>>
  PROVE  Spec => []EachOnce
<1>1. ASSUME Inv PROVE EachOnce
  <2> SUFFICES ASSUME pc = "done"
               PROVE  out = [i \in 1 .. Len(call.args) |-> Invocation(call.params, call.args[i])]
    BY DEF EachOnce
  <2>1. /\ call.args \in Seq(Nat) /\ call.params \in Seq(Nat) /\ call.table \in Nat
        /\ out \in Seq([params : Seq(Token), x : Token])
    BY <1>1 DEF Inv, TypeOK, Call
  <2>2. VaArgs(call.args) = call.args
    BY <1>1 DEF Inv, VaArgs
  <2>3. /\ Whole \in Seq(Nat) /\ Len(Whole) = Len(call.params) + Len(call.args)
        /\ \A i \in 1 .. Len(call.params) + Len(call.args) :
             Whole[i] = IF i <= Len(call.params) THEN call.params[i]
                        ELSE call.args[i - Len(call.params)]
    <3>1. Whole = call.params \o call.args
      BY <2>2 DEF Whole
    <3> QED
      BY <2>1, <3>1, ConcatProperties
  <2>4. Len(call.params) = call.table /\ Len(out) = Len(call.args)
    BY <1>1, <2>2 DEF Inv, Complete
  <2>5. SubSeq(Whole, 1, call.table) = call.params
    <3>1. /\ SubSeq(Whole, 1, call.table) \in Seq(Nat)
          /\ Len(SubSeq(Whole, 1, call.table)) = call.table
          /\ \A i \in 1 .. call.table : SubSeq(Whole, 1, call.table)[i] = Whole[i]
      <4>1. Len(call.args) >= 0
        BY <2>1
      <4>2. call.table \in 0 .. Len(Whole)
        BY <2>1, <2>3, <2>4, <4>1
      <4> QED
        BY <2>3, <4>2, FirstOf
    <3>2. ASSUME NEW i \in 1 .. call.table
          PROVE  Whole[i] = call.params[i]
      <4> DEFINE P == Len(call.params)
                 A == Len(call.args)
      <4>1. P \in Nat /\ A \in Nat /\ i \in 1 .. P
        BY <2>1, <2>4
      <4>2. i \in 1 .. P + A /\ i <= P
        <5> HIDE DEF P, A
        <5> QED
          BY <4>1
      <4> QED
        BY <2>3, <4>2
    <3> QED
      BY <2>1, <2>4, <3>1, <3>2, SeqEqual
  <2>6. ASSUME NEW i \in 1 .. Len(call.args)
        PROVE  Whole[call.table + i] = call.args[i]
    <3> DEFINE P == Len(call.params)
               A == Len(call.args)
    <3>1. P + i \in 1 .. P + A /\ ~(P + i <= P) /\ (P + i) - P = i
      <4>1. P \in Nat /\ A \in Nat /\ i \in 1 .. A
        BY <2>1
      <4> HIDE DEF P, A
      <4> QED
        BY <4>1
    <3>2. Whole[P + i] = call.args[(P + i) - P]
      BY <2>3, <3>1
    <3> QED
      BY <2>4, <3>1, <3>2
  <2>7. \A i \in 1 .. Len(call.args) : out[i] = Invocation(call.params, call.args[i])
    BY <1>1, <2>4, <2>5, <2>6 DEF Inv, Written
  <2> QED
    BY <2>1, <2>4, <2>7
<1> QED
  BY <1>1, Invariance, PTL

(* METHAN_PP_NARGS and the rows keep step, for up to 62 arguments.           *)
THEOREM CountIsExact ==
  ASSUME \A c \in Calls : Len(c.args) # 63
  PROVE  Spec => []Counted
<1>1. ASSUME Inv PROVE Counted
  <2> SUFFICES ASSUME pc = "expand", Len(call.args) \in 1 .. 63
               PROVE  row + Len(out) = Len(call.args)
    BY DEF Counted
  <2>1. call.args \in Seq(Nat) /\ call \in Calls
    BY <1>1 DEF Inv, TypeOK, Call
  <2> DEFINE n == Len(call.args)
  <2>2. n \in 1 .. 62
    <3>1. n # 63 /\ n \in 1 .. 63
      BY <2>1
    <3> HIDE DEF n
    <3> QED
      BY <3>1
  <2>3. Count = n
    <3>1. n # 0 /\ n <= MaxRow
      <4> HIDE DEF n
      <4> QED
        BY <2>2 DEF MaxRow
    <3>2. VaArgs(call.args) = call.args
      BY <3>1, EmptySeq, Zenon DEF VaArgs
    <3>3. n <= MaxRow => PpNargs(call.args) = n
      BY <2>1, <3>2, CallsAssumption, CountSelects
    <3> QED
      BY <3>1, <3>3 DEF Count
  <2> QED
    BY <1>1, <2>3 DEF Inv, Descending
<1> QED
  BY <1>1, Invariance, PTL

(* A step of the preprocessor never refuses, or leaves unexpanded, a call    *)
(* within the size of the tables.                                            *)
THEOREM OrdinaryCallsExpand == Spec => []Accepted
<1>1. Init => Accepted
  BY DEF Init, Accepted
<1>2. ASSUME Inv, Accepted, [Next]_vars PROVE Accepted'
  <2> SUFFICES ASSUME Ordinary(call), call' = call
               PROVE  pc' \notin {"ill-formed", "unexpanded"}
    BY <1>2 DEF Accepted, Next, vars, Dispatch, Invoke, WrongArity, NoSuchRow,
                CloseExpand, TextSplits
  <2>1. /\ call.args \in Seq(Nat) /\ call.args # <<>> /\ call.params \in Seq(Nat)
        /\ call.table \in Nat /\ Len(out) \in Nat /\ row \in Nat /\ Len(list) \in Nat
    BY <1>2 DEF Inv, TypeOK, Call, Ordinary
  <2> DEFINE n == Len(call.args)
  <2>2. Count = n /\ VaArgs(call.args) = call.args
    <3>1. VaArgs(call.args) = call.args /\ n <= MaxRow
      BY <2>1 DEF VaArgs, Ordinary
    <3>2. n <= MaxRow => PpNargs(call.args) = n
      BY <2>1, <3>1, CallsAssumption, CountSelects
    <3> QED
      BY <3>1, <3>2 DEF Count
  <2>3. Len(Whole) = call.table + n
    <3>1. Whole = call.params \o call.args /\ Len(call.params) = call.table
      BY <2>2 DEF Whole, Ordinary
    <3>2. Len(Whole) = Len(call.params) + n
      BY <2>1, <3>1, ConcatProperties
    <3> QED
      BY <3>1, <3>2
  <2>4. pc = "expand" => /\ row \in 1 .. MaxRow
                         /\ Takes(call.table, row, Len(list))
    <3> SUFFICES ASSUME pc = "expand"
                 PROVE  row \in 1 .. MaxRow /\ Takes(call.table, row, Len(list))
      OBVIOUS
    <3>1. row + Len(out) = Len(call.args) /\ Len(list) + Len(out) = Len(Whole)
      BY <1>2, <2>2 DEF Inv, Descending
    <3>2. row >= 1
      <4>1. CASE out = <<>>
        BY <2>1, <3>1, <4>1
      <4>2. CASE out # <<>>
        BY <1>2, <4>2 DEF Inv, Descending
      <4> QED
        BY <4>1, <4>2
    <3>3. Len(list) = call.table + row /\ row <= MaxRow
      <4> DEFINE L == Len(list)
                 O == Len(out)
                 W == Len(Whole)
      <4>1. /\ row + O = n /\ L + O = W /\ W = call.table + n /\ n \in 1 .. MaxRow
            /\ call.table \in Nat /\ O \in Nat /\ L \in Nat /\ row \in Nat
        BY <2>1, <2>3, <3>1 DEF Ordinary
      <4>2. L = call.table + row /\ row <= MaxRow
        <5> HIDE DEF L, O, W, n
        <5> QED
          BY <4>1 DEF MaxRow
      <4> QED
        BY <4>2
    <3> QED
      BY <2>1, <3>2, <3>3 DEF Takes
  <2>5. pc \notin {"ill-formed", "unexpanded"}
    BY <1>2 DEF Accepted
  <2>6. ~WrongArity /\ ~NoSuchRow /\ ~TextSplits
    BY <2>4, <2>1 DEF WrongArity, NoSuchRow, TextSplits, Ordinary, MaxRow
  <2> QED
    BY <1>2, <2>5, <2>6 DEF Next, vars, Dispatch, Invoke, CloseExpand
<1> QED
  BY <1>1, <1>2, Invariance, PTL DEF Spec
=============================================================================
