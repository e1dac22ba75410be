-------------------------- MODULE EnumFlag_proofs --------------------------
(***************************************************************************)
(* What is proved of EnumFlag for every enumeration, fullValue and set of  *)
(* flag objects.                                                           *)
(***************************************************************************)
EXTENDS EnumFlag, TLAPS

(* An enumerator's value is whole and contains the atoms that it names,      *)
(* because atoms are not empty and do not overlap.                           *)
LEMMA ValueFacts ==
  ASSUME NEW S \in SUBSET Atom
  PROVE  Value(S) \in SUBSET Bit /\ Whole(Value(S)) /\ Atoms(Value(S)) = S
<1>1. Value(S) \in SUBSET Bit
  BY MaskAssumption DEF Value
<1>2. ASSUME NEW a \in Atom
      PROVE  IF a \in S THEN Mask[a] \subseteq Value(S) ELSE Mask[a] \cap Value(S) = {}
  BY MaskAssumption DEF Value
<1>3. Whole(Value(S))
  BY <1>2 DEF Whole
<1>4. \A a \in Atom : a \in Atoms(Value(S)) <=> a \in S
  BY <1>2, MaskAssumption DEF Atoms
<1> QED
  BY <1>1, <1>3, <1>4 DEF Atoms

(* The operators keep values whole, and are on the atoms what they are on    *)
(* the bits.                                                                 *)
LEMMA OperatorFacts ==
  ASSUME NEW v \in SUBSET Bit, NEW w \in SUBSET Bit, Whole(v), Whole(w)
  PROVE  /\ v \cup w \in SUBSET Bit /\ Whole(v \cup w)
         /\ v \cap w \in SUBSET Bit /\ Whole(v \cap w)
         /\ (v \ w) \cup (w \ v) \in SUBSET Bit /\ Whole((v \ w) \cup (w \ v))
         /\ Atoms(v \cup w) = Atoms(v) \cup Atoms(w)
         /\ Atoms(v \cap w) = Atoms(v) \cap Atoms(w)
         /\ Atoms((v \ w) \cup (w \ v)) =
              (Atoms(v) \ Atoms(w)) \cup (Atoms(w) \ Atoms(v))
<1>1. ASSUME NEW a \in Atom
      PROVE  /\ Mask[a] # {}
             /\ \/ Mask[a] \subseteq v
                \/ Mask[a] \cap v = {}
             /\ \/ Mask[a] \subseteq w
                \/ Mask[a] \cap w = {}
  BY MaskAssumption DEF Whole
<1>2. Whole(v \cup w) /\ Whole(v \cap w)
  BY <1>1 DEF Whole
<1>3. Whole((v \ w) \cup (w \ v))
  BY <1>1 DEF Whole
<1>4. Atoms(v \cup w) = Atoms(v) \cup Atoms(w)
  BY <1>1 DEF Atoms
<1>5. Atoms(v \cap w) = Atoms(v) \cap Atoms(w)
  BY DEF Atoms
<1>6. ASSUME NEW a \in Atom
      PROVE  Mask[a] \subseteq (v \ w) \cup (w \ v) <=>
               \/ Mask[a] \subseteq v /\ ~(Mask[a] \subseteq w)
               \/ Mask[a] \subseteq w /\ ~(Mask[a] \subseteq v)
  BY <1>1
<1>7. Atoms((v \ w) \cup (w \ v)) = (Atoms(v) \ Atoms(w)) \cup (Atoms(w) \ Atoms(v))
  BY <1>6 DEF Atoms
<1> QED
  BY <1>2, <1>3, <1>4, <1>5, <1>7

(* The same of operator~. *)
LEMMA NotFacts ==
  ASSUME NEW v \in SUBSET Bit, Whole(v)
  PROVE  /\ Not(v) \in SUBSET Bit /\ Whole(Not(v))
         /\ Atoms(Not(v)) = Atoms(FullValue) \ Atoms(v)
<1>1. ASSUME NEW a \in Atom
      PROVE  /\ Mask[a] # {} /\ Mask[a] \subseteq Bit
             /\ Mask[a] \subseteq v \/ Mask[a] \cap v = {}
             /\ Mask[a] \subseteq FullValue \/ Mask[a] \cap FullValue = {}
  BY MaskAssumption DEF Whole
<1>2. ASSUME NEW a \in Atom
      PROVE  Mask[a] \subseteq Not(v) <=>
               Mask[a] \subseteq FullValue /\ ~(Mask[a] \subseteq v)
  BY <1>1 DEF Not
<1>3. Whole(Not(v))
  BY <1>1 DEF Whole, Not
<1>4. Atoms(Not(v)) = Atoms(FullValue) \ Atoms(v)
  BY <1>2 DEF Atoms
<1> QED
  BY <1>3, <1>4, MaskAssumption DEF Not

-----------------------------------------------------------------------------
(* The invariant that the rest follows from.  What a value holds beside      *)
(* atoms is all the stray bits of fullValue, or nothing.                     *)
Covered(v) == v \ AtomBits \in {{}, Stray}

IInv == TypeOK /\ AlwaysWhole /\ \A f \in Flag : Covered(m_value[f])

(* No operator takes the stray bits apart.                                   *)
LEMMA CoveredFacts ==
  ASSUME NEW v \in SUBSET Bit, NEW w \in SUBSET Bit, Covered(v), Covered(w)
  PROVE  /\ Covered(v \cup w)
         /\ Covered(v \cap w)
         /\ Covered((v \ w) \cup (w \ v))
         /\ Covered(Not(v))
<1>1. v \ AtomBits \in {{}, Stray} /\ w \ AtomBits \in {{}, Stray}
  BY DEF Covered
<1>2. /\ (v \cup w) \ AtomBits = (v \ AtomBits) \cup (w \ AtomBits)
      /\ (v \cap w) \ AtomBits = (v \ AtomBits) \cap (w \ AtomBits)
      /\ ((v \ w) \cup (w \ v)) \ AtomBits =
           ((v \ AtomBits) \ (w \ AtomBits)) \cup ((w \ AtomBits) \ (v \ AtomBits))
  OBVIOUS
<1>3. Not(v) \ AtomBits = Stray \ (v \ AtomBits)
  BY MaskAssumption DEF Not, Stray
<1> QED
  BY <1>1, <1>2, <1>3 DEF Covered

(* What an operand stands for is whole, and has the atoms of the set that    *)
(* FlagSet reads for it.                                                     *)
LEMMA OperandFacts ==
  ASSUME IInv, NEW x \in Operand
  PROVE  /\ ValueOf(x) \in SUBSET Bit /\ Whole(ValueOf(x)) /\ Covered(ValueOf(x))
         /\ Atoms(ValueOf(x)) = Sets!SetOf(x)
<1>1. CASE x \in FlagOperand
  BY <1>1 DEF FlagOperand, ValueOf, Sets!SetOf, IInv, TypeOK, AlwaysWhole
<1>2. CASE x \in EnumeratorOperand
  <2>1. x[1] = "enumerator" /\ x[2] \in SUBSET Atom
    BY <1>2, MaskAssumption DEF EnumeratorOperand
  <2>2. Covered(Value(x[2]))
    BY <2>1 DEF Covered, Value, AtomBits
  <2> QED
    BY <2>1, <2>2, ValueFacts DEF ValueOf, Sets!SetOf
<1> QED
  BY <1>1, <1>2 DEF Operand

(* A step gives one flag a value that is whole, and whose atoms are what     *)
(* FlagSet says of the operands.                                             *)
Becomes(op, f, x, y) ==
  \E v \in SUBSET Bit :
    /\ Become(f, v, <<op, f, x, y>>)
    /\ Whole(v)
    /\ Covered(v)
    /\ Atoms(v) = Sets!Result(op, Sets!SetOf(x), Sets!SetOf(y))

Op == {"=", "|", "&", "^", "~", "|=", "&=", "^="}

LEMMA StepFacts ==
  ASSUME IInv, Next
  PROVE  \E op \in Op, f \in Flag, x, y \in Operand : Becomes(op, f, x, y)
<1>1. ASSUME NEW f \in Flag, NEW x \in Operand, Construct(f, x)
      PROVE  Becomes("=", f, x, x)
  BY <1>1, OperandFacts DEF Construct, Becomes, Sets!Result
<1>2. ASSUME NEW f \in Flag, NEW x \in Operand, Complement(f, x)
      PROVE  Becomes("~", f, x, x)
  <2>1. Sets!Result("~", Sets!SetOf(x), Sets!SetOf(x)) = Atoms(FullValue) \ Sets!SetOf(x)
    BY DEF Sets!Result
  <2> QED
    BY <1>2, <2>1, OperandFacts, NotFacts, CoveredFacts DEF Complement, Becomes
<1>3. ASSUME NEW f \in Flag, NEW y \in Operand, Compound(f, y)
      PROVE  \E op \in {"|=", "&=", "^="} : Becomes(op, f, <<"flag", f>>, y)
  <2> DEFINE x == <<"flag", f>>
             v == m_value[f]
             w == ValueOf(y)
  <2>1. x \in Operand /\ ValueOf(x) = v
    BY DEF Operand, FlagOperand, ValueOf
  <2>2. /\ v \in SUBSET Bit /\ Whole(v) /\ Covered(v) /\ Atoms(v) = Sets!SetOf(x)
        /\ w \in SUBSET Bit /\ Whole(w) /\ Covered(w) /\ Atoms(w) = Sets!SetOf(y)
    BY <2>1, OperandFacts
  <2>3. \/ Become(f, v \cup w, <<"|=", f, x, y>>)
        \/ Become(f, v \cap w, <<"&=", f, x, y>>)
        \/ Become(f, (v \ w) \cup (w \ v), <<"^=", f, x, y>>)
    BY <1>3 DEF Compound
  <2> HIDE DEF x, v, w
  <2>4. CASE Become(f, v \cup w, <<"|=", f, x, y>>)
    <3> DEFINE u == v \cup w
    <3>1. u \in SUBSET Bit /\ Whole(u) /\ Covered(u)
      BY <2>2, OperatorFacts, CoveredFacts
    <3>2. Atoms(u) = Sets!Result("|=", Sets!SetOf(x), Sets!SetOf(y))
      <4>1. Atoms(u) = Atoms(v) \cup Atoms(w)
        BY <2>2, OperatorFacts
      <4> QED
        BY <2>2, <4>1 DEF Sets!Result
    <3>3. Becomes("|=", f, x, y)
      BY <3>1, <3>2, <2>4 DEF Becomes, Become
    <3> QED
      BY <3>3 DEF x
  <2>5. CASE Become(f, v \cap w, <<"&=", f, x, y>>)
    <3> DEFINE u == v \cap w
    <3>1. u \in SUBSET Bit /\ Whole(u) /\ Covered(u)
      BY <2>2, OperatorFacts, CoveredFacts
    <3>2. Atoms(u) = Sets!Result("&=", Sets!SetOf(x), Sets!SetOf(y))
      <4>1. Atoms(u) = Atoms(v) \cap Atoms(w)
        BY <2>2, OperatorFacts
      <4> QED
        BY <2>2, <4>1 DEF Sets!Result
    <3>3. Becomes("&=", f, x, y)
      BY <3>1, <3>2, <2>5 DEF Becomes, Become
    <3> QED
      BY <3>3 DEF x
  <2>6. CASE Become(f, (v \ w) \cup (w \ v), <<"^=", f, x, y>>)
    <3> DEFINE u == (v \ w) \cup (w \ v)
    <3>1. u \in SUBSET Bit /\ Whole(u) /\ Covered(u)
      BY <2>2, OperatorFacts, CoveredFacts
    <3>2. Atoms(u) = Sets!Result("^=", Sets!SetOf(x), Sets!SetOf(y))
      <4>1. Atoms(u) = (Atoms(v) \ Atoms(w)) \cup (Atoms(w) \ Atoms(v))
        BY <2>2, OperatorFacts
      <4> QED
        BY <2>2, <4>1 DEF Sets!Result
    <3>3. Becomes("^=", f, x, y)
      BY <3>1, <3>2, <2>6 DEF Becomes, Become
    <3> QED
      BY <3>3 DEF x
  <2> QED
    BY <2>3, <2>4, <2>5, <2>6
<1>4. ASSUME NEW f \in Flag, NEW x \in Operand, NEW y \in Operand, Binary(f, x, y)
      PROVE  \E op \in {"|", "&", "^"} : Becomes(op, f, x, y)
  <2> DEFINE v == ValueOf(x)
             w == ValueOf(y)
  <2>1. /\ v \in SUBSET Bit /\ Whole(v) /\ Covered(v) /\ Atoms(v) = Sets!SetOf(x)
        /\ w \in SUBSET Bit /\ Whole(w) /\ Covered(w) /\ Atoms(w) = Sets!SetOf(y)
    BY OperandFacts
  <2>2. /\ Or(Left(x, y), Right(x, y)) = v \cup w
        /\ And(Left(x, y), Right(x, y)) = v \cap w
        /\ Xor(Left(x, y), Right(x, y)) = (v \ w) \cup (w \ v)
    BY DEF Or, And, Xor, Left, Right
  <2>3. \/ Become(f, v \cup w, <<"|", f, x, y>>)
        \/ Become(f, v \cap w, <<"&", f, x, y>>)
        \/ Become(f, (v \ w) \cup (w \ v), <<"^", f, x, y>>)
    BY <1>4, <2>2 DEF Binary
  <2> HIDE DEF v, w
  <2>4. CASE Become(f, v \cup w, <<"|", f, x, y>>)
    <3> DEFINE u == v \cup w
    <3>1. u \in SUBSET Bit /\ Whole(u) /\ Covered(u)
      BY <2>1, OperatorFacts, CoveredFacts
    <3>2. Atoms(u) = Sets!Result("|", Sets!SetOf(x), Sets!SetOf(y))
      <4>1. Atoms(u) = Atoms(v) \cup Atoms(w)
        BY <2>1, OperatorFacts
      <4> QED
        BY <2>1, <4>1 DEF Sets!Result
    <3>3. Becomes("|", f, x, y)
      BY <3>1, <3>2, <2>4 DEF Becomes, Become
    <3> QED
      BY <3>3
  <2>5. CASE Become(f, v \cap w, <<"&", f, x, y>>)
    <3> DEFINE u == v \cap w
    <3>1. u \in SUBSET Bit /\ Whole(u) /\ Covered(u)
      BY <2>1, OperatorFacts, CoveredFacts
    <3>2. Atoms(u) = Sets!Result("&", Sets!SetOf(x), Sets!SetOf(y))
      <4>1. Atoms(u) = Atoms(v) \cap Atoms(w)
        BY <2>1, OperatorFacts
      <4> QED
        BY <2>1, <4>1 DEF Sets!Result
    <3>3. Becomes("&", f, x, y)
      BY <3>1, <3>2, <2>5 DEF Becomes, Become
    <3> QED
      BY <3>3
  <2>6. CASE Become(f, (v \ w) \cup (w \ v), <<"^", f, x, y>>)
    <3> DEFINE u == (v \ w) \cup (w \ v)
    <3>1. u \in SUBSET Bit /\ Whole(u) /\ Covered(u)
      BY <2>1, OperatorFacts, CoveredFacts
    <3>2. Atoms(u) = Sets!Result("^", Sets!SetOf(x), Sets!SetOf(y))
      <4>1. Atoms(u) = (Atoms(v) \ Atoms(w)) \cup (Atoms(w) \ Atoms(v))
        BY <2>1, OperatorFacts
      <4> QED
        BY <2>1, <4>1 DEF Sets!Result
    <3>3. Becomes("^", f, x, y)
      BY <3>1, <3>2, <2>6 DEF Becomes, Become
    <3> QED
      BY <3>3
  <2> QED
    BY <2>3, <2>4, <2>5, <2>6
<1>5. PICK f \in Flag, x \in Operand :
        \/ Construct(f, x)
        \/ Complement(f, x)
        \/ Compound(f, x)
        \/ \E y \in Operand : Binary(f, x, y)
  BY DEF Next
<1>6. CASE Construct(f, x)
  BY <1>1, <1>6 DEF Op
<1>7. CASE Complement(f, x)
  BY <1>2, <1>7 DEF Op
<1>8. CASE Compound(f, x)
  <2>1. <<"flag", f>> \in Operand
    BY DEF Operand, FlagOperand
  <2> QED
    BY <1>3, <1>8, <2>1 DEF Op
<1>9. CASE \E y \in Operand : Binary(f, x, y)
  BY <1>4, <1>9 DEF Op
<1> QED
  BY <1>5, <1>6, <1>7, <1>8, <1>9

-----------------------------------------------------------------------------
LEMMA Invariance == Spec => []IInv
<1>1. Init => IInv
  BY MaskAssumption DEF Init, IInv, TypeOK, AlwaysWhole, Whole, Covered
<1>2. IInv /\ [Next]_vars => IInv'
  <2> SUFFICES ASSUME IInv, [Next]_vars PROVE IInv'
    OBVIOUS
  <2>1. CASE Next
    <3>1. PICK op \in Op, f \in Flag, x \in Operand, y \in Operand : Becomes(op, f, x, y)
      BY <2>1, StepFacts
    <3>2. PICK v \in SUBSET Bit : Become(f, v, <<op, f, x, y>>) /\ Whole(v) /\ Covered(v)
      BY <3>1 DEF Becomes
    <3>3. TypeOK'
      BY <3>2 DEF Become, IInv, TypeOK, Operand, FlagOperand, EnumeratorOperand
    <3>4. AlwaysWhole'
      BY <3>2 DEF Become, IInv, TypeOK, AlwaysWhole, Whole
    <3>5. \A g \in Flag : Covered(m_value[g])'
      BY <3>2 DEF Become, IInv, TypeOK, Covered, Stray, AtomBits
    <3> QED
      BY <3>3, <3>4, <3>5 DEF IInv
  <2>2. CASE UNCHANGED vars
    BY <2>2 DEF vars, IInv, TypeOK, AlwaysWhole, Whole, Operand, FlagOperand,
                EnumeratorOperand, Covered, Stray, AtomBits
  <2> QED
    BY <2>1, <2>2
<1> QED
  BY <1>1, <1>2, PTL DEF Spec

(* m_value stays within the bits of the underlying type, whatever statements *)
(* are executed.                                                             *)
THEOREM FlagTypes == Spec => []TypeOK
<1>1. IInv => TypeOK
  BY DEF IInv
<1> QED
  BY <1>1, Invariance, PTL

(* Flags never hold a part of an atom.                                       *)
THEOREM FlagsWhole == Spec => []AlwaysWhole
<1>1. IInv => AlwaysWhole
  BY DEF IInv
<1> QED
  BY <1>1, Invariance, PTL

(* One value is part of another if its atoms are and its stray bits are.     *)
LEMMA PartFacts ==
  ASSUME NEW v \in SUBSET Bit, NEW w \in SUBSET Bit,
         Whole(v), Whole(w), Covered(v), Covered(w)
  PROVE  w \subseteq v <=> Atoms(w) \subseteq Atoms(v) /\ (Marked(w) => Marked(v))
<1>1. w \subseteq v => Atoms(w) \subseteq Atoms(v) /\ (Marked(w) => Marked(v))
  BY DEF Atoms, Marked
<1>2. ASSUME Atoms(w) \subseteq Atoms(v), Marked(w) => Marked(v), NEW b \in w
      PROVE  b \in v
  <2>1. CASE b \in AtomBits
    <3>1. PICK a \in Atom : b \in Mask[a]
      BY <2>1 DEF AtomBits
    <3>2. Mask[a] \subseteq w
      BY <1>2, <3>1 DEF Whole
    <3>3. Mask[a] \subseteq v
      BY <1>2, <3>2 DEF Atoms
    <3> QED
      BY <3>1, <3>3
  <2>2. CASE b \notin AtomBits
    <3>1. b \in Stray /\ Marked(v)
      BY <1>2, <2>2 DEF Covered, Marked
    <3>2. v \ AtomBits # {}
      BY <3>1 DEF Marked, Stray
    <3> QED
      BY <3>1, <3>2 DEF Covered
  <2> QED
    BY <2>1, <2>2
<1> QED
  BY <1>1, <1>2

(* The comparisons and the conversion to bool answer for the sets of atoms,  *)
(* with the stray bits as one element more, for any fullValue: the default   *)
(* included.                                                                 *)
THEOREM AnswersAreOfSets == Spec => []SetAnswers
<1>1. IInv => SetAnswers
  <2> SUFFICES ASSUME IInv, NEW f \in Flag, NEW g \in Flag
               PROVE  LET v == m_value[f]
                          w == m_value[g] IN
                        /\ Geq(v, w) <=> Atoms(w) \subseteq Atoms(v) /\ (Marked(w) => Marked(v))
                        /\ Leq(v, w) <=> Atoms(v) \subseteq Atoms(w) /\ (Marked(v) => Marked(w))
                        /\ Eq(v, w) <=> Atoms(v) = Atoms(w) /\ (Marked(v) <=> Marked(w))
                        /\ ToBool(v) <=> Atoms(v) # {} \/ Marked(v)
    BY DEF SetAnswers
  <2> DEFINE v == m_value[f]
             w == m_value[g]
  <2>1. /\ v \in SUBSET Bit /\ Whole(v) /\ Covered(v)
        /\ w \in SUBSET Bit /\ Whole(w) /\ Covered(w)
    BY DEF IInv, TypeOK, AlwaysWhole
  <2> HIDE DEF v, w
  <2>2. /\ Geq(v, w) <=> w \subseteq v
        /\ Leq(v, w) <=> v \subseteq w
        /\ Eq(v, w) <=> v \subseteq w /\ w \subseteq v
    BY DEF Geq, Leq, Eq, And
  <2>3. /\ w \subseteq v <=> Atoms(w) \subseteq Atoms(v) /\ (Marked(w) => Marked(v))
        /\ v \subseteq w <=> Atoms(v) \subseteq Atoms(w) /\ (Marked(v) => Marked(w))
    BY <2>1, PartFacts
  <2>4. ToBool(v) <=> ~(v \subseteq {})
    BY DEF ToBool
  <2>5. v \subseteq {} <=> Atoms(v) \subseteq Atoms({}) /\ (Marked(v) => Marked({}))
    BY <2>1, PartFacts DEF Whole, Covered
  <2>6. Atoms({}) = {} /\ ~Marked({})
    BY MaskAssumption DEF Atoms, Marked
  <2>7. Atoms(v) = Atoms(w) <=> Atoms(v) \subseteq Atoms(w) /\ Atoms(w) \subseteq Atoms(v)
    OBVIOUS
  <2> QED
    BY <2>2, <2>3, <2>4, <2>5, <2>6, <2>7 DEF v, w
<1> QED
  BY <1>1, Invariance, PTL

(* What ~ does to the atoms inside and outside fullValue, and to >=.         *)
THEOREM ComplementsFit == Spec => []ComplementFits
<1>1. IInv => ComplementFits
  <2> SUFFICES ASSUME IInv, NEW f \in Flag, NEW g \in Flag
               PROVE  LET v == m_value[f]
                          w == m_value[g] IN
                        /\ Atoms(Not(Not(v))) = Atoms(v) \cap Atoms(FullValue)
                        /\ ~ToBool(And(v, Not(v)))
                        /\ Atoms(Or(v, Not(v))) = Atoms(FullValue) \cup Atoms(v)
                        /\ Geq(v, w) => Leq(Not(v), Not(w))
                        /\ Leq(v, FullValue) /\ Leq(w, FullValue)
                             /\ Leq(Not(v), Not(w)) => Geq(v, w)
    BY DEF ComplementFits
  <2> DEFINE v == m_value[f]
             w == m_value[g]
  <2>1. /\ v \in SUBSET Bit /\ Whole(v)
        /\ w \in SUBSET Bit /\ Whole(w)
    BY DEF IInv, TypeOK, AlwaysWhole
  <2> HIDE DEF v, w
  <2>2. /\ Not(v) \in SUBSET Bit /\ Whole(Not(v))
        /\ Atoms(Not(v)) = Atoms(FullValue) \ Atoms(v)
    BY <2>1, NotFacts
  <2>3. Atoms(Not(Not(v))) = Atoms(FullValue) \ Atoms(Not(v))
    BY <2>2, NotFacts
  <2>4. Atoms(Or(v, Not(v))) = Atoms(v) \cup Atoms(Not(v))
    BY <2>1, <2>2, OperatorFacts DEF Or
  <2>5. ~ToBool(And(v, Not(v)))
    BY DEF ToBool, And, Not
  <2>6. Geq(v, w) => Leq(Not(v), Not(w))
    BY <2>1 DEF Geq, Leq, Eq, And, Not
  <2>7. Leq(v, FullValue) /\ Leq(w, FullValue) /\ Leq(Not(v), Not(w)) => Geq(v, w)
    BY <2>1 DEF Geq, Leq, Eq, And, Not
  <2> QED
    BY <2>2, <2>3, <2>4, <2>5, <2>6, <2>7 DEF v, w
<1> QED
  BY <1>1, Invariance, PTL

(* EnumFlag implements sets of atoms: every statement has the effect of its  *)
(* set operator, ~ that of the complement in fullValue.                      *)
THEOREM FlagsAreSets == Spec => SetSpec
<1>1. Init => Sets!Init
  <2>1. Atoms({}) = {}
    BY MaskAssumption DEF Atoms
  <2> QED
    BY <2>1 DEF Init, Sets!Init
<1>2. IInv /\ [Next]_vars => [Sets!Next]_<<[f \in Flag |-> Atoms(m_value[f])], done>>
  <2> SUFFICES ASSUME IInv, [Next]_vars
               PROVE  [Sets!Next]_<<[f \in Flag |-> Atoms(m_value[f])], done>>
    OBVIOUS
  <2>1. CASE Next
    <3>1. PICK op \in Op, f \in Flag, x \in Operand, y \in Operand : Becomes(op, f, x, y)
      BY <2>1, StepFacts
    <3>2. PICK v \in SUBSET Bit :
            /\ Become(f, v, <<op, f, x, y>>)
            /\ Atoms(v) = Sets!Result(op, Sets!SetOf(x), Sets!SetOf(y))
      BY <3>1 DEF Becomes
    <3>3. \A g \in Flag : m_value'[g] = IF g = f THEN v ELSE m_value[g]
      BY <3>2 DEF Become, IInv, TypeOK
    <3>4. [g \in Flag |-> Atoms(m_value[g])]' =
            [[g \in Flag |-> Atoms(m_value[g])] EXCEPT ![f] = Atoms(v)]
      BY <3>3 DEF Atoms
    <3>5. Sets!Execute(op, f, x, y)
      BY <3>2, <3>4 DEF Become, Sets!Execute
    <3>6. x \in Sets!Operand /\ y \in Sets!Operand
      BY DEF Operand, FlagOperand, EnumeratorOperand, Sets!Operand
    <3> QED
      BY <3>5, <3>6 DEF Sets!Next, Op
  <2>2. CASE UNCHANGED vars
    BY <2>2 DEF vars, Atoms
  <2> QED
    BY <2>1, <2>2
<1> QED
  BY <1>1, <1>2, Invariance, PTL DEF Spec, SetSpec, Sets!Spec
=============================================================================
