------------------------------ MODULE EnumFlag ------------------------------
(***************************************************************************)
(* EnumFlag<T, fullValue> and METHAN_ENUMSET_OPERATORS                     *)
(* (methan/utility/enum.hpp).                                              *)
(*                                                                         *)
(* A value of UnderlyingType is the set of its bits that are 1.  T's       *)
(* enumerators are made of atoms: an atom is one or several bits that the  *)
(* client means as one thing, and an enumerator names some of the atoms,   *)
(* one, several or none.                                                   *)
(***************************************************************************)
EXTENDS Naturals

CONSTANTS
  Bit,         (* the bits of UnderlyingType                                *)
  FullValue,   (* the template argument; Bit by default                     *)
  Atom,
  Mask,        (* the bits of each atom                                     *)
  Enumerator,  (* the atoms of each enumerator of T                         *)
  Flag         (* the EnumFlag objects of the client                        *)

(* The client gives every atom bits of its own, and a fullValue that cuts   *)
(* no atom in two.                                                          *)
ASSUME MaskAssumption ==
  /\ FullValue \subseteq Bit
  /\ Mask \in [Atom -> (SUBSET Bit) \ {{}}]
  /\ \A a, b \in Atom : a # b => Mask[a] \cap Mask[b] = {}
  /\ \A a \in Atom : Mask[a] \subseteq FullValue \/ Mask[a] \cap FullValue = {}
  /\ Enumerator \subseteq SUBSET Atom

VARIABLES
  m_value,
  done      (* the statement last executed: operator, target and operands   *)

vars == <<m_value, done>>

(* Where a flag is asked for an enumerator can stand: it is converted. *)
FlagOperand       == {"flag"} \X Flag
EnumeratorOperand == {"enumerator"} \X Enumerator
Operand           == FlagOperand \cup EnumeratorOperand

Init ==
  /\ m_value = [f \in Flag |-> {}]
  /\ done = <<>>

-----------------------------------------------------------------------------
(* The values: EnumFlag(T value), from an enumerator that names the atoms S, *)
(* and the operators                                                         *)

(* A slip: the value is kept in a type of two bits. *)
Value_Narrow(S) == UNION {Mask[a] : a \in S} \cap 0 .. 1

Value(S) == UNION {Mask[a] : a \in S}

Or(v, w)  == v \cup w
And(v, w) == v \cap w
Xor(v, w) == (v \ w) \cup (w \ v)

(* A slip: operator~ without fullValue. *)
Not_All(v) == Bit \ v

(* A slip: operator~ keeps the int that m_value is promoted to. *)
Not_Promoted(v) == 0 .. 31 \ v

Not(v) == FullValue \cap (Bit \ v)

Eq(v, w) == v = w

(* A slip: >= asks for any of other. *)
Geq_Any(v, w) == And(v, w) # {}

Geq(v, w) == Eq(And(v, w), w)

Leq(v, w) == Eq(And(v, w), v)

ToBool(v) == v # {}

-----------------------------------------------------------------------------
(* The operations *)

ValueOf(x) == IF x[1] = "flag" THEN m_value[x[2]] ELSE Value(x[2])

(* f becomes v in the statement done. *)
Become(f, v, statement) ==
  /\ m_value' = [m_value EXCEPT ![f] = v]
  /\ done' = statement

(* EnumFlag f = x *)
Construct(f, x) == Become(f, ValueOf(x), <<"=", f, x, x>>)

(* f = x | y, f = x & y and f = x ^ y.  For an enumerator on the left the   *)
(* operator is a free function that calls the member of y on x: y | x.  Its *)
(* y is a flag, or a second enumerator converted to one.                    *)
Left(x, y)  == IF x \in FlagOperand THEN ValueOf(x) ELSE ValueOf(y)
Right(x, y) == IF x \in FlagOperand THEN ValueOf(y) ELSE ValueOf(x)

Binary(f, x, y) ==
  \/ Become(f, Or(Left(x, y), Right(x, y)), <<"|", f, x, y>>)
  \/ Become(f, And(Left(x, y), Right(x, y)), <<"&", f, x, y>>)
  \/ Become(f, Xor(Left(x, y), Right(x, y)), <<"^", f, x, y>>)

(* f = ~x *)
Complement(f, x) == Become(f, Not(ValueOf(x)), <<"~", f, x, x>>)

(* A slip: ^= clears what |= sets. *)
Compound_Clear(f, y) ==
  LET v == m_value[f]
      w == ValueOf(y)
      x == <<"flag", f>> IN
    \/ Become(f, v \cup w, <<"|=", f, x, y>>)
    \/ Become(f, v \cap w, <<"&=", f, x, y>>)
    \/ Become(f, v \ w, <<"^=", f, x, y>>)

(* f |= y, f &= y and f ^= y, each with code of its own *)
Compound(f, y) ==
  LET v == m_value[f]
      w == ValueOf(y)
      x == <<"flag", f>> IN
    \/ Become(f, v \cup w, <<"|=", f, x, y>>)
    \/ Become(f, v \cap w, <<"&=", f, x, y>>)
    \/ Become(f, (v \ w) \cup (w \ v), <<"^=", f, x, y>>)

Next ==
  \E f \in Flag, x \in Operand :
    \/ Construct(f, x)
    \/ Complement(f, x)
    \/ Compound(f, x)
    \/ \E y \in Operand : Binary(f, x, y)

Spec == Init /\ [][Next]_vars

-----------------------------------------------------------------------------
(* Properties *)

TypeOK ==
  /\ m_value \in [Flag -> SUBSET Bit]
  /\ done # <<>> => done[2] \in Flag /\ {done[3], done[4]} \subseteq Operand

Whole(v) == \A a \in Atom : Mask[a] \subseteq v \/ Mask[a] \cap v = {}

(* No sequence of operations leaves a flag with a part of an atom: an atom   *)
(* of several bits cannot be half set.                                       *)
AlwaysWhole == \A f \in Flag : Whole(m_value[f])

(* The atoms that a value contains *)
Atoms(v) == {a \in Atom : Mask[a] \subseteq v}

(* The bits of fullValue that belong to no atom: by default, all that no     *)
(* enumerator has.  ~ sets them.                                             *)
AtomBits  == UNION {Mask[a] : a \in Atom}
Stray     == FullValue \ AtomBits
Marked(v) == v \cap Stray # {}

(* >=, <=, == and the conversion to bool answer for the sets of atoms, and   *)
(* for one element more.  The stray bits come and go together, whatever the  *)
(* operators: a flag has all of them or none, and two flags with the same    *)
(* atoms differ only if ~ has left them in one of the two.  It is then that  *)
(* a flag without any atom is true.                                          *)
SetAnswers ==
  \A f, g \in Flag :
    LET v == m_value[f]
        w == m_value[g] IN
      /\ Geq(v, w) <=> Atoms(w) \subseteq Atoms(v) /\ (Marked(w) => Marked(v))
      /\ Leq(v, w) <=> Atoms(v) \subseteq Atoms(w) /\ (Marked(v) => Marked(w))
      /\ Eq(v, w) <=> Atoms(v) = Atoms(w) /\ (Marked(v) <=> Marked(w))
      /\ ToBool(v) <=> Atoms(v) # {} \/ Marked(v)

(* ~ against the comparisons.  Within fullValue, ~~f is f and ~ turns >=     *)
(* round.  An atom outside is in neither f nor ~f once ~ has been applied:   *)
(* ~~f loses it, and f | ~f has it only if f had.                            *)
ComplementFits ==
  \A f, g \in Flag :
    LET v == m_value[f]
        w == m_value[g] IN
      /\ Atoms(Not(Not(v))) = Atoms(v) \cap Atoms(FullValue)
      /\ ~ToBool(And(v, Not(v)))
      /\ Atoms(Or(v, Not(v))) = Atoms(FullValue) \cup Atoms(v)
      /\ Geq(v, w) => Leq(Not(v), Not(w))
      /\ Leq(v, FullValue) /\ Leq(w, FullValue) /\ Leq(Not(v), Not(w)) => Geq(v, w)

(* The flags are sets of atoms: each statement gives its target the set that *)
(* the operator says and changes no other flag, and ~ is the complement      *)
(* among the atoms that lie in fullValue.                                    *)
Sets == INSTANCE FlagSet WITH
  Domain <- Atoms(FullValue), set <- [f \in Flag |-> Atoms(m_value[f])]

SetSpec == Sets!Spec
=============================================================================
