----------------------------- MODULE IndexCheck -----------------------------
(***************************************************************************)
(* The comparison in METHAN_FORCE_ASSERT_INDEX(index, upperBound)          *)
(* (methan/utility/assertion.hpp): the macro writes index < upperBound,    *)
(* and C++ decides what that means from the types and the operators in     *)
(* the arguments.                                                          *)
(*                                                                         *)
(* An integer type is its number of values, 2^bits, and whether it is      *)
(* signed.                                                                 *)
(***************************************************************************)
EXTENDS Integers

CONSTANTS
  Type,      (* the types of the client's integers                          *)
  IntType,   (* int                                                         *)
  SizeType   (* size_t                                                      *)

IsType(t) ==
  /\ t.count \in Nat \ {0} /\ t.count % 2 = 0
  /\ t.signed \in BOOLEAN
  /\ t = [count |-> t.count, signed |-> t.signed]

ASSUME TypeAssumption ==
  /\ \A t \in Type \cup {IntType, SizeType} : IsType(t)
  /\ IntType.signed
  /\ ~SizeType.signed

Half(t)   == t.count \div 2
Values(t) == IF t.signed THEN -Half(t) .. Half(t) - 1 ELSE 0 .. t.count - 1

(* Operands narrower than int become int. *)
Promote(t) == IF t.count < IntType.count THEN IntType ELSE t

Wider(s, t) == IF s.count >= t.count THEN s ELSE t

(* The type that both operands of < are converted to.  Of a signed and an   *)
(* unsigned type it is the signed one only if that is wider.                *)
CommonType(s, t) ==
  LET a == Promote(s)
      b == Promote(t) IN
    IF a.signed /\ ~b.signed THEN Wider(b, a) ELSE Wider(a, b)

Convert(v, t) == IF t.signed THEN v ELSE v % t.count

(* A slip: the bound itself passes. *)
Less_OffByOne(i, s, n, t) ==
  Convert(i, CommonType(s, t)) <= Convert(n, CommonType(s, t))

(* i < n, of types s and t *)
Less(i, s, n, t) ==
  Convert(i, CommonType(s, t)) < Convert(n, CommonType(s, t))

(* What the macro may find.  The arguments have no parentheses.  split says  *)
(* that one of them has an operator that binds less than <, which then takes *)
(* a part of that argument alone:                                            *)
(*   index i & 7, bound 8         i & (7 < 8)                                *)
(*   index c ? i : j, bound n     c ? i : (j < n)                            *)
(*   index i, bound a | b         (i < a) | b                                *)
(* and likewise ^, ==, !=, &&, || and assignments.  Whatever index and bound *)
(* are, there are such expressions of their values that pass and such that   *)
(* do not.                                                                   *)
Tested(i, split, s, n, t) == IF split THEN BOOLEAN ELSE {Less(i, s, n, t)}

(* Where i < n in C++ tells whether i is an index below n: the bound is not *)
(* negative, and a negative index is compared as unsigned with a bound in   *)
(* the lower half of the type.                                              *)
Reliable(i, s, n, t) ==
  /\ n >= 0
  /\ i < 0 => ~CommonType(s, t).signed /\ n <= Half(CommonType(s, t))
=============================================================================
