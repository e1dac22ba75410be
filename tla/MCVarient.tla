----------------------------- MODULE MCVarient -----------------------------
(***************************************************************************)
(* Instances of Varient for TLC: two classes, of which one is also used    *)
(* through pointers.                                                       *)
(***************************************************************************)
EXTENDS VarientBox, TLC

CONSTANTS Foo, Bar,  (* the classes                                         *)
          x          (* a Foo of the client                                 *)

MCClassOf == x :> Foo

Held == <<"value", "pointer", "pointer to const">>

(* Every type has a hash code of its own. *)
MCDistinct ==
  [t \in Type |-> (CHOOSE i \in 1 .. 3 : Held[i] = t[1]) + IF t[2] = Foo THEN 0 ELSE 3]

(* A pointer and the pointer to const of the same class have the same one, *)
(* and that of Bar is 0: a Varient with a Bar says that it is empty.       *)
MCCollide ==
  [t \in Type |-> IF t = Value(Bar) THEN 0
                  ELSE (IF t[1] = "value" THEN 1 ELSE 2) + IF t[2] = Foo THEN 0 ELSE 2]

Interchangeable == Permutations(Slot) \cup Permutations(Obj) \cup Permutations(Content)
=============================================================================
