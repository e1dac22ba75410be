------------------------------ MODULE FlagSet ------------------------------
(***************************************************************************)
(* What EnumFlag promises: each flag object is a set of atoms, and the     *)
(* operators are those of sets.                                            *)
(***************************************************************************)
CONSTANTS
  Flag,        (* the flag objects                                          *)
  Enumerator,  (* the sets that T has a name for                            *)
  Domain       (* the atoms that a complement is taken in                   *)

VARIABLES
  set,   (* the set that each flag object is                                *)
  done   (* the statement last executed: operator, target and operands      *)

Operand == {"flag"} \X Flag \cup {"enumerator"} \X Enumerator

SetOf(x) == IF x[1] = "flag" THEN set[x[2]] ELSE x[2]

Init ==
  /\ set = [f \in Flag |-> {}]
  /\ done = <<>>

Result(op, S, U) ==
  CASE op \in {"|", "|="} -> S \cup U
    [] op \in {"&", "&="} -> S \cap U
    [] op \in {"^", "^="} -> (S \ U) \cup (U \ S)
    [] op = "~" -> Domain \ S
    [] op = "=" -> S

(* One flag becomes the result of one operator; no other flag changes. *)
Execute(op, f, x, y) ==
  /\ done' = <<op, f, x, y>>
  /\ set' = [set EXCEPT ![f] = Result(op, SetOf(x), SetOf(y))]

Next ==
  \E op \in {"=", "|", "&", "^", "~", "|=", "&=", "^="}, f \in Flag, x, y \in Operand :
    Execute(op, f, x, y)

Spec == Init /\ [][Next]_<<set, done>>
=============================================================================
