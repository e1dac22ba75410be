------------------------------ MODULE ValueBox ------------------------------
(***************************************************************************)
(* What Methan::Varient promises to its client: a box holds a value, an    *)
(* operation on one box changes no other box, and a copy, when it is       *)
(* there, is the value that the source had when the copying started.       *)
(*                                                                         *)
(* Copying or building a value may take time or fail; meanwhile the box    *)
(* that is to hold it holds nothing.                                       *)
(***************************************************************************)
CONSTANTS
  Slot,    (* the boxes                                                     *)
  Plain,   (* values that are copied at once: pointers, and emptiness       *)
  Class,
  Content, (* objects of a class are values too                             *)
  None     (* no value; not one of the above                                *)

VARIABLES
  box,     (* the value of each box                                         *)
  want     (* the value that the operation in progress on a box is making   *)

vars == <<box, want>>

Object(c, x) == <<c, x>>
Init ==
  /\ box = [v \in Slot |-> None]
  /\ want = [v \in Slot |-> None]

(* A new value for a box without one *)
PutAtOnce(v) ==
  /\ box[v] = None
  /\ want[v] = None
  /\ \E x \in Plain : box' = [box EXCEPT ![v] = x]
  /\ UNCHANGED want

Put(v) ==
  /\ box[v] = None
  /\ want[v] = None
  /\ \E c \in Class, x \in Content : want' = [want EXCEPT ![v] = Object(c, x)]
  /\ UNCHANGED box

(* v becomes a copy of w.  The value it had is gone at the start. *)
CopyAtOnce(v, w) ==
  /\ want[v] = None
  /\ box[w] \in Plain
  /\ box' = [box EXCEPT ![v] = box[w]]
  /\ UNCHANGED want

Copy(v, w) ==
  /\ want[v] = None
  /\ box[w] # None
  /\ want' = [want EXCEPT ![v] = box[w]]
  /\ box' = [box EXCEPT ![v] = None]

(* The operation in progress ends: with the value it was to make, and in a   *)
(* constructor perhaps without.                                              *)
Finish(v) ==
  /\ want[v] # None
  /\ box' = [box EXCEPT ![v] = want[v]]
  /\ want' = [want EXCEPT ![v] = None]

Fail(v) ==
  /\ want[v] # None
  /\ want' = [want EXCEPT ![v] = None]
  /\ UNCHANGED box

(* The client changes the object in a box. *)
Change(v) ==
  /\ \E c \in Class, x, y \in Content :
       /\ box[v] = Object(c, x)
       /\ box' = [box EXCEPT ![v] = Object(c, y)]
  /\ UNCHANGED want

Drop(v) ==
  /\ box[v] # None
  /\ box' = [box EXCEPT ![v] = None]
  /\ UNCHANGED want

Next ==
  \E v \in Slot :
    \/ PutAtOnce(v) \/ Put(v)
    \/ Finish(v) \/ Fail(v)
    \/ Change(v) \/ Drop(v)
    \/ \E w \in Slot : CopyAtOnce(v, w) \/ Copy(v, w)

Spec == Init /\ [][Next]_vars
=============================================================================
