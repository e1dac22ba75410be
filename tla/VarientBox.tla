---------------------------- MODULE VarientBox ----------------------------
(***************************************************************************)
(* Varient implements ValueBox: heap addresses, deep copies and the order  *)
(* of destruction are its own affair.  An owning Varient between two       *)
(* operations is a box with the content of its heap object; any other is a *)
(* box with its members.                                                   *)
(***************************************************************************)
EXTENDS Varient

ObjectOf(v, o) == <<member[v].cls, heap[o].content>>

ValueOf(v) ==
  IF Owner(member[v]) THEN ObjectOf(v, member[v].data) ELSE <<NULL, member[v]>>

PlainValues ==
  {<<NULL, m>> : m \in {Empty} \cup {OfPtr(c, p) : c \in Class, p \in Ext \cup {NULL}}
                              \cup {OfConstPtr(c, p) : c \in Class, p \in Ext \cup {NULL}}}

NoValue == << >>

box == [v \in Slot |-> IF pc[v] = "idle" THEN ValueOf(v) ELSE NoValue]

(* An operation in progress makes what the new object contains; before it    *)
(* starts on that, it releases the old object and wants what from[v] holds.  *)
want ==
  [v \in Slot |->
     CASE Builds(v)         -> ObjectOf(v, fresh[v])
       [] pc[v] = "release" -> ValueOf(from[v])
       [] OTHER             -> NoValue]

Box == INSTANCE ValueBox WITH Plain <- PlainValues, None <- NoValue

(* Every behaviour of Varients is one of boxes that hold values. *)
BoxSpec == Box!Spec
=============================================================================
