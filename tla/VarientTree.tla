---------------------------- MODULE VarientTree ----------------------------
(***************************************************************************)
(* Varients that hold objects with a Varient of their own, as the nodes of *)
(* a graph have:  struct Node { Varient child; ... }.                      *)
(*                                                                         *)
(* m_copy and m_destructor (utility/varient.hpp) then call the copy        *)
(* constructor and the destructor of Varient again, for the child.  There  *)
(* is one thread, and the calls in progress form a stack.  Unlike Varient, *)
(* this module has no client's rule that keeps the class's code from       *)
(* Varients in use: that this code keeps the rule is what it shows.        *)
(***************************************************************************)
EXTENDS Integers, Sequences, FiniteSets

CONSTANTS
  Root,     (* the Varients of the client; the others are children          *)
  Obj,      (* heap addresses that new Node can return                      *)
  Node, NULL,
  Related   (* the client may assign between Varients of the same tree      *)

ASSUME TreeAssumption ==
  /\ NULL \notin Root \cup Obj \cup {Node}
  /\ Root \cap Obj = {}
  /\ Related \in BOOLEAN

(* The child of the Node at o is named o too. *)
Slot == Root \cup Obj

VARIABLES
  exists,  (* the Varients constructed and not yet destroyed                *)
  data,    (* m_data; a Varient that is not empty is an owner               *)
  heap,    (* the phase of each heap address                                *)
  stack    (* the calls of m_copy and m_destructor in progress              *)

vars == <<exists, data, heap, stack>>

(* op    where m_copy or m_destructor is called from, as pc in Varient      *)
(* to    the Varient operated on                                            *)
(* src   the Varient that is copied into it, or NULL                        *)
(* obj   the Node being built or destroyed                                  *)
(* read  the Node that m_copy reads, or NULL                                *)
Frame ==
  [op : {"create", "copy", "assign", "release", "destroy"}, to : Slot,
   src : Slot \cup {NULL}, obj : Obj, read : Obj \cup {NULL}]

Call(op, v, w, o, d) == [op |-> op, to |-> v, src |-> w, obj |-> o, read |-> d]

TypeOK ==
  /\ exists \subseteq Slot
  /\ data \in [Slot -> Obj \cup {NULL}]
  /\ heap \in [Obj -> {"free", "building", "live", "dying"}]
  /\ stack \in Seq(Frame)

Init ==
  /\ exists = {}
  /\ data = [v \in Slot |-> NULL]
  /\ heap = [o \in Obj |-> "free"]
  /\ stack = <<>>

Top    == stack[Len(stack)]
Popped == SubSeq(stack, 1, Len(stack) - 1)
Allocated == {o \in Obj : heap[o] # "free"}

Closed(P) == \A x \in P : data[x] # NULL => data[x] \in P

(* The Nodes of the tree in v: the least closed set with the Node of v in it *)
Below(v) ==
  {o \in Obj : \A P \in SUBSET Obj :
                 Closed(P) /\ (data[v] = NULL \/ data[v] \in P) => o \in P}

SameTree(v, w) == v = w \/ w \in Below(v) \/ v \in Below(w)

(* Bound: a copy is begun when there is memory for all of it. *)
Fits(w) == Cardinality(Obj \ Allocated) >= Cardinality(Below(w))

-----------------------------------------------------------------------------
(* What is read from a Varient: anything, when it has been destroyed. *)
Found(w) == IF w \in exists THEN {data[w]} ELSE Obj \cup {NULL}

(* A slip: the copy shares the Node of the original. *)
TakeMembers_Shallow(v, w, op, h, calls) ==
  /\ \E d \in Found(w) : data' = [data EXCEPT ![v] = d]
  /\ heap' = h
  /\ exists' = exists \cup {v}
  /\ stack' = calls

(* A slip: m_copy copies from *dest, the Node that it is building. *)
TakeMembers_FromDest(v, w, op, h, calls) ==
  \E d \in Found(w) :
    /\ data' = [data EXCEPT ![v] = d]
    /\ \/ /\ d = NULL
          /\ heap' = h
          /\ exists' = exists \cup {v}
          /\ stack' = calls
       \/ /\ d # NULL
          /\ \E o \in Obj :
               /\ h[o] = "free"
               /\ heap' = [h EXCEPT ![o] = "building"]
               /\ stack' = Append(calls, Call(op, v, w, o, o))
          /\ UNCHANGED exists

(* v takes over the members of w and, if w is an owner, calls m_copy.       *)
TakeMembers(v, w, op, h, calls) ==
  \E d \in Found(w) :
    /\ data' = [data EXCEPT ![v] = d]
    /\ \/ /\ d = NULL
          /\ heap' = h
          /\ exists' = exists \cup {v}
          /\ stack' = calls
       \/ /\ d # NULL
          /\ \E o \in Obj :
               /\ h[o] = "free"
               /\ heap' = [h EXCEPT ![o] = "building"]
               /\ stack' = Append(calls, Call(op, v, w, o, d))
          /\ UNCHANGED exists

(* m_destructor(m_data) of v, or nothing when v is empty *)
CallDestructor(op, v, w) ==
  /\ heap' = [heap EXCEPT ![data[v]] = IF @ = "free" THEN @ ELSE "dying"]
  /\ stack' = Append(stack, Call(op, v, w, data[v], NULL))
  /\ UNCHANGED <<exists, data>>

Destroy(v) ==
  \/ data[v] # NULL /\ CallDestructor("destroy", v, NULL)
  \/ data[v] = NULL /\ exists' = exists \ {v} /\ UNCHANGED <<data, heap, stack>>

-----------------------------------------------------------------------------
(* The client's calls *)

ConstructEmpty(v) ==
  /\ exists' = exists \cup {v}
  /\ data' = [data EXCEPT ![v] = NULL]
  /\ UNCHANGED <<heap, stack>>

(* Varient(const Node&), of a Node whose child is empty *)
Create(v) ==
  /\ \E o \in Obj \ Allocated :
       /\ heap' = [heap EXCEPT ![o] = "building"]
       /\ data' = [data EXCEPT ![v] = o]
       /\ stack' = <<Call("create", v, NULL, o, NULL)>>
  /\ UNCHANGED exists

Copy(v, w) == Fits(w) /\ TakeMembers(v, w, "copy", heap, stack)

Assign(v, w) ==
  /\ SameTree(v, w) => Related
  /\ Fits(w)
  /\ \/ data[v] # NULL /\ CallDestructor("release", v, w)
     \/ data[v] = NULL /\ TakeMembers(v, w, "assign", heap, stack)

Start ==
  /\ stack = <<>>
  /\ \/ \E v \in Root \ exists :
          \/ ConstructEmpty(v)
          \/ Create(v)
          \/ \E w \in exists : Copy(v, w)
     \/ \E v \in Root \cap exists : Destroy(v)
     \/ \E v, w \in exists : Assign(v, w)

-----------------------------------------------------------------------------
(* The copy constructor and the destructor of Node, and the return from them *)

(* The Node being built constructs its child: a copy of the child of the     *)
(* Node that m_copy reads.                                                   *)
BuildChild ==
  /\ Top.op \in {"create", "copy", "assign"}
  /\ Top.obj \notin exists
  /\ IF Top.read = NULL
     THEN ConstructEmpty(Top.obj)
     ELSE TakeMembers(Top.obj, Top.read, "copy", heap, stack)

(* A slip: m_copy does not store the new object. *)
EndBuild_NotStored ==
  /\ Top.op \in {"create", "copy", "assign"}
  /\ Top.obj \in exists
  /\ heap' = [heap EXCEPT ![Top.obj] = "live"]
  /\ exists' = exists \cup {Top.to}
  /\ stack' = Popped
  /\ UNCHANGED data

(* A slip: m_copy stores dest in place of the new object. *)
EndBuild_Dest ==
  /\ Top.op \in {"create", "copy", "assign"}
  /\ Top.obj \in exists
  /\ heap' = [heap EXCEPT ![Top.obj] = "live"]
  /\ data' = [data EXCEPT ![Top.to] = Top.to]
  /\ exists' = exists \cup {Top.to}
  /\ stack' = Popped

EndBuild ==
  /\ Top.op \in {"create", "copy", "assign"}
  /\ Top.obj \in exists
  /\ heap' = [heap EXCEPT ![Top.obj] = "live"]
  /\ data' = [data EXCEPT ![Top.to] = Top.obj]
  /\ exists' = exists \cup {Top.to}
  /\ stack' = Popped

DestroyChild ==
  /\ Top.op \in {"release", "destroy"}
  /\ Top.obj \in exists
  /\ Destroy(Top.obj)

(* delete gives the memory back; ~Varient ends here, and operator= goes on.  *)
EndDestroy ==
  /\ Top.op = "destroy"
  /\ Top.obj \notin exists
  /\ heap' = [heap EXCEPT ![Top.obj] = "free"]
  /\ data' = [data EXCEPT ![Top.to] = NULL]
  /\ exists' = exists \ {Top.to}
  /\ stack' = Popped

(* A slip: operator= is left without taking the members of other.            *)
EndRelease_Early ==
  /\ Top.op = "release"
  /\ Top.obj \notin exists
  /\ heap' = [heap EXCEPT ![Top.obj] = "free"]
  /\ stack' = Popped
  /\ UNCHANGED <<exists, data>>

(* A slip: m_copy is written as an assignment, which releases first. *)
EndRelease_Again ==
  /\ Top.op = "release"
  /\ Top.obj \notin exists
  /\ TakeMembers(Top.to, Top.src, "release", [heap EXCEPT ![Top.obj] = "free"], Popped)

EndRelease ==
  /\ Top.op = "release"
  /\ Top.obj \notin exists
  /\ TakeMembers(Top.to, Top.src, "assign", [heap EXCEPT ![Top.obj] = "free"], Popped)

Return ==
  /\ stack # <<>>
  /\ \/ BuildChild \/ EndBuild
     \/ DestroyChild \/ EndDestroy
     \/ EndRelease

Next == Start \/ Return

Spec == Init /\ [][Next]_vars

(* Node's own code ends. *)
FairSpec == Spec /\ WF_vars(Return)

-----------------------------------------------------------------------------
(* Properties *)

(* Between calls the allocated Nodes are those in the trees of the client:   *)
(* deletion goes all the way down, and no ring of Nodes that own each other  *)
(* is cut off, of which each would have an owner.                            *)
Rooted ==
  stack = <<>> => Allocated = UNION {Below(v) : v \in Root \cap exists}

(* As long as operator= or m_copy has to read a Varient or a Node, it is     *)
(* there.                                                                    *)
SourceExists ==
  \A i \in 1 .. Len(stack) :
    /\ stack[i].src # NULL => stack[i].src \in exists
    /\ stack[i].read # NULL => heap[stack[i].read] = "live"

(* When a copy or an assignment returns to the client, the new tree has as   *)
(* many Nodes as the one it was copied from, and none of them.               *)
DeepCopy ==
  [][\A v, w \in Slot :
       stack # <<>> /\ stack' = <<>> /\ stack[1].to = v /\ stack[1].src = w =>
         /\ Cardinality(Below(v)') = Cardinality(Below(w)')
         /\ Below(v)' \cap Below(w)' = {}]_vars

(* A copy never reads what it is building: it takes one Node for each Node   *)
(* of the original, so that the memory that there was for it lasts to the    *)
(* end.                                                                      *)
MemoryLasts ==
  stack # <<>> /\ Top.op \in {"create", "copy", "assign"} /\ Top.obj \notin exists /\
  Top.read # NULL /\ Found(Top.read) # {NULL} =>
    Allocated # Obj

(* What is left to do in a call of the client.  A call that builds leaves    *)
(* fewer free addresses, fewer children unconstructed or fewer Nodes not yet *)
(* live; one that destroys leaves fewer Nodes, fewer children or fewer live  *)
(* Nodes.  operator= builds once, after it has destroyed.                    *)
Live == {o \in Obj : heap[o] = "live"}

ToBuild ==
  1 + Cardinality(Obj \ Allocated) + Cardinality(Obj \ exists) + Cardinality(Obj \ Live)

ToDestroy ==
  1 + Cardinality(Allocated) + Cardinality(Obj \cap exists) + Cardinality(Live)

Work ==
  CASE stack = <<>>               -> 0
    [] stack # <<>> /\ stack[1].op = "destroy" -> ToDestroy
    [] stack # <<>> /\ stack[1].op = "release" -> ToDestroy + 3 * Cardinality(Obj) + 1
    [] OTHER                      -> ToBuild

(* Each step of a call leaves less to do, until it returns: the recursion    *)
(* through m_copy and m_destructor ends in any tree.                         *)
CallsShrink == [][stack # <<>> => Work' < Work]_vars

(* Every call of the client returns, however deep the tree.                  *)
CallsReturn == stack # <<>> ~> stack = <<>>

-----------------------------------------------------------------------------
(* Varient, of which each root and each child is one: the operations of the  *)
(* class's code on children keep the client's rule.                          *)

NodeId ==
  [t \in {"value", "pointer", "pointer to const"} \X {Node} |->
     IF t[1] = "value" THEN 1 ELSE IF t[1] = "pointer" THEN 2 ELSE 3]

T == INSTANCE VarientTypes WITH
       Class <- {Node}, Ext <- {}, ClassOf <- << >>, Checked <- TRUE, TypeId <- NodeId

Calls(v)  == {call \in {stack[i] : i \in 1 .. Len(stack)} : call.to = v}
CallOn(v) == CHOOSE call \in Calls(v) : TRUE

members == [v \in Slot |-> IF data[v] = NULL THEN T!Empty ELSE T!OfValue(Node, data[v])]
pcs     == [v \in Slot |-> IF Calls(v) # {} THEN CallOn(v).op
                           ELSE IF v \in exists THEN "idle" ELSE "raw"]
sources == [v \in Slot |-> IF Calls(v) # {} THEN CallOn(v).src ELSE NULL]
objects == [v \in Slot |-> IF Calls(v) # {} /\ CallOn(v).op \in {"create", "copy", "assign"}
                           THEN CallOn(v).obj ELSE NULL]
cells   == [o \in Obj |->
              IF heap[o] = "free" THEN [phase |-> "free", cls |-> NULL, content |-> NULL]
              ELSE [phase |-> heap[o], cls |-> Node, content |-> "any"]]
objectCount == Cardinality({o \in Obj : heap[o] \in {"live", "dying"}})

Lower == INSTANCE Varient WITH
  Class <- {Node}, Ext <- {}, ClassOf <- << >>, Checked <- TRUE, TypeId <- NodeId,
  Content <- {"any"}, SelfAssign <- FALSE, MaxThrows <- 0, failed <- 0,
  member <- members, pc <- pcs, from <- sources, fresh <- objects, heap <- cells,
  living <- objectCount

(* Every behaviour of Varients in trees is one of Varient. *)
LowerSpec == Lower!Spec
=============================================================================
