------------------------- MODULE VarientTree_proofs -------------------------
(***************************************************************************)
(* Theorems about Varients in trees, for any number of Varients and heap   *)
(* addresses, and trees of any depth.                                      *)
(***************************************************************************)
EXTENDS VarientTree, SequenceTheorems, FiniteSetTheorems, WellFoundedInduction, TLAPS

-----------------------------------------------------------------------------
(* The stack of calls                                                        *)

LEMMA StackFacts ==
  ASSUME TypeOK
  PROVE  /\ Len(stack) \in Nat
         /\ \A i \in 1 .. Len(stack) : stack[i] \in Frame
         /\ stack # <<>> => /\ Len(stack) \in 1 .. Len(stack) /\ 1 \in 1 .. Len(stack)
                            /\ Top \in Frame
  BY DEF TypeOK, Top

LEMMA PushFacts ==
  ASSUME NEW s \in Seq(Frame), NEW f \in Frame, NEW t, t = Append(s, f)
  PROVE  /\ t \in Seq(Frame) /\ Len(t) = Len(s) + 1 /\ t # <<>>
         /\ t[Len(s) + 1] = f /\ \A i \in 1 .. Len(s) : t[i] = s[i]
         /\ s # <<>> => t[1] = s[1]
         /\ s = <<>> => t[1] = f /\ Len(t) = 1
  OBVIOUS

LEMMA FirstOf ==
  ASSUME NEW S, NEW s \in Seq(S), NEW k \in 0 .. Len(s)
  PROVE  /\ SubSeq(s, 1, k) \in Seq(S)
         /\ Len(SubSeq(s, 1, k)) = k
         /\ \A i \in 1 .. k : SubSeq(s, 1, k)[i] = s[i]
<1>1. Len(s) \in Nat /\ \A i \in 1 .. k : s[i] \in S
  BY LenProperties, ElementOfSeq
<1> QED
  BY <1>1, SubSeqProperties, Z3

LEMMA PopFacts ==
  ASSUME TypeOK, stack # <<>>
  PROVE  /\ Popped \in Seq(Frame) /\ Len(Popped) = Len(stack) - 1
         /\ \A i \in 1 .. Len(Popped) : Popped[i] = stack[i] /\ i \in 1 .. Len(stack)
<1>1. stack \in Seq(Frame) /\ Len(stack) \in Nat /\ Len(stack) # 0
  BY DEF TypeOK
<1>2. Len(stack) - 1 \in 0 .. Len(stack)
  BY <1>1
<1>3. /\ Popped \in Seq(Frame) /\ Len(Popped) = Len(stack) - 1
      /\ \A i \in 1 .. Len(stack) - 1 : Popped[i] = stack[i]
  BY <1>1, <1>2, FirstOf DEF Popped
<1>4. \A i \in 1 .. Len(stack) - 1 : i \in 1 .. Len(stack)
  BY <1>1
<1> QED
  BY <1>3, <1>4

LEMMA CallFacts ==
  ASSUME NEW op \in {"create", "copy", "assign", "release", "destroy"}, NEW v \in Slot,
         NEW w \in Slot \cup {NULL}, NEW o \in Obj, NEW d \in Obj \cup {NULL}
  PROVE  /\ Call(op, v, w, o, d) \in Frame
         /\ Call(op, v, w, o, d).op = op /\ Call(op, v, w, o, d).to = v
         /\ Call(op, v, w, o, d).src = w /\ Call(op, v, w, o, d).obj = o
         /\ Call(op, v, w, o, d).read = d
  BY DEF Call, Frame

-----------------------------------------------------------------------------
(* Types                                                                     *)

LEMMA TakeMembersTypes ==
  ASSUME TypeOK, NEW v \in Slot, NEW w \in Slot \cup {NULL}, NEW op \in {"copy", "assign"},
         NEW h \in [Obj -> {"free", "building", "live", "dying"}], NEW calls \in Seq(Frame),
         TakeMembers(v, w, op, h, calls)
  PROVE  TypeOK'
<1>1. PICK d \in Found(w) :
        /\ data' = [data EXCEPT ![v] = d]
        /\ \/ /\ d = NULL
              /\ heap' = h /\ exists' = exists \cup {v} /\ stack' = calls
           \/ /\ d # NULL
              /\ \E o \in Obj :
                   /\ h[o] = "free"
                   /\ heap' = [h EXCEPT ![o] = "building"]
                   /\ stack' = Append(calls, Call(op, v, w, o, d))
              /\ UNCHANGED exists
  BY DEF TakeMembers
<1>2. d \in Obj \cup {NULL}
  BY DEF Found, TypeOK
<1>3. data' \in [Slot -> Obj \cup {NULL}] /\ exists' \subseteq Slot
  BY <1>1, <1>2 DEF TypeOK
<1>4. CASE d = NULL
  BY <1>1, <1>3, <1>4 DEF TypeOK
<1>5. CASE d # NULL
  <2>1. PICK o \in Obj : /\ heap' = [h EXCEPT ![o] = "building"]
                         /\ stack' = Append(calls, Call(op, v, w, o, d))
    BY <1>1, <1>5
  <2>2. stack' \in Seq(Frame)
    BY <1>2, <2>1, CallFacts, PushFacts
  <2> QED
    BY <1>3, <2>1, <2>2 DEF TypeOK
<1> QED
  BY <1>4, <1>5

LEMMA CallDestructorTypes ==
  ASSUME TypeOK, NEW op \in {"release", "destroy"}, NEW v \in Slot, NEW w \in Slot \cup {NULL},
         data[v] # NULL, CallDestructor(op, v, w)
  PROVE  TypeOK'
<1>1. data[v] \in Obj
  BY DEF TypeOK
<1>2. heap' \in [Obj -> {"free", "building", "live", "dying"}]
  BY <1>1 DEF CallDestructor, TypeOK
<1>3. stack' \in Seq(Frame)
  BY <1>1, CallFacts, PushFacts DEF CallDestructor, TypeOK
<1> QED
  BY <1>2, <1>3 DEF CallDestructor, TypeOK

LEMMA DestroyTypes ==
  ASSUME TypeOK, NEW v \in Slot, Destroy(v)
  PROVE  TypeOK'
<1>1. CASE data[v] # NULL /\ CallDestructor("destroy", v, NULL)
  BY <1>1, CallDestructorTypes
<1>2. CASE data[v] = NULL /\ exists' = exists \ {v} /\ UNCHANGED <<data, heap, stack>>
  BY <1>2 DEF TypeOK
<1> QED
  BY <1>1, <1>2 DEF Destroy

LEMMA StartTypes == TypeOK /\ Start => TypeOK'
<1> SUFFICES ASSUME TypeOK, Start PROVE TypeOK'
  OBVIOUS
<1>1. exists \subseteq Slot /\ Root \subseteq Slot
      /\ heap \in [Obj -> {"free", "building", "live", "dying"}] /\ stack \in Seq(Frame)
  BY DEF TypeOK, Slot
<1>2. ASSUME NEW v \in Root \ exists, ConstructEmpty(v) PROVE TypeOK'
  BY <1>1, <1>2 DEF ConstructEmpty, TypeOK
<1>3. ASSUME NEW v \in Root \ exists, Create(v) PROVE TypeOK'
  <2>1. PICK o \in Obj : /\ heap' = [heap EXCEPT ![o] = "building"]
                         /\ data' = [data EXCEPT ![v] = o]
                         /\ stack' = <<Call("create", v, NULL, o, NULL)>>
                         /\ exists' = exists
    BY <1>3 DEF Create, Allocated
  <2>2. Call("create", v, NULL, o, NULL) \in Frame
    BY <1>1, CallFacts
  <2> QED
    BY <1>1, <2>1, <2>2 DEF TypeOK
<1>4. ASSUME NEW v \in Root \ exists, NEW w \in exists, Copy(v, w) PROVE TypeOK'
  BY <1>1, <1>4, TakeMembersTypes DEF Copy
<1>5. ASSUME NEW v \in Root \cap exists, Destroy(v) PROVE TypeOK'
  BY <1>1, <1>5, DestroyTypes
<1>6. ASSUME NEW v \in exists, NEW w \in exists, Assign(v, w) PROVE TypeOK'
  BY <1>1, <1>6, TakeMembersTypes, CallDestructorTypes DEF Assign
<1> QED
  BY <1>2, <1>3, <1>4, <1>5, <1>6 DEF Start

LEMMA ReturnTypes == TypeOK /\ Return => TypeOK'
<1> SUFFICES ASSUME TypeOK, Return PROVE TypeOK'
  OBVIOUS
<1>1. Top \in Frame /\ Popped \in Seq(Frame)
      /\ heap \in [Obj -> {"free", "building", "live", "dying"}] /\ stack \in Seq(Frame)
  BY StackFacts, PopFacts DEF TypeOK, Return
<1>2. /\ Top.to \in Slot /\ Top.src \in Slot \cup {NULL} /\ Top.obj \in Obj
      /\ Top.read \in Obj \cup {NULL} /\ Top.obj \in Slot /\ Top.read \in Slot \cup {NULL}
  BY <1>1 DEF Frame, Slot
<1>3. CASE BuildChild
  BY <1>1, <1>2, <1>3, TakeMembersTypes DEF BuildChild, ConstructEmpty, TypeOK
<1>4. CASE EndBuild
  BY <1>1, <1>2, <1>4 DEF EndBuild, TypeOK
<1>5. CASE DestroyChild
  BY <1>2, <1>5, DestroyTypes DEF DestroyChild
<1>6. CASE EndDestroy
  BY <1>1, <1>2, <1>6 DEF EndDestroy, TypeOK
<1>7. CASE EndRelease
  <2>1. [heap EXCEPT ![Top.obj] = "free"] \in [Obj -> {"free", "building", "live", "dying"}]
    BY <1>1
  <2> QED
    BY <1>1, <1>2, <1>7, <2>1, TakeMembersTypes DEF EndRelease
<1> QED
  BY <1>3, <1>4, <1>5, <1>6, <1>7 DEF Return

(* Every Varient's m_data, and every call of m_copy and m_destructor in      *)
(* progress, is as TypeOK says.                                              *)
THEOREM TreeTypes == Spec => []TypeOK
<1>1. Init => TypeOK
  BY DEF Init, TypeOK
<1>2. TypeOK /\ [Next]_vars => TypeOK'
  BY StartTypes, ReturnTypes DEF Next, vars, TypeOK
<1> QED
  BY <1>1, <1>2, PTL DEF Spec

-----------------------------------------------------------------------------
(* The invariant.  In the order of its conjuncts:                            *)
Builds(f) == f.op \in {"create", "copy", "assign"}

(* operator= has taken over the members of the source, not yet the object.   *)
Unfinished(v) == stack # <<>> /\ stack[1].op = "assign" /\ stack[1].to = v

Owners == {v \in exists : data[v] # NULL /\ ~Unfinished(v)}
Targets == {stack[i].to : i \in 1 .. Len(stack)}

(* Each call was made by the code of the Node that the call below it builds  *)
(* or destroys, for the child of that Node.                                  *)
Nested ==
  \A i \in 2 .. Len(stack) :
    /\ stack[i].to = stack[i - 1].obj
    /\ stack[i].op = IF Builds(stack[1]) THEN "copy" ELSE "destroy"

(* What a call that builds works on *)
Building(f) ==
  /\ heap[f.obj] = "building" /\ data[f.to] # NULL
  /\ f.to \in exists <=> f.op = "assign"
  /\ f.src # NULL => f.src \in exists
  /\ f.read # NULL => heap[f.read] = "live"

(* What a call that destroys works on *)
Destroying(f) ==
  /\ heap[f.obj] = "dying" /\ f.to \in exists /\ data[f.to] = f.obj
  /\ f.read = NULL
  /\ IF f.op = "release" THEN f.src \in exists ELSE f.src = NULL

InCall ==
  /\ \A i \in 1 .. Len(stack) :
       IF Builds(stack[i]) THEN Building(stack[i]) ELSE Destroying(stack[i])
  /\ stack # <<>> /\ stack[1].op \notin {"assign", "release"} => stack[1].to \in Root

(* The child of a live Node is there, that of free memory is not.            *)
Children ==
  \A o \in Obj :
    /\ heap[o] = "live" => o \in exists
    /\ heap[o] = "free" => o \notin exists

(* Each Varient owns a live Node, unless a call destroys that Node, and each *)
(* Node has one owner, unless a call builds or destroys it.                  *)
Held   == \A v \in Owners \ Targets : heap[data[v]] = "live"
Single == \A v, w \in Owners : data[v] = data[w] => v = w
Owned  ==
  \A o \in Obj :
    /\ heap[o] = "live" => \E v \in Owners : data[v] = o
    /\ heap[o] \in {"building", "dying"} => \E i \in 1 .. Len(stack) : stack[i].obj = o

(* Nodes lie deeper than their owners: there are no rings.                   *)
Deeper(depth) ==
  /\ \A v \in Owners : depth[v] < depth[data[v]]
  /\ \A j \in 1 .. Len(stack) : \A i \in 1 .. j : depth[stack[i].to] < depth[stack[j].obj]

Ranked == \E depth \in [Slot -> Nat] : Deeper(depth)

(* What operator= deletes and what it copies are apart.                      *)
Copied(S) ==
  /\ Closed(S) /\ stack[1].src \in S /\ stack[1].to \notin S
  /\ \A i \in 1 .. Len(stack) : Builds(stack[i]) => stack[i].read \in S

Deleted(R) ==
  /\ Closed(R)
  /\ \A i \in 1 .. Len(stack) : stack[i].to \in R /\ stack[i].obj \in R

Apart ==
  stack # <<>> /\ stack[1].op \in {"assign", "release"} =>
    \E S \in SUBSET exists :
      /\ Copied(S)
      /\ stack[1].op = "release" => \E R \in SUBSET Slot : Deleted(R) /\ R \cap S = {}

IInv ==
  TypeOK /\ Nested /\ InCall /\ Children /\ Held /\ Single /\ Owned /\ Ranked /\ Apart

-----------------------------------------------------------------------------
(* What follows from the invariant                                           *)

(* The calls in progress all build, or all destroy.                          *)
LEMMA Uniform ==
  ASSUME TypeOK, Nested, NEW i \in 1 .. Len(stack)
  PROVE  /\ Builds(stack[i]) <=> Builds(stack[1])
         /\ i # 1 => i \in 2 .. Len(stack) /\ stack[i].op \in {"copy", "destroy"}
         /\ ~Builds(stack[i]) => stack[i].op \in {"release", "destroy"}
<1>1. i # 1 => i \in 2 .. Len(stack)
  BY StackFacts
<1>2. ~Builds(stack[i]) => stack[i].op \in {"release", "destroy"}
  BY StackFacts DEF Frame, Builds
<1> QED
  BY <1>1, <1>2 DEF Nested, Builds

(* No Varient and no Node has two calls in progress on it.                   *)
LEMMA Distinct ==
  ASSUME TypeOK, Nested, Ranked,
         NEW i \in 1 .. Len(stack), NEW j \in 1 .. Len(stack), i <= j
  PROVE  /\ stack[i].to # stack[j].obj
         /\ i # j => stack[i].obj # stack[j].obj /\ stack[i].to # stack[j].to
<1>1. PICK depth \in [Slot -> Nat] : Deeper(depth)
  BY DEF Ranked
<1>2. \A k, l \in 1 .. Len(stack) : k <= l => stack[k].to # stack[l].obj
  <2> SUFFICES ASSUME NEW k \in 1 .. Len(stack), NEW l \in 1 .. Len(stack), k <= l
               PROVE  stack[k].to # stack[l].obj
    OBVIOUS
  <2>1. k \in 1 .. l
    OBVIOUS
  <2>2. depth[stack[k].to] < depth[stack[l].obj]
    BY <1>1, <2>1 DEF Deeper
  <2>3. depth[stack[k].to] \in Nat
    BY StackFacts DEF Frame
  <2> QED
    BY <2>2, <2>3
<1>3. ASSUME i # j
      PROVE  stack[i].obj # stack[j].obj /\ stack[i].to # stack[j].to
  <2>1. /\ i + 1 \in 2 .. Len(stack) /\ i + 1 \in 1 .. Len(stack) /\ i + 1 <= j
        /\ j - 1 \in 1 .. Len(stack) /\ i <= j - 1 /\ j \in 2 .. Len(stack) /\ (i + 1) - 1 = i
    BY <1>3, StackFacts
  <2>2. stack[i + 1].to = stack[i].obj /\ stack[j].to = stack[j - 1].obj
    BY <2>1 DEF Nested
  <2> QED
    BY <1>2, <2>1, <2>2
<1> QED
  BY <1>2, <1>3

(* The memory of a Varient that is constructed, assigned to or destroyed, is *)
(* not free.                                                                 *)
LEMMA TargetsUsed ==
  ASSUME TypeOK, Nested, InCall, Children, NEW i \in 1 .. Len(stack)
  PROVE  /\ stack[i].to \in Obj => heap[stack[i].to] # "free"
         /\ stack[i].to \in Obj /\ stack[i].op \notin {"assign", "release"} =>
              heap[stack[i].to] # "live"
         /\ heap[stack[i].obj] \in {"building", "dying"} /\ stack[i].obj \in Obj
<1>1. heap[stack[i].obj] \in {"building", "dying"} /\ stack[i].obj \in Obj
  BY StackFacts DEF InCall, Building, Destroying, Frame
<1>2. CASE stack[i].to \in exists /\ stack[i].op \in {"assign", "release"}
  BY <1>1, <1>2 DEF Children
<1>3. CASE i # 1
  <2>1. i \in 2 .. Len(stack) /\ i - 1 \in 1 .. Len(stack)
    BY <1>3, StackFacts
  <2>2. stack[i].to = stack[i - 1].obj
    BY <2>1 DEF Nested
  <2>3. heap[stack[i - 1].obj] \in {"building", "dying"}
    BY <2>1 DEF InCall, Building, Destroying
  <2> QED
    BY <1>1, <2>2, <2>3
<1>4. CASE i = 1 /\ stack[i].op \notin {"assign", "release"}
  <2>1. stack[1].to \in Root
    BY <1>4 DEF InCall
  <2> QED
    BY <1>1, <1>4, <2>1, TreeAssumption
<1>5. stack[i].op \in {"assign", "release"} => stack[i].to \in exists
  BY DEF InCall, Building, Destroying, Builds
<1> QED
  BY <1>2, <1>3, <1>4, <1>5

(* What an owner owns is live, or is dying by a call on that owner.          *)
LEMMA OwnersHold ==
  ASSUME TypeOK, Nested, InCall, Held, NEW v \in Owners
  PROVE  /\ data[v] \in Obj /\ heap[data[v]] \in {"live", "dying"}
         /\ v \in exists /\ v \in Slot /\ ~Unfinished(v)
         /\ v \in Targets => \E i \in 1 .. Len(stack) : stack[i].to = v /\ stack[i].obj = data[v]
<1>1. v \in exists /\ v \in Slot /\ data[v] \in Obj /\ ~Unfinished(v)
  BY DEF Owners, TypeOK
<1>2. CASE v \notin Targets
  BY <1>1, <1>2 DEF Held
<1>3. CASE v \in Targets
  <2>1. PICK i \in 1 .. Len(stack) : stack[i].to = v
    BY <1>3 DEF Targets
  <2>2. ~Builds(stack[i])
    <3>1. SUFFICES ASSUME Builds(stack[i]) PROVE FALSE
      OBVIOUS
    <3>2. stack[i].op = "assign"
      BY <1>1, <2>1, <3>1 DEF InCall, Building
    <3>3. i = 1 /\ stack # <<>>
      BY <3>2, Uniform, StackFacts
    <3> QED
      BY <1>1, <2>1, <3>2, <3>3 DEF Unfinished
  <2>3. heap[stack[i].obj] = "dying" /\ data[stack[i].to] = stack[i].obj
    BY <2>2 DEF InCall, Destroying
  <2> QED
    BY <1>1, <2>1, <2>3
<1> QED
  BY <1>1, <1>2, <1>3

-----------------------------------------------------------------------------
(* The steps, by what they do.  A Varient is constructed empty.              *)
LEMMA AppearInv ==
  ASSUME IInv, TypeOK', NEW v \in Slot, v \notin exists, v \notin Targets,
         v \in Obj => heap[v] = "building",
         exists' = exists \cup {v}, data' = [data EXCEPT ![v] = NULL],
         UNCHANGED <<heap, stack>>
  PROVE  IInv'
<1>1. /\ TypeOK /\ Nested /\ InCall /\ Children /\ Held /\ Single /\ Owned /\ Ranked /\ Apart
      /\ data'[v] = NULL /\ \A u \in Slot \ {v} : data'[u] = data[u]
      /\ heap' = heap /\ stack' = stack
  BY DEF IInv, TypeOK
<1>2. Owners' = Owners /\ Targets' = Targets /\ \A u \in Owners : data'[u] = data[u]
  <2>1. \A u : Unfinished(u)' <=> Unfinished(u)
    BY <1>1 DEF Unfinished
  <2>2. Targets' = Targets
    BY <1>1 DEF Targets
  <2>3. exists \subseteq Slot
    BY <1>1 DEF TypeOK
  <2> QED
    BY <1>1, <2>1, <2>2, <2>3 DEF Owners
<1>3. Nested'
  BY <1>1 DEF Nested, Builds
<1>4. InCall'
  <2>1. \A i \in 1 .. Len(stack) : stack[i].to # v /\ stack[i].to \in Slot
    BY <1>1, StackFacts DEF Targets, Frame
  <2>2. ASSUME NEW i \in 1 .. Len(stack), Builds(stack[i]) PROVE Building(stack[i])'
    BY <1>1, <2>1, <2>2 DEF InCall, Building
  <2>3. ASSUME NEW i \in 1 .. Len(stack), ~Builds(stack[i]) PROVE Destroying(stack[i])'
    BY <1>1, <2>1, <2>3 DEF InCall, Destroying
  <2> QED
    BY <1>1, <2>2, <2>3 DEF InCall, Builds
<1>5. Children'
  BY <1>1 DEF Children
<1>6. Held' /\ Single' /\ Owned'
  BY <1>1, <1>2 DEF Held, Single, Owned
<1>7. Ranked'
  BY <1>1, <1>2 DEF Ranked, Deeper
<1>8. Apart'
  <2>1. \A P : Closed(P) /\ P \subseteq Slot => Closed(P)'
    BY <1>1 DEF Closed
  <2>2. SUBSET exists \subseteq SUBSET exists' /\ SUBSET exists \subseteq SUBSET Slot
    BY <1>1 DEF TypeOK
  <2> QED
    BY <1>1, <2>1, <2>2 DEF Apart, Copied, Deleted, Builds
<1> QED
  BY <1>3, <1>4, <1>5, <1>6, <1>7, <1>8 DEF IInv

(* A Varient that is empty is destroyed.                                     *)
LEMMA VanishInv ==
  ASSUME IInv, TypeOK', NEW v \in exists, data[v] = NULL,
         \/ stack = <<>> /\ v \in Root
         \/ stack # <<>> /\ ~Builds(stack[1]) /\ v = Top.obj,
         exists' = exists \ {v}, UNCHANGED <<data, heap, stack>>
  PROVE  IInv'
<1>1. /\ TypeOK /\ Nested /\ InCall /\ Children /\ Held /\ Single /\ Owned /\ Ranked /\ Apart
      /\ data' = data /\ heap' = heap /\ stack' = stack
  BY DEF IInv
<1>2. Owners' = Owners /\ Targets' = Targets
  BY <1>1 DEF Owners, Unfinished, Targets
<1>3. Nested'
  BY <1>1 DEF Nested, Builds
<1>4. v \notin Targets
  <2>1. ASSUME NEW i \in 1 .. Len(stack) PROVE v # stack[i].to
    <3>1. stack # <<>> /\ Len(stack) \in 1 .. Len(stack) /\ i <= Len(stack)
      BY <1>1, StackFacts
    <3> QED
      BY <1>1, <3>1, Distinct DEF Top
  <2> QED
    BY <2>1 DEF Targets
<1>5. Apart' /\ (stack # <<>> /\ stack[1].op = "release" => v # stack[1].src)
  <2>1. ASSUME stack # <<>>, stack[1].op \in {"assign", "release"}
        PROVE  /\ stack[1].op = "release"
               /\ \E S \in SUBSET exists', R \in SUBSET Slot :
                    Copied(S) /\ Deleted(R) /\ R \cap S = {}
               /\ v # stack[1].src
    <3>1. stack[1].op = "release" /\ v = Top.obj
      BY <2>1 DEF Builds
    <3>2. PICK S \in SUBSET exists, R \in SUBSET Slot : Copied(S) /\ Deleted(R) /\ R \cap S = {}
      BY <1>1, <2>1, <3>1 DEF Apart
    <3>3. v \in R
      BY <1>1, <2>1, <3>1, <3>2, StackFacts DEF Deleted, Top
    <3>4. S \in SUBSET exists'
      BY <3>2, <3>3
    <3> QED
      BY <3>1, <3>2, <3>3, <3>4 DEF Copied
  <2> QED
    BY <1>1, <2>1 DEF Apart, Copied, Deleted, Closed, Builds
<1>6. InCall'
  <2>1. ASSUME NEW i \in 1 .. Len(stack)
        PROVE  IF Builds(stack[i]) THEN Building(stack[i])' ELSE Destroying(stack[i])'
    <3>1. stack[i].to # v
      BY <1>4 DEF Targets
    <3>2. stack # <<>> /\ ~Builds(stack[i])
      BY <1>1, Uniform, StackFacts
    <3>3. stack[i].op = "release" => i = 1
      BY <1>1, Uniform
    <3> QED
      BY <1>1, <1>5, <3>1, <3>2, <3>3 DEF InCall, Destroying
  <2> QED
    BY <1>1, <2>1 DEF InCall, Builds
<1>7. Children'
  <2>1. v \in Obj => heap[v] = "dying"
    <3>1. CASE stack = <<>>
      BY <3>1, TreeAssumption
    <3>2. CASE stack # <<>>
      <4>1. Len(stack) \in 1 .. Len(stack) /\ ~Builds(stack[Len(stack)])
        BY <1>1, <3>2, Uniform, StackFacts
      <4> QED
        BY <1>1, <3>2, <4>1 DEF InCall, Destroying, Top
    <3> QED
      BY <3>1, <3>2
  <2> QED
    BY <1>1, <2>1 DEF Children
<1>8. Held' /\ Single' /\ Owned'
  BY <1>1, <1>2 DEF Held, Single, Owned
<1>9. Ranked'
  BY <1>1, <1>2 DEF Ranked, Deeper
<1> QED
  BY <1>3, <1>5, <1>6, <1>7, <1>8, <1>9 DEF IInv

(* m_destructor is called, for a Varient that no call is in progress on.     *)
LEMMA EnterInv ==
  ASSUME IInv, TypeOK', NEW f \in Frame, f.op \in {"release", "destroy"},
         f.to \in exists, f.to \notin Targets, data[f.to] = f.obj, f.read = NULL,
         IF f.op = "release" THEN f.src \in exists ELSE f.src = NULL,
         \/ /\ stack = <<>> /\ f.op = "destroy" /\ f.to \in Root
         \/ /\ stack = <<>> /\ f.op = "release"
            /\ \E S \in SUBSET exists, R \in SUBSET Slot :
                 /\ Closed(S) /\ f.src \in S /\ f.to \notin S
                 /\ Closed(R) /\ f.to \in R /\ R \cap S = {}
         \/ /\ stack # <<>> /\ ~Builds(stack[1]) /\ f.op = "destroy" /\ f.to = Top.obj,
         heap' = [heap EXCEPT ![f.obj] = IF @ = "free" THEN @ ELSE "dying"],
         stack' = Append(stack, f), UNCHANGED <<exists, data>>
  PROVE  IInv'
<1> DEFINE n == Len(stack)
<1>1. /\ TypeOK /\ Nested /\ InCall /\ Children /\ Held /\ Single /\ Owned /\ Ranked /\ Apart
      /\ data' = data /\ exists' = exists /\ f.obj \in Obj /\ f.to \in Slot /\ ~Builds(f)
  BY DEF IInv, Frame, Builds
<1>2. /\ n \in Nat /\ Len(stack') = n + 1 /\ stack' # <<>>
      /\ stack'[n + 1] = f /\ \A i \in 1 .. n : stack'[i] = stack[i]
      /\ stack # <<>> => stack'[1] = stack[1] /\ n \in 1 .. n /\ 1 \in 1 .. n
      /\ stack = <<>> => stack'[1] = f /\ n = 0
  BY <1>1, PushFacts, StackFacts DEF TypeOK
<1>3. \A i \in 1 .. n + 1 : i \in 1 .. n \/ i = n + 1
  BY <1>2
<1>4. \A u : ~Unfinished(u) /\ ~Unfinished(u)'
  BY <1>2 DEF Unfinished, Builds
<1>5. Owners' = Owners /\ f.to \in Owners
  BY <1>1, <1>4, TreeAssumption DEF Owners
<1>6. Targets' = Targets \cup {f.to}
  <2>1. \A i \in 1 .. n : stack'[i].to = stack[i].to
    BY <1>2
  <2> QED
    BY <1>2, <1>3, <2>1 DEF Targets
<1>7. heap[f.obj] = "live"
  BY <1>1, <1>5 DEF Held
<1>8. /\ heap'[f.obj] = "dying" /\ \A o \in Obj \ {f.obj} : heap'[o] = heap[o]
  BY <1>1, <1>7 DEF TypeOK
<1>9. Nested'
  <2>1. ASSUME NEW i \in 2 .. n + 1
        PROVE  stack'[i].to = stack'[i - 1].obj /\ stack'[i].op = "destroy"
    <3>1. CASE i \in 2 .. n
      <4>1. i \in 1 .. n /\ i - 1 \in 1 .. n /\ stack # <<>>
        BY <1>2, <3>1
      <4> QED
        BY <1>1, <1>2, <3>1, <4>1 DEF Nested
    <3>2. CASE i = n + 1
      <4>1. n # 0 /\ i - 1 = n
        BY <1>2, <3>2
      <4> QED
        BY <1>2, <3>2, <4>1 DEF Top
    <3> QED
      BY <1>2, <3>1, <3>2
  <2> QED
    BY <1>1, <1>2, <2>1 DEF Nested, Builds
<1>10. InCall'
  <2>1. ASSUME NEW i \in 1 .. n
        PROVE  ~Builds(stack[i])' /\ Destroying(stack[i])'
    <3>1. ~Builds(stack[i])
      BY <1>1, <1>2, Uniform
    <3>2. Destroying(stack[i])
      BY <1>1, <3>1 DEF InCall
    <3>3. stack'[i] = stack[i] /\ stack[i].obj \in Obj
      BY <1>1, <1>2, StackFacts DEF Frame
    <3> QED
      BY <1>1, <1>8, <3>1, <3>2, <3>3 DEF Destroying, Builds
  <2>2. ASSUME NEW i \in 1 .. n + 1, i = n + 1
        PROVE  ~Builds(stack[i])' /\ Destroying(stack[i])'
    BY <1>1, <1>2, <1>8, <2>2 DEF Destroying, Builds
  <2>3. stack'[1].op \notin {"assign", "release"} => stack'[1].to \in Root
    BY <1>1, <1>2 DEF InCall
  <2>4. \A i \in 1 .. n + 1 : ~Builds(stack[i])' /\ Destroying(stack[i])'
    BY <1>3, <2>1, <2>2
  <2> QED
    BY <1>2, <2>3, <2>4 DEF InCall
<1>11. Children'
  BY <1>1, <1>7, <1>8 DEF Children
<1>12. Held' /\ Single'
  <2>1. ASSUME NEW u \in Owners, u \notin Targets, u # f.to PROVE heap'[data[u]] = "live"
    <3>1. data[u] # f.obj
      BY <1>1, <1>5, <2>1 DEF Single
    <3> QED
      BY <1>1, <1>8, <2>1, <3>1, OwnersHold DEF Held
  <2> QED
    BY <1>1, <1>5, <1>6, <2>1 DEF Held, Single
<1>13. Owned'
  <2>1. ASSUME NEW o \in Obj, heap'[o] \in {"building", "dying"}
        PROVE  \E i \in 1 .. n + 1 : stack'[i].obj = o
    <3>1. CASE o = f.obj
      BY <1>2, <3>1
    <3>2. CASE o # f.obj
      <4>1. PICK i \in 1 .. n : stack[i].obj = o
        BY <1>1, <1>8, <2>1, <3>2 DEF Owned
      <4>2. i \in 1 .. n + 1
        BY <1>2
      <4> QED
        BY <1>2, <4>1, <4>2
    <3> QED
      BY <3>1, <3>2
  <2>2. ASSUME NEW o \in Obj, heap'[o] = "live" PROVE \E u \in Owners : data[u] = o
    BY <1>1, <1>8, <2>2 DEF Owned
  <2> QED
    BY <1>1, <1>2, <1>5, <2>1, <2>2 DEF Owned
<1>14. Ranked'
  <2>1. PICK depth \in [Slot -> Nat] : Deeper(depth)
    BY <1>1 DEF Ranked
  <2>2. depth[f.to] < depth[f.obj]
    BY <1>1, <1>5, <2>1 DEF Deeper
  <2>3. ASSUME NEW j \in 1 .. n + 1, NEW i \in 1 .. j
        PROVE  depth[stack'[i].to] < depth[stack'[j].obj]
    <3>1. CASE j \in 1 .. n
      <4>1. i \in 1 .. n
        BY <1>2, <3>1
      <4> QED
        BY <1>2, <2>1, <3>1, <4>1 DEF Deeper
    <3>2. CASE j = n + 1 /\ i = n + 1
      BY <1>2, <2>2, <3>2
    <3>3. CASE j = n + 1 /\ i \in 1 .. n
      <4>1. n \in 1 .. n /\ stack # <<>>
        BY <1>2, <3>3
      <4>2. depth[stack[i].to] < depth[stack[n].obj] /\ stack[n].obj = f.to
        BY <1>2, <2>1, <3>3, <4>1 DEF Deeper, Top
      <4>3. depth[stack[i].to] \in Nat /\ depth[f.to] \in Nat /\ depth[f.obj] \in Nat
        BY <1>1, <2>1, <3>3, StackFacts DEF Frame, Slot
      <4>4. depth[stack[i].to] < depth[f.obj]
        BY <2>2, <4>2, <4>3
      <4> QED
        BY <1>2, <3>3, <4>4
    <3> QED
      BY <1>2, <1>3, <3>1, <3>2, <3>3
  <2>4. Deeper(depth)'
    BY <1>1, <1>2, <1>5, <2>1, <2>3 DEF Deeper
  <2> QED
    BY <2>1, <2>4 DEF Ranked
<1>15. Apart'
  <2>1. CASE stack = <<>> /\ f.op = "release"
    <3>1. PICK S \in SUBSET exists, R \in SUBSET Slot :
                 /\ Closed(S) /\ f.src \in S /\ f.to \notin S
                 /\ Closed(R) /\ f.to \in R /\ R \cap S = {}
      BY <2>1
    <3>2. f.obj \in R
      BY <1>1, <3>1, TreeAssumption DEF Closed
    <3>3. \A i \in 1 .. Len(stack') : stack'[i] = f
      BY <1>2, <2>1
    <3>4. Copied(S)'
      BY <1>1, <1>2, <2>1, <3>1, <3>3 DEF Copied, Closed, Builds
    <3>5. Deleted(R)'
      BY <1>1, <3>1, <3>2, <3>3 DEF Deleted, Closed
    <3> QED
      BY <1>1, <3>1, <3>4, <3>5 DEF Apart
  <2>2. CASE stack = <<>> /\ f.op = "destroy"
    BY <1>2, <2>2 DEF Apart
  <2>3. CASE stack # <<>>
    <3> SUFFICES ASSUME stack[1].op = "release"
                 PROVE  \E S \in SUBSET exists, R \in SUBSET Slot :
                          Copied(S)' /\ Deleted(R)' /\ R \cap S = {}
      BY <1>1, <1>2, <2>3 DEF Apart, Builds
    <3>1. PICK S \in SUBSET exists, R \in SUBSET Slot : Copied(S) /\ Deleted(R) /\ R \cap S = {}
      BY <1>1, <2>3 DEF Apart
    <3>2. f.to \in R /\ f.obj \in R
      BY <1>1, <1>2, <2>3, <3>1, TreeAssumption DEF Deleted, Closed, Top
    <3>3. \A i \in 1 .. n : ~Builds(stack[i])
      BY <1>1, <2>3, Uniform
    <3>4. Copied(S)'
      BY <1>1, <1>2, <1>3, <2>3, <3>1, <3>3 DEF Copied, Closed, Builds
    <3>5. Deleted(R)'
      BY <1>1, <1>2, <1>3, <2>3, <3>1, <3>2 DEF Deleted, Closed
    <3> QED
      BY <3>1, <3>4, <3>5
  <2> QED
    BY <1>1, <2>1, <2>2, <2>3
<1> QED
  BY <1>9, <1>10, <1>11, <1>12, <1>13, <1>14, <1>15 DEF IInv

(* new Node: memory is taken for the copy that a Varient is to own.          *)
LEMMA AllocateInv ==
  ASSUME IInv, TypeOK', NEW f \in Frame, NEW d, d # NULL, Builds(f), heap[f.obj] = "free",
         f.to \in exists => f.op = "assign" /\ data[f.to] = NULL,
         f.op = "assign" => f.to \in exists /\ stack = <<>>,
         f.src # NULL => f.src \in exists,
         f.read # NULL => heap[f.read] = "live",
         \/ stack = <<>> /\ f.op \in {"create", "copy"} /\ f.to \in Root
         \/ /\ stack = <<>> /\ f.op = "assign"
            /\ \E S \in SUBSET exists :
                 Closed(S) /\ f.src \in S /\ f.to \notin S /\ f.read \in S
         \/ /\ stack # <<>> /\ Builds(stack[1]) /\ f.op = "copy" /\ f.to = Top.obj
            /\ f.read = data[Top.read] /\ f.read # NULL,
         data' = [data EXCEPT ![f.to] = d],
         heap' = [heap EXCEPT ![f.obj] = "building"],
         stack' = Append(stack, f), UNCHANGED exists
  PROVE  IInv'
<1> DEFINE n == Len(stack)
<1>1. /\ TypeOK /\ Nested /\ InCall /\ Children /\ Held /\ Single /\ Owned /\ Ranked /\ Apart
      /\ exists' = exists /\ f.obj \in Obj /\ f.to \in Slot /\ exists \subseteq Slot
      /\ \A u \in Slot \ {f.to} : data'[u] = data[u]
      /\ heap'[f.obj] = "building" /\ \A o \in Obj \ {f.obj} : heap'[o] = heap[o]
  BY DEF IInv, Frame, TypeOK
<1>2. /\ n \in Nat /\ Len(stack') = n + 1 /\ stack' # <<>>
      /\ stack'[n + 1] = f /\ \A i \in 1 .. n : stack'[i] = stack[i]
      /\ stack # <<>> => stack'[1] = stack[1] /\ n \in 1 .. n /\ 1 \in 1 .. n
      /\ stack = <<>> => stack'[1] = f /\ n = 0
  BY <1>1, PushFacts, StackFacts DEF TypeOK
<1>3. \A i \in 1 .. n + 1 : i \in 1 .. n \/ i = n + 1
  BY <1>2
<1>4. /\ f.obj \notin exists /\ f.obj # f.to
      /\ \A i \in 1 .. n : f.obj # stack[i].to /\ f.obj # stack[i].obj
  <2>1. \A i \in 1 .. n : f.obj # stack[i].to /\ f.obj # stack[i].obj
    BY <1>1, TargetsUsed
  <2>2. f.obj \notin exists
    BY <1>1 DEF Children
  <2>3. stack # <<>> => Top.obj # f.obj
    BY <1>2, <2>1 DEF Top
  <2> QED
    BY <1>1, <2>1, <2>2, <2>3, TreeAssumption
<1>5. /\ Owners' = Owners /\ f.to \notin Owners
      /\ \A u \in Owners : /\ u \in Slot /\ u # f.obj /\ data'[u] = data[u]
                           /\ data[u] \in Obj /\ data[u] # f.obj
  <2>1. f.to \notin Owners
    BY DEF Owners
  <2>2. ASSUME NEW u \in Owners
        PROVE  u \in Slot /\ u # f.obj /\ data'[u] = data[u] /\ data[u] \in Obj /\ data[u] # f.obj
    BY <1>1, <1>4, <2>1, <2>2, OwnersHold
  <2>3. \A u : u # f.to => (Unfinished(u)' <=> Unfinished(u))
    BY <1>2 DEF Unfinished
  <2>4. f.to \in exists => Unfinished(f.to)'
    BY <1>2 DEF Unfinished
  <2>5. \A u \in exists : u # f.to => (u \in Owners' <=> u \in Owners)
    BY <1>1, <2>3 DEF Owners
  <2> QED
    BY <1>1, <2>1, <2>2, <2>4, <2>5 DEF Owners
<1>6. Targets' = Targets \cup {f.to}
  <2>1. \A i \in 1 .. n : stack'[i].to = stack[i].to
    BY <1>2
  <2> QED
    BY <1>2, <1>3, <2>1 DEF Targets
<1>7. Nested'
  <2>1. ASSUME NEW i \in 2 .. n + 1
        PROVE  /\ stack'[i].to = stack'[i - 1].obj
               /\ stack'[i].op = IF Builds(stack[1]) THEN "copy" ELSE "destroy"
    <3>1. CASE i \in 2 .. n
      <4>1. i \in 1 .. n /\ i - 1 \in 1 .. n /\ stack # <<>>
        BY <1>2, <3>1
      <4> QED
        BY <1>1, <1>2, <3>1, <4>1 DEF Nested
    <3>2. CASE i = n + 1
      <4>1. n # 0 /\ i - 1 = n
        BY <1>2, <3>2
      <4> QED
        BY <1>2, <3>2, <4>1 DEF Top
    <3> QED
      BY <1>2, <3>1, <3>2
  <2>2. CASE stack # <<>>
    BY <1>2, <2>1, <2>2 DEF Nested, Builds
  <2>3. CASE stack = <<>>
    <3>1. 2 .. n + 1 = {}
      BY <1>2, <2>3
    <3> QED
      BY <1>2, <3>1 DEF Nested
  <2> QED
    BY <2>2, <2>3
<1>8. InCall'
  <2>1. ASSUME NEW i \in 1 .. n
        PROVE  Builds(stack[i])' /\ Building(stack[i])'
    <3>1. Builds(stack[i])
      BY <1>1, <1>2, Uniform
    <3>2. Building(stack[i])
      BY <1>1, <3>1 DEF InCall
    <3>3. stack'[i] = stack[i] /\ stack[i].obj \in Obj /\ stack[i].read \in Obj \cup {NULL}
      BY <1>1, <1>2, StackFacts DEF Frame
    <3>4. stack[i].to \in Slot /\ stack[i].to # f.to
      <4>1. stack # <<>> /\ n \in 1 .. n /\ i <= n
        BY <1>2
      <4>2. stack[i].to # stack[n].obj
        BY <1>1, <4>1, Distinct
      <4> QED
        BY <1>1, <4>1, <4>2, StackFacts DEF Frame, Top
    <3> QED
      BY <1>1, <1>4, <3>1, <3>2, <3>3, <3>4 DEF Building, Builds
  <2>2. ASSUME NEW i \in 1 .. n + 1, i = n + 1
        PROVE  Builds(stack[i])' /\ Building(stack[i])'
    <3>1. f.read \in Obj \cup {NULL} /\ data'[f.to] = d
      BY <1>1 DEF Frame, TypeOK
    <3> QED
      BY <1>1, <1>2, <2>2, <3>1 DEF Building, Builds
  <2>3. stack'[1].op \notin {"assign", "release"} => stack'[1].to \in Root
    BY <1>1, <1>2 DEF InCall
  <2>4. \A i \in 1 .. n + 1 : Builds(stack[i])' /\ Building(stack[i])'
    BY <1>3, <2>1, <2>2
  <2> QED
    BY <1>2, <2>3, <2>4 DEF InCall
<1>9. Children'
  BY <1>1 DEF Children
<1>10. Held' /\ Single'
  BY <1>1, <1>5, <1>6 DEF Held, Single
<1>11. Owned'
  <2>1. ASSUME NEW o \in Obj, heap'[o] \in {"building", "dying"}
        PROVE  \E i \in 1 .. n + 1 : stack'[i].obj = o
    <3>1. CASE o = f.obj
      BY <1>2, <3>1
    <3>2. CASE o # f.obj
      <4>1. PICK i \in 1 .. n : stack[i].obj = o
        BY <1>1, <2>1, <3>2 DEF Owned
      <4>2. i \in 1 .. n + 1
        BY <1>2
      <4> QED
        BY <1>2, <4>1, <4>2
    <3> QED
      BY <3>1, <3>2
  <2>2. ASSUME NEW o \in Obj, heap'[o] = "live" PROVE \E u \in Owners : data'[u] = o
    BY <1>1, <1>5, <2>2 DEF Owned
  <2> QED
    BY <1>2, <1>5, <2>1, <2>2 DEF Owned
<1>12. Ranked'
  <2>1. PICK depth \in [Slot -> Nat] : Deeper(depth)
    BY <1>1 DEF Ranked
  <2> DEFINE below == [depth EXCEPT ![f.obj] = depth[f.to] + 1]
  <2>2. /\ below \in [Slot -> Nat] /\ below[f.obj] = depth[f.to] + 1
        /\ \A u \in Slot \ {f.obj} : below[u] = depth[u]
        /\ f.obj \in Slot /\ depth[f.to] \in Nat
    BY <1>1, <2>1 DEF Slot
  <2> HIDE DEF below
  <2>3. \A i \in 1 .. n : /\ below[stack[i].to] = depth[stack[i].to]
                          /\ below[stack[i].obj] = depth[stack[i].obj]
                          /\ depth[stack[i].to] \in Nat
    BY <1>1, <1>4, <2>1, <2>2, StackFacts DEF Frame, Slot
  <2>4. below[f.to] < below[f.obj]
    BY <1>1, <1>4, <2>2
  <2>5. ASSUME NEW j \in 1 .. n + 1, NEW i \in 1 .. j
        PROVE  below[stack'[i].to] < below[stack'[j].obj]
    <3>1. CASE j \in 1 .. n
      <4>1. i \in 1 .. n
        BY <1>2, <3>1
      <4> QED
        BY <1>2, <2>1, <2>3, <3>1, <4>1 DEF Deeper
    <3>2. CASE j = n + 1 /\ i = n + 1
      BY <1>2, <2>4, <3>2
    <3>3. CASE j = n + 1 /\ i \in 1 .. n
      <4>1. n \in 1 .. n /\ stack # <<>>
        BY <1>2, <3>3
      <4>2. depth[stack[i].to] < depth[stack[n].obj] /\ stack[n].obj = f.to
        BY <1>2, <2>1, <3>3, <4>1 DEF Deeper, Top
      <4>3. depth[stack[i].to] < depth[f.to] + 1
        BY <2>2, <2>3, <3>3, <4>2
      <4> QED
        BY <1>2, <2>2, <2>3, <3>3, <4>3
    <3> QED
      BY <1>2, <1>3, <3>1, <3>2, <3>3
  <2>6. \A u \in Owners : below[u] < below[data'[u]]
    <3> SUFFICES ASSUME NEW u \in Owners PROVE below[u] < below[data'[u]]
      OBVIOUS
    <3>1. data'[u] = data[u] /\ u \in Slot \ {f.obj} /\ data[u] \in Slot \ {f.obj}
      BY <1>5 DEF Slot
    <3> QED
      BY <2>1, <2>2, <3>1 DEF Deeper
  <2>7. Deeper(below)'
    BY <1>2, <1>5, <2>5, <2>6 DEF Deeper
  <2> QED
    BY <2>2, <2>7 DEF Ranked
<1>13. Apart'
  <2>1. CASE stack = <<>> /\ f.op = "assign"
    <3>1. PICK S \in SUBSET exists :
                 Closed(S) /\ f.src \in S /\ f.to \notin S /\ f.read \in S
      BY <2>1
    <3>2. \A i \in 1 .. Len(stack') : stack'[i] = f
      BY <1>2, <2>1
    <3>3. Closed(S)'
      BY <1>1, <3>1 DEF Closed
    <3>4. Copied(S)'
      BY <1>2, <2>1, <3>1, <3>2, <3>3 DEF Copied, Builds
    <3> QED
      BY <1>1, <1>2, <2>1, <3>1, <3>4 DEF Apart
  <2>2. CASE stack = <<>> /\ f.op \in {"create", "copy"}
    BY <1>2, <2>2 DEF Apart
  <2>3. CASE stack # <<>>
    <3> SUFFICES ASSUME stack[1].op = "assign"
                 PROVE  \E S \in SUBSET exists : Copied(S)'
      BY <1>1, <1>2, <2>3 DEF Apart, Builds
    <3>1. PICK S \in SUBSET exists : Copied(S)
      BY <1>1, <2>3 DEF Apart
    <3>2. f.to \notin S
      BY <2>3
    <3>3. f.read \in S
      <4>1. Builds(stack[n]) /\ n \in 1 .. n
        BY <1>1, <1>2, <2>3, Uniform
      <4> QED
        BY <2>3, <3>1, <4>1 DEF Copied, Closed, Top
    <3>4. Closed(S)'
      BY <1>1, <3>1, <3>2 DEF Copied, Closed
    <3>5. \A i \in 1 .. n + 1 : stack'[i].read \in S
      <4>1. \A i \in 1 .. n : Builds(stack[i])
        BY <1>1, <2>3, Uniform
      <4> QED
        BY <1>2, <1>3, <3>1, <3>3, <4>1 DEF Copied
    <3>6. Copied(S)'
      BY <1>2, <2>3, <3>1, <3>4, <3>5 DEF Copied
    <3> QED
      BY <3>1, <3>6
  <2> QED
    BY <1>1, <2>1, <2>2, <2>3
<1> QED
  BY <1>7, <1>8, <1>9, <1>10, <1>11, <1>12, <1>13 DEF IInv

(* The call on top returns: what there is of the others.                     *)
LEMMA Popping ==
  ASSUME TypeOK, Nested, Ranked, stack # <<>>, stack' = Popped
  PROVE  /\ Len(stack) \in 1 .. Len(stack) /\ Len(stack') = Len(stack) - 1
         /\ Targets' = Targets \ {Top.to} /\ Top.to # Top.obj
         /\ \A i \in 1 .. Len(stack') :
              /\ i \in 1 .. Len(stack) /\ stack'[i] = stack[i]
              /\ stack[i].to # Top.to /\ stack[i].to # Top.obj /\ stack[i].obj # Top.obj
         /\ \A i \in 1 .. Len(stack) : i \in 1 .. Len(stack') \/ stack[i] = Top
         /\ stack' # <<>> => /\ stack'[1] = stack[1] /\ 1 \in 1 .. Len(stack')
                             /\ Top.op \in {"copy", "destroy"} /\ Top.to # stack[1].to
         /\ Nested'
<1> DEFINE n == Len(stack)
<1>1. /\ n \in Nat \ {0} /\ n \in 1 .. n /\ Len(stack') = n - 1
      /\ \A i \in 1 .. n - 1 : stack'[i] = stack[i] /\ i \in 1 .. n /\ i <= n /\ i # n
      /\ \A i \in 1 .. n : i \in 1 .. n - 1 \/ i = n
      /\ stack' \in Seq(Frame)
  BY PopFacts, StackFacts
<1>2. Top = stack[n] /\ Top.to # Top.obj
  BY <1>1, Distinct DEF Top
<1>3. \A i \in 1 .. n - 1 : stack[i].to # Top.to /\ stack[i].to # Top.obj /\ stack[i].obj # Top.obj
  BY <1>1, <1>2, Distinct
<1>4. Targets' = Targets \ {Top.to}
  <2>1. Targets' = {stack'[i].to : i \in 1 .. n - 1}
    BY <1>1 DEF Targets
  <2>2. \A i \in 1 .. n - 1 : stack'[i].to = stack[i].to /\ i \in 1 .. n
    BY <1>1
  <2>3. ASSUME NEW u \in Targets' PROVE u \in Targets \ {Top.to}
    <3>1. PICK i \in 1 .. n - 1 : stack'[i].to = u
      BY <2>1
    <3>2. stack[i].to = u /\ i \in 1 .. n
      BY <2>2, <3>1
    <3> QED
      BY <1>3, <3>2 DEF Targets
  <2>4. ASSUME NEW u \in Targets, u # Top.to PROVE u \in Targets'
    <3>1. PICK i \in 1 .. n : stack[i].to = u
      BY <2>4 DEF Targets
    <3>2. i \in 1 .. n - 1
      BY <1>1, <1>2, <2>4, <3>1
    <3> QED
      BY <2>1, <2>2, <3>1, <3>2
  <2> QED
    BY <2>3, <2>4
<1>5. stack' # <<>> => /\ stack'[1] = stack[1] /\ 1 \in 1 .. n - 1
                       /\ Top.op \in {"copy", "destroy"} /\ Top.to # stack[1].to
  <2> SUFFICES ASSUME stack' # <<>>
               PROVE  /\ stack'[1] = stack[1] /\ 1 \in 1 .. n - 1
                      /\ Top.op \in {"copy", "destroy"} /\ Top.to # stack[1].to
    OBVIOUS
  <2>1. n - 1 # 0
    BY <1>1
  <2>2. 1 \in 1 .. n - 1 /\ n # 1
    BY <1>1, <2>1
  <2> QED
    BY <1>1, <1>2, <1>3, <2>2, Uniform
<1>6. Nested'
  <2>1. ASSUME NEW i \in 2 .. n - 1
        PROVE  /\ stack'[i].to = stack'[i - 1].obj
               /\ stack'[i].op = IF Builds(stack[1]) THEN "copy" ELSE "destroy"
    <3>1. i \in 1 .. n - 1 /\ i - 1 \in 1 .. n - 1 /\ i \in 2 .. n
      BY <1>1
    <3> QED
      BY <1>1, <3>1 DEF Nested
  <2>2. CASE stack' # <<>>
    BY <1>1, <1>5, <2>1, <2>2 DEF Nested, Builds
  <2>3. CASE stack' = <<>>
    <3>1. n - 1 = 0
      BY <1>1, <2>3
    <3>2. 2 .. n - 1 = {}
      BY <3>1
    <3> QED
      BY <1>1, <3>2 DEF Nested
  <2> QED
    BY <2>2, <2>3
<1> QED
  BY <1>1, <1>2, <1>3, <1>4, <1>5, <1>6

(* m_copy returns, and the Varient has its object.                           *)
LEMMA EndBuildInv ==
  ASSUME IInv, TypeOK', stack # <<>>, EndBuild
  PROVE  IInv'
<1> DEFINE n == Len(stack)
<1>1. /\ TypeOK /\ Nested /\ InCall /\ Children /\ Held /\ Single /\ Owned /\ Ranked /\ Apart
      /\ Top.obj \in exists /\ exists' = exists \cup {Top.to}
      /\ Top.obj \in Obj /\ Top.to \in Slot /\ stack' = Popped /\ exists \subseteq Slot
      /\ data'[Top.to] = Top.obj /\ \A u \in Slot \ {Top.to} : data'[u] = data[u]
      /\ heap'[Top.obj] = "live" /\ \A o \in Obj \ {Top.obj} : heap'[o] = heap[o]
  BY StackFacts DEF IInv, EndBuild, TypeOK, Frame
<1>2. /\ n \in 1 .. n /\ Len(stack') = n - 1
      /\ Targets' = Targets \ {Top.to} /\ Top.to # Top.obj
      /\ \A i \in 1 .. n - 1 :
           /\ i \in 1 .. n /\ stack'[i] = stack[i]
           /\ stack[i].to # Top.to /\ stack[i].to # Top.obj /\ stack[i].obj # Top.obj
      /\ \A i \in 1 .. n : i \in 1 .. n - 1 \/ stack[i] = Top
      /\ stack' # <<>> => /\ stack'[1] = stack[1] /\ 1 \in 1 .. n - 1
                          /\ Top.op \in {"copy", "destroy"} /\ Top.to # stack[1].to
      /\ Nested'
  BY <1>1, Popping
<1>3. /\ Builds(Top) /\ Building(Top)
      /\ \A i \in 1 .. n : Builds(stack[i]) /\ Building(stack[i])
  <2>1. Builds(Top) /\ Top = stack[n]
    BY DEF EndBuild, Builds, Top
  <2>2. \A i \in 1 .. n : Builds(stack[i])
    BY <1>1, <1>2, <2>1, Uniform
  <2> QED
    BY <1>1, <1>2, <2>1, <2>2 DEF InCall
<1>4. /\ Top.to \notin Owners
      /\ \A u \in Owners : /\ u \in Slot \ {Top.to} /\ data[u] \in Obj \ {Top.obj}
                           /\ data'[u] = data[u] /\ u \in exists
  <2>1. Top.to \notin Owners
    <3>1. CASE Top.op = "assign"
      <4>1. n = 1
        BY <1>1, <1>2, <3>1, Uniform DEF Top
      <4>2. Unfinished(Top.to)
        BY <3>1, <4>1 DEF Unfinished, Top
      <4> QED
        BY <4>2 DEF Owners
    <3>2. CASE Top.op # "assign"
      BY <1>3, <3>2 DEF Building, Owners
    <3> QED
      BY <3>1, <3>2
  <2>2. heap[Top.obj] = "building"
    BY <1>3 DEF Building
  <2> QED
    BY <1>1, <2>1, <2>2, OwnersHold
<1>5. Owners' = Owners \cup {Top.to}
  <2>1. \A u : u = Top.to => ~Unfinished(u)'
    BY <1>2 DEF Unfinished
  <2>2. ASSUME NEW u, u # Top.to PROVE Unfinished(u)' <=> Unfinished(u)
    <3>1. CASE stack' = <<>>
      <4>1. n = 1
        <5>1. n - 1 = 0 /\ n \in Nat
          BY <1>1, <1>2, <3>1, StackFacts
        <5> QED
          BY <5>1
      <4> QED
        BY <2>2, <3>1, <4>1 DEF Unfinished, Top
    <3>2. CASE stack' # <<>>
      BY <1>2, <3>2 DEF Unfinished
    <3> QED
      BY <3>1, <3>2
  <2>3. Top.to \in Owners'
    BY <1>1, <2>1, TreeAssumption DEF Owners
  <2>4. \A u \in exists : u # Top.to => (u \in Owners' <=> u \in Owners)
    BY <1>1, <2>2 DEF Owners
  <2>5. Owners' \subseteq exists \cup {Top.to} /\ Owners \subseteq exists
    BY <1>1 DEF Owners
  <2> QED
    BY <2>3, <2>4, <2>5
<1>6. InCall'
  <2>1. ASSUME NEW i \in 1 .. n - 1
        PROVE  Builds(stack[i])' /\ Building(stack[i])'
    <3>1. /\ stack'[i] = stack[i] /\ stack[i].obj \in Obj /\ stack[i].read \in Obj \cup {NULL}
          /\ Builds(stack[i]) /\ Building(stack[i])
          /\ stack[i].to \in Slot /\ stack[i].to # Top.to
      BY <1>1, <1>2, <1>3, StackFacts DEF Frame
    <3>2. /\ data'[stack[i].to] = data[stack[i].to]
          /\ stack[i].to \in exists' <=> stack[i].to \in exists
          /\ exists \subseteq exists'
      BY <1>1, <3>1
    <3>3. stack[i].obj # Top.obj /\ \A o \in Obj : heap[o] = "live" => heap'[o] = "live"
      BY <1>1, <1>2
    <3>4. heap'[stack[i].obj] = "building"
      BY <1>1, <3>1, <3>3 DEF Building
    <3>5. (stack[i].src # NULL => stack[i].src \in exists')
          /\ (stack[i].read # NULL => heap'[stack[i].read] = "live")
      BY <3>1, <3>2, <3>3 DEF Building
    <3> QED
      BY <3>1, <3>2, <3>4, <3>5 DEF Building, Builds
  <2>2. stack' # <<>> /\ stack'[1].op \notin {"assign", "release"} => stack'[1].to \in Root
    BY <1>1, <1>2 DEF InCall
  <2> QED
    BY <1>2, <2>1, <2>2 DEF InCall
<1>7. Children'
  BY <1>1, <1>2, TargetsUsed DEF Children, Top
<1>8. Held' /\ Single'
  BY <1>1, <1>2, <1>4, <1>5 DEF Held, Single
<1>9. Owned'
  <2>1. ASSUME NEW o \in Obj, heap'[o] = "live" PROVE \E u \in Owners' : data'[u] = o
    <3>1. CASE o = Top.obj
      BY <1>1, <1>5, <3>1
    <3>2. CASE o # Top.obj
      BY <1>1, <1>4, <1>5, <2>1, <3>2 DEF Owned
    <3> QED
      BY <3>1, <3>2
  <2>2. ASSUME NEW o \in Obj, heap'[o] \in {"building", "dying"}
        PROVE  \E i \in 1 .. n - 1 : stack'[i].obj = o
    <3>1. PICK i \in 1 .. n : stack[i].obj = o
      BY <1>1, <2>2 DEF Owned
    <3>2. o # Top.obj
      BY <1>1, <2>2
    <3> QED
      BY <1>2, <3>1, <3>2
  <2> QED
    BY <1>2, <2>1, <2>2 DEF Owned
<1>10. Ranked'
  <2>1. PICK depth \in [Slot -> Nat] : Deeper(depth)
    BY <1>1 DEF Ranked
  <2>2. depth[Top.to] < depth[Top.obj]
    <3>1. n \in 1 .. n /\ stack[n] = Top
      BY <1>2 DEF Top
    <3> QED
      BY <2>1, <3>1 DEF Deeper
  <2>3. \A j \in 1 .. n - 1 : \A i \in 1 .. j : depth[stack'[i].to] < depth[stack'[j].obj]
    <3>1. \A j \in 1 .. n - 1 : \A i \in 1 .. j : i \in 1 .. n - 1
      BY <1>1, StackFacts
    <3> QED
      BY <1>2, <2>1, <3>1 DEF Deeper
  <2>4. \A u \in Owners' : depth[u] < depth[data'[u]]
    BY <1>1, <1>4, <1>5, <2>1, <2>2 DEF Deeper
  <2> QED
    BY <1>2, <2>1, <2>3, <2>4 DEF Ranked, Deeper
<1>11. Apart'
  <2> SUFFICES ASSUME stack' # <<>>, stack'[1].op \in {"assign", "release"}
               PROVE  stack'[1].op = "assign" /\ \E S \in SUBSET exists' : Copied(S)'
    BY DEF Apart
  <2>1. stack[1].op = "assign"
    BY <1>2, <1>3 DEF Builds
  <2>2. PICK S \in SUBSET exists : Copied(S)
    BY <1>1, <2>1 DEF Apart
  <2>3. Top.to \notin S
    BY <1>2, <1>3 DEF Building
  <2>4. Closed(S)'
    BY <1>1, <2>2, <2>3 DEF Copied, Closed
  <2>5. Copied(S)'
    BY <1>2, <2>2, <2>4 DEF Copied, Builds
  <2> QED
    BY <1>1, <1>2, <2>1, <2>2, <2>5
<1> QED
  BY <1>2, <1>6, <1>7, <1>8, <1>9, <1>10, <1>11 DEF IInv

(* delete returns, and the Varient is gone with its object.                  *)
LEMMA EndDestroyInv ==
  ASSUME IInv, TypeOK', stack # <<>>, EndDestroy
  PROVE  IInv'
<1> DEFINE n == Len(stack)
<1>1. /\ TypeOK /\ Nested /\ InCall /\ Children /\ Held /\ Single /\ Owned /\ Ranked /\ Apart
      /\ Top.op = "destroy" /\ Top.obj \notin exists /\ exists' = exists \ {Top.to}
      /\ Top.obj \in Obj /\ Top.to \in Slot /\ stack' = Popped /\ exists \subseteq Slot
      /\ data'[Top.to] = NULL /\ \A u \in Slot \ {Top.to} : data'[u] = data[u]
      /\ heap'[Top.obj] = "free" /\ \A o \in Obj \ {Top.obj} : heap'[o] = heap[o]
  BY StackFacts DEF IInv, EndDestroy, TypeOK, Frame
<1>2. /\ n \in 1 .. n /\ Len(stack') = n - 1
      /\ Targets' = Targets \ {Top.to} /\ Top.to # Top.obj
      /\ \A i \in 1 .. n - 1 :
           /\ i \in 1 .. n /\ stack'[i] = stack[i]
           /\ stack[i].to # Top.to /\ stack[i].to # Top.obj /\ stack[i].obj # Top.obj
      /\ \A i \in 1 .. n : i \in 1 .. n - 1 \/ stack[i] = Top
      /\ stack' # <<>> => /\ stack'[1] = stack[1] /\ 1 \in 1 .. n - 1
                          /\ Top.op \in {"copy", "destroy"} /\ Top.to # stack[1].to
      /\ Nested'
  BY <1>1, Popping
<1>3. /\ Destroying(Top)
      /\ \A i \in 1 .. n : ~Builds(stack[i]) /\ Destroying(stack[i])
  <2>1. ~Builds(Top) /\ Top = stack[n]
    BY <1>1 DEF Builds, Top
  <2>2. \A i \in 1 .. n : ~Builds(stack[i])
    BY <1>1, <1>2, <2>1, Uniform
  <2> QED
    BY <1>1, <1>2, <2>1, <2>2 DEF InCall
<1>4. Owners' = Owners \ {Top.to} /\ \A u \in Owners : data[u] \in Obj /\ u \in Slot
  <2>1. \A u : ~Unfinished(u) /\ ~Unfinished(u)'
    <3>1. ~Builds(stack[1])
      BY <1>1, <1>2, <1>3, Uniform
    <3> QED
      BY <1>2, <3>1 DEF Unfinished, Builds
  <2> QED
    BY <1>1, <2>1, OwnersHold DEF Owners
<1>5. Apart' /\ (stack' # <<>> /\ stack[1].op = "release" => Top.to # stack[1].src)
  <2>1. ASSUME stack' # <<>>, stack[1].op \in {"assign", "release"}
        PROVE  /\ \E S \in SUBSET exists', R \in SUBSET Slot :
                    Copied(S)' /\ Deleted(R)' /\ R \cap S = {}
               /\ Top.to # stack[1].src
    <3>1. stack[1].op = "release" /\ 1 \in 1 .. n
      BY <1>2, <1>3, <2>1 DEF Builds
    <3>2. PICK S \in SUBSET exists, R \in SUBSET Slot : Copied(S) /\ Deleted(R) /\ R \cap S = {}
      BY <1>1, <2>1, <3>1 DEF Apart
    <3>3. Top.to \in R /\ Top.to \notin S
      BY <1>2, <3>2 DEF Deleted, Top
    <3>4. S \in SUBSET exists'
      BY <1>1, <3>3
    <3>5. Closed(S)' /\ Closed(R)'
      BY <1>1, <3>2, <3>3 DEF Copied, Deleted, Closed
    <3>6. Copied(S)'
      BY <1>2, <1>3, <2>1, <3>2, <3>5 DEF Copied, Builds
    <3>7. Deleted(R)'
      BY <1>2, <3>2, <3>5 DEF Deleted
    <3> QED
      BY <3>2, <3>3, <3>4, <3>6, <3>7 DEF Copied
  <2> QED
    BY <1>2, <2>1 DEF Apart
<1>6. InCall'
  <2>1. ASSUME NEW i \in 1 .. n - 1
        PROVE  ~Builds(stack[i])' /\ Destroying(stack[i])'
    <3>1. /\ stack'[i] = stack[i] /\ stack[i].obj \in Obj /\ stack[i].to \in Slot
          /\ ~Builds(stack[i]) /\ Destroying(stack[i])
      BY <1>1, <1>2, <1>3, StackFacts DEF Frame
    <3>2. stack[i].op = "release" => stack[i].src # Top.to
      <4>1. stack' # <<>>
        <5>1. Len(stack') # 0
          BY <1>1, <1>2, StackFacts
        <5> QED
          BY <5>1
      <4>2. stack[i].op = "release" => i = 1
        BY <1>1, <1>2, Uniform
      <4> QED
        BY <1>5, <4>1, <4>2
    <3> QED
      BY <1>1, <1>2, <3>1, <3>2 DEF Destroying, Builds
  <2>2. stack' # <<>> /\ stack'[1].op \notin {"assign", "release"} => stack'[1].to \in Root
    BY <1>1, <1>2 DEF InCall
  <2> QED
    BY <1>2, <2>1, <2>2 DEF InCall
<1>7. Children'
  <2>1. Top.to \in Obj => heap[Top.to] # "live"
    BY <1>1, <1>2, TargetsUsed DEF Top
  <2> QED
    BY <1>1, <1>2, <2>1 DEF Children
<1>8. data[Top.to] = Top.obj /\ heap[Top.obj] = "dying"
  BY <1>3 DEF Destroying
<1>9. Held' /\ Single'
  BY <1>1, <1>2, <1>4, <1>8 DEF Held, Single
<1>10. Owned'
  <2>1. ASSUME NEW o \in Obj, heap'[o] = "live" PROVE \E u \in Owners' : data'[u] = o
    BY <1>1, <1>4, <1>8, <2>1 DEF Owned
  <2>2. ASSUME NEW o \in Obj, heap'[o] \in {"building", "dying"}
        PROVE  \E i \in 1 .. n - 1 : stack'[i].obj = o
    <3>1. PICK i \in 1 .. n : stack[i].obj = o
      BY <1>1, <2>2 DEF Owned
    <3>2. o # Top.obj
      BY <1>1, <2>2
    <3> QED
      BY <1>2, <3>1, <3>2
  <2> QED
    BY <1>2, <2>1, <2>2 DEF Owned
<1>11. Ranked'
  <2>1. PICK depth \in [Slot -> Nat] : Deeper(depth)
    BY <1>1 DEF Ranked
  <2>2. \A j \in 1 .. n - 1 : \A i \in 1 .. j : depth[stack'[i].to] < depth[stack'[j].obj]
    <3>1. \A j \in 1 .. n - 1 : \A i \in 1 .. j : i \in 1 .. n - 1
      BY <1>1, StackFacts
    <3> QED
      BY <1>2, <2>1, <3>1 DEF Deeper
  <2>3. \A u \in Owners' : depth[u] < depth[data'[u]]
    BY <1>1, <1>4, <2>1 DEF Deeper
  <2> QED
    BY <1>2, <2>1, <2>2, <2>3 DEF Ranked, Deeper
<1> QED
  BY <1>2, <1>5, <1>6, <1>7, <1>9, <1>10, <1>11 DEF IInv

(* When operator= goes on, no other call is in progress.                     *)
LEMMA ReleaseAlone ==
  ASSUME IInv, stack # <<>>, Top.op = "release"
  PROVE  /\ Len(stack) = 1 /\ stack[1] = Top /\ ~Builds(Top)
         /\ Popped \in Seq(Frame) /\ Len(Popped) = 0 /\ Popped = <<>>
         /\ Top.src \in exists /\ Top.to \in exists /\ Top.src # Top.to
         /\ data[Top.to] = Top.obj /\ heap[Top.obj] = "dying"
         /\ \E S \in SUBSET exists : Closed(S) /\ Top.src \in S /\ Top.to \notin S
<1>1. TypeOK /\ Nested /\ InCall /\ Apart
  BY DEF IInv
<1>2. /\ Len(stack) = 1 /\ stack[1] = Top /\ ~Builds(Top) /\ Destroying(Top)
      /\ Popped \in Seq(Frame) /\ Len(Popped) = 0 /\ Popped = <<>>
  <2>1. Len(stack) \in 1 .. Len(stack) /\ Len(stack) \in Nat /\ stack[Len(stack)].op = "release"
    BY <1>1, StackFacts DEF Top
  <2>2. Len(stack) = 1
    BY <1>1, <2>1, Uniform
  <2>3. ~Builds(Top) /\ Destroying(Top)
    BY <1>1, <2>1, <2>2 DEF Builds, InCall, Top
  <2>4. Popped \in Seq(Frame) /\ Len(Popped) = 0
    BY <1>1, <2>2, PopFacts
  <2> QED
    BY <2>2, <2>3, <2>4 DEF Top
<1>3. \E S \in SUBSET exists : Copied(S)
  BY <1>1, <1>2 DEF Apart
<1> QED
  BY <1>2, <1>3 DEF Destroying, Copied

(* operator= has released the Node of its own; it takes over the members of  *)
(* the source.                                                               *)
LEMMA EndReleaseInv ==
  ASSUME IInv, TypeOK', stack # <<>>, EndRelease
  PROVE  IInv'
<1>1. /\ TypeOK /\ Nested /\ InCall /\ Children /\ Held /\ Single /\ Owned /\ Ranked /\ Apart
      /\ Top.op = "release" /\ Top.obj \notin exists /\ exists \subseteq Slot
      /\ Top.obj \in Obj /\ Top.to \in Slot
  BY StackFacts DEF IInv, EndRelease, TypeOK, Frame
<1>2. /\ Len(stack) = 1 /\ stack[1] = Top /\ ~Builds(Top)
      /\ Popped \in Seq(Frame) /\ Len(Popped) = 0 /\ Popped = <<>>
  BY <1>1, ReleaseAlone
<1>3. /\ Top.src \in exists /\ Top.to \in exists /\ Top.src # Top.to
      /\ data[Top.to] = Top.obj /\ heap[Top.obj] = "dying"
      /\ \E S \in SUBSET exists : Closed(S) /\ Top.src \in S /\ Top.to \notin S
  BY <1>1, ReleaseAlone
<1>4. PICK v \in Slot : v = Top.to
  BY <1>1
<1>5. PICK w \in Slot : w = Top.src
  BY <1>1, <1>3
<1>6. PICK b \in Obj : b = Top.obj
  BY <1>1
<1>7. /\ Targets = {v} /\ \A u : ~Unfinished(u)
      /\ \A u \in Owners \ {v} : /\ u \in exists /\ u \in Slot /\ data[u] \in Obj
                                 /\ heap[data[u]] = "live" /\ data[u] # b /\ data[u] # NULL
  <2>1. Targets = {v}
    BY <1>2, <1>4 DEF Targets
  <2>2. \A u : ~Unfinished(u)
    BY <1>1, <1>2 DEF Unfinished
  <2> QED
    BY <1>1, <1>3, <1>6, <2>1, <2>2, TreeAssumption DEF Held, Owners, TypeOK
<1>8. \A o \in Obj : heap[o] \in {"building", "dying"} => o = b
  BY <1>1, <1>2, <1>6 DEF Owned
<1> DEFINE h == [heap EXCEPT ![b] = "free"]
<1>0. /\ data' = [data EXCEPT ![v] = data[w]]
      /\ \/ data[w] = NULL /\ heap' = h /\ exists' = exists \cup {v} /\ stack' = <<>>
         \/ /\ data[w] # NULL /\ exists' = exists
            /\ \E o \in Obj :
                 /\ h[o] = "free" /\ heap' = [h EXCEPT ![o] = "building"]
                 /\ stack' = Append(<<>>, Call("assign", v, w, o, data[w]))
  <2>1. TakeMembers(v, w, "assign", h, <<>>)
    BY <1>2, <1>4, <1>5, <1>6 DEF EndRelease
  <2>2. Found(w) = {data[w]}
    BY <1>3, <1>5 DEF Found
  <2> HIDE DEF h
  <2> QED
    BY <2>1, <2>2 DEF TakeMembers
<1>9. CASE data[w] = NULL
  <2>1. /\ exists' = exists /\ stack' = <<>> /\ Len(stack') = 0
        /\ data'[v] = NULL /\ \A u \in Slot \ {v} : data'[u] = data[u]
        /\ heap'[b] = "free" /\ \A o \in Obj \ {b} : heap'[o] = heap[o]
    <3>1. exists' = exists /\ stack' = <<>> /\ heap' = h /\ data' = [data EXCEPT ![v] = data[w]]
      <4> HIDE DEF h
      <4> QED
        BY <1>0, <1>3, <1>4, <1>9
    <3>2. data'[v] = NULL /\ \A u \in Slot \ {v} : data'[u] = data[u]
      BY <1>1, <1>9, <3>1 DEF TypeOK
    <3>3. heap'[b] = "free" /\ \A o \in Obj \ {b} : heap'[o] = heap[o]
      BY <1>1, <3>1 DEF TypeOK
    <3> QED
      BY <3>1, <3>2, <3>3
  <2>2. 1 .. Len(stack') = {} /\ 2 .. Len(stack') = {}
    BY <2>1
  <2>3. Owners' = Owners \ {v} /\ Targets' = {}
    <3>1. \A u : ~Unfinished(u)'
      BY <2>1 DEF Unfinished
    <3>2. Owners' = Owners \ {v}
      BY <1>1, <1>7, <2>1, <3>1 DEF Owners
    <3> QED
      BY <2>2, <3>2 DEF Targets
  <2>4. Nested' /\ InCall' /\ Apart'
    BY <2>1, <2>2 DEF Nested, InCall, Apart
  <2>5. Children'
    BY <1>1, <1>6, <2>1 DEF Children
  <2>6. Held' /\ Single'
    BY <1>1, <1>7, <2>1, <2>3 DEF Held, Single
  <2>7. Owned'
    <3>1. ASSUME NEW o \in Obj, heap'[o] = "live" PROVE \E u \in Owners' : data'[u] = o
      <4>1. PICK u \in Owners : data[u] = o
        BY <1>1, <2>1, <3>1 DEF Owned
      <4> QED
        BY <1>3, <1>4, <1>6, <1>7, <2>1, <2>3, <3>1, <4>1
    <3> QED
      BY <1>8, <2>1, <3>1 DEF Owned
  <2>8. Ranked'
    BY <1>1, <1>7, <2>1, <2>2, <2>3 DEF Ranked, Deeper
  <2> QED
    BY <2>4, <2>5, <2>6, <2>7, <2>8 DEF IInv
<1>10. CASE data[w] # NULL
  <2>1. PICK o \in Obj :
          /\ h[o] = "free" /\ heap' = [h EXCEPT ![o] = "building"]
          /\ stack' = Append(<<>>, Call("assign", v, w, o, data[w]))
          /\ data' = [data EXCEPT ![v] = data[w]] /\ exists' = exists
    <3> HIDE DEF h
    <3> QED
      BY <1>0, <1>10
  <2>2. PICK d \in Obj : d = data[w]
    BY <1>1, <1>10 DEF TypeOK
  <2>3. w \in Owners /\ w # v /\ heap[d] = "live" /\ d # b
    BY <1>3, <1>4, <1>5, <1>7, <1>10, <2>2 DEF Owners
  <2>4. o # v /\ o \notin exists /\ (o = b \/ heap[o] = "free") /\ heap[o] # "live"
    <3>1. o = b \/ heap[o] = "free"
      BY <1>1, <2>1 DEF TypeOK
    <3> QED
      BY <1>1, <1>3, <1>4, <1>6, <3>1 DEF Children
  <2>5. /\ data'[v] = d /\ \A u \in Slot \ {v} : data'[u] = data[u]
        /\ heap'[o] = "building" /\ (b # o => heap'[b] = "free")
        /\ \A x \in Obj \ {o, b} : heap'[x] = heap[x]
    BY <1>1, <2>1, <2>2 DEF TypeOK
  <2>6. /\ Len(stack') = 1 /\ stack' # <<>> /\ stack'[1].op = "assign" /\ stack'[1].to = v
        /\ stack'[1].src = w /\ stack'[1].obj = o /\ stack'[1].read = d
    <3>1. PICK f \in Frame : f = Call("assign", v, w, o, d)
      BY CallFacts
    <3>2. stack' = <<f>>
      BY <2>1, <2>2, <3>1
    <3> QED
      BY <3>1, <3>2, CallFacts
  <2>7. /\ \A i \in 1 .. Len(stack') : i = 1
        /\ \A j \in 1 .. Len(stack') : \A i \in 1 .. j : i = 1 /\ j = 1
        /\ 2 .. Len(stack') = {} /\ 1 \in 1 .. Len(stack')
    BY <2>6
  <2>8. Owners' = Owners \ {v} /\ Targets' = {v}
    <3>1. \A u : Unfinished(u)' <=> u = v
      BY <2>6 DEF Unfinished
    <3>2. Targets' = {v}
      BY <2>6, <2>7 DEF Targets
    <3> QED
      BY <1>1, <1>7, <2>1, <2>5, <3>1, <3>2 DEF Owners
  <2>9. Nested'
    BY <2>7 DEF Nested
  <2>10. InCall'
    <3>1. ASSUME NEW i \in 1 .. Len(stack'), i = 1
          PROVE  Builds(stack[i])' /\ Building(stack[i])'
      <4>1. /\ heap'[o] = "building" /\ v \in exists' /\ w \in exists' /\ heap'[d] = "live"
            /\ data'[v] # NULL
        BY <1>3, <1>4, <1>5, <2>1, <2>3, <2>4, <2>5, TreeAssumption
      <4> QED
        BY <2>6, <3>1, <4>1 DEF Building, Builds
    <3> QED
      BY <2>6, <2>7, <3>1 DEF InCall
  <2>11. Children'
    BY <1>1, <1>6, <2>1, <2>4, <2>5 DEF Children
  <2>12. Held' /\ Single'
    BY <1>1, <1>7, <2>4, <2>5, <2>8 DEF Held, Single
  <2>13. Owned'
    <3>1. ASSUME NEW x \in Obj, heap'[x] = "live" PROVE \E u \in Owners' : data'[u] = x
      <4>1. x # b /\ x # o /\ heap[x] = "live"
        BY <2>5, <3>1
      <4>2. PICK u \in Owners : data[u] = x
        BY <1>1, <4>1 DEF Owned
      <4> QED
        BY <1>3, <1>4, <1>6, <1>7, <2>5, <2>8, <4>1, <4>2
    <3>2. ASSUME NEW x \in Obj, heap'[x] \in {"building", "dying"} PROVE x = o
      BY <1>8, <2>5, <3>2
    <3> QED
      BY <2>6, <2>7, <3>1, <3>2 DEF Owned
  <2>14. Ranked'
    <3>1. PICK depth \in [Slot -> Nat] : Deeper(depth)
      BY <1>1 DEF Ranked
    <3> DEFINE below == [depth EXCEPT ![o] = depth[v] + 1]
    <3>2. /\ below \in [Slot -> Nat] /\ below[o] = depth[v] + 1 /\ below[v] = depth[v]
          /\ \A u \in Slot \ {o} : below[u] = depth[u]
          /\ depth[v] \in Nat
      BY <2>4, <3>1 DEF Slot
    <3> HIDE DEF below
    <3>3. ASSUME NEW u \in Owners \ {v} PROVE below[u] < below[data'[u]]
      <4>1. data'[u] = data[u] /\ u \in Slot \ {o} /\ data[u] \in Slot \ {o}
        BY <1>7, <2>4, <2>5 DEF Slot
      <4> QED
        BY <3>1, <3>2, <4>1 DEF Deeper
    <3>4. below[v] < below[o]
      BY <3>2
    <3> QED
      BY <2>6, <2>7, <2>8, <3>2, <3>3, <3>4 DEF Ranked, Deeper
  <2>15. Apart'
    <3>1. PICK S \in SUBSET exists : Closed(S) /\ w \in S /\ v \notin S
      BY <1>3, <1>4, <1>5
    <3>2. Closed(S)' /\ d \in S
      BY <1>1, <1>10, <2>2, <2>5, <3>1 DEF Closed
    <3>3. Copied(S)'
      BY <2>6, <2>7, <3>1, <3>2 DEF Copied
    <3> QED
      BY <2>1, <2>6, <3>1, <3>3 DEF Apart
  <2> QED
    BY <2>9, <2>10, <2>11, <2>12, <2>13, <2>14, <2>15 DEF IInv
<1> QED
  BY <1>9, <1>10

-----------------------------------------------------------------------------
(* Trees                                                                     *)

LEMMA BelowFacts ==
  ASSUME TypeOK, NEW v \in Slot
  PROVE  /\ Below(v) \subseteq Obj /\ Closed(Below(v))
         /\ data[v] # NULL => data[v] \in Below(v)
         /\ \A P \in SUBSET Obj :
              Closed(P) /\ (data[v] = NULL \/ data[v] \in P) => Below(v) \subseteq P
<1>1. Below(v) \subseteq Obj
  BY DEF Below
<1>2. \A P \in SUBSET Obj : Closed(P) /\ (data[v] = NULL \/ data[v] \in P) => Below(v) \subseteq P
  BY DEF Below
<1>3. data[v] # NULL => data[v] \in Below(v)
  BY DEF Below, TypeOK
<1>4. ASSUME NEW x \in Below(v), data[x] # NULL PROVE data[x] \in Below(v)
  <2>1. data[x] \in Obj
    BY <1>1, <1>4 DEF TypeOK, Slot
  <2>2. ASSUME NEW P \in SUBSET Obj, Closed(P), data[v] = NULL \/ data[v] \in P
        PROVE  data[x] \in P
    BY <1>2, <1>4, <2>2 DEF Closed
  <2> QED
    BY <2>1, <2>2 DEF Below
<1> QED
  BY <1>1, <1>2, <1>3, <1>4 DEF Closed

(* Every Node of a tree has its owner in the tree.                           *)
LEMMA OwnersBelow ==
  ASSUME TypeOK, NEW w \in Slot, NEW o \in Below(w)
  PROVE  \E y \in Below(w) \cup {w} : data[y] = o /\ y \in Slot
<1> DEFINE P == {x \in Below(w) : \E y \in Below(w) \cup {w} : data[y] = x /\ y \in Slot}
<1>1. P \in SUBSET Obj
  BY BelowFacts
<1>2. Closed(P)
  BY BelowFacts DEF Closed, Slot
<1>3. data[w] = NULL \/ data[w] \in P
  BY BelowFacts
<1>4. Below(w) \subseteq P
  BY <1>1, <1>2, <1>3, BelowFacts
<1> QED
  BY <1>4

(* Between calls every Node of a tree exists, and two trees of which neither *)
(* is part of the other have nothing in common.                              *)
LEMMA TwoTrees ==
  ASSUME IInv, stack = <<>>, NEW v \in exists, NEW w \in exists, ~SameTree(v, w)
  PROVE  \E S \in SUBSET exists, R \in SUBSET Slot :
           /\ Closed(S) /\ w \in S /\ v \notin S /\ Closed(R) /\ v \in R /\ R \cap S = {}
<1>1. /\ TypeOK /\ Children /\ Held /\ Single /\ v \in Slot /\ w \in Slot
      /\ Targets = {} /\ \A u : ~Unfinished(u)
  <2>1. Len(stack) = 0
    OBVIOUS
  <2> QED
    BY <2>1 DEF IInv, TypeOK, Targets, Unfinished
<1> DEFINE live == Obj \cap exists
<1>2. \A u \in exists : data[u] # NULL => data[u] \in live /\ u \in Owners
  BY <1>1 DEF Held, Owners, Children, TypeOK
<1>3. Closed(live)
  BY <1>2 DEF Closed
<1>4. Below(v) \subseteq live /\ Below(w) \subseteq live
  BY <1>1, <1>2, <1>3, BelowFacts
<1> DEFINE S == {w} \cup Below(w)
           R == ({v} \cup Below(v)) \ S
<1>5. S \in SUBSET exists /\ w \in S /\ R \in SUBSET Slot /\ R \cap S = {}
  BY <1>1, <1>4 DEF Slot
<1>6. v \notin S /\ v \in R /\ w \notin Below(v)
  BY DEF SameTree
<1>7. Closed(S)
  BY <1>1, BelowFacts DEF Closed
<1>8. ASSUME NEW x \in R, data[x] # NULL PROVE data[x] \in R
  <2>1. x \in exists /\ data[x] \in Below(v) /\ x \in Owners /\ x \notin S
    BY <1>1, <1>2, <1>4, <1>8, BelowFacts DEF Closed
  <2>2. ASSUME data[x] \in Below(w) PROVE FALSE
    <3>1. PICK y \in Below(w) \cup {w} : data[y] = data[x]
      BY <1>1, <2>2, OwnersBelow
    <3>2. y \in Owners
      BY <1>2, <1>4, <1>8, <3>1
    <3> QED
      BY <1>1, <2>1, <3>1, <3>2 DEF Single
  <2> QED
    BY <1>6, <2>1, <2>2
<1>9. Closed(R)
  BY <1>8 DEF Closed
<1> HIDE DEF S, R
<1> QED
  BY <1>5, <1>6, <1>7, <1>9

-----------------------------------------------------------------------------
(* The invariant is kept by every step of a client that does not assign      *)
(* between Varients of one tree.                                             *)

LEMMA TakesFrom ==
  ASSUME TypeOK, NEW v \in Slot, NEW w \in exists, NEW op \in {"copy", "assign"},
         TakeMembers(v, w, op, heap, stack)
  PROVE  /\ data' = [data EXCEPT ![v] = data[w]]
         /\ \/ data[w] = NULL /\ exists' = exists \cup {v} /\ UNCHANGED <<heap, stack>>
            \/ /\ data[w] # NULL /\ exists' = exists
               /\ \E f \in Frame :
                    /\ f.op = op /\ f.to = v /\ f.src = w /\ f.read = data[w]
                    /\ heap[f.obj] = "free" /\ heap' = [heap EXCEPT ![f.obj] = "building"]
                    /\ stack' = Append(stack, f)
<1>1. /\ data' = [data EXCEPT ![v] = data[w]]
      /\ \/ data[w] = NULL /\ heap' = heap /\ exists' = exists \cup {v} /\ stack' = stack
         \/ /\ data[w] # NULL /\ exists' = exists
            /\ \E o \in Obj :
                 /\ heap[o] = "free" /\ heap' = [heap EXCEPT ![o] = "building"]
                 /\ stack' = Append(stack, Call(op, v, w, o, data[w]))
  BY DEF TakeMembers, Found
<1>2. w \in Slot \cup {NULL} /\ data[w] \in Obj \cup {NULL}
  BY DEF TypeOK
<1>3. ASSUME NEW o \in Obj, heap[o] = "free", heap' = [heap EXCEPT ![o] = "building"],
             stack' = Append(stack, Call(op, v, w, o, data[w]))
      PROVE  \E f \in Frame :
               /\ f.op = op /\ f.to = v /\ f.src = w /\ f.read = data[w]
               /\ heap[f.obj] = "free" /\ heap' = [heap EXCEPT ![f.obj] = "building"]
               /\ stack' = Append(stack, f)
  <2>1. PICK f \in Frame : f = Call(op, v, w, o, data[w])
    BY <1>2, CallFacts
  <2>2. f.op = op /\ f.to = v /\ f.src = w /\ f.read = data[w] /\ f.obj = o
    BY <1>2, <2>1, CallFacts
  <2> QED
    BY <1>3, <2>1, <2>2
<1> QED
  BY <1>1, <1>3

(* A Varient that exists and that no call is in progress on owns a live Node *)
(* or is empty.                                                              *)
LEMMA QuietHolds ==
  ASSUME IInv, NEW w \in exists, w \notin Targets, data[w] # NULL
  PROVE  w \in Owners /\ data[w] \in Obj /\ heap[data[w]] = "live"
<1>1. ~Unfinished(w)
  <2>1. stack # <<>> => 1 \in 1 .. Len(stack)
    BY StackFacts DEF IInv
  <2> QED
    BY <2>1 DEF Unfinished, Targets
<1> QED
  BY <1>1 DEF IInv, Owners, Held, TypeOK

(* Nothing changes.                                                          *)
LEMMA Unchanged ==
  ASSUME IInv, UNCHANGED vars
  PROVE  IInv'
<1>1. exists' = exists /\ data' = data /\ heap' = heap /\ stack' = stack
  BY DEF vars
<1>2. Owners' = Owners /\ Targets' = Targets
  BY <1>1 DEF Owners, Unfinished, Targets
<1>3. TypeOK' /\ Nested' /\ Children'
  BY <1>1 DEF IInv, TypeOK, Nested, Builds, Children
<1>4. InCall'
  BY <1>1 DEF IInv, InCall, Building, Destroying, Builds
<1>5. Held' /\ Single' /\ Owned' /\ Ranked'
  BY <1>1, <1>2 DEF IInv, Held, Single, Owned, Ranked, Deeper
<1>6. Apart'
  BY <1>1 DEF IInv, Apart, Copied, Deleted, Closed, Builds
<1> QED
  BY <1>3, <1>4, <1>5, <1>6 DEF IInv

LEMMA StartInv ==
  ASSUME IInv, Related = FALSE, Start
  PROVE  IInv'
<1>1. /\ TypeOK /\ TypeOK' /\ stack = <<>> /\ Len(stack) = 0 /\ Targets = {}
      /\ exists \subseteq Slot /\ Root \subseteq Slot /\ Root \cap Obj = {}
  <2>1. TypeOK /\ TypeOK' /\ stack = <<>>
    BY StartTypes DEF IInv, Start
  <2> QED
    BY <2>1, TreeAssumption DEF TypeOK, Targets, Slot
<1>2. ASSUME NEW v \in Root \ exists, ConstructEmpty(v) PROVE IInv'
  BY <1>1, <1>2, AppearInv DEF ConstructEmpty
<1>3. ASSUME NEW v \in Root \ exists, Create(v) PROVE IInv'
  <2>1. PICK o \in Obj : /\ heap[o] = "free" /\ heap' = [heap EXCEPT ![o] = "building"]
                         /\ data' = [data EXCEPT ![v] = o]
                         /\ stack' = <<Call("create", v, NULL, o, NULL)>>
                         /\ exists' = exists
    BY <1>3 DEF Create, Allocated
  <2>2. PICK f \in Frame : f = Call("create", v, NULL, o, NULL)
    BY <1>1, CallFacts
  <2>3. f.op = "create" /\ f.to = v /\ f.src = NULL /\ f.read = NULL /\ f.obj = o
    BY <1>1, <2>2, CallFacts
  <2>4. stack' = Append(stack, f) /\ Builds(f)
    BY <1>1, <2>1, <2>2, <2>3 DEF Builds
  <2> QED
    BY <1>1, <2>1, <2>3, <2>4, AllocateInv, TreeAssumption
<1>4. ASSUME NEW v \in Root \ exists, NEW w \in exists, Copy(v, w) PROVE IInv'
  <2>1. TakeMembers(v, w, "copy", heap, stack)
    BY <1>4 DEF Copy
  <2>2. CASE data[w] = NULL
    BY <1>1, <2>1, <2>2, TakesFrom, AppearInv
  <2>3. CASE data[w] # NULL
    <3>1. PICK f \in Frame :
            /\ f.op = "copy" /\ f.to = v /\ f.src = w /\ f.read = data[w]
            /\ heap[f.obj] = "free" /\ heap' = [heap EXCEPT ![f.obj] = "building"]
            /\ stack' = Append(stack, f)
      BY <1>1, <2>1, <2>3, TakesFrom
    <3>2. PICK d : d = data[w]
      OBVIOUS
    <3>3. exists' = exists /\ data' = [data EXCEPT ![v] = d]
      BY <1>1, <2>1, <2>3, <3>2, TakesFrom
    <3>4. heap[data[w]] = "live" /\ Builds(f)
      BY <1>1, <2>3, <3>1, QuietHolds DEF Builds
    <3> QED
      BY <1>1, <2>3, <3>1, <3>2, <3>3, <3>4, AllocateInv
  <2> QED
    BY <2>2, <2>3
<1>5. ASSUME NEW v \in Root \cap exists, Destroy(v) PROVE IInv'
  <2>1. CASE data[v] = NULL
    BY <1>1, <1>5, <2>1, VanishInv DEF Destroy
  <2>2. CASE data[v] # NULL
    <3>1. CallDestructor("destroy", v, NULL) /\ data[v] \in Obj /\ v \in Slot
      BY <1>1, <1>5, <2>2 DEF Destroy, TypeOK
    <3>2. PICK f \in Frame : f = Call("destroy", v, NULL, data[v], NULL)
      BY <1>1, <3>1, CallFacts
    <3>3. f.op = "destroy" /\ f.to = v /\ f.src = NULL /\ f.obj = data[v] /\ f.read = NULL
      BY <1>1, <3>1, <3>2, CallFacts
    <3>4. /\ heap' = [heap EXCEPT ![f.obj] = IF @ = "free" THEN @ ELSE "dying"]
          /\ stack' = Append(stack, f) /\ UNCHANGED <<exists, data>>
      BY <3>1, <3>2, <3>3 DEF CallDestructor
    <3> QED
      BY <1>1, <3>3, <3>4, EnterInv
  <2> QED
    BY <2>1, <2>2
<1>6. ASSUME NEW v \in exists, NEW w \in exists, Assign(v, w) PROVE IInv'
  <2>1. ~SameTree(v, w)
    BY <1>6 DEF Assign
  <2>2. PICK S \in SUBSET exists, R \in SUBSET Slot :
          /\ Closed(S) /\ w \in S /\ v \notin S /\ Closed(R) /\ v \in R /\ R \cap S = {}
    BY <1>1, <2>1, TwoTrees
  <2>3. CASE data[v] # NULL
    <3>1. CallDestructor("release", v, w) /\ data[v] \in Obj
      BY <1>1, <1>6, <2>3 DEF Assign, TypeOK
    <3>2. PICK f \in Frame : f = Call("release", v, w, data[v], NULL)
      BY <1>1, <3>1, CallFacts
    <3>3. f.op = "release" /\ f.to = v /\ f.src = w /\ f.obj = data[v] /\ f.read = NULL
      BY <1>1, <3>1, <3>2, CallFacts
    <3>4. /\ heap' = [heap EXCEPT ![f.obj] = IF @ = "free" THEN @ ELSE "dying"]
          /\ stack' = Append(stack, f) /\ UNCHANGED <<exists, data>>
      BY <3>1, <3>2, <3>3 DEF CallDestructor
    <3>5. \E Q \in SUBSET exists, P \in SUBSET Slot :
            /\ Closed(Q) /\ f.src \in Q /\ f.to \notin Q
            /\ Closed(P) /\ f.to \in P /\ P \cap Q = {}
      BY <2>2, <3>3
    <3> QED
      BY <1>1, <3>3, <3>4, <3>5, EnterInv
  <2>4. CASE data[v] = NULL
    <3>1. TakeMembers(v, w, "assign", heap, stack)
      BY <1>6, <2>4 DEF Assign
    <3>2. CASE data[w] = NULL
      <4>1. /\ data' = [data EXCEPT ![v] = data[w]] /\ exists' = exists \cup {v}
            /\ heap' = heap /\ stack' = stack
        BY <1>1, <3>1, <3>2, TakesFrom
      <4>2. data' = data
        BY <1>1, <2>4, <3>2, <4>1 DEF TypeOK
      <4> QED
        BY <4>1, <4>2, Unchanged DEF vars
    <3>3. CASE data[w] # NULL
      <4>1. PICK f \in Frame :
              /\ f.op = "assign" /\ f.to = v /\ f.src = w /\ f.read = data[w]
              /\ heap[f.obj] = "free" /\ heap' = [heap EXCEPT ![f.obj] = "building"]
              /\ stack' = Append(stack, f)
        BY <1>1, <3>1, <3>3, TakesFrom
      <4>2. PICK d : d = data[w]
        OBVIOUS
      <4>3. exists' = exists /\ data' = [data EXCEPT ![v] = d]
        BY <1>1, <3>1, <3>3, <4>2, TakesFrom
      <4>4. heap[data[w]] = "live" /\ Builds(f) /\ data[w] \in S
        BY <1>1, <2>2, <3>3, <4>1, QuietHolds DEF Builds, Closed
      <4>5. \E Q \in SUBSET exists :
              Closed(Q) /\ f.src \in Q /\ f.to \notin Q /\ f.read \in Q
        BY <2>2, <4>1, <4>4
      <4> QED
        BY <1>1, <2>4, <3>3, <4>1, <4>2, <4>3, <4>4, <4>5, AllocateInv
    <3> QED
      BY <3>2, <3>3
  <2> QED
    BY <2>3, <2>4
<1> QED
  BY <1>2, <1>3, <1>4, <1>5, <1>6 DEF Start

(* What the Node being built or destroyed is for                             *)
LEMMA TopFree ==
  ASSUME IInv, stack # <<>>
  PROVE  /\ Top.obj \notin Targets /\ (Builds(Top) <=> Builds(stack[1]))
         /\ Len(stack) \in 1 .. Len(stack) /\ 1 \in 1 .. Len(stack)
         /\ Top \in Frame /\ Top = stack[Len(stack)]
<1>1. TypeOK /\ Nested /\ Ranked
  BY DEF IInv
<1>2. /\ Len(stack) \in 1 .. Len(stack) /\ 1 \in 1 .. Len(stack) /\ Top \in Frame
      /\ \A i \in 1 .. Len(stack) : i <= Len(stack)
  BY <1>1, StackFacts
<1>3. Top.obj \notin Targets
  BY <1>1, <1>2, Distinct DEF Targets, Top
<1>4. Builds(Top) <=> Builds(stack[1])
  BY <1>1, <1>2, Uniform DEF Top
<1> QED
  BY <1>2, <1>3, <1>4 DEF Top

(* The child that is copied exists, and no call is in progress on it.        *)
LEMMA ReadRests ==
  ASSUME IInv, stack # <<>>, Builds(Top), Top.read # NULL
  PROVE  Top.read \in exists /\ Top.read \notin Targets /\ Top.read \in Obj
         /\ heap[Top.read] = "live"
<1>1. /\ TypeOK /\ Nested /\ InCall /\ Children /\ Apart /\ Builds(stack[1])
      /\ Len(stack) \in 1 .. Len(stack) /\ 1 \in 1 .. Len(stack)
      /\ Top \in Frame /\ Top = stack[Len(stack)]
  BY TopFree DEF IInv
<1>2. PICK w : w = Top.read
  OBVIOUS
<1>3. w \in exists /\ heap[w] = "live" /\ w \in Obj
  BY <1>1, <1>2 DEF InCall, Building, Children, Frame
<1>4. ASSUME NEW i \in 1 .. Len(stack), stack[i].to = w PROVE FALSE
  <2>1. Builds(stack[i]) /\ Building(stack[i])
    BY <1>1, Uniform DEF InCall
  <2>2. stack[i].op = "assign" /\ i = 1
    <3>1. stack[i].op = "assign"
      BY <1>3, <1>4, <2>1 DEF Building
    <3> QED
      BY <1>1, <3>1, Uniform
  <2>3. PICK S \in SUBSET exists : Copied(S)
    BY <1>1, <2>2 DEF Apart
  <2>4. w \in S
    BY <1>1, <1>2, <2>3 DEF Copied
  <2> QED
    BY <1>4, <2>2, <2>3, <2>4 DEF Copied
<1> QED
  BY <1>2, <1>3, <1>4 DEF Targets

LEMMA ReturnInv ==
  ASSUME IInv, Return
  PROVE  IInv'
<1>1. /\ TypeOK /\ TypeOK' /\ stack # <<>> /\ Nested /\ InCall /\ Children /\ Ranked /\ Apart
      /\ exists \subseteq Slot /\ Len(stack) \in 1 .. Len(stack) /\ 1 \in 1 .. Len(stack)
      /\ Top \in Frame /\ Top.obj \in Obj /\ Top.to \in Slot /\ Top = stack[Len(stack)]
      /\ (Builds(Top) <=> Builds(stack[1])) /\ Top.obj \in Slot /\ Top.obj \notin Targets
  <2>1. TypeOK /\ TypeOK' /\ stack # <<>> /\ Nested /\ InCall /\ Children /\ Ranked /\ Apart
    BY ReturnTypes DEF IInv, Return
  <2> QED
    BY <2>1, TopFree DEF TypeOK, Frame, Slot
<1>2. CASE BuildChild
  <2>1. Builds(Top) /\ Builds(stack[1]) /\ Building(Top) /\ Top.obj \notin exists
    BY <1>1, <1>2 DEF BuildChild, Builds, InCall
  <2>2. PICK v \in Slot : v = Top.obj
    BY <1>1
  <2>3. v \in Obj /\ heap[v] = "building" /\ v \notin exists /\ v \notin Targets
    BY <1>1, <2>1, <2>2 DEF Building
  <2>4. CASE Top.read = NULL
    <3>1. ConstructEmpty(v)
      BY <1>2, <2>2, <2>4 DEF BuildChild
    <3> QED
      BY <1>1, <2>3, <3>1, AppearInv DEF ConstructEmpty
  <2>5. CASE Top.read # NULL
    <3>1. PICK w : w = Top.read
      OBVIOUS
    <3>2. TakeMembers(v, w, "copy", heap, stack)
      BY <1>2, <2>2, <2>5, <3>1 DEF BuildChild
    <3>3. w \in exists /\ heap[w] = "live" /\ w \in Obj /\ w \notin Targets
      BY <1>1, <2>1, <2>5, <3>1, ReadRests
    <3>4. CASE data[w] = NULL
      BY <1>1, <2>3, <3>2, <3>3, <3>4, TakesFrom, AppearInv
    <3>5. CASE data[w] # NULL
      <4>1. PICK f \in Frame :
              /\ f.op = "copy" /\ f.to = v /\ f.src = w /\ f.read = data[w]
              /\ heap[f.obj] = "free" /\ heap' = [heap EXCEPT ![f.obj] = "building"]
              /\ stack' = Append(stack, f)
        BY <1>1, <3>2, <3>3, <3>5, TakesFrom
      <4>2. PICK d : d = data[w]
        OBVIOUS
      <4>3. exists' = exists /\ data' = [data EXCEPT ![v] = d]
        BY <1>1, <3>2, <3>3, <3>5, <4>2, TakesFrom
      <4>4. heap[data[w]] = "live" /\ Builds(f)
        BY <3>3, <3>5, <4>1, QuietHolds DEF Builds
      <4>5. stack # <<>> /\ Builds(stack[1]) /\ f.to = Top.obj /\ f.read = data[Top.read]
        BY <1>1, <2>1, <2>2, <3>1, <4>1
      <4> QED
        BY <1>1, <2>3, <3>3, <3>5, <4>1, <4>2, <4>3, <4>4, <4>5, AllocateInv
    <3> QED
      BY <3>4, <3>5
  <2> QED
    BY <2>4, <2>5
<1>3. CASE EndBuild
  BY <1>1, <1>3, EndBuildInv
<1>4. CASE DestroyChild
  <2>1. ~Builds(Top) /\ ~Builds(stack[1]) /\ Top.obj \in exists /\ Destroy(Top.obj)
    BY <1>1, <1>4 DEF DestroyChild, Builds
  <2>2. PICK v \in exists : v = Top.obj
    BY <2>1
  <2>3. CASE data[v] = NULL
    BY <1>1, <2>1, <2>2, <2>3, VanishInv DEF Destroy
  <2>4. CASE data[v] # NULL
    <3>1. CallDestructor("destroy", v, NULL) /\ data[v] \in Obj /\ v \in Slot
      BY <1>1, <2>1, <2>2, <2>4 DEF Destroy, TypeOK
    <3>2. PICK f \in Frame : f = Call("destroy", v, NULL, data[v], NULL)
      BY <3>1, CallFacts
    <3>3. f.op = "destroy" /\ f.to = v /\ f.src = NULL /\ f.obj = data[v] /\ f.read = NULL
      BY <3>1, <3>2, CallFacts
    <3>4. /\ heap' = [heap EXCEPT ![f.obj] = IF @ = "free" THEN @ ELSE "dying"]
          /\ stack' = Append(stack, f) /\ UNCHANGED <<exists, data>>
      BY <3>1, <3>2, <3>3 DEF CallDestructor
    <3> QED
      BY <1>1, <2>1, <2>2, <3>3, <3>4, EnterInv
  <2> QED
    BY <2>3, <2>4
<1>5. CASE EndDestroy
  BY <1>1, <1>5, EndDestroyInv
<1>6. CASE EndRelease
  BY <1>1, <1>6, EndReleaseInv
<1> QED
  BY <1>2, <1>3, <1>4, <1>5, <1>6 DEF Return

LEMMA InitInv == Init => IInv
<1> SUFFICES ASSUME Init PROVE IInv
  OBVIOUS
<1>1. /\ exists = {} /\ stack = <<>> /\ Len(stack) = 0
      /\ 1 .. Len(stack) = {} /\ 2 .. Len(stack) = {} /\ \A o \in Obj : heap[o] = "free"
  BY DEF Init
<1>2. TypeOK
  BY DEF Init, TypeOK
<1>3. Owners = {}
  BY <1>1 DEF Owners
<1>4. Ranked
  <2>1. [u \in Slot |-> 0] \in [Slot -> Nat]
    OBVIOUS
  <2> QED
    BY <1>1, <1>3, <2>1 DEF Ranked, Deeper
<1> QED
  BY <1>1, <1>2, <1>3, <1>4
     DEF IInv, Nested, InCall, Children, Held, Single, Owned, Apart

LEMMA TreeInvariant ==
  ASSUME Related = FALSE
  PROVE  Spec => []IInv
<1>1. IInv /\ [Next]_vars => IInv'
  BY StartInv, ReturnInv, Unchanged DEF Next
<1> QED
  BY <1>1, InitInv, PTL DEF Spec

(* The Varient that operator= has yet to read and the Node that m_copy reads *)
(* outlive every destructor that runs in between, in trees of any depth, for *)
(* a client that assigns between trees only.                                 *)
THEOREM SourcesSurvive ==
  ASSUME Related = FALSE
  PROVE  Spec => []SourceExists
<1>1. IInv => SourceExists
  <2> SUFFICES ASSUME IInv, NEW i \in 1 .. Len(stack)
               PROVE  /\ stack[i].src # NULL => stack[i].src \in exists
                      /\ stack[i].read # NULL => heap[stack[i].read] = "live"
    BY DEF SourceExists
  <2>1. CASE Builds(stack[i])
    BY <2>1 DEF IInv, InCall, Building
  <2>2. CASE ~Builds(stack[i])
    BY <2>2 DEF IInv, InCall, Destroying
  <2> QED
    BY <2>1, <2>2
<1> QED
  BY <1>1, TreeInvariant, PTL

LEMMA LeastNumber ==
  ASSUME NEW Q \in SUBSET Nat, Q # {}
  PROVE  \E m \in Q : \A k \in Q : ~(k < m)
<1> DEFINE R == OpToRel(<, Nat)
<1>1. \A k, m \in Nat : k < m => <<k, m>> \in R
  BY DEF OpToRel
<1>2. IsWellFoundedOn(R, Nat)
  BY NatLessThanWellFounded, Zenon
<1> HIDE DEF R
<1>3. \E m \in Q : \A k \in Q : ~(<<k, m>> \in R)
  BY <1>2, WFMin
<1> QED
  BY <1>1, <1>3

(* Between calls every allocated Node is in the tree of a Varient of the     *)
(* client, whatever the shapes of the trees: deletion goes all the way down, *)
(* and no ring of Nodes is cut off.                                          *)
THEOREM NothingCutOff ==
  ASSUME Related = FALSE
  PROVE  Spec => []Rooted
<1>1. IInv => Rooted
  <2> SUFFICES ASSUME IInv, stack = <<>>
               PROVE  Allocated = UNION {Below(v) : v \in Root \cap exists}
    BY DEF Rooted
  <2>1. /\ TypeOK /\ Children /\ Owned /\ Ranked /\ exists \subseteq Slot /\ Targets = {}
        /\ 1 .. Len(stack) = {} /\ Root \subseteq Slot
    <3>1. Len(stack) = 0
      OBVIOUS
    <3> QED
      BY <3>1 DEF IInv, TypeOK, Targets, Slot
  <2>2. ASSUME NEW v \in Root \cap exists PROVE Below(v) \subseteq Allocated
    <3> DEFINE live == Obj \cap exists
    <3>1. \A u \in exists : data[u] # NULL => data[u] \in live
      BY <2>1, QuietHolds DEF Children
    <3>2. Closed(live)
      BY <3>1 DEF Closed
    <3>3. Below(v) \subseteq live
      BY <2>1, <3>1, <3>2, BelowFacts
    <3> QED
      BY <2>1, <3>3 DEF Children, Allocated
  <2> DEFINE Cut == Allocated \ UNION {Below(v) : v \in Root \cap exists}
  <2>3. ASSUME Cut # {} PROVE FALSE
    <3>1. PICK depth \in [Slot -> Nat] : Deeper(depth)
      BY <2>1 DEF Ranked
    <3>2. Cut \subseteq Slot
      BY DEF Allocated, Slot
    <3> DEFINE Q == {depth[x] : x \in Cut}
    <3>3. Q \in SUBSET Nat /\ Q # {}
      BY <2>3, <3>2
    <3>4. PICK m \in Q : \A k \in Q : ~(k < m)
      BY <3>3, LeastNumber
    <3>5. PICK o \in Cut : m = depth[o]
      BY <3>4
    <3>6. \A x \in Cut : ~(depth[x] < depth[o])
      BY <3>4, <3>5
    <3>7. o \in Obj /\ heap[o] = "live"
      BY <2>1, <3>5 DEF Allocated, Owned, TypeOK
    <3>8. PICK y \in Owners : data[y] = o
      BY <2>1, <3>7 DEF Owned
    <3>9. depth[y] < depth[o] /\ y \in exists
      BY <3>1, <3>8 DEF Deeper, Owners
    <3>10. y \notin Root
      <4>1. y \in Root => o \in Below(y)
        BY <2>1, <3>7, <3>8, <3>9, BelowFacts, TreeAssumption
      <4> QED
        BY <3>5, <3>9, <4>1
    <3>11. y \in Allocated
      BY <2>1, <3>9, <3>10 DEF Slot, Children, Allocated
    <3>12. PICK v \in Root \cap exists : y \in Below(v)
      BY <3>6, <3>9, <3>11
    <3>13. o \in Below(v)
      BY <2>1, <3>7, <3>8, <3>12, BelowFacts, TreeAssumption DEF Closed
    <3> QED
      BY <3>5, <3>13
  <2> QED
    BY <2>2, <2>3
<1> QED
  BY <1>1, TreeInvariant, PTL

-----------------------------------------------------------------------------
(* Each Varient of a tree is a Varient: the mapping to module Varient.  A    *)
(* Varient that no call is in progress on is between operations.             *)
LEMMA AtRest ==
  ASSUME NEW v \in Slot, Calls(v) = {}
  PROVE  /\ pcs[v] = IF v \in exists THEN "idle" ELSE "raw"
         /\ sources[v] = NULL /\ objects[v] = NULL
  BY DEF pcs, sources, objects

LEMMA AtRestNext ==
  ASSUME NEW v \in Slot, Calls(v)' = {}
  PROVE  /\ pcs'[v] = IF v \in exists' THEN "idle" ELSE "raw"
         /\ sources'[v] = NULL /\ objects'[v] = NULL
  BY DEF pcs, sources, objects

(* A Varient that one call is in progress on is in the midst of it.          *)
LEMMA AtWork ==
  ASSUME NEW v \in Slot, NEW f, Calls(v) = {f}
  PROVE  /\ pcs[v] = f.op /\ sources[v] = f.src
         /\ objects[v] = IF Builds(f) THEN f.obj ELSE NULL
<1>1. CallOn(v) = f
  BY DEF CallOn
<1> QED
  BY <1>1 DEF pcs, sources, objects, Builds

LEMMA AtWorkNext ==
  ASSUME NEW v \in Slot, NEW f, Calls(v)' = {f}
  PROVE  /\ pcs'[v] = f.op /\ sources'[v] = f.src
         /\ objects'[v] = IF Builds(f) THEN f.obj ELSE NULL
<1>1. CallOn(v)' = f
  BY DEF CallOn
<1> QED
  BY <1>1 DEF pcs, sources, objects, Builds

(* A step changes what it changes of v.                                      *)
LEMMA OthersMapped ==
  ASSUME NEW v \in Slot,
         \A u \in Slot \ {v} : /\ Calls(u)' = Calls(u) /\ data'[u] = data[u]
                               /\ u \in exists' <=> u \in exists
  PROVE  /\ members' = [members EXCEPT ![v] = members'[v]]
         /\ pcs' = [pcs EXCEPT ![v] = pcs'[v]]
         /\ sources' = [sources EXCEPT ![v] = sources'[v]]
         /\ objects' = [objects EXCEPT ![v] = objects'[v]]
         /\ members'[v] = members[v] => members' = members
         /\ sources'[v] = sources[v] => sources' = sources
         /\ objects'[v] = objects[v] => objects' = objects
<1>1. ASSUME NEW u \in Slot \ {v}
      PROVE  /\ members'[u] = members[u] /\ pcs'[u] = pcs[u]
             /\ sources'[u] = sources[u] /\ objects'[u] = objects[u]
  <2>1. CallOn(u)' = CallOn(u)
    BY DEF CallOn
  <2> QED
    BY <2>1 DEF members, pcs, sources, objects
<1>2. /\ members = [u \in Slot |-> members[u]] /\ members' = [u \in Slot |-> members'[u]]
      /\ pcs = [u \in Slot |-> pcs[u]] /\ pcs' = [u \in Slot |-> pcs'[u]]
      /\ sources = [u \in Slot |-> sources[u]] /\ sources' = [u \in Slot |-> sources'[u]]
      /\ objects = [u \in Slot |-> objects[u]] /\ objects' = [u \in Slot |-> objects'[u]]
  BY DEF members, pcs, sources, objects
<1> QED
  BY <1>1, <1>2

(* The calls in progress                                                     *)
LEMMA NoCalls ==
  ASSUME NEW v, v \notin Targets
  PROVE  Calls(v) = {}
  BY DEF Calls, Targets

LEMMA OneCall ==
  ASSUME TypeOK, Nested, Ranked, NEW i \in 1 .. Len(stack)
  PROVE  Calls(stack[i].to) = {stack[i]}
<1>1. ASSUME NEW j \in 1 .. Len(stack), stack[j].to = stack[i].to PROVE j = i
  <2>1. i <= j \/ j <= i
    BY StackFacts
  <2> QED
    BY <1>1, <2>1, Distinct
<1> QED
  BY <1>1 DEF Calls

LEMMA CallsPush ==
  ASSUME TypeOK, NEW f \in Frame, stack' = Append(stack, f), f.to \notin Targets
  PROVE  /\ Calls(f.to)' = {f}
         /\ \A u : u # f.to => Calls(u)' = Calls(u)
<1> DEFINE n == Len(stack)
<1>1. /\ n \in Nat /\ Len(stack') = n + 1 /\ stack'[n + 1] = f
      /\ \A i \in 1 .. n : stack'[i] = stack[i]
  BY PushFacts DEF TypeOK
<1>2. 1 .. n + 1 = 1 .. n \cup {n + 1}
  BY <1>1
<1>3. {stack'[i] : i \in 1 .. n + 1} = {stack[i] : i \in 1 .. n} \cup {f}
  BY <1>1, <1>2
<1>4. \A u : Calls(u)' = {call \in {stack'[i] : i \in 1 .. n + 1} : call.to = u}
  BY <1>1 DEF Calls
<1>5. Calls(f.to) = {}
  BY NoCalls
<1> QED
  BY <1>3, <1>4, <1>5 DEF Calls

LEMMA CallsPop ==
  ASSUME TypeOK, Nested, Ranked, stack # <<>>, stack' = Popped, NEW v, v = Top.to
  PROVE  /\ Calls(v) = {Top} /\ Calls(v)' = {}
         /\ \A u : u # v => Calls(u)' = Calls(u)
<1> DEFINE n == Len(stack)
<1>1. /\ n \in 1 .. n /\ Len(stack') = n - 1 /\ Top = stack[n]
      /\ \A i \in 1 .. n - 1 : i \in 1 .. n /\ stack'[i] = stack[i]
      /\ \A i \in 1 .. n : i \in 1 .. n - 1 \/ stack[i] = Top
      /\ v \notin Targets'
  BY Popping DEF Top
<1>2. Calls(v) = {Top} /\ Calls(v)' = {}
  <2>1. Calls(v) = {Top}
    BY <1>1, OneCall
  <2>2. ASSUME NEW call \in Calls(v)' PROVE FALSE
    <3>1. PICK i \in 1 .. Len(stack') : stack'[i].to = v
      BY <2>2 DEF Calls
    <3> QED
      BY <1>1, <3>1 DEF Targets
  <2> QED
    BY <2>1, <2>2
<1>3. \A u : Calls(u)' = {call \in {stack'[i] : i \in 1 .. n - 1} : call.to = u}
  BY <1>1 DEF Calls
<1>4. ASSUME NEW u, u # v PROVE Calls(u)' = Calls(u)
  <2>1. ASSUME NEW call \in Calls(u) PROVE call \in Calls(u)'
    <3>1. PICK i \in 1 .. n : stack[i] = call /\ call.to = u
      BY <2>1 DEF Calls
    <3>2. i \in 1 .. n - 1 /\ stack'[i] = call
      BY <1>1, <1>4, <3>1
    <3> QED
      BY <1>3, <3>1, <3>2
  <2>2. ASSUME NEW call \in Calls(u)' PROVE call \in Calls(u)
    <3>1. PICK i \in 1 .. n - 1 : stack'[i] = call /\ call.to = u
      BY <1>3, <2>2
    <3> QED
      BY <1>1, <3>1 DEF Calls
  <2> QED
    BY <2>1, <2>2
<1> QED
  BY <1>2, <1>4

-----------------------------------------------------------------------------
(* The members, the heap and the count of objects                            *)
LEMMA MembersMapped ==
  ASSUME NEW v \in Slot
  PROVE  /\ Lower!Owner(members[v]) <=> data[v] # NULL
         /\ data[v] = NULL => members[v] = Lower!Empty
         /\ data[v] # NULL => /\ members[v] = Lower!OfValue(Node, data[v])
                              /\ members[v].data = data[v] /\ members[v].cls = Node
  BY DEF members, Lower!Owner, Lower!Empty, Lower!OfValue, Lower!Value, Lower!IsDataOwner,
         T!Empty, T!OfValue, T!Value, T!IsDataOwner

LEMMA MembersMappedNext ==
  ASSUME NEW v \in Slot
  PROVE  /\ data'[v] = NULL => members'[v] = Lower!Empty
         /\ data'[v] # NULL => members'[v] = Lower!OfValue(Node, data'[v])
  BY DEF members, Lower!Empty, Lower!OfValue, Lower!Value, Lower!IsDataOwner,
         T!Empty, T!OfValue, T!Value, T!IsDataOwner

CellOf(phase) ==
  IF phase = "free" THEN Lower!Free ELSE [phase |-> phase, cls |-> Node, content |-> "any"]

LEMMA CellsMapped ==
  /\ cells = [o \in Obj |-> CellOf(heap[o])]
  /\ \A o \in Obj : cells[o].phase = heap[o] /\ (heap[o] # "free" => cells[o].content = "any")
  BY DEF cells, CellOf, Lower!Free

LEMMA CellsChange ==
  ASSUME NEW o \in Obj, \A x \in Obj \ {o} : heap'[x] = heap[x]
  PROVE  cells' = [cells EXCEPT ![o] = CellOf(heap'[o])]
  BY DEF cells, CellOf, Lower!Free

Counted == {o \in Obj : heap[o] \in {"live", "dying"}}

LEMMA CountMapped ==
  ASSUME IsFiniteSet(Obj), NEW o \in Obj
  PROVE  /\ Counted' = Counted => objectCount' = objectCount
         /\ o \notin Counted /\ Counted' = Counted \cup {o} => objectCount' = objectCount + 1
         /\ o \in Counted /\ Counted' = Counted \ {o} => objectCount' = objectCount - 1
<1>1. IsFiniteSet(Counted)
  BY FS_Subset DEF Counted
<1>2. objectCount = Cardinality(Counted) /\ objectCount' = Cardinality(Counted')
  BY DEF objectCount, Counted
<1> QED
  BY <1>1, <1>2, FS_AddElement, FS_RemoveElement

(* v takes over the members of w, which is empty, or owns a Node that is     *)
(* copied.                                                                   *)
LEMMA TakeEmptyMapped ==
  ASSUME NEW v \in Slot, NEW w \in Slot, NEW h, NEW op,
         data[w] = NULL, data'[v] = NULL, objects[v] = NULL,
         Calls(v)' = {}, v \in exists', cells' = h,
         \A u \in Slot \ {v} : /\ Calls(u)' = Calls(u) /\ data'[u] = data[u]
                               /\ u \in exists' <=> u \in exists
  PROVE  Lower!TakeMembers(v, w, h, op)
<1>1. members'[v] = members[w] /\ ~Lower!Owner(members[w])
  BY MembersMapped, MembersMappedNext
<1>2. pcs'[v] = "idle" /\ sources'[v] = NULL /\ objects'[v] = objects[v]
  BY AtRestNext
<1> QED
  BY <1>1, <1>2, OthersMapped DEF Lower!TakeMembers

LEMMA TakeOwnedMapped ==
  ASSUME NEW v \in Slot, NEW w \in Slot, NEW h, NEW f \in Frame,
         data[w] # NULL, data'[v] = data[w], Builds(f), f.src = w,
         Calls(v)' = {f}, h[f.obj].phase = "free", h[data[w]].content = "any",
         cells' = [h EXCEPT ![f.obj] = CellOf("building")],
         \A u \in Slot \ {v} : /\ Calls(u)' = Calls(u) /\ data'[u] = data[u]
                               /\ u \in exists' <=> u \in exists
  PROVE  Lower!TakeMembers(v, w, h, f.op)
<1>1. /\ members'[v] = members[w] /\ Lower!Owner(members[w])
      /\ members[w].data = data[w] /\ members[w].cls = Node
  BY MembersMapped, MembersMappedNext
<1>2. pcs'[v] = f.op /\ sources'[v] = w /\ objects'[v] = f.obj /\ f.obj \in Obj
  BY AtWorkNext DEF Frame
<1>3. "any" \in Lower!Found(h, members[w].data, members[w].cls)
  BY <1>1 DEF Lower!Found
<1>4. CellOf("building") = Lower!Building(members[w].cls, "any")
  BY <1>1 DEF CellOf, Lower!Building
<1>5. \E o \in Obj, x \in Lower!Found(h, members[w].data, members[w].cls) :
        /\ h[o].phase = "free"
        /\ cells' = [h EXCEPT ![o] = Lower!Building(members[w].cls, x)]
        /\ objects' = [objects EXCEPT ![v] = o]
  BY <1>2, <1>3, <1>4, OthersMapped
<1> QED
  BY <1>1, <1>2, <1>5, OthersMapped DEF Lower!TakeMembers

-----------------------------------------------------------------------------
(* The steps, each of them one of Varient.  No Varient is in use that a step *)
(* writes.                                                                   *)
Writable(v) == v \in exists /\ v \notin Targets /\ \A u \in Slot : sources[u] # v

LEMMA WritableMapped ==
  ASSUME NEW v \in Slot, Writable(v)
  PROVE  Lower!CanWrite(v) /\ Calls(v) = {}
  BY NoCalls, AtRest DEF Writable, Lower!CanWrite

LEMMA ConstructEmptyMapped ==
  ASSUME IsFiniteSet(Obj), TypeOK, NEW v \in Slot, v \notin exists, v \notin Targets,
         ConstructEmpty(v)
  PROVE  Lower!ConstructEmpty(v)
<1>1. /\ exists' = exists \cup {v} /\ data'[v] = NULL /\ heap' = heap
      /\ \A u \in Slot \ {v} : data'[u] = data[u]
      /\ \A u : Calls(u)' = Calls(u)
  BY DEF ConstructEmpty, TypeOK, Calls
<1>2. Calls(v) = {} /\ Calls(v)' = {}
  BY <1>1, NoCalls
<1>3. /\ pcs[v] = "raw" /\ pcs'[v] = "idle" /\ members'[v] = Lower!Empty
      /\ sources'[v] = sources[v] /\ objects'[v] = objects[v]
  BY <1>1, <1>2, AtRest, AtRestNext, MembersMappedNext
<1>4. cells' = cells /\ objectCount' = objectCount
  BY <1>1 DEF cells, objectCount
<1> QED
  BY <1>1, <1>3, <1>4, OthersMapped DEF Lower!ConstructEmpty

LEMMA CreateMapped ==
  ASSUME IsFiniteSet(Obj), TypeOK, stack = <<>>, NEW v \in Root \ exists, Create(v)
  PROVE  Lower!BeginCreate(v)
<1>1. PICK o \in Obj : /\ heap[o] = "free" /\ heap' = [heap EXCEPT ![o] = "building"]
                       /\ data' = [data EXCEPT ![v] = o]
                       /\ stack' = <<Call("create", v, NULL, o, NULL)>>
                       /\ exists' = exists
  BY DEF Create, Allocated
<1>2. v \in Slot
  BY DEF Slot
<1>3. PICK f \in Frame : /\ f = Call("create", v, NULL, o, NULL) /\ Builds(f)
                         /\ f.op = "create" /\ f.to = v /\ f.src = NULL /\ f.obj = o
  BY <1>2, CallFacts DEF Builds
<1>4. stack' = Append(stack, f) /\ Targets = {}
  <2>1. Len(stack) = 0
    OBVIOUS
  <2> QED
    BY <1>1, <1>3, <2>1 DEF Targets
<1>5. Calls(v) = {} /\ Calls(v)' = {f} /\ \A u : u # v => Calls(u)' = Calls(u)
  BY <1>3, <1>4, NoCalls, CallsPush
<1>6. data'[v] = o /\ o # NULL /\ \A u \in Slot \ {v} : data'[u] = data[u]
  BY <1>1, <1>2, TreeAssumption DEF TypeOK
<1>7. /\ pcs[v] = "raw" /\ pcs'[v] = "create" /\ sources'[v] = sources[v] /\ objects'[v] = o
      /\ members'[v] = Lower!OfValue(Node, o)
  BY <1>2, <1>3, <1>5, <1>6, AtRest, AtWorkNext, MembersMappedNext
<1>8. /\ heap'[o] = "building" /\ \A x \in Obj \ {o} : heap'[x] = heap[x]
      /\ cells' = [cells EXCEPT ![o] = Lower!Building(Node, "any")] /\ cells[o].phase = "free"
  <2>1. heap'[o] = "building" /\ \A x \in Obj \ {o} : heap'[x] = heap[x]
    BY <1>1 DEF TypeOK
  <2> QED
    BY <1>1, <2>1, CellsMapped, CellsChange DEF CellOf, Lower!Building
<1>9. objectCount' = objectCount
  <2>1. Counted' = Counted
    BY <1>1, <1>8 DEF Counted
  <2> QED
    BY <2>1, CountMapped
<1> QED
  BY <1>1, <1>2, <1>5, <1>6, <1>7, <1>8, <1>9, OthersMapped DEF Lower!BeginCreate

(* The part that the copy constructor and operator= have in common           *)
LEMMA TakeMapped ==
  ASSUME IsFiniteSet(Obj), TypeOK, NEW v \in Slot, v \notin Targets,
         NEW w \in exists, w # v, NEW op \in {"copy", "assign"},
         TakeMembers(v, w, op, heap, stack), data[w] # NULL => heap[data[w]] = "live"
  PROVE  Lower!TakeMembers(v, w, cells, op) /\ objectCount' = objectCount
<1>1. w \in Slot /\ Calls(v) = {} /\ objects[v] = NULL /\ data' = [data EXCEPT ![v] = data[w]]
  BY NoCalls, AtRest, TakesFrom DEF TypeOK
<1>2. data'[v] = data[w] /\ \A u \in Slot \ {v} : data'[u] = data[u]
  BY <1>1 DEF TypeOK
<1>3. PICK h : h = cells
  OBVIOUS
<1>4. CASE data[w] = NULL
  <2>1. exists' = exists \cup {v} /\ heap' = heap /\ stack' = stack
    BY <1>4, TakesFrom
  <2>2. \A u : Calls(u)' = Calls(u)
    BY <2>1 DEF Calls
  <2>3. cells' = h /\ objectCount' = objectCount
    BY <1>3, <2>1 DEF cells, objectCount
  <2>4. Lower!TakeMembers(v, w, h, op)
    BY <1>1, <1>2, <1>4, <2>1, <2>2, <2>3, TakeEmptyMapped
  <2> QED
    BY <1>3, <2>3, <2>4
<1>5. CASE data[w] # NULL
  <2>1. PICK f \in Frame :
          /\ f.op = op /\ f.to = v /\ f.src = w /\ f.read = data[w]
          /\ heap[f.obj] = "free" /\ heap' = [heap EXCEPT ![f.obj] = "building"]
          /\ stack' = Append(stack, f)
    BY <1>5, TakesFrom
  <2>2. exists' = exists /\ Builds(f) /\ f.obj \in Obj /\ data[w] \in Obj
    BY <1>1, <1>5, <2>1, TakesFrom DEF Builds, Frame, TypeOK
  <2>3. Calls(v)' = {f} /\ \A u : u # v => Calls(u)' = Calls(u)
    BY <2>1, CallsPush
  <2>4. heap'[f.obj] = "building" /\ \A x \in Obj \ {f.obj} : heap'[x] = heap[x]
    BY <2>1, <2>2 DEF TypeOK
  <2>5. cells' = [h EXCEPT ![f.obj] = CellOf("building")] /\ h[f.obj].phase = "free"
    BY <1>3, <2>1, <2>2, <2>4, CellsMapped, CellsChange
  <2>6. h[data[w]].content = "any"
    BY <1>3, <1>5, <2>2, CellsMapped
  <2>7. Lower!TakeMembers(v, w, h, f.op)
    BY <1>1, <1>2, <1>5, <2>1, <2>2, <2>3, <2>5, <2>6, TakeOwnedMapped
  <2>8. objectCount' = objectCount
    <3>1. Counted' = Counted
      BY <2>1, <2>2, <2>4 DEF Counted
    <3> QED
      BY <2>2, <3>1, CountMapped
  <2> QED
    BY <1>3, <2>1, <2>7, <2>8
<1> QED
  BY <1>4, <1>5

LEMMA CopyMapped ==
  ASSUME IsFiniteSet(Obj), IInv, NEW v \in Slot, v \notin exists, v \notin Targets,
         NEW w \in exists, w \notin Targets, TakeMembers(v, w, "copy", heap, stack)
  PROVE  Lower!BeginCopy(v, w)
<1>1. TypeOK /\ w \in Slot /\ w # v /\ (data[w] # NULL => heap[data[w]] = "live")
  BY QuietHolds DEF IInv, TypeOK
<1>2. pcs[v] = "raw" /\ pcs[w] = "idle"
  BY <1>1, NoCalls, AtRest
<1>3. Lower!TakeMembers(v, w, cells, "copy") /\ objectCount' = objectCount
  BY <1>1, TakeMapped
<1> QED
  BY <1>2, <1>3 DEF Lower!BeginCopy, Lower!CanRead

LEMMA AssignMapped ==
  ASSUME IsFiniteSet(Obj), IInv, NEW v \in Slot, Writable(v), data[v] = NULL,
         NEW w \in exists, w \notin Targets, w # v, TakeMembers(v, w, "assign", heap, stack)
  PROVE  Lower!AssignOverUnowned(v, w)
<1>1. TypeOK /\ w \in Slot /\ v \notin Targets /\ (data[w] # NULL => heap[data[w]] = "live")
  BY QuietHolds DEF IInv, TypeOK, Writable
<1>2. Lower!CanWrite(v) /\ ~Lower!Owner(members[v]) /\ pcs[w] = "idle"
  BY <1>1, NoCalls, AtRest, WritableMapped, MembersMapped
<1>3. Lower!TakeMembers(v, w, cells, "assign") /\ objectCount' = objectCount
  BY <1>1, TakeMapped
<1> QED
  BY <1>2, <1>3 DEF Lower!AssignOverUnowned, Lower!CanRead

LEMMA EnterMapped ==
  ASSUME IsFiniteSet(Obj), IInv, NEW v \in Slot, Writable(v), data[v] # NULL,
         NEW op \in {"release", "destroy"}, NEW w \in Slot \cup {NULL},
         CallDestructor(op, v, w),
         IF op = "release" THEN w \in exists \ Targets /\ w # v ELSE w = NULL
  PROVE  \/ op = "destroy" /\ Lower!BeginDestroy(v)
         \/ op = "release" /\ Lower!BeginRelease(v, w)
<1>1. /\ TypeOK /\ v \in exists /\ v \notin Targets /\ data[v] \in Obj /\ heap[data[v]] = "live"
  BY QuietHolds DEF IInv, Writable
<1>2. PICK b \in Obj : b = data[v]
  BY <1>1
<1>3. PICK f \in Frame : f = Call(op, v, w, b, NULL)
  BY CallFacts
<1>4. f.op = op /\ f.to = v /\ f.src = w /\ ~Builds(f)
  BY <1>3, CallFacts DEF Builds
<1>5. /\ stack' = Append(stack, f) /\ exists' = exists /\ data' = data
      /\ heap'[b] = "dying" /\ \A x \in Obj \ {b} : heap'[x] = heap[x]
  BY <1>1, <1>2, <1>3 DEF CallDestructor, TypeOK
<1>6. Calls(v) = {} /\ Calls(v)' = {f} /\ \A u : u # v => Calls(u)' = Calls(u)
  BY <1>1, <1>4, <1>5, NoCalls, CallsPush
<1>7. /\ pcs'[v] = op /\ sources'[v] = w /\ sources[v] = NULL /\ objects'[v] = objects[v]
      /\ members'[v] = members[v]
  BY <1>4, <1>5, <1>6, AtRest, AtWorkNext DEF members
<1>8. cells' = [cells EXCEPT ![members[v].data].phase = IF @ = "free" THEN @ ELSE "dying"]
  <2>1. members[v].data = b
    BY <1>2, MembersMapped
  <2>2. cells' = [cells EXCEPT ![b] = CellOf("dying")]
    BY <1>5, CellsChange
  <2>3. cells[b] = CellOf("live") /\ cells[b].phase = "live"
    BY <1>1, <1>2, CellsMapped
  <2>4. CellOf("dying") = [CellOf("live") EXCEPT !.phase = "dying"]
    BY DEF CellOf
  <2>5. cells' = [cells EXCEPT ![b] = [cells[b] EXCEPT !.phase = "dying"]]
    BY <2>2, <2>3, <2>4
  <2> QED
    BY <2>1, <2>3, <2>5
<1>9. objectCount' = objectCount
  <2>1. Counted' = Counted
    BY <1>1, <1>2, <1>5 DEF Counted
  <2> QED
    BY <2>1, CountMapped
<1>10. Lower!CanWrite(v) /\ Lower!Owner(members[v])
  BY WritableMapped, MembersMapped
<1>11. op = "release" => Lower!CanRead(w)
  BY <1>1, NoCalls, AtRest DEF TypeOK, Lower!CanRead
<1>12. /\ members' = members /\ pcs' = [pcs EXCEPT ![v] = op] /\ objects' = objects
       /\ sources' = [sources EXCEPT ![v] = w] /\ (w = NULL => sources' = sources)
  BY <1>5, <1>6, <1>7, OthersMapped
<1>13. CASE op = "destroy"
  BY <1>8, <1>9, <1>10, <1>12, <1>13 DEF Lower!BeginDestroy, Lower!EnterDestructor
<1>14. CASE op = "release"
  BY <1>8, <1>9, <1>10, <1>11, <1>12, <1>14 DEF Lower!BeginRelease, Lower!EnterDestructor
<1> QED
  BY <1>13, <1>14

LEMMA VanishMapped ==
  ASSUME IsFiniteSet(Obj), TypeOK, NEW v \in Slot, Writable(v), data[v] = NULL,
         exists' = exists \ {v}, UNCHANGED <<data, heap, stack>>
  PROVE  Lower!DestroyUnowned(v)
<1>1. data' = data /\ v \notin exists' /\ \A u : Calls(u)' = Calls(u)
  BY DEF Calls
<1>2. Lower!CanWrite(v) /\ ~Lower!Owner(members[v]) /\ Calls(v) = {} /\ Calls(v)' = {}
  BY <1>1, WritableMapped, MembersMapped
<1>3. /\ pcs'[v] = "raw" /\ members'[v] = Lower!Empty
      /\ sources'[v] = sources[v] /\ objects'[v] = objects[v]
  BY <1>1, <1>2, AtRest, AtRestNext, MembersMappedNext
<1>4. cells' = cells /\ objectCount' = objectCount
  BY DEF cells, objectCount
<1> QED
  BY <1>1, <1>2, <1>3, <1>4, OthersMapped DEF Lower!DestroyUnowned

(* What there is of the call on top                                          *)
LEMMA TopMapped ==
  ASSUME IInv, stack # <<>>
  PROVE  /\ TypeOK /\ Nested /\ Ranked /\ Top \in Frame
         /\ Top.to \in Slot /\ Top.obj \in Obj
         /\ Calls(Top.to) = {Top} /\ data[Top.to] # NULL
         /\ Builds(Top) => heap[Top.obj] = "building"
         /\ ~Builds(Top) => heap[Top.obj] = "dying" /\ data[Top.to] = Top.obj
<1>1. TypeOK /\ Nested /\ Ranked /\ Len(stack) \in 1 .. Len(stack) /\ Top \in Frame
  BY StackFacts DEF IInv
<1>2. Top.to \in Slot /\ Top.obj \in Obj
  BY <1>1 DEF Frame
<1>3. IF Builds(Top) THEN Building(Top) ELSE Destroying(Top)
  BY <1>1 DEF IInv, InCall, Top
<1> QED
  BY <1>1, <1>2, <1>3, OneCall, TreeAssumption DEF Building, Destroying, Top

LEMMA EndBuildMapped ==
  ASSUME IsFiniteSet(Obj), IInv, stack # <<>>, EndBuild, NEW v \in Slot, v = Top.to
  PROVE  Lower!EndBuild(v)
<1>1. /\ TypeOK /\ Nested /\ Ranked /\ Calls(v) = {Top} /\ data[v] # NULL /\ Builds(Top)
      /\ heap[Top.obj] = "building" /\ Top.obj \in Obj /\ Top \in Frame /\ stack' = Popped
  BY TopMapped DEF EndBuild, Builds
<1>2. PICK f \in Frame, o \in Obj : f = Top /\ o = Top.obj /\ o = f.obj
  BY <1>1
<1>3. /\ Builds(f) /\ data'[v] = o /\ v \in exists' /\ \A u \in Slot \ {v} : data'[u] = data[u]
      /\ \A u \in Slot \ {v} : u \in exists' <=> u \in exists
      /\ heap[o] = "building" /\ heap'[o] = "live" /\ \A x \in Obj \ {o} : heap'[x] = heap[x]
  BY <1>1, <1>2 DEF EndBuild, TypeOK
<1>4. Calls(v) = {f} /\ Calls(v)' = {} /\ \A u : u # v => Calls(u)' = Calls(u)
  BY <1>1, <1>2, CallsPop
<1>5. /\ pcs[v] \in {"create", "copy", "assign"} /\ objects[v] = o
      /\ pcs'[v] = "idle" /\ sources'[v] = NULL /\ objects'[v] = NULL
  BY <1>2, <1>3, <1>4, AtWork, AtRestNext DEF Builds
<1>6. members' = [members EXCEPT ![v].data = objects[v]]
  <2>1. members[v] = Lower!OfValue(Node, data[v]) /\ members'[v] = Lower!OfValue(Node, o)
    BY <1>1, <1>3, MembersMapped, MembersMappedNext, TreeAssumption
  <2>2. [members[v] EXCEPT !.data = o] = members'[v]
    <3>1. PICK id, flag :
            \A d : Lower!OfValue(Node, d) = [typeId |-> id, data |-> d, flag |-> flag, cls |-> Node]
      BY DEF Lower!OfValue
    <3>2. PICK d, m, n :
            /\ m = members[v] /\ m = [typeId |-> id, data |-> d, flag |-> flag, cls |-> Node]
            /\ n = members'[v] /\ n = [typeId |-> id, data |-> o, flag |-> flag, cls |-> Node]
      BY <2>1, <3>1
    <3>3. [m EXCEPT !.data = o] = n
      BY <3>2
    <3> QED
      BY <3>2, <3>3
  <2>3. members' = [members EXCEPT ![v] = members'[v]]
    BY <1>3, <1>4, OthersMapped
  <2> QED
    BY <1>5, <2>2, <2>3
<1>7. cells' = [cells EXCEPT ![objects[v]].phase = "live"]
  <2>1. cells' = [cells EXCEPT ![o] = CellOf("live")]
    BY <1>3, CellsChange
  <2>2. cells[o] = CellOf("building")
    BY <1>3, CellsMapped
  <2>3. CellOf("live") = [CellOf("building") EXCEPT !.phase = "live"]
    BY DEF CellOf
  <2> QED
    BY <1>5, <2>1, <2>2, <2>3
<1>8. objectCount' = objectCount + 1
  <2>1. o \notin Counted /\ Counted' = Counted \cup {o}
    BY <1>3 DEF Counted
  <2> QED
    BY <2>1, CountMapped
<1>9. /\ pcs' = [pcs EXCEPT ![v] = "idle"] /\ sources' = [sources EXCEPT ![v] = NULL]
      /\ objects' = [objects EXCEPT ![v] = NULL]
  BY <1>3, <1>4, <1>5, OthersMapped
<1> QED
  BY <1>5, <1>6, <1>7, <1>8, <1>9 DEF Lower!EndBuild

LEMMA EndDestroyMapped ==
  ASSUME IsFiniteSet(Obj), IInv, stack # <<>>, EndDestroy, NEW v \in Slot, v = Top.to
  PROVE  Lower!EndDestroy(v)
<1>1. /\ TypeOK /\ Nested /\ Ranked /\ Calls(v) = {Top} /\ data[v] # NULL /\ Top.op = "destroy"
      /\ heap[Top.obj] = "dying" /\ data[v] = Top.obj /\ Top.obj \in Obj /\ stack' = Popped
      /\ ~Builds(Top) /\ Top \in Frame
  BY TopMapped DEF EndDestroy, Builds
<1>2. PICK f \in Frame, o \in Obj : f = Top /\ o = Top.obj /\ o = f.obj
  BY <1>1
<1>3. /\ data[v] = o /\ data'[v] = NULL /\ v \notin exists'
      /\ \A u \in Slot \ {v} : data'[u] = data[u] /\ (u \in exists' <=> u \in exists)
      /\ heap[o] = "dying" /\ heap'[o] = "free" /\ \A x \in Obj \ {o} : heap'[x] = heap[x]
  BY <1>1, <1>2 DEF EndDestroy, TypeOK
<1>4. Calls(v) = {f} /\ Calls(v)' = {} /\ \A u : u # v => Calls(u)' = Calls(u)
  BY <1>1, <1>2, CallsPop
<1>5. /\ pcs[v] = "destroy" /\ pcs'[v] = "raw" /\ members'[v] = Lower!Empty
      /\ members[v].data = o /\ objects'[v] = objects[v]
  BY <1>1, <1>2, <1>3, <1>4, AtWork, AtRestNext, MembersMapped, MembersMappedNext
<1>6. sources'[v] = sources[v]
  <2>1. f.src = NULL
    <3>1. Len(stack) \in 1 .. Len(stack)
      BY <1>1, StackFacts
    <3>2. Destroying(Top)
      BY <1>1, <3>1 DEF IInv, InCall, Top
    <3> QED
      BY <1>1, <1>2, <3>2 DEF Destroying
  <2> QED
    BY <1>4, <2>1, AtWork, AtRestNext
<1>7. cells' = Lower!Released(v)
  <2>1. cells' = [cells EXCEPT ![o] = Lower!Free]
    BY <1>3, CellsChange DEF CellOf
  <2> QED
    BY <1>5, <2>1, CellsMapped DEF Lower!Released
<1>8. objectCount' = objectCount - 1
  <2>1. o \in Counted /\ Counted' = Counted \ {o}
    BY <1>3 DEF Counted
  <2> QED
    BY <2>1, CountMapped
<1>9. /\ pcs' = [pcs EXCEPT ![v] = "raw"] /\ members' = [members EXCEPT ![v] = Lower!Empty]
      /\ sources' = sources /\ objects' = objects
  BY <1>3, <1>4, <1>5, <1>6, OthersMapped
<1> QED
  BY <1>5, <1>7, <1>8, <1>9 DEF Lower!EndDestroy

LEMMA EndReleaseMapped ==
  ASSUME IsFiniteSet(Obj), IInv, stack # <<>>, EndRelease, NEW v \in Slot, v = Top.to
  PROVE  Lower!EndRelease(v)
<1>1. /\ TypeOK /\ Calls(v) = {Top} /\ Top.op = "release" /\ Top \in Frame /\ Top.obj \in Obj
      /\ Targets = {v} /\ Popped = <<>> /\ v \in exists /\ Top.src \in exists /\ Top.src # v
      /\ data[v] = Top.obj /\ data[v] # NULL /\ heap[Top.obj] = "dying"
  <2>1. Top.op = "release"
    BY DEF EndRelease
  <2>2. Targets = {v}
    <3>1. Len(stack) = 1 /\ stack[1].to = v
      BY <2>1, ReleaseAlone
    <3> QED
      BY <3>1 DEF Targets
  <2> QED
    BY <2>1, <2>2, TopMapped, ReleaseAlone
<1>2. PICK f \in Frame, w \in exists, b \in Obj :
        f = Top /\ f.src = Top.src /\ w = Top.src /\ b = Top.obj /\ f.op = "release"
  BY <1>1
<1>3. /\ w \in Slot /\ w \notin Targets /\ Calls(w) = {} /\ data[w] \in Obj \cup {NULL}
      /\ data[w] # NULL => heap[data[w]] = "live"
  BY <1>1, <1>2, NoCalls, QuietHolds DEF TypeOK
<1>4. \A u \in Slot \ {v} : Calls(u) = {}
  BY <1>1, NoCalls
<1>5. pcs[v] = "release" /\ sources[v] = w /\ objects[v] = NULL /\ members[v].data = b
  BY <1>1, <1>2, AtWork, MembersMapped DEF Builds
<1>6. PICK h : h = Lower!Released(v)
  OBVIOUS
<1>7. /\ h = [x \in Obj |-> IF x = b THEN Lower!Free ELSE cells[x]]
      /\ h = [x \in Obj |-> CellOf(IF x = b THEN "free" ELSE heap[x])]
  BY <1>5, <1>6, CellsMapped DEF Lower!Released, CellOf
<1>8. /\ data'[v] = data[w] /\ \A u \in Slot \ {v} : data'[u] = data[u]
      /\ \/ data[w] = NULL /\ heap' = [heap EXCEPT ![b] = "free"]
            /\ exists' = exists \cup {v} /\ stack' = <<>>
         \/ /\ data[w] # NULL /\ exists' = exists
            /\ \E o \in Obj :
                 /\ [heap EXCEPT ![b] = "free"][o] = "free"
                 /\ heap' = [heap EXCEPT ![b] = "free", ![o] = "building"]
                 /\ stack' = Append(<<>>, Call("assign", v, w, o, data[w]))
  <2>1. TakeMembers(v, w, "assign", [heap EXCEPT ![b] = "free"], <<>>)
    BY <1>1, <1>2 DEF EndRelease
  <2>2. Found(w) = {data[w]}
    BY DEF Found
  <2> QED
    BY <1>1, <2>1, <2>2 DEF TakeMembers, TypeOK
<1>9. Lower!TakeMembers(v, w, h, "assign") /\ Counted' = Counted \ {b}
  <2>1. CASE data[w] = NULL
    <3>1. \A u : Calls(u)' = {}
      <4>1. Len(stack') = 0
        BY <1>8, <2>1
      <4> QED
        BY <4>1 DEF Calls
    <3>2. /\ exists' = exists \cup {v} /\ heap'[b] = "free"
          /\ \A x \in Obj \ {b} : heap'[x] = heap[x]
      BY <1>1, <1>8, <2>1 DEF TypeOK
    <3>3. cells' = h
      BY <1>7, <3>2 DEF cells, CellOf, Lower!Free
    <3>4. Lower!TakeMembers(v, w, h, "assign")
      BY <1>3, <1>4, <1>5, <1>8, <2>1, <3>1, <3>2, <3>3, TakeEmptyMapped
    <3> QED
      BY <3>2, <3>4 DEF Counted
  <2>2. CASE data[w] # NULL
    <3>1. PICK o \in Obj :
            /\ [heap EXCEPT ![b] = "free"][o] = "free"
            /\ heap' = [heap EXCEPT ![b] = "free", ![o] = "building"]
            /\ stack' = Append(<<>>, Call("assign", v, w, o, data[w]))
            /\ exists' = exists
      BY <1>8, <2>2
    <3>2. /\ o = b \/ heap[o] = "free"
          /\ heap'[o] = "building" /\ (b # o => heap'[b] = "free")
          /\ \A x \in Obj \ {b, o} : heap'[x] = heap[x]
      BY <1>1, <3>1 DEF TypeOK
    <3>3. PICK g \in Frame : /\ g = Call("assign", v, w, o, data[w]) /\ Builds(g)
                             /\ g.op = "assign" /\ g.src = w /\ g.obj = o /\ g.to = v
      BY <1>3, CallFacts DEF Builds
    <3>4. Calls(v)' = {g} /\ \A u \in Slot \ {v} : Calls(u)' = {}
      <4>1. stack' = <<g>>
        BY <3>1, <3>3
      <4>2. Len(stack') = 1 /\ stack'[1] = g
        BY <4>1
      <4>3. {stack'[i] : i \in 1 .. Len(stack')} = {g}
        BY <4>2
      <4> QED
        BY <3>3, <4>3 DEF Calls
    <3>5. cells' = [h EXCEPT ![g.obj] = CellOf("building")] /\ h[g.obj].phase = "free"
      BY <1>7, <3>2, <3>3 DEF cells, CellOf, Lower!Free
    <3>6. h[data[w]].content = "any"
      <4>1. data[w] # b /\ data[w] \in Obj /\ heap[data[w]] = "live"
        BY <1>1, <1>2, <1>3, <2>2
      <4> QED
        BY <1>7, <4>1 DEF CellOf
    <3>7. Lower!TakeMembers(v, w, h, g.op)
      BY <1>3, <1>4, <1>8, <2>2, <3>1, <3>3, <3>4, <3>5, <3>6, TakeOwnedMapped
    <3>8. Counted' = Counted \ {b}
      BY <1>1, <1>2, <3>2 DEF Counted
    <3> QED
      BY <3>3, <3>7, <3>8
  <2> QED
    BY <2>1, <2>2
<1>10. objectCount' = objectCount - 1
  <2>1. b \in Counted
    BY <1>1, <1>2 DEF Counted
  <2> QED
    BY <1>9, <2>1, CountMapped
<1> QED
  BY <1>5, <1>6, <1>9, <1>10 DEF Lower!EndRelease

(* No destructor is called for the Varient that operator= is to read.        *)
LEMMA ChildWritable ==
  ASSUME IInv, stack # <<>>, ~Builds(Top), Top.obj \in exists
  PROVE  Writable(Top.obj)
<1>1. /\ TypeOK /\ Nested /\ Ranked /\ InCall /\ Apart /\ Top = stack[Len(stack)]
      /\ Len(stack) \in 1 .. Len(stack) /\ \A i \in 1 .. Len(stack) : i <= Len(stack)
      /\ Top.obj \in Obj /\ Top.obj # NULL
  BY StackFacts, TopMapped, TreeAssumption DEF IInv, Top
<1>2. Top.obj \notin Targets
  BY <1>1, Distinct DEF Targets
<1>3. ASSUME NEW u \in Slot PROVE sources[u] # Top.obj
  <2>1. CASE u \notin Targets
    BY <1>1, <2>1, NoCalls, AtRest
  <2>2. CASE u \in Targets
    <3>1. PICK i \in 1 .. Len(stack) : stack[i].to = u
      BY <2>2 DEF Targets
    <3>2. PICK f : f = stack[i]
      OBVIOUS
    <3>3. sources[u] = f.src
      BY <1>1, <3>1, <3>2, OneCall, AtWork
    <3>4. ~Builds(stack[i]) /\ ~Builds(stack[1]) /\ Destroying(f)
      BY <1>1, <3>2, Uniform DEF InCall
    <3>5. CASE f.op = "release"
      <4>1. i = 1 /\ stack[1].op = "release"
        BY <1>1, <3>2, <3>5, Uniform
      <4>2. PICK S \in SUBSET exists, R \in SUBSET Slot :
              Copied(S) /\ Deleted(R) /\ R \cap S = {}
        BY <1>1, <4>1 DEF Apart
      <4>3. f.src \in S /\ Top.obj \in R
        BY <1>1, <3>2, <4>1, <4>2 DEF Copied, Deleted
      <4> QED
        BY <3>3, <4>2, <4>3
    <3>6. CASE f.op # "release"
      BY <1>1, <3>3, <3>4, <3>6 DEF Destroying
    <3> QED
      BY <3>5, <3>6
  <2> QED
    BY <2>1, <2>2
<1> QED
  BY <1>2, <1>3 DEF Writable

LEMMA StartMapped ==
  ASSUME IsFiniteSet(Obj), Related = FALSE, IInv, Start
  PROVE  Lower!Next
<1>1. /\ TypeOK /\ stack = <<>> /\ Targets = {} /\ exists \subseteq Slot
      /\ \A u : u \in Root => u \in Slot
  <2>1. Len(stack) = 0
    BY DEF Start
  <2> QED
    BY <2>1 DEF IInv, TypeOK, Start, Targets, Slot
<1>2. \A v \in exists : Writable(v)
  <2>1. \A u \in Slot : sources[u] = NULL
    BY <1>1, NoCalls, AtRest
  <2>2. NULL \notin Slot
    BY TreeAssumption DEF Slot
  <2> QED
    BY <1>1, <2>1, <2>2 DEF Writable
<1>3. (\E v \in Slot : Lower!Start(v)) => Lower!Next
  BY DEF Lower!Next
<1>4. ASSUME NEW v \in Root \ exists, ConstructEmpty(v) PROVE Lower!Next
  BY <1>1, <1>3, <1>4, ConstructEmptyMapped DEF Lower!Start
<1>5. ASSUME NEW v \in Root \ exists, Create(v) PROVE Lower!Next
  BY <1>1, <1>3, <1>5, CreateMapped DEF Lower!Start
<1>6. ASSUME NEW v \in Root \ exists, NEW w \in exists, Copy(v, w) PROVE Lower!Next
  <2>1. Lower!BeginCopy(v, w)
    BY <1>1, <1>6, CopyMapped DEF Copy
  <2> QED
    BY <1>1, <1>3, <2>1 DEF Lower!Start
<1>7. ASSUME NEW v \in Root \cap exists, Destroy(v) PROVE Lower!Next
  <2>1. CASE data[v] # NULL
    <3>1. CallDestructor("destroy", v, NULL)
      BY <1>7, <2>1 DEF Destroy
    <3>2. Lower!BeginDestroy(v)
      BY <1>1, <1>2, <2>1, <3>1, EnterMapped
    <3> QED
      BY <1>1, <1>3, <3>2 DEF Lower!Start
  <2>2. CASE data[v] = NULL
    BY <1>1, <1>2, <1>3, <1>7, <2>2, VanishMapped DEF Destroy, Lower!Start
  <2> QED
    BY <2>1, <2>2
<1>8. ASSUME NEW v \in exists, NEW w \in exists, Assign(v, w) PROVE Lower!Next
  <2>1. w # v
    BY <1>8 DEF Assign, SameTree
  <2>2. CASE data[v] # NULL
    <3>1. CallDestructor("release", v, w)
      BY <1>8, <2>2 DEF Assign
    <3>2. Lower!BeginRelease(v, w)
      BY <1>1, <1>2, <2>1, <2>2, <3>1, EnterMapped
    <3> QED
      BY <1>1, <1>3, <3>2 DEF Lower!Start
  <2>3. CASE data[v] = NULL
    <3>1. TakeMembers(v, w, "assign", heap, stack)
      BY <1>8, <2>3 DEF Assign
    <3>2. Lower!AssignOverUnowned(v, w)
      BY <1>1, <1>2, <2>1, <2>3, <3>1, AssignMapped
    <3> QED
      BY <1>1, <1>3, <3>2 DEF Lower!Start
  <2> QED
    BY <2>2, <2>3
<1> QED
  BY <1>4, <1>5, <1>6, <1>7, <1>8 DEF Start

LEMMA ReturnMapped ==
  ASSUME IsFiniteSet(Obj), IInv, Return
  PROVE  Lower!Next
<1>1. /\ TypeOK /\ stack # <<>> /\ Nested /\ InCall /\ Children /\ Ranked /\ Apart
      /\ Top \in Frame /\ Top.to \in Slot /\ Top.obj \in Slot /\ exists \subseteq Slot
      /\ Top.obj \notin Targets
  BY TopMapped, TopFree DEF IInv, TypeOK, Return, Slot
<1>2. PICK v \in Slot, c \in Slot : v = Top.to /\ c = Top.obj
  BY <1>1
<1>3. (\E u \in Slot : Lower!Start(u) \/ Lower!Leave(u)) => Lower!Next
  BY DEF Lower!Next
<1>4. CASE BuildChild
  <2>1. Builds(Top) /\ c \notin exists /\ c \notin Targets
    BY <1>1, <1>2, <1>4 DEF BuildChild, Builds
  <2>2. CASE Top.read = NULL
    <3>1. ConstructEmpty(c)
      BY <1>2, <1>4, <2>2 DEF BuildChild
    <3> QED
      BY <1>1, <1>3, <2>1, <3>1, ConstructEmptyMapped DEF Lower!Start
  <2>3. CASE Top.read # NULL
    <3>1. PICK w \in exists : w = Top.read /\ w \notin Targets
      BY <1>1, <2>1, <2>3, ReadRests
    <3>2. TakeMembers(c, w, "copy", heap, stack)
      BY <1>2, <1>4, <2>3, <3>1 DEF BuildChild
    <3>3. Lower!BeginCopy(c, w)
      BY <2>1, <3>1, <3>2, CopyMapped
    <3> QED
      BY <1>1, <1>3, <3>1, <3>3 DEF Lower!Start
  <2> QED
    BY <2>2, <2>3
<1>5. CASE EndBuild
  BY <1>1, <1>2, <1>3, <1>5, EndBuildMapped DEF Lower!Leave
<1>6. CASE DestroyChild
  <2>1. ~Builds(Top) /\ c \in exists /\ Destroy(c)
    BY <1>2, <1>6 DEF DestroyChild, Builds
  <2>2. Writable(c)
    BY <1>1, <1>2, <2>1, ChildWritable
  <2>3. CASE data[c] # NULL
    <3>1. CallDestructor("destroy", c, NULL)
      BY <2>1, <2>3 DEF Destroy
    <3>2. Lower!BeginDestroy(c)
      BY <2>2, <2>3, <3>1, EnterMapped
    <3> QED
      BY <1>3, <3>2 DEF Lower!Start
  <2>4. CASE data[c] = NULL
    BY <1>1, <1>3, <2>1, <2>2, <2>4, VanishMapped DEF Destroy, Lower!Start
  <2> QED
    BY <2>3, <2>4
<1>7. CASE EndDestroy
  BY <1>1, <1>2, <1>3, <1>7, EndDestroyMapped DEF Lower!Leave
<1>8. CASE EndRelease
  BY <1>1, <1>2, <1>3, <1>8, EndReleaseMapped DEF Lower!Leave
<1> QED
  BY <1>4, <1>5, <1>6, <1>7, <1>8 DEF Return

(* The operations that the class's own code carries out on children keep the *)
(* rule that Varient leaves to its client: as long as the client assigns     *)
(* between trees only, trees of any depth behave as Varients do.             *)
THEOREM TreesAreVarients ==
  ASSUME IsFiniteSet(Obj), Related = FALSE
  PROVE  Spec => LowerSpec
<1>1. Init => Lower!Init
  <2> SUFFICES ASSUME Init PROVE Lower!Init
    OBVIOUS
  <2>1. /\ Len(stack) = 0 /\ exists = {}
        /\ data = [v \in Slot |-> NULL] /\ heap = [o \in Obj |-> "free"]
    BY DEF Init
  <2>2. \A v : Calls(v) = {}
    BY <2>1 DEF Calls
  <2>3. objectCount = 0
    <3>1. {o \in Obj : heap[o] \in {"live", "dying"}} = {}
      BY <2>1
    <3> QED
      BY <3>1, FS_EmptySet DEF objectCount
  <2>4. /\ members = [v \in Slot |-> Lower!Empty] /\ cells = [o \in Obj |-> Lower!Free]
    BY <2>1 DEF members, cells, T!Empty, Lower!Empty, Lower!Free
  <2>5. /\ pcs = [v \in Slot |-> "raw"] /\ sources = [v \in Slot |-> NULL]
        /\ objects = [v \in Slot |-> NULL]
    BY <2>1, <2>2 DEF pcs, sources, objects
  <2> QED
    BY <2>3, <2>4, <2>5 DEF Lower!Init
<1>2. UNCHANGED vars => UNCHANGED Lower!vars
  <2> SUFFICES ASSUME UNCHANGED vars PROVE UNCHANGED Lower!vars
    OBVIOUS
  <2>1. exists' = exists /\ data' = data /\ heap' = heap /\ stack' = stack
    BY DEF vars
  <2>2. \A v : Calls(v)' = Calls(v)
    BY <2>1 DEF Calls
  <2>3. \A v : CallOn(v)' = CallOn(v)
    BY <2>2 DEF CallOn
  <2> QED
    BY <2>1, <2>2, <2>3 DEF Lower!vars, members, pcs, sources, objects, cells, objectCount
<1>3. IInv /\ [Next]_vars => [Lower!Next]_Lower!vars
  BY <1>2, StartMapped, ReturnMapped DEF Next
<1>4. Spec => []IInv
  BY TreeInvariant
<1> QED
  BY <1>1, <1>3, <1>4, PTL DEF Spec, LowerSpec, Lower!Spec
=============================================================================
