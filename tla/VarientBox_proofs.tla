------------------------- MODULE VarientBox_proofs -------------------------
(***************************************************************************)
(* As long as no assignment throws and no Varient is assigned to itself,   *)
(* Varient implements ValueBox.                                            *)
(***************************************************************************)
EXTENDS VarientBox, Varient_proofs, TLAPS

(* Every object has a content. *)
FilledCells == \A o \in Obj : heap[o].phase # "free" => heap[o].content \in Content

LEMMA TakeMembersFills ==
  ASSUME TypeInv, NEW v \in Slot, NEW w \in Slot, NEW h \in [Obj -> Cell],
         NEW copying, TakeMembers(v, w, h, copying),
         \A o \in Obj : h[o].phase # "free" => h[o].content \in Content
  PROVE  FilledCells'
<1>1. CASE ~Owner(member[w])
  BY <1>1 DEF TakeMembers, FilledCells
<1>2. CASE Owner(member[w])
  <2>1. member[w].data \in Obj
    BY <1>2 DEF TypeInv, Shape
  <2>2. Found(h, member[w].data, member[w].cls) \subseteq Content
    BY <2>1 DEF Found
  <2>3. PICK o \in Obj, x \in Content : heap' = [h EXCEPT ![o] = Building(member[w].cls, x)]
    BY <1>2, <2>2 DEF TakeMembers
  <2> QED
    BY <2>3 DEF FilledCells, Building
<1> QED
  BY <1>1, <1>2

LEMMA NextFilledCells ==
  TypeInv /\ OwnInv /\ failed = 0 /\ FilledCells /\ [Next]_vars => FilledCells'
<1> SUFFICES ASSUME TypeInv, OwnInv, failed = 0, FilledCells, [Next]_vars PROVE FilledCells'
  OBVIOUS
<1> USE DEF TypeInv, TypeOK, FilledCells
<1>1. CASE UNCHANGED heap
  BY <1>1
<1>2. ASSUME NEW v \in Slot, Start(v) PROVE FilledCells'
  <2>1. CASE BeginCreate(v)
    BY <2>1 DEF BeginCreate, Building
  <2>2. ASSUME BeginDestroy(v) \/ \E w \in Slot : BeginRelease(v, w) PROVE FilledCells'
    BY <2>2 DEF BeginDestroy, BeginRelease, EnterDestructor, Cell
  <2>3. CASE SetContent(v)
    BY <2>3 DEF SetContent, Cell
  <2>4. ASSUME NEW w \in Slot, BeginCopy(v, w) \/ AssignOverUnowned(v, w) PROVE FilledCells'
    BY <2>4, TakeMembersFills DEF BeginCopy, AssignOverUnowned
  <2> QED
    BY <1>1, <1>2, <2>1, <2>2, <2>3, <2>4
       DEF Start, ConstructEmpty, ConstructFromConstPtr, ConstructFromPtr, DestroyUnowned
<1>3. ASSUME NEW v \in Slot, Leave(v) PROVE FilledCells'
  <2>1. CASE EndBuild(v)
    <3>1. fresh[v] \in Obj /\ heap[fresh[v]].phase = "building"
      BY <2>1 DEF EndBuild, Shape, Builds, OwnInv, BuildsOwn
    <3> QED
      BY <2>1, <3>1 DEF EndBuild, Cell
  <2>2. CASE ThrowInConstructor(v) \/ ThrowInAssign(v)
    BY <2>2 DEF ThrowInConstructor, ThrowInAssign, Unbuild, Free
  <2>3. CASE EndRelease(v)
    <3>1. from[v] \in Slot /\ member[v].data \in Obj
      BY <2>3 DEF EndRelease, Shape, Busy
    <3>2. /\ Released(v) \in [Obj -> Cell]
          /\ \A o \in Obj : Released(v)[o].phase # "free" => Released(v)[o].content \in Content
      BY <3>1, HeapCells DEF Released, Free
    <3> QED
      BY <2>3, <3>1, <3>2, TakeMembersFills DEF EndRelease
  <2>4. CASE EndDestroy(v)
    BY <2>4 DEF EndDestroy, Released, Free
  <2> QED
    BY <1>3, <2>1, <2>2, <2>3, <2>4 DEF Leave
<1> QED
  BY <1>1, <1>2, <1>3 DEF Next, vars

-----------------------------------------------------------------------------
(* Values *)

BoxInv == SafeInv /\ FilledCells /\ failed = 0

LEMMA NoValueIsNone == \A x, y : <<x, y>> # NoValue
  BY DEF NoValue

LEMMA PlainIsPlain ==
  ASSUME NEW m, m = Empty \/ \E t \in Type : Stored(m, t), ~Owner(m)
  PROVE  <<NULL, m>> \in PlainValues
<1>1. CASE m = Empty
  BY <1>1 DEF PlainValues
<1>2. ASSUME NEW t \in Type, Stored(m, t) PROVE <<NULL, m>> \in PlainValues
  <2>1. ~\E c \in Class, o \in Obj : m = OfValue(c, o)
    BY DEF OfValue, Owner
  <2>2. PICK c \in Class : \E p \in Pointees(c) : m = OfConstPtr(c, p) \/ m = OfPtr(c, p)
    BY <1>2, <2>1 DEF Stored
  <2>3. PICK p \in Pointees(c) : m = OfConstPtr(c, p) \/ m = OfPtr(c, p)
    BY <2>2
  <2>4. p \in Ext \cup {NULL}
    BY DEF Pointees
  <2> QED
    BY <2>3, <2>4 DEF PlainValues
<1> QED
  BY <1>1, <1>2

(* A step of v leaves the boxes of the others alone. *)
LEMMA OtherBoxes ==
  ASSUME BoxInv, NEW v \in Slot, Start(v) \/ Leave(v), NEW u \in Slot \ {v}
  PROVE  box'[u] = box[u] /\ want'[u] = want[u]
<1> USE DEF BoxInv, SafeInv
<1>1. UNCHANGED <<member[u], pc[u], from[u], fresh[u]>>
  BY Footprint
<1>2. \A o \in Claims(u) : heap'[o] = heap[o]
  BY ClaimedIsTaken, Footprint DEF OwnInv, DisjointClaims, Claims
<1>3. ASSUME NEW w \in Slot \ {v}, pc[w] = "idle"
      PROVE  ValueOf(w)' = ValueOf(w) /\ pc'[w] = "idle"
  <2>1. UNCHANGED <<member[w], pc[w]>>
    BY Footprint
  <2>2. Owner(member[w]) => member[w].data \in Claims(w)
    BY <1>3 DEF Claims, Holds, TypeInv, Shape
  <2>3. \A o \in Claims(w) : heap'[o] = heap[o]
    BY ClaimedIsTaken, Footprint DEF OwnInv, DisjointClaims, Claims
  <2> QED
    BY <1>3, <2>1, <2>2, <2>3 DEF ValueOf, ObjectOf
<1>4. box'[u] = box[u]
  BY <1>1, <1>3 DEF box
<1>5. want'[u] = want[u]
  <2>1. CASE Builds(u)
    <3>1. fresh[u] \in Claims(u)
      BY <2>1 DEF Claims, TypeInv, Shape
    <3> QED
      BY <1>1, <1>2, <2>1, <3>1 DEF want, ObjectOf, Builds
  <2>2. CASE pc[u] = "release"
    <3>1. from[u] \in Slot /\ pc[from[u]] = "idle"
      BY <2>2 DEF SourceRests, TypeInv, Shape
    <3>2. from[u] # v
      <4>1. SUFFICES ASSUME from[u] = v PROVE FALSE
        OBVIOUS
      <4>2. ~CanWrite(v) /\ pc[v] = "idle"
        BY <3>1, <4>1 DEF CanWrite
      <4> QED
        BY <4>2 DEF Start, ConstructEmpty, ConstructFromConstPtr, ConstructFromPtr,
           BeginCreate, DestroyUnowned, BeginDestroy, SetContent, BeginCopy, BeginRelease,
           AssignOverUnowned, Leave, EndBuild, ThrowInConstructor, EndRelease,
           ThrowInAssign, EndDestroy
    <3>3. ValueOf(from[u])' = ValueOf(from[u])
      BY <1>1, <1>3, <3>1, <3>2 DEF ValueOf, ObjectOf
    <3> QED
      BY <1>1, <2>2, <3>3 DEF want, Builds
  <2>3. CASE ~Builds(u) /\ pc[u] # "release"
    BY <1>1, <2>3 DEF want, Builds
  <2> QED
    BY <2>1, <2>2, <2>3
<1> QED
  BY <1>4, <1>5

-----------------------------------------------------------------------------
(* Steps *)

(* What a step of v does to the boxes, it does to the box of v. *)
LEMMA OneBox ==
  ASSUME BoxInv, NEW v \in Slot, Start(v) \/ Leave(v)
  PROVE  /\ box' = [box EXCEPT ![v] = box'[v]]
         /\ want' = [want EXCEPT ![v] = want'[v]]
<1>1. \A u \in Slot \ {v} : box'[u] = box[u] /\ want'[u] = want[u]
  BY OtherBoxes
<1>2. /\ box = [u \in Slot |-> box[u]] /\ box' = [u \in Slot |-> box'[u]]
      /\ want = [u \in Slot |-> want[u]] /\ want' = [u \in Slot |-> want'[u]]
  BY DEF box, want
<1> QED
  BY <1>1, <1>2

LEMMA BoxOf ==
  ASSUME NEW v \in Slot
  PROVE  /\ pc[v] = "idle" => box[v] = ValueOf(v) /\ want[v] = NoValue
         /\ pc[v] # "idle" => box[v] = NoValue
         /\ pc[v] \in {"raw", "destroy"} => want[v] = NoValue
         /\ Builds(v) => want[v] = ObjectOf(v, fresh[v])
         /\ pc[v] = "release" => want[v] = ValueOf(from[v])
  BY DEF box, want, Builds

LEMMA BoxOfNext ==
  ASSUME NEW v \in Slot
  PROVE  /\ pc'[v] = "idle" => box'[v] = ValueOf(v)' /\ want'[v] = NoValue
         /\ pc'[v] # "idle" => box'[v] = NoValue
         /\ pc'[v] \in {"raw", "destroy"} => want'[v] = NoValue
         /\ Builds(v)' => want'[v] = ObjectOf(v, fresh[v])'
         /\ pc'[v] = "release" => want'[v] = ValueOf(from[v])'
  BY DEF box, want, Builds

LEMMA ObjectIsSome == \A v, o : ObjectOf(v, o) # NoValue
  BY NoValueIsNone DEF ObjectOf

LEMMA ValueIsSome ==
  ASSUME NEW v \in Slot
  PROVE  ValueOf(v) # NoValue
  BY NoValueIsNone, ObjectIsSome DEF ValueOf

LEMMA BoxFunctions ==
  /\ box = [u \in Slot |-> box[u]]
  /\ want = [u \in Slot |-> want[u]]
  BY DEF box, want

(* A Varient that owns nothing has a value that is copied at once. *)
LEMMA UnownedIsPlain ==
  ASSUME BoxInv, NEW v \in Slot, ~Owner(member[v])
  PROVE  ValueOf(v) \in PlainValues
  BY PlainIsPlain DEF BoxInv, SafeInv, MemberShape, ValueOf

(* The object of an owner between two operations *)
LEMMA OwnedValue ==
  ASSUME BoxInv, NEW v \in Slot, Owner(member[v]), pc[v] = "idle"
  PROVE  /\ member[v].data \in Obj /\ member[v].cls \in Class
         /\ heap[member[v].data].phase = "live"
         /\ heap[member[v].data].cls = member[v].cls
         /\ heap[member[v].data].content \in Content
         /\ member[v].data \in Claims(v)
<1>1. member[v].data \in Obj /\ member[v].cls \in Class /\ Holds(v)
  BY DEF BoxInv, SafeInv, TypeInv, Shape, Holds
<1> QED
  BY <1>1 DEF BoxInv, SafeInv, OwnInv, OwnedIsLive, FilledCells, Claims

(* The value taken over from w: at once, or to be made. *)
LEMMA TakenValue ==
  ASSUME BoxInv, NEW v \in Slot, NEW w \in Slot \ {v}, pc[w] = "idle",
         NEW h \in [Obj -> Cell], NEW copying \in {"copy", "assign"},
         TakeMembers(v, w, h, copying),
         \A o \in Obj : o \notin Claims(v) => h[o] = heap[o]
  PROVE  \/ /\ ~Owner(member[w]) /\ box'[v] = ValueOf(w) /\ want'[v] = NoValue
         \/ /\ Owner(member[w]) /\ box'[v] = NoValue /\ want'[v] = ValueOf(w)
<1> USE DEF BoxInv, SafeInv, TypeInv, TypeOK
<1>1. CASE ~Owner(member[w])
  <2>1. pc'[v] = "idle" /\ member'[v] = member[w]
    BY <1>1 DEF TakeMembers
  <2>2. box'[v] = ValueOf(v)' /\ want'[v] = NoValue
    BY <2>1, BoxOfNext
  <2> QED
    BY <1>1, <2>1, <2>2 DEF ValueOf
<1>2. CASE Owner(member[w])
  <2>1. pc'[v] = copying /\ member'[v] = member[w]
    BY <1>2 DEF TakeMembers
  <2>2. box'[v] = NoValue /\ want'[v] = ObjectOf(v, fresh[v])'
    BY <2>1, BoxOfNext DEF Builds
  <2>3. member[w].data \in Obj /\ h[member[w].data] = heap[member[w].data]
    BY <1>2, OwnedValue DEF OwnInv, DisjointClaims, Claims
  <2>4. heap'[fresh'[v]].content = heap'[member'[v].data].content
    BY <2>1, TakeMembersContent DEF CanRead
  <2>5. heap'[member[w].data] = heap[member[w].data]
    <3>1. heap[member[w].data].phase = "live"
      BY <1>2, OwnedValue
    <3>2. PICK o \in Obj, x \in Found(h, member[w].data, member[w].cls) :
             /\ h[o].phase = "free"
             /\ heap' = [h EXCEPT ![o] = Building(member[w].cls, x)]
      BY <1>2 DEF TakeMembers
    <3> QED
      BY <2>3, <3>1, <3>2
  <2> QED
    BY <1>2, <2>1, <2>2, <2>4, <2>5 DEF ObjectOf, ValueOf
<1> QED
  BY <1>1, <1>2

LEMMA StartOfBox ==
  ASSUME ~SelfAssign, BoxInv, NEW v \in Slot, Start(v)
  PROVE  Box!Next \/ UNCHANGED <<box, want>>
<1> USE DEF BoxInv, SafeInv, TypeInv, TypeOK
<1>0. /\ box' = [box EXCEPT ![v] = box'[v]]
      /\ want' = [want EXCEPT ![v] = want'[v]]
      /\ box = [u \in Slot |-> box[u]] /\ want = [u \in Slot |-> want[u]]
  BY OneBox, BoxFunctions
<1>1. CASE ConstructEmpty(v) \/ ConstructFromConstPtr(v) \/ ConstructFromPtr(v)
  <2>1. /\ pc[v] = "raw" /\ pc'[v] = "idle"
        /\ ~Owner(member'[v]) /\ <<NULL, member'[v]>> \in PlainValues
    <3>1. CASE ConstructEmpty(v)
      BY <3>1, EmptyMembers DEF ConstructEmpty, PlainValues
    <3>2. CASE ConstructFromConstPtr(v)
      <4>1. PICK c \in Class : \E p \in Pointees(c) : member'[v] = OfConstPtr(c, p)
        BY <3>2 DEF ConstructFromConstPtr
      <4> QED
        BY <3>2, <4>1, StoredMembers DEF ConstructFromConstPtr, PlainValues, Pointees
    <3>3. CASE ConstructFromPtr(v)
      <4>1. PICK c \in Class : \E p \in Pointees(c) : member'[v] = OfPtr(c, p)
        BY <3>3 DEF ConstructFromPtr
      <4> QED
        BY <3>3, <4>1, StoredMembers DEF ConstructFromPtr, PlainValues, Pointees
    <3> QED
      BY <1>1, <3>1, <3>2, <3>3
  <2>2. /\ box[v] = NoValue /\ want[v] = NoValue /\ want'[v] = NoValue
        /\ box'[v] \in PlainValues
    BY <2>1, BoxOf, BoxOfNext DEF ValueOf
  <2>3. Box!PutAtOnce(v)
    BY <1>0, <2>2 DEF Box!PutAtOnce
  <2> QED
    BY <2>3 DEF Box!Next
<1>2. CASE BeginCreate(v)
  <2>1. PICK c \in Class, x \in Content, o \in Obj :
          /\ heap' = [heap EXCEPT ![o] = Building(c, x)]
          /\ fresh' = [fresh EXCEPT ![v] = o]
          /\ member' = [member EXCEPT ![v] = OfValue(c, o)]
          /\ pc[v] = "raw" /\ pc'[v] = "create"
    BY <1>2 DEF BeginCreate
  <2>2. box[v] = NoValue /\ want[v] = NoValue /\ box'[v] = NoValue
    BY <2>1, BoxOf, BoxOfNext
  <2>3. want'[v] = <<c, x>>
    BY <2>1, BoxOfNext, StoredMembers DEF Builds, ObjectOf, Building
  <2>4. Box!Put(v)
    BY <1>0, <2>2, <2>3 DEF Box!Put, Box!Object
  <2> QED
    BY <2>4 DEF Box!Next
<1>3. CASE DestroyUnowned(v) \/ BeginDestroy(v)
  <2>1. pc[v] = "idle" /\ pc'[v] \in {"raw", "destroy"}
    BY <1>3 DEF DestroyUnowned, BeginDestroy, CanWrite
  <2>2. /\ box[v] # NoValue /\ want[v] = NoValue
        /\ box'[v] = NoValue /\ want'[v] = NoValue
    BY <2>1, BoxOf, BoxOfNext, ValueIsSome
  <2>3. Box!Drop(v)
    BY <1>0, <2>2 DEF Box!Drop
  <2> QED
    BY <2>3 DEF Box!Next
<1>4. CASE SetContent(v)
  <2>1. PICK x \in Content : heap' = [heap EXCEPT ![member[v].data].content = x]
    BY <1>4 DEF SetContent
  <2>2. /\ pc[v] = "idle" /\ pc'[v] = "idle"
        /\ member'[v] = member[v]
    BY <1>4 DEF SetContent, CanWrite
  <2>3. /\ box[v] = ValueOf(v) /\ box'[v] = ValueOf(v)'
        /\ want[v] = NoValue /\ want'[v] = NoValue
    BY <2>2, BoxOf, BoxOfNext
  <2>4. CASE Owner(member[v])
    <3>1. /\ member[v].data \in Obj /\ member[v].cls \in Class
          /\ heap[member[v].data].content \in Content
      BY <2>2, <2>4, OwnedValue
    <3>2. heap'[member[v].data].content = x
      BY <2>1, <3>1 DEF Cell
    <3>3. /\ box[v] = <<member[v].cls, heap[member[v].data].content>>
          /\ box'[v] = <<member[v].cls, x>>
      BY <2>2, <2>3, <2>4, <3>2 DEF ValueOf, ObjectOf
    <3>4. Box!Change(v)
      BY <1>0, <2>3, <3>1, <3>3 DEF Box!Change, Box!Object
    <3> QED
      BY <3>4 DEF Box!Next
  <2>5. CASE ~Owner(member[v])
    BY <1>0, <2>2, <2>3, <2>5 DEF ValueOf
  <2> QED
    BY <2>4, <2>5
<1>5. ASSUME NEW w \in Slot, BeginCopy(v, w) \/ AssignOverUnowned(v, w)
      PROVE  Box!Next \/ UNCHANGED <<box, want>>
  <2>1. /\ pc[w] = "idle" /\ pc[v] \in {"raw", "idle"} /\ ~Holds(v)
        /\ TakeMembers(v, w, heap, "copy") \/ TakeMembers(v, w, heap, "assign")
    BY <1>5 DEF BeginCopy, AssignOverUnowned, CanRead, CanWrite, Holds
  <2>2. want[v] = NoValue /\ box[w] = ValueOf(w)
    BY <2>1, BoxOf
  <2>3. CASE w = v
    <3>1. ~Owner(member[v]) /\ pc[v] = "idle"
      BY <2>1, <2>3 DEF Holds
    <3>2. UNCHANGED <<member[v], pc[v]>>
      BY <2>1, <2>3, <3>1 DEF TakeMembers
    <3>3. box'[v] = box[v] /\ want'[v] = want[v]
      BY <3>1, <3>2, BoxOf, BoxOfNext DEF ValueOf
    <3> QED
      BY <1>0, <3>3
  <2>4. CASE w # v /\ ~Owner(member[w])
    <3>1. box'[v] = box[w] /\ want'[v] = NoValue /\ box[w] \in PlainValues
      BY <2>1, <2>2, <2>4, TakenValue, UnownedIsPlain
    <3>2. Box!CopyAtOnce(v, w)
      BY <1>0, <2>2, <3>1 DEF Box!CopyAtOnce
    <3> QED
      BY <3>2 DEF Box!Next
  <2>5. CASE w # v /\ Owner(member[w])
    <3>1. box'[v] = NoValue /\ want'[v] = box[w] /\ box[w] # NoValue
      BY <2>1, <2>2, <2>5, TakenValue, ValueIsSome
    <3>2. Box!Copy(v, w)
      BY <1>0, <2>2, <3>1 DEF Box!Copy
    <3> QED
      BY <3>2 DEF Box!Next
  <2> QED
    BY <2>3, <2>4, <2>5
<1>6. ASSUME NEW w \in Slot, BeginRelease(v, w)
      PROVE  Box!Next
  <2>1. /\ w # v /\ pc[w] = "idle" /\ pc[v] = "idle"
        /\ pc'[v] = "release" /\ from'[v] = w
    BY <1>6 DEF BeginRelease, CanRead, CanWrite
  <2>2. box'[w] = box[w] /\ pc'[w] = "idle"
    BY <1>6, <2>1, OtherBoxes, Footprint
  <2>3. /\ want[v] = NoValue /\ box'[v] = NoValue
        /\ want'[v] = box[w] /\ box[w] # NoValue
    <3>1. box'[w] = ValueOf(w)' /\ want'[v] = ValueOf(from[v])'
      BY <2>1, <2>2, BoxOfNext
    <3>2. ValueOf(from[v])' = ValueOf(w)'
      BY <2>1 DEF ValueOf, ObjectOf
    <3>3. box[w] # NoValue
      BY <2>1, BoxOf, ValueIsSome
    <3> QED
      BY <2>1, <2>2, <3>1, <3>2, <3>3, BoxOf, BoxOfNext
  <2>4. Box!Copy(v, w)
    BY <1>0, <2>3 DEF Box!Copy
  <2> QED
    BY <2>4 DEF Box!Next
<1> QED
  BY <1>1, <1>2, <1>3, <1>4, <1>5, <1>6 DEF Start

LEMMA LeaveOfBox ==
  ASSUME BoxInv, MaxThrows = 0, NEW v \in Slot, Leave(v)
  PROVE  Box!Next \/ UNCHANGED <<box, want>>
<1> USE DEF BoxInv, SafeInv, TypeInv, TypeOK
<1>0. /\ box' = [box EXCEPT ![v] = box'[v]]
      /\ want' = [want EXCEPT ![v] = want'[v]]
      /\ box = [u \in Slot |-> box[u]] /\ want = [u \in Slot |-> want[u]]
  BY OneBox, BoxFunctions
<1>1. CASE EndBuild(v)
  <2>1. /\ Builds(v) /\ pc[v] # "idle" /\ pc'[v] = "idle"
        /\ Owner(member[v]) /\ fresh[v] \in Obj
    BY <1>1 DEF EndBuild, Builds, Shape, Busy
  <2>2. /\ member'[v] = [member[v] EXCEPT !.data = fresh[v]]
        /\ heap'[fresh[v]].content = heap[fresh[v]].content
    BY <1>1, <2>1 DEF EndBuild, Cell
  <2>3. ValueOf(v)' = ObjectOf(v, fresh[v])
    BY <2>1, <2>2 DEF ValueOf, ObjectOf, Owner, Members
  <2>4. box'[v] = want[v] /\ want'[v] = NoValue
    BY <2>1, <2>3, BoxOf, BoxOfNext
  <2>5. want[v] # NoValue
    BY <2>1, BoxOf, ObjectIsSome
  <2>6. Box!Finish(v)
    BY <1>0, <2>4, <2>5 DEF Box!Finish
  <2> QED
    BY <2>6 DEF Box!Next
<1>2. CASE ThrowInConstructor(v)
  <2>1. Builds(v) /\ pc[v] # "idle" /\ pc'[v] = "raw"
    BY <1>2 DEF ThrowInConstructor, Builds
  <2>2. /\ box[v] = NoValue /\ box'[v] = NoValue /\ want'[v] = NoValue
        /\ want[v] # NoValue
    BY <2>1, BoxOf, BoxOfNext, ObjectIsSome
  <2>3. Box!Fail(v)
    BY <1>0, <2>2 DEF Box!Fail
  <2> QED
    BY <2>3 DEF Box!Next
<1>3. CASE EndRelease(v)
  <2>1. /\ pc[v] = "release" /\ from[v] \in Slot \ {v} /\ pc[from[v]] = "idle"
        /\ member[v].data \in Claims(v)
        /\ TakeMembers(v, from[v], Released(v), "assign")
    BY <1>3 DEF EndRelease, SourceRests, Shape, Busy, Claims, Holds
  <2>2. /\ Released(v) \in [Obj -> Cell]
        /\ \A o \in Obj : o \notin Claims(v) => Released(v)[o] = heap[o]
    BY <2>1, HeapCells DEF Released, Claims
  <2>3. box[v] = NoValue /\ want[v] = ValueOf(from[v]) /\ want[v] # NoValue
    BY <2>1, BoxOf, ValueIsSome
  <2>4. CASE box'[v] = ValueOf(from[v]) /\ want'[v] = NoValue
    <3>1. Box!Finish(v)
      BY <1>0, <2>3, <2>4 DEF Box!Finish
    <3> QED
      BY <3>1 DEF Box!Next
  <2>5. CASE box'[v] = NoValue /\ want'[v] = ValueOf(from[v])
    BY <1>0, <2>3, <2>5
  <2> QED
    BY <2>1, <2>2, <2>4, <2>5, TakenValue
<1>4. ~ThrowInAssign(v)
  BY DEF ThrowInAssign
<1>5. CASE EndDestroy(v)
  <2>1. pc[v] = "destroy" /\ pc'[v] = "raw"
    BY <1>5 DEF EndDestroy
  <2>2. box'[v] = box[v] /\ want'[v] = want[v]
    BY <2>1, BoxOf, BoxOfNext
  <2> QED
    BY <1>0, <2>2
<1> QED
  BY <1>1, <1>2, <1>3, <1>4, <1>5 DEF Leave

(* Without throwing copies and self-assignment, Varients are boxes that hold *)
(* values: an operation changes one of them, and a copy is the value that    *)
(* its source had when the operation began.                                  *)
THEOREM VarientIsAValueBox ==
  ASSUME ~SelfAssign, MaxThrows = 0
  PROVE  Spec => BoxSpec
<1>1. Init => BoxInv
  BY InitSafeInv DEF Init, BoxInv, FilledCells, Free
<1>2. BoxInv /\ [Next]_vars => BoxInv'
  <2>1. TypeInv' => failed' = 0
    BY DEF TypeInv, TypeOK
  <2> QED
    BY <2>1, NextSafeInv, NextFilledCells DEF BoxInv, SafeInv
<1>3. Init => Box!Init
  BY DEF Init, Box!Init, box, want, Builds
<1>4. BoxInv /\ [Next]_vars => [Box!Next]_Box!vars
  <2> SUFFICES ASSUME BoxInv, [Next]_vars PROVE Box!Next \/ UNCHANGED <<box, want>>
    BY DEF Box!vars
  <2>1. CASE UNCHANGED vars
    BY <2>1 DEF vars, box, want, Builds, ValueOf, ObjectOf
  <2>2. CASE Next
    BY <2>2, StartOfBox, LeaveOfBox DEF Next
  <2> QED
    BY <2>1, <2>2
<1> QED
  BY <1>1, <1>2, <1>3, <1>4, PTL DEF Spec, BoxSpec, Box!Spec
=============================================================================
