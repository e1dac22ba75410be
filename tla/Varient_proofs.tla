--------------------------- MODULE Varient_proofs ---------------------------
(***************************************************************************)
(* Theorems about Varient, for any number of Varients, classes, contents   *)
(* and heap addresses, and any client that keeps the rule of Varient.tla.  *)
(***************************************************************************)
EXTENDS Varient, FiniteSetTheorems, TLAPS

(* What is<T>() and get<T>() answer for the members that a constructor       *)
(* stores, for any set of classes and any hash codes.                        *)

LEMMA FlagsDiffer == IsConstant # IsDataOwner
  BY DEF IsConstant, IsDataOwner

LEMMA ClassTypes ==
  ASSUME NEW c \in Class
  PROVE  /\ Value(c) \in Type /\ Value(c)[1] = "value"
         /\ Ptr(c) \in Type /\ Ptr(c)[1] = "pointer"
         /\ ConstPtr(c) \in Type /\ ConstPtr(c)[1] = "pointer to const"
  BY DEF Value, Ptr, ConstPtr, Type

LEMMA ClassOfType ==
  ASSUME NEW t \in Type
  PROVE  t[2] \in Class
  BY DEF Type

LEMMA PairOfParts ==
  ASSUME NEW A, NEW B, NEW t \in A \X B
  PROVE  t = <<t[1], t[2]>>
  OBVIOUS

LEMMA TypeCases ==
  ASSUME NEW t \in Type
  PROVE  \/ t = Value(t[2]) /\ t[1] = "value"
         \/ t = Ptr(t[2]) /\ t[1] = "pointer"
         \/ t = ConstPtr(t[2]) /\ t[1] = "pointer to const"
<1>1. t = <<t[1], t[2]>>
  BY PairOfParts DEF Type
<1>2. t[1] = "value" \/ t[1] = "pointer" \/ t[1] = "pointer to const"
  BY DEF Type
<1> QED
  BY <1>1, <1>2 DEF Value, Ptr, ConstPtr

LEMMA SameClass ==
  ASSUME NEW c, NEW d
  PROVE  /\ Value(c) = Value(d) => c = d
         /\ Ptr(c) = Ptr(d) => c = d
         /\ ConstPtr(c) = ConstPtr(d) => c = d
         /\ Value(c)[2] = c /\ Ptr(c)[2] = c /\ ConstPtr(c)[2] = c
  BY DEF Value, Ptr, ConstPtr

(* The members tell, by their flag and hash code, what they were made from. *)
LEMMA StoredShape ==
  ASSUME NEW m, NEW t \in Type, Stored(m, t)
  PROVE  /\ m \in Members
         /\ m.typeId = TypeId[t]
         /\ (IsConstant \in m.flag) <=> (t[1] = "pointer to const")
         /\ Owner(m) <=> (t[1] = "value")
         /\ Owner(m) => m.data \in Obj /\ m.cls = t[2]
         /\ ~Owner(m) => m.data \in Pointees(t[2])
<1>1. TypeId[t] \in Nat
  BY TypeAssumption
<1>2. PICK c \in Class :
        \/ t = ConstPtr(c) /\ \E p \in Pointees(c) : m = OfConstPtr(c, p)
        \/ t = Ptr(c) /\ \E p \in Pointees(c) : m = OfPtr(c, p)
        \/ t = Value(c) /\ \E o \in Obj : m = OfValue(c, o)
  BY DEF Stored
<1>3. Pointees(c) \subseteq Ext \cup {NULL}
  BY DEF Pointees
<1>0. /\ IsDataOwner \in {IsConstant, IsDataOwner} /\ IsConstant \in {IsConstant, IsDataOwner}
      /\ IsConstant # IsDataOwner
  BY FlagsDiffer
<1>4. CASE t = ConstPtr(c) /\ \E p \in Pointees(c) : m = OfConstPtr(c, p)
  <2>1. PICK p \in Pointees(c) : m = OfConstPtr(c, p)
    BY <1>4
  <2>2. /\ m \in Members /\ m.typeId = TypeId[t]
        /\ m.flag = {IsConstant} /\ m.data = p
    BY <1>0, <1>1, <1>3, <1>4, <2>1 DEF OfConstPtr, Members
  <2> QED
    BY <1>0, <1>4, <2>2, ClassTypes, SameClass DEF Owner
<1>5. CASE t = Ptr(c) /\ \E p \in Pointees(c) : m = OfPtr(c, p)
  <2>1. PICK p \in Pointees(c) : m = OfPtr(c, p)
    BY <1>5
  <2>2. m \in Members /\ m.typeId = TypeId[t] /\ m.flag = {} /\ m.data = p
    BY <1>1, <1>3, <1>5, <2>1 DEF OfPtr, Members
  <2> QED
    BY <1>5, <2>2, ClassTypes, SameClass DEF Owner
<1>6. CASE t = Value(c) /\ \E o \in Obj : m = OfValue(c, o)
  <2>1. PICK o \in Obj : m = OfValue(c, o)
    BY <1>6
  <2>2. /\ m \in Members /\ m.typeId = TypeId[t]
        /\ m.flag = {IsDataOwner} /\ m.data = o /\ m.cls = c
    BY <1>0, <1>1, <1>6, <2>1 DEF OfValue, Members
  <2> QED
    BY <1>0, <1>6, <2>2, ClassTypes, SameClass DEF Owner
<1> QED
  BY <1>2, <1>4, <1>5, <1>6

LEMMA EmptyShape == Empty \in Members /\ ~Owner(Empty) /\ isEmpty(Empty)
  BY DEF Members, Owner, Empty, isEmpty

(* is<T>() accepts the type that was stored, a pointer to const for a        *)
(* pointer to non-const, and nothing else: here the members of a pointer to  *)
(* const, whose flag is<T>() consults, could do without that test.           *)
LEMMA IsOfStored ==
  ASSUME DistinctIds, NEW m, NEW s \in Type, NEW t \in Type, Stored(m, s)
  PROVE  Is(m, t) <=> s = t \/ (t[1] = "pointer to const" /\ s = Ptr(t[2]))
<1>1. m.typeId = TypeId[s] /\ ~isEmpty(m)
  BY StoredShape DEF DistinctIds, isEmpty
<1>2. Ptr(t[2]) \in Type /\ Ptr(t[2])[1] = "pointer"
  BY ClassOfType, ClassTypes
<1>3. m.typeId = TypeId[t] <=> s = t
  BY <1>1 DEF DistinctIds
<1>4. m.typeId = TypeId[Ptr(t[2])] <=> s = Ptr(t[2])
  BY <1>1, <1>2 DEF DistinctIds
<1>5. s = Ptr(t[2]) => IsConstant \notin m.flag
  BY <1>2, StoredShape
<1>6. IsPointer(t) /\ s = Ptr(t[2]) => s = t \/ t[1] = "pointer to const"
  BY TypeCases DEF IsPointer
<1>7. t[1] = "pointer to const" => IsPointer(t)
  BY DEF IsPointer
<1> QED
  BY <1>1, <1>3, <1>4, <1>5, <1>6, <1>7 DEF Is

(* However hash codes collide, no get<T*>() that checks returns what was     *)
(* stored as a pointer to const.                                             *)
LEMMA ConstStaysConst ==
  ASSUME Checked, NEW m, NEW c \in Class, NEW d \in Class, Stored(m, ConstPtr(d))
  PROVE  ~GetReturns(m, Ptr(c))
<1>1. IsConstant \in m.flag
  BY StoredShape, ClassTypes
<1> QED
  BY <1>1, ClassTypes DEF GetReturns, ConstAsserted

LEMMA ConstructorsStore ==
  ASSUME NEW c \in Class
  PROVE  /\ \A p \in Pointees(c) : /\ Stored(OfConstPtr(c, p), ConstPtr(c))
                                 /\ Stored(OfPtr(c, p), Ptr(c))
         /\ \A o \in Obj : Stored(OfValue(c, o), Value(c))
  BY DEF Stored

(* Members of an owner with another object are members of an owner. *)
LEMMA OwnerOfAnother ==
  ASSUME NEW m, NEW t \in Type, Stored(m, t), Owner(m), NEW o \in Obj
  PROVE  Stored([m EXCEPT !.data = o], t)
<1>1. t[1] = "value" /\ t = Value(t[2]) /\ t[2] \in Class
  BY StoredShape, TypeCases, ClassOfType
<1>2. PICK c \in Class, b \in Obj : t = Value(c) /\ m = OfValue(c, b)
  BY <1>1, ClassTypes DEF Stored
<1>3. [m EXCEPT !.data = o] = OfValue(c, o)
  BY <1>2 DEF OfValue
<1> QED
  BY <1>2, <1>3, ConstructorsStore

-----------------------------------------------------------------------------
(* What the members and the registers of an operation say of each other,    *)
(* failed assignments or not.                                               *)
Shape ==
  \A v \in Slot :
    /\ Owner(member[v]) => member[v].data \in Obj /\ member[v].cls \in Class
    /\ Busy(v) => Owner(member[v])
    /\ Builds(v) => fresh[v] \in Obj
    /\ pc[v] \in {"copy", "release", "assign"} => from[v] \in Slot

TypeInv == TypeOK /\ Shape

-----------------------------------------------------------------------------
LEMMA StoredMembers ==
  ASSUME NEW c \in Class
  PROVE  /\ Empty \in Members /\ ~Owner(Empty)
         /\ \A p \in Pointees(c) :
              /\ OfConstPtr(c, p) \in Members /\ ~Owner(OfConstPtr(c, p))
              /\ OfPtr(c, p) \in Members /\ ~Owner(OfPtr(c, p))
         /\ \A o \in Obj :
              /\ OfValue(c, o) \in Members /\ Owner(OfValue(c, o))
              /\ OfValue(c, o).data = o /\ OfValue(c, o).cls = c
<1>1. \A h \in {"value", "pointer", "pointer to const"} : TypeId[<<h, c>>] \in Nat
  BY TypeAssumption DEF Type
<1>2. Pointees(c) \subseteq Ext \cup {NULL}
  BY DEF Pointees
<1> QED
  BY <1>1, <1>2, FlagsDiffer
     DEF Members, Owner, Empty, OfConstPtr, OfPtr, OfValue, Value, Ptr, ConstPtr,
         IsConstant, IsDataOwner

LEMMA EmptyMembers == Empty \in Members /\ ~Owner(Empty)
  BY DEF Members, Owner, Empty

LEMMA HeapCells ==
  ASSUME NEW h \in [Obj -> Cell], NEW o \in Obj
  PROVE  /\ [h EXCEPT ![o] = Free] \in [Obj -> Cell]
         /\ \A c \in Class, x \in Content \cup {NULL} :
              [h EXCEPT ![o] = Building(c, x)] \in [Obj -> Cell]
         /\ \A c \in Class : Found(h, o, c) \subseteq Content \cup {NULL}
<1>1. Free \in Cell
  BY DEF Free, Cell
<1>2. \A c \in Class, x \in Content \cup {NULL} : Building(c, x) \in Cell
  BY DEF Building, Cell
<1>3. \A c \in Class : Found(h, o, c) \subseteq Content \cup {NULL}
  BY DEF Found, Cell
<1> QED
  BY <1>1, <1>2, <1>3

LEMMA TakeMembersInv ==
  ASSUME TypeInv, NEW v \in Slot, NEW w \in Slot, NEW h \in [Obj -> Cell],
         NEW copying \in {"copy", "assign"}, TakeMembers(v, w, h, copying),
         UNCHANGED failed, living' \in Int
  PROVE  TypeInv'
<1> USE DEF TypeInv, TypeOK
<1>1. CASE ~Owner(member[w])
  <2>1. TypeOK'
    BY <1>1 DEF TakeMembers, Pc
  <2>2. Shape'
    BY <1>1 DEF TakeMembers, Shape, Busy, Builds, Owner
  <2> QED
    BY <2>1, <2>2
<1>2. CASE Owner(member[w])
  <2>1. member[w].data \in Obj /\ member[w].cls \in Class
    BY <1>2 DEF Shape
  <2>2. PICK o \in Obj, x \in Found(h, member[w].data, member[w].cls) :
          /\ heap' = [h EXCEPT ![o] = Building(member[w].cls, x)]
          /\ fresh' = [fresh EXCEPT ![v] = o]
    BY <1>2 DEF TakeMembers
  <2>3. heap' \in [Obj -> Cell]
    BY <2>1, <2>2, HeapCells
  <2>4. /\ member' = [member EXCEPT ![v] = member[w]]
        /\ pc' = [pc EXCEPT ![v] = copying]
        /\ from' = [from EXCEPT ![v] = w]
    BY <1>2 DEF TakeMembers
  <2>5. TypeOK'
    BY <2>2, <2>3, <2>4 DEF Pc
  <2>6. Shape'
    BY <1>2, <2>1, <2>2, <2>4 DEF Shape, Busy, Builds, Owner
  <2> QED
    BY <2>5, <2>6
<1> QED
  BY <1>1, <1>2

(* A cell stays one when one of its fields changes.                          *)
LEMMA CellUpdates ==
  ASSUME NEW cell \in Cell
  PROVE  /\ \A p \in {"free", "building", "live", "dying"} : [cell EXCEPT !.phase = p] \in Cell
         /\ \A x \in Content : [cell EXCEPT !.content = x] \in Cell
  BY DEF Cell

(* Entering a destructor, if there is an object to destroy, keeps the heap   *)
(* a heap.                                                                   *)
LEMMA EnteredCells ==
  ASSUME heap \in [Obj -> Cell], NEW v, EnterDestructor(v)
  PROVE  heap' \in [Obj -> Cell]
<1>1. heap' = [o \in Obj |->
                 IF o = member[v].data
                 THEN [heap[o] EXCEPT !.phase = IF @ = "free" THEN @ ELSE "dying"] ELSE heap[o]]
  BY DEF EnterDestructor
<1>2. ASSUME NEW o \in Obj
      PROVE  [heap[o] EXCEPT !.phase = IF @ = "free" THEN @ ELSE "dying"] \in Cell
  <2>1. heap[o] \in Cell
    OBVIOUS
  <2>2. (IF heap[o].phase = "free" THEN heap[o].phase ELSE "dying")
          \in {"free", "building", "live", "dying"}
    OBVIOUS
  <2> QED
    BY <2>1, <2>2, CellUpdates
<1> QED
  BY <1>1, <1>2

LEMMA InitTypeInv == Init => TypeInv
  BY EmptyMembers, ClientAssumption
     DEF Init, TypeInv, TypeOK, Shape, Busy, Builds, Pc, Cell, Free

LEMMA NextTypeInv == TypeInv /\ [Next]_vars => TypeInv'
<1> SUFFICES ASSUME TypeInv, [Next]_vars PROVE TypeInv'
  OBVIOUS
<1>1. CASE UNCHANGED vars
  BY <1>1 DEF TypeInv, TypeOK, Shape, Busy, Builds, vars
<1>2. ASSUME NEW v \in Slot, Start(v) PROVE TypeInv'
  <2> USE DEF TypeInv, TypeOK
  <2>1. CASE ConstructEmpty(v)
    BY <2>1, EmptyMembers DEF ConstructEmpty, Shape, Busy, Builds, Pc
  <2>2. CASE ConstructFromConstPtr(v)
    BY <2>2, StoredMembers DEF ConstructFromConstPtr, Shape, Busy, Builds, Pc
  <2>3. CASE ConstructFromPtr(v)
    BY <2>3, StoredMembers DEF ConstructFromPtr, Shape, Busy, Builds, Pc
  <2>4. CASE BeginCreate(v)
    <3>1. PICK c \in Class, x \in Content, o \in Obj :
            /\ heap' = [heap EXCEPT ![o] = Building(c, x)]
            /\ fresh' = [fresh EXCEPT ![v] = o]
            /\ member' = [member EXCEPT ![v] = OfValue(c, o)]
      BY <2>4 DEF BeginCreate
    <3>2. heap' \in [Obj -> Cell]
      BY <3>1, HeapCells
    <3> QED
      BY <2>4, <3>1, <3>2, StoredMembers DEF BeginCreate, Shape, Busy, Builds, Pc
  <2>5. CASE DestroyUnowned(v)
    BY <2>5, EmptyMembers DEF DestroyUnowned, CanWrite, Shape, Busy, Builds, Pc
  <2>6. CASE BeginDestroy(v)
    <3>1. heap' \in [Obj -> Cell]
      BY <2>6, EnteredCells DEF BeginDestroy
    <3> QED
      BY <2>6, <3>1 DEF BeginDestroy, Shape, Busy, Builds, Pc
  <2>7. CASE SetContent(v)
    <3>1. PICK x \in Content : heap' = [heap EXCEPT ![member[v].data].content = x]
      BY <2>7 DEF SetContent
    <3>2. \A o \in Obj : [heap[o] EXCEPT !.content = x] \in Cell
      BY <3>1, CellUpdates
    <3>3. heap' \in [Obj -> Cell]
      BY <3>1, <3>2
    <3> QED
      BY <2>7, <3>3 DEF SetContent, Shape, Busy, Builds, Pc
  <2>8. ASSUME NEW w \in Slot, BeginCopy(v, w) PROVE TypeInv'
    BY <2>8, TakeMembersInv DEF BeginCopy
  <2>9. ASSUME NEW w \in Slot, BeginRelease(v, w) PROVE TypeInv'
    <3>1. heap' \in [Obj -> Cell]
      BY <2>9, EnteredCells DEF BeginRelease
    <3> QED
      BY <2>9, <3>1 DEF BeginRelease, CanWrite, Shape, Busy, Builds, Pc
  <2>10. ASSUME NEW w \in Slot, AssignOverUnowned(v, w) PROVE TypeInv'
    BY <2>10, TakeMembersInv DEF AssignOverUnowned
  <2> QED
    BY <1>2, <2>1, <2>2, <2>3, <2>4, <2>5, <2>6, <2>7, <2>8, <2>9, <2>10 DEF Start
<1>3. ASSUME NEW v \in Slot, Leave(v) PROVE TypeInv'
  <2> USE DEF TypeInv, TypeOK
  <2>1. CASE EndBuild(v)
    <3>1. fresh[v] \in Obj
      BY <2>1 DEF EndBuild, Shape, Builds
    <3>2. heap' \in [Obj -> Cell]
      <4>1. \A o \in Obj : [heap[o] EXCEPT !.phase = "live"] \in Cell
        BY CellUpdates
      <4> QED
        BY <2>1, <3>1, <4>1 DEF EndBuild
    <3>3. [member[v] EXCEPT !.data = fresh[v]] \in Members
      BY <3>1 DEF Members
    <3>4. member' \in [Slot -> Members]
      BY <2>1, <3>3 DEF EndBuild
    <3> QED
      BY <2>1, <3>1, <3>2, <3>4 DEF EndBuild, Shape, Busy, Builds, Pc, Members, Owner
  <2>2. CASE ThrowInConstructor(v)
    <3>1. heap' \in [Obj -> Cell]
      BY <2>2, HeapCells DEF ThrowInConstructor, Unbuild, Shape, Builds
    <3> QED
      BY <2>2, <3>1, EmptyMembers DEF ThrowInConstructor, Unbuild, Shape, Busy, Builds, Pc
  <2>3. CASE EndRelease(v)
    <3>1. from[v] \in Slot /\ member[v].data \in Obj
      BY <2>3 DEF EndRelease, Shape, Busy
    <3>2. Released(v) \in [Obj -> Cell]
      BY <3>1, HeapCells DEF Released
    <3> QED
      BY <2>3, <3>1, <3>2, TakeMembersInv DEF EndRelease
  <2>4. CASE ThrowInAssign(v)
    <3>1. heap' \in [Obj -> Cell]
      BY <2>4, HeapCells DEF ThrowInAssign, Unbuild, Shape, Builds
    <3>2. failed' \in 0 .. MaxThrows
      BY <2>4, ClientAssumption DEF ThrowInAssign
    <3> QED
      BY <2>4, <3>1, <3>2 DEF ThrowInAssign, Unbuild, Shape, Busy, Builds, Pc
  <2>5. CASE EndDestroy(v)
    <3>1. heap' \in [Obj -> Cell]
      BY <2>5, HeapCells DEF EndDestroy, Released, Shape, Busy
    <3> QED
      BY <2>5, <3>1, EmptyMembers DEF EndDestroy, Shape, Busy, Builds, Pc
  <2> QED
    BY <1>3, <2>1, <2>2, <2>3, <2>4, <2>5 DEF Leave
<1> QED
  BY <1>1, <1>2, <1>3 DEF Next

(* Every variable keeps its type, and an operation its registers, whatever  *)
(* throws.                                                                  *)
THEOREM TypeCorrect == Spec => []TypeOK
<1>1. TypeInv => TypeOK
  BY DEF TypeInv
<1> QED
  BY InitTypeInv, NextTypeInv, <1>1, PTL DEF Spec

-----------------------------------------------------------------------------
(* Nothing leaks. *)

(* A member takeover that starts from a heap where only what v claimed is    *)
(* without a claim leaves nothing without one.                               *)
LEMMA TakeMembersNoLeak ==
  ASSUME TypeInv, NEW v \in Slot, NEW w \in Slot, NEW h \in [Obj -> Cell],
         NEW copying \in {"copy", "assign"}, TakeMembers(v, w, h, copying),
         \A o \in Obj : h[o].phase # "free" => \E u \in Slot \ {v} : o \in Claims(u)
  PROVE  NoLeak'
<1> USE DEF TypeInv, TypeOK
<1>1. \A u \in Slot \ {v} : Claims(u)' = Claims(u)
  BY DEF TakeMembers, Claims, Holds, Builds
<1>2. CASE ~Owner(member[w])
  BY <1>1, <1>2 DEF TakeMembers, NoLeak
<1>3. CASE Owner(member[w])
  <2>1. PICK o \in Obj, x \in Found(h, member[w].data, member[w].cls) :
          /\ heap' = [h EXCEPT ![o] = Building(member[w].cls, x)]
          /\ fresh' = [fresh EXCEPT ![v] = o]
    BY <1>3 DEF TakeMembers
  <2>2. o \in Claims(v)'
    BY <1>3, <2>1 DEF TakeMembers, Claims, Builds
  <2> QED
    BY <1>1, <2>1, <2>2 DEF NoLeak
<1> QED
  BY <1>2, <1>3

LEMMA NextNoLeak == TypeInv /\ NoLeak /\ [Next]_vars => NoLeak'
<1> SUFFICES ASSUME TypeInv, NoLeak, [Next]_vars PROVE NoLeak'
  OBVIOUS
<1> USE DEF TypeInv, TypeOK
<1>1. CASE UNCHANGED vars
  BY <1>1 DEF NoLeak, Claims, Holds, Builds, vars
<1>2. ASSUME NEW v \in Slot, Start(v) PROVE NoLeak'
  <2>1. CASE ConstructEmpty(v) \/ ConstructFromConstPtr(v) \/ ConstructFromPtr(v)
    BY <2>1 DEF ConstructEmpty, ConstructFromConstPtr, ConstructFromPtr,
                NoLeak, Claims, Holds, Builds
  <2>2. CASE BeginCreate(v)
    BY <2>2 DEF BeginCreate, NoLeak, Claims, Holds, Builds
  <2>3. CASE DestroyUnowned(v)
    BY <2>3 DEF DestroyUnowned, CanWrite, NoLeak, Claims, Holds, Builds
  <2>4. CASE BeginDestroy(v)
    BY <2>4 DEF BeginDestroy, EnterDestructor, CanWrite, NoLeak, Claims, Holds, Builds, Cell
  <2>5. CASE SetContent(v)
    BY <2>5 DEF SetContent, NoLeak, Claims, Holds, Builds, Cell
  <2>6. ASSUME NEW w \in Slot, BeginCopy(v, w) PROVE NoLeak'
    <3>1. Claims(v) = {}
      BY <2>6 DEF BeginCopy, Claims, Holds, Builds
    <3> QED
      BY <2>6, <3>1, TakeMembersNoLeak DEF BeginCopy, NoLeak
  <2>7. ASSUME NEW w \in Slot, BeginRelease(v, w) PROVE NoLeak'
    BY <2>7 DEF BeginRelease, EnterDestructor, CanWrite, NoLeak, Claims, Holds, Builds, Cell
  <2>8. ASSUME NEW w \in Slot, AssignOverUnowned(v, w) PROVE NoLeak'
    <3>1. Claims(v) = {}
      BY <2>8 DEF AssignOverUnowned, CanWrite, Claims, Holds, Builds
    <3> QED
      BY <2>8, <3>1, TakeMembersNoLeak DEF AssignOverUnowned, NoLeak
  <2> QED
    BY <1>2, <2>1, <2>2, <2>3, <2>4, <2>5, <2>6, <2>7, <2>8 DEF Start
<1>3. ASSUME NEW v \in Slot, Leave(v) PROVE NoLeak'
  <2>1. CASE EndBuild(v)
    BY <2>1 DEF EndBuild, NoLeak, Claims, Holds, Builds, Shape, Busy, Owner, Members, Cell
  <2>2. CASE ThrowInConstructor(v) \/ ThrowInAssign(v)
    BY <2>2 DEF ThrowInConstructor, ThrowInAssign, Unbuild, NoLeak, Claims, Holds, Builds,
                Shape, Free
  <2>3. CASE EndRelease(v)
    <3>1. from[v] \in Slot /\ member[v].data \in Obj /\ Claims(v) = {member[v].data}
      BY <2>3 DEF EndRelease, Shape, Busy, Claims, Holds, Builds
    <3>2. Released(v) \in [Obj -> Cell]
      BY <3>1, HeapCells DEF Released
    <3>3. \A o \in Obj : Released(v)[o].phase # "free" =>
            \E u \in Slot \ {v} : o \in Claims(u)
      BY <3>1 DEF Released, NoLeak, Free
    <3> QED
      BY <2>3, <3>1, <3>2, <3>3, TakeMembersNoLeak DEF EndRelease
  <2>4. CASE EndDestroy(v)
    BY <2>4 DEF EndDestroy, Released, NoLeak, Claims, Holds, Builds, Shape, Busy, Free
  <2> QED
    BY <1>3, <2>1, <2>2, <2>3, <2>4 DEF Leave
<1> QED
  BY <1>1, <1>2, <1>3 DEF Next

(* Even when constructors of the class throw, in a constructor of Varient or *)
(* in operator=, no heap object is left without a Varient that will delete   *)
(* it.                                                                       *)
THEOREM NothingLeaks == Spec => []NoLeak
<1>1. Init => NoLeak
  BY DEF Init, NoLeak, Free
<1> QED
  BY InitTypeInv, NextTypeInv, <1>1, NextNoLeak, PTL DEF Spec

-----------------------------------------------------------------------------
(* Ownership is exclusive until an assignment throws. *)

(* The object under construction is the operation's own and of the class    *)
(* that the members name.                                                   *)
BuildsOwn ==
  failed = 0 =>
    \A v \in Slot : Builds(v) =>
      heap[fresh[v]].phase = "building" /\ heap[fresh[v]].cls = member[v].cls

OwnInv == OwnedIsLive /\ DisjointClaims /\ BuildsOwn

(* Two claims meet on no cell, and a claim is on no free cell. *)
LEMMA ClaimedIsTaken ==
  ASSUME TypeInv, OwnInv, failed = 0, NEW v \in Slot, NEW o \in Claims(v)
  PROVE  heap[o].phase # "free"
<1>1. CASE Holds(v) /\ o = member[v].data
  BY <1>1 DEF OwnInv, OwnedIsLive
<1>2. CASE Builds(v) /\ o = fresh[v]
  BY <1>2 DEF OwnInv, BuildsOwn
<1> QED
  BY <1>1, <1>2 DEF Claims

LEMMA TakeMembersOwn ==
  ASSUME TypeInv, OwnInv, failed = 0, UNCHANGED failed,
         NEW v \in Slot, NEW w \in Slot, NEW h \in [Obj -> Cell],
         NEW copying \in {"copy", "assign"}, TakeMembers(v, w, h, copying),
         \A o \in Obj : o \notin Claims(v) => h[o] = heap[o]
  PROVE  OwnInv'
<1> USE DEF TypeInv, TypeOK
<1>1. \A u \in Slot \ {v} :
        /\ UNCHANGED <<member[u], pc[u], fresh[u]>>
        /\ Claims(u)' = Claims(u)
        /\ Holds(u)' = Holds(u) /\ Builds(u)' = Builds(u)
  BY DEF TakeMembers, Claims, Holds, Builds
<1>2. \A u \in Slot \ {v} : \A o \in Claims(u) : h[o] = heap[o] /\ h[o].phase # "free"
  BY ClaimedIsTaken DEF OwnInv, DisjointClaims, Claims
<1>3. \A u \in Slot \ {v} : \A o \in Claims(u) : heap'[o] = heap[o]
  BY <1>2 DEF TakeMembers, Claims
<1>4. ~Holds(v)'
  BY DEF TakeMembers, Holds, Owner
<1>5. OwnedIsLive'
  BY <1>1, <1>3, <1>4 DEF OwnInv, OwnedIsLive, Claims, Holds, Shape
<1>6. DisjointClaims' /\ BuildsOwn'
  <2>1. CASE ~Owner(member[w])
    <3>1. Claims(v)' = {} /\ ~Builds(v)'
      BY <1>4, <2>1 DEF TakeMembers, Claims, Builds
    <3> QED
      BY <1>1, <1>3, <3>1 DEF OwnInv, DisjointClaims, BuildsOwn, Claims, Builds, Shape
  <2>2. CASE Owner(member[w])
    <3>1. PICK o \in Obj, x \in Found(h, member[w].data, member[w].cls) :
            /\ h[o].phase = "free"
            /\ heap' = [h EXCEPT ![o] = Building(member[w].cls, x)]
            /\ fresh' = [fresh EXCEPT ![v] = o]
            /\ member' = [member EXCEPT ![v] = member[w]]
      BY <2>2 DEF TakeMembers
    <3>2. Claims(v)' = {o}
      BY <1>4, <2>2, <3>1 DEF TakeMembers, Claims, Builds
    <3>3. \A u \in Slot \ {v} : o \notin Claims(u)
      BY <1>2, <3>1
    <3>4. heap'[o].phase = "building" /\ heap'[o].cls = member'[v].cls
      BY <3>1 DEF Building
    <3> QED
      BY <1>1, <1>3, <3>1, <3>2, <3>3, <3>4
         DEF OwnInv, DisjointClaims, BuildsOwn, Claims, Builds, Shape
  <2> QED
    BY <2>1, <2>2
<1> QED
  BY <1>5, <1>6 DEF OwnInv

LEMMA NextOwn == TypeInv /\ OwnInv /\ [Next]_vars => OwnInv'
<1> SUFFICES ASSUME TypeInv, OwnInv, [Next]_vars PROVE OwnInv'
  OBVIOUS
<1> USE DEF TypeInv, TypeOK
<1>1. CASE UNCHANGED vars
  BY <1>1 DEF OwnInv, OwnedIsLive, DisjointClaims, BuildsOwn, Claims, Holds, Builds, vars
<1>2. CASE failed' # 0
  BY <1>2 DEF OwnInv, OwnedIsLive, DisjointClaims, BuildsOwn
<1>3. ASSUME failed' = 0, NEW v \in Slot, Start(v) PROVE OwnInv'
  <2>0. failed = 0
    BY <1>3 DEF Start, ConstructEmpty, ConstructFromConstPtr, ConstructFromPtr, BeginCreate,
                DestroyUnowned, BeginDestroy, SetContent, BeginCopy, BeginRelease,
                AssignOverUnowned
  <2>1. CASE ConstructEmpty(v) \/ ConstructFromConstPtr(v) \/ ConstructFromPtr(v)
    <3>1. PICK m \in Members : ~Owner(m) /\ member' = [member EXCEPT ![v] = m]
      BY <2>1, StoredMembers, EmptyMembers
         DEF ConstructEmpty, ConstructFromConstPtr, ConstructFromPtr
    <3> QED
      BY <2>0, <2>1, <3>1 DEF ConstructEmpty, ConstructFromConstPtr, ConstructFromPtr,
             OwnInv, OwnedIsLive, DisjointClaims, BuildsOwn, Claims, Holds, Builds
  <2>2. CASE BeginCreate(v)
    <3>1. PICK c \in Class, x \in Content, o \in Obj :
            /\ heap[o].phase = "free"
            /\ heap' = [heap EXCEPT ![o] = Building(c, x)]
            /\ fresh' = [fresh EXCEPT ![v] = o]
            /\ member' = [member EXCEPT ![v] = OfValue(c, o)]
            /\ pc' = [pc EXCEPT ![v] = "create"]
      BY <2>2 DEF BeginCreate
    <3>2. \A u \in Slot : o \notin Claims(u)
      BY <2>0, <3>1, ClaimedIsTaken
    <3>3. heap'[o].phase = "building" /\ heap'[o].cls = member'[v].cls
      BY <3>1, StoredMembers DEF Building
    <3> QED
      BY <2>0, <3>1, <3>2, <3>3
         DEF OwnInv, OwnedIsLive, DisjointClaims, BuildsOwn, Claims, Holds, Builds, Shape
  <2>3. CASE DestroyUnowned(v)
    BY <2>0, <2>3, EmptyMembers DEF DestroyUnowned, CanWrite,
         OwnInv, OwnedIsLive, DisjointClaims, BuildsOwn, Claims, Holds, Builds
  <2>4. CASE BeginDestroy(v)
    BY <2>0, <2>4 DEF BeginDestroy, CanWrite, EnterDestructor, Cell,
         OwnInv, OwnedIsLive, DisjointClaims, BuildsOwn, Claims, Holds, Builds, Shape
  <2>5. CASE SetContent(v)
    BY <2>0, <2>5 DEF SetContent, Cell,
         OwnInv, OwnedIsLive, DisjointClaims, BuildsOwn, Claims, Holds, Builds, Shape
  <2>6. ASSUME NEW w \in Slot, BeginCopy(v, w) PROVE OwnInv'
    BY <2>0, <2>6, TakeMembersOwn DEF BeginCopy
  <2>7. ASSUME NEW w \in Slot, BeginRelease(v, w) PROVE OwnInv'
    BY <2>0, <2>7 DEF BeginRelease, CanWrite, EnterDestructor, Cell,
         OwnInv, OwnedIsLive, DisjointClaims, BuildsOwn, Claims, Holds, Builds, Shape
  <2>8. ASSUME NEW w \in Slot, AssignOverUnowned(v, w) PROVE OwnInv'
    BY <2>0, <2>8, TakeMembersOwn DEF AssignOverUnowned
  <2> QED
    BY <1>3, <2>1, <2>2, <2>3, <2>4, <2>5, <2>6, <2>7, <2>8 DEF Start
<1>4. ASSUME failed' = 0, NEW v \in Slot, Leave(v) PROVE OwnInv'
  <2>0. failed = 0 /\ ~ThrowInAssign(v)
    BY <1>4, ClientAssumption
       DEF Leave, EndBuild, ThrowInConstructor, EndRelease, ThrowInAssign, EndDestroy
  <2>1. CASE EndBuild(v)
    BY <2>0, <2>1 DEF EndBuild, Cell, Members, Owner, Busy, Shape,
         OwnInv, OwnedIsLive, DisjointClaims, BuildsOwn, Claims, Holds, Builds
  <2>2. CASE ThrowInConstructor(v)
    BY <2>0, <2>2, EmptyMembers DEF ThrowInConstructor, Unbuild, Shape,
         OwnInv, OwnedIsLive, DisjointClaims, BuildsOwn, Claims, Holds, Builds
  <2>3. CASE EndRelease(v)
    <3>1. from[v] \in Slot /\ member[v].data \in Claims(v)
      BY <2>3 DEF EndRelease, Shape, Busy, Claims, Holds
    <3>2. Released(v) \in [Obj -> Cell]
      BY <3>1, HeapCells DEF Released, Claims
    <3>3. \A o \in Obj : o \notin Claims(v) => Released(v)[o] = heap[o]
      BY <3>1 DEF Released
    <3> QED
      BY <2>0, <2>3, <3>1, <3>2, <3>3, TakeMembersOwn DEF EndRelease
  <2>4. CASE EndDestroy(v)
    BY <2>0, <2>4, EmptyMembers DEF EndDestroy, Released, Shape, Busy,
         OwnInv, OwnedIsLive, DisjointClaims, BuildsOwn, Claims, Holds, Builds
  <2> QED
    BY <1>4, <2>0, <2>1, <2>2, <2>3, <2>4 DEF Leave
<1> QED
  BY <1>1, <1>2, <1>3, <1>4 DEF Next

LEMMA OwnInvariant == Spec => [](TypeInv /\ OwnInv)
<1>1. Init => OwnInv
  BY DEF Init, OwnInv, OwnedIsLive, DisjointClaims, BuildsOwn, Claims, Holds, Builds
<1> QED
  BY InitTypeInv, NextTypeInv, <1>1, NextOwn, PTL DEF Spec

(* An owning Varient points to a live object of the class its lambdas are    *)
(* for, whatever operations of other Varients overlap with the code of the   *)
(* class.                                                                    *)
THEOREM OwnedStaysLive == Spec => []OwnedIsLive
  BY OwnInvariant, PTL DEF OwnInv

(* No object is ever to be deleted by two Varients.                          *)
THEOREM OwnershipIsExclusive == Spec => []DisjointClaims
  BY OwnInvariant, PTL DEF OwnInv

-----------------------------------------------------------------------------
(* Access through get<T>() *)

(* The members are always those of one constructor or another. *)
MemberShape ==
  \A v \in Slot : member[v] = Empty \/ \E t \in Type : Stored(member[v], t)

LEMMA NextMemberShape == TypeInv /\ MemberShape /\ [Next]_vars => MemberShape'
<1> SUFFICES ASSUME TypeInv, MemberShape, [Next]_vars PROVE MemberShape'
  OBVIOUS
<1> USE DEF TypeInv, TypeOK, MemberShape
<1>1. CASE UNCHANGED member
  BY <1>1
<1>2. ASSUME NEW v \in Slot, NEW m, member' = [member EXCEPT ![v] = m],
             m = Empty \/ \E t \in Type : Stored(m, t)
      PROVE  MemberShape'
  BY <1>2
<1>3. ASSUME NEW v \in Slot, Start(v) PROVE MemberShape'
  <2>1. CASE ConstructFromConstPtr(v)
    BY <1>2, <2>1, ConstructorsStore, ClassTypes DEF ConstructFromConstPtr
  <2>2. CASE ConstructFromPtr(v)
    BY <1>2, <2>2, ConstructorsStore, ClassTypes DEF ConstructFromPtr
  <2>3. CASE BeginCreate(v)
    BY <1>2, <2>3, ConstructorsStore, ClassTypes DEF BeginCreate
  <2>4. ASSUME NEW w \in Slot, BeginCopy(v, w) \/ AssignOverUnowned(v, w) PROVE MemberShape'
    BY <1>2, <2>4 DEF BeginCopy, AssignOverUnowned, TakeMembers
  <2>5. CASE ConstructEmpty(v) \/ DestroyUnowned(v)
    BY <1>2, <2>5 DEF ConstructEmpty, DestroyUnowned
  <2>6. ASSUME BeginDestroy(v) \/ SetContent(v) \/ \E w \in Slot : BeginRelease(v, w)
        PROVE  MemberShape'
    BY <1>1, <2>6 DEF BeginDestroy, SetContent, BeginRelease
  <2> QED
    BY <1>3, <2>1, <2>2, <2>3, <2>4, <2>5, <2>6 DEF Start
<1>4. ASSUME NEW v \in Slot, Leave(v) PROVE MemberShape'
  <2>1. CASE EndBuild(v)
    <3>1. Owner(member[v]) /\ fresh[v] \in Obj /\ member[v] # Empty
      BY <2>1, EmptyShape DEF EndBuild, Shape, Busy, Builds
    <3>2. PICK t \in Type : Stored(member[v], t)
      BY <3>1
    <3>3. Stored([member[v] EXCEPT !.data = fresh[v]], t)
      BY <3>1, <3>2, OwnerOfAnother
    <3>4. member' = [member EXCEPT ![v] = [member[v] EXCEPT !.data = fresh[v]]]
      BY <2>1 DEF EndBuild
    <3> QED
      BY <1>2, <3>3, <3>4
  <2>2. CASE ThrowInConstructor(v) \/ EndDestroy(v)
    BY <1>2, <2>2 DEF ThrowInConstructor, EndDestroy
  <2>3. CASE EndRelease(v)
    <3>1. from[v] \in Slot
      BY <2>3 DEF EndRelease, Shape
    <3> QED
      BY <1>2, <2>3, <3>1 DEF EndRelease, TakeMembers
  <2>4. CASE ThrowInAssign(v)
    BY <1>1, <2>4 DEF ThrowInAssign
  <2> QED
    BY <1>4, <2>1, <2>2, <2>3, <2>4 DEF Leave
<1> QED
  BY <1>1, <1>3, <1>4 DEF Next, vars

LEMMA MemberInvariant == Spec => [](TypeInv /\ MemberShape)
<1>1. Init => MemberShape
  BY DEF Init, MemberShape
<1> QED
  BY InitTypeInv, NextTypeInv, <1>1, NextMemberShape, PTL DEF Spec

(* is<T>() answers for T as the constructor's argument was declared.         *)
THEOREM IsAnswersExactly == Spec => []IsExact
<1>1. MemberShape => IsExact
  <2> SUFFICES ASSUME MemberShape, DistinctIds, NEW v \in Slot, NEW t \in Type
               PROVE  Is(member[v], t) <=>
                        \/ Stored(member[v], t)
                        \/ t[1] = "pointer to const" /\ Stored(member[v], Ptr(t[2]))
    BY DEF IsExact
  <2>1. Ptr(t[2]) \in Type
    BY ClassOfType, ClassTypes
  <2>2. CASE member[v] = Empty
    <3>1. \A s \in Type : ~Stored(Empty, s)
      BY StoredShape DEF DistinctIds, Empty
    <3> QED
      BY <2>1, <2>2, <3>1, EmptyShape DEF Is
  <2>3. ASSUME NEW s \in Type, Stored(member[v], s)
        PROVE  Is(member[v], t) <=>
                 \/ Stored(member[v], t)
                 \/ t[1] = "pointer to const" /\ Stored(member[v], Ptr(t[2]))
    <3>1. \A r \in Type : Stored(member[v], r) => member[v].typeId = TypeId[r]
      BY StoredShape
    <3>2. \A r \in Type : Stored(member[v], r) <=> r = s
      BY <2>3, <3>1 DEF DistinctIds
    <3> QED
      BY <2>1, <2>3, <3>2, IsOfStored
  <2> QED
    BY <2>2, <2>3 DEF MemberShape
<1> QED
  BY MemberInvariant, <1>1, PTL

(* A get<T>() that returns gives a live object of class T, or what was       *)
(* stored as a pointer to one.                                               *)
THEOREM AccessIsTyped == Spec => []TypedAccess
<1>1. TypeInv /\ OwnInv /\ MemberShape => TypedAccess
  <2> SUFFICES ASSUME TypeInv, OwnInv, MemberShape, failed = 0, DistinctIds,
                      NEW v \in Slot, NEW t \in Type, CanRead(v), Is(member[v], t)
               PROVE  IF IsPointer(t)
                      THEN member[v].data \in Pointees(t[2])
                      ELSE /\ member[v].data \in Obj
                           /\ heap[member[v].data].phase = "live"
                           /\ heap[member[v].data].cls = t[2]
    BY DEF TypedAccess, GetReturns, TypeAsserted
  <2>1. member[v] # Empty
    BY EmptyShape DEF Is
  <2>2. PICK s \in Type : Stored(member[v], s)
    BY <2>1 DEF MemberShape
  <2>3. s = t \/ (t[1] = "pointer to const" /\ s = Ptr(t[2]))
    BY <2>2, IsOfStored
  <2>4. s[2] = t[2] /\ (IsPointer(t) <=> IsPointer(s))
    BY <2>3, ClassOfType, ClassTypes, SameClass DEF IsPointer
  <2>5. Owner(member[v]) <=> ~IsPointer(t)
    BY <2>2, <2>4, StoredShape DEF IsPointer
  <2>6. CASE IsPointer(t)
    BY <2>2, <2>4, <2>5, <2>6, StoredShape
  <2>7. CASE ~IsPointer(t)
    <3>1. member[v].data \in Obj /\ member[v].cls = t[2]
      BY <2>2, <2>4, <2>5, <2>7, StoredShape
    <3>2. Holds(v) /\ pc[v] = "idle"
      BY <2>5, <2>7 DEF Holds, CanRead
    <3> QED
      BY <2>7, <3>1, <3>2 DEF OwnInv, OwnedIsLive
  <2> QED
    BY <2>6, <2>7
<1> QED
  BY OwnInvariant, MemberInvariant, <1>1, PTL

(* Whatever hash codes collide, no get<T*>() that checks casts away const.   *)
THEOREM ConstIsKept == Spec => []ConstSafe
<1>1. ConstSafe
  BY ConstStaysConst DEF ConstSafe
<1> QED
  BY <1>1, PTL

-----------------------------------------------------------------------------
(* Copies *)

(* What an operation in progress copies is another Varient, which rests.     *)
SourceRests ==
  \A v \in Slot : pc[v] \in {"copy", "release", "assign"} =>
    /\ from[v] # v
    /\ pc[from[v]] = "idle"
    /\ pc[v] # "release" => member[v] = member[from[v]]

LEMMA NextSourceRests ==
  ~SelfAssign /\ TypeInv /\ SourceRests /\ [Next]_vars => SourceRests'
<1> SUFFICES ASSUME ~SelfAssign, TypeInv, SourceRests, [Next]_vars PROVE SourceRests'
  OBVIOUS
<1> USE DEF TypeInv, TypeOK, SourceRests
<1>1. CASE UNCHANGED vars
  BY <1>1 DEF vars
<1>2. ASSUME NEW v \in Slot, Start(v) PROVE SourceRests'
  <2>1. CASE \/ ConstructEmpty(v) \/ ConstructFromConstPtr(v) \/ ConstructFromPtr(v)
             \/ BeginCreate(v)
    BY <2>1 DEF ConstructEmpty, ConstructFromConstPtr, ConstructFromPtr, BeginCreate, Shape
  <2>2. CASE DestroyUnowned(v) \/ BeginDestroy(v) \/ SetContent(v)
    BY <2>2 DEF DestroyUnowned, BeginDestroy, SetContent, CanWrite, Shape
  <2>3. ASSUME NEW w \in Slot, BeginCopy(v, w) PROVE SourceRests'
    BY <2>3 DEF BeginCopy, TakeMembers, CanRead, Shape
  <2>4. ASSUME NEW w \in Slot, BeginRelease(v, w) PROVE SourceRests'
    BY <2>4 DEF BeginRelease, CanRead, CanWrite, Shape
  <2>5. ASSUME NEW w \in Slot, AssignOverUnowned(v, w) PROVE SourceRests'
    BY <2>5 DEF AssignOverUnowned, TakeMembers, CanRead, CanWrite, Shape
  <2> QED
    BY <1>2, <2>1, <2>2, <2>3, <2>4, <2>5 DEF Start
<1>3. ASSUME NEW v \in Slot, Leave(v) PROVE SourceRests'
  <2>1. CASE EndBuild(v)
    BY <2>1 DEF EndBuild, Builds, Shape
  <2>2. CASE ThrowInConstructor(v) \/ ThrowInAssign(v) \/ EndDestroy(v)
    BY <2>2 DEF ThrowInConstructor, ThrowInAssign, EndDestroy, Unbuild, Shape
  <2>3. CASE EndRelease(v)
    BY <2>3 DEF EndRelease, TakeMembers, Shape
  <2> QED
    BY <1>3, <2>1, <2>2, <2>3 DEF Leave
<1> QED
  BY <1>1, <1>2, <1>3 DEF Next

(* An operation on v touches v, what v claims and free memory, no more.      *)
LEMMA Footprint ==
  ASSUME TypeInv, MemberShape, NEW v \in Slot, Start(v) \/ Leave(v)
  PROVE  /\ \A u \in Slot \ {v} : UNCHANGED <<member[u], pc[u], from[u], fresh[u]>>
         /\ \A o \in Obj : o \notin Claims(v) /\ heap[o].phase # "free" => heap'[o] = heap[o]
<1> USE DEF TypeInv, TypeOK
<1>1. ASSUME NEW w \in Slot, NEW h \in [Obj -> Cell], NEW copying,
             TakeMembers(v, w, h, copying),
             \A o \in Obj : o \notin Claims(v) => h[o] = heap[o]
      PROVE  /\ \A u \in Slot \ {v} : UNCHANGED <<member[u], pc[u], from[u], fresh[u]>>
             /\ \A o \in Obj : o \notin Claims(v) /\ heap[o].phase # "free" =>
                  heap'[o] = heap[o]
  BY <1>1 DEF TakeMembers
<1>2. ASSUME Start(v)
      PROVE  /\ \A u \in Slot \ {v} : UNCHANGED <<member[u], pc[u], from[u], fresh[u]>>
             /\ \A o \in Obj : o \notin Claims(v) /\ heap[o].phase # "free" =>
                  heap'[o] = heap[o]
  <2>1. CASE \/ ConstructEmpty(v) \/ ConstructFromConstPtr(v) \/ ConstructFromPtr(v)
             \/ BeginCreate(v) \/ DestroyUnowned(v)
    BY <2>1 DEF ConstructEmpty, ConstructFromConstPtr, ConstructFromPtr, BeginCreate,
                DestroyUnowned
  <2>2. ASSUME BeginDestroy(v) \/ \E w \in Slot : BeginRelease(v, w)
        PROVE  /\ \A u \in Slot \ {v} : UNCHANGED <<member[u], pc[u], from[u], fresh[u]>>
               /\ \A o \in Obj : o # member[v].data => heap'[o] = heap[o]
               /\ Holds(v)
    BY <2>2 DEF BeginDestroy, BeginRelease, CanWrite, EnterDestructor, Holds
  <2>3. CASE SetContent(v)
    <3>1. member[v].data \in Obj => Owner(member[v])
      <4>1. CASE member[v] = Empty
        BY <4>1, TypeAssumption DEF Empty
      <4>2. ASSUME NEW t \in Type, Stored(member[v], t), ~Owner(member[v])
            PROVE  member[v].data \notin Obj
        <5>1. member[v].data \in Ext \cup {NULL}
          BY <4>2, StoredShape DEF Pointees
        <5> QED
          BY <5>1, TypeAssumption
      <4> QED
        BY <4>1, <4>2 DEF MemberShape
    <3>2. \A o \in Obj : o # member[v].data => heap'[o] = heap[o]
      BY <2>3 DEF SetContent
    <3> QED
      BY <2>3, <3>1, <3>2 DEF SetContent, CanWrite, Claims, Holds
  <2>4. ASSUME NEW w \in Slot, BeginCopy(v, w) \/ AssignOverUnowned(v, w)
        PROVE  /\ \A u \in Slot \ {v} : UNCHANGED <<member[u], pc[u], from[u], fresh[u]>>
               /\ \A o \in Obj : o \notin Claims(v) /\ heap[o].phase # "free" =>
                    heap'[o] = heap[o]
    BY <1>1, <2>4 DEF BeginCopy, AssignOverUnowned
  <2> QED
    BY <1>2, <2>1, <2>2, <2>3, <2>4 DEF Start, Claims
<1>3. ASSUME Leave(v)
      PROVE  /\ \A u \in Slot \ {v} : UNCHANGED <<member[u], pc[u], from[u], fresh[u]>>
             /\ \A o \in Obj : o \notin Claims(v) /\ heap[o].phase # "free" =>
                  heap'[o] = heap[o]
  <2>1. CASE EndBuild(v) \/ ThrowInConstructor(v) \/ ThrowInAssign(v)
    BY <2>1 DEF EndBuild, ThrowInConstructor, ThrowInAssign, Unbuild, Claims, Builds
  <2>2. CASE EndRelease(v)
    <3>1. from[v] \in Slot /\ member[v].data \in Claims(v)
      BY <2>2 DEF EndRelease, Shape, Busy, Claims, Holds
    <3>2. Released(v) \in [Obj -> Cell]
      BY <3>1, HeapCells DEF Released, Claims
    <3> QED
      BY <1>1, <2>2, <3>1, <3>2 DEF EndRelease, Released
  <2>3. CASE EndDestroy(v)
    BY <2>3 DEF EndDestroy, Released, Shape, Busy, Claims, Holds
  <2> QED
    BY <1>3, <2>1, <2>2, <2>3 DEF Leave
<1> QED
  BY <1>2, <1>3

(* The copy in progress has the content of its source. *)
CopyContent ==
  failed = 0 =>
    \A v \in Slot : pc[v] \in {"copy", "assign"} =>
      heap[fresh[v]].content = heap[member[v].data].content

SafeInv == TypeInv /\ OwnInv /\ MemberShape /\ SourceRests /\ CopyContent

(* The source of a copy is another Varient's claim. *)
LEMMA SourceIsClaimed ==
  ASSUME TypeInv, SourceRests, NEW v \in Slot, pc[v] \in {"copy", "assign"}
  PROVE  /\ from[v] \in Slot \ {v}
         /\ Holds(from[v])
         /\ member[v].data \in Claims(from[v])
         /\ member[v] = member[from[v]]
         /\ fresh[v] \in Claims(v)
<1>1. from[v] \in Slot /\ Owner(member[v]) /\ fresh[v] \in Obj /\ member[v].data \in Obj
  BY DEF TypeInv, Shape, Busy, Builds
<1>2. from[v] # v /\ pc[from[v]] = "idle" /\ member[v] = member[from[v]]
  BY DEF SourceRests
<1> QED
  BY <1>1, <1>2 DEF Claims, Holds, Builds

LEMMA CopySourceHolds == SafeInv => CopySource
<1> SUFFICES ASSUME SafeInv, failed = 0, NEW v \in Slot, pc[v] \in {"copy", "assign"}
             PROVE  /\ pc[from[v]] = "idle"
                    /\ member[v] = member[from[v]]
                    /\ heap[member[v].data] =
                         [phase |-> "live", cls |-> member[v].cls,
                          content |-> heap[fresh[v]].content]
  BY DEF CopySource
<1>1. /\ from[v] \in Slot /\ Holds(from[v]) /\ pc[from[v]] = "idle"
      /\ member[v] = member[from[v]] /\ member[v].data \in Obj
  BY SourceIsClaimed DEF SafeInv, SourceRests, Claims
<1>2. /\ heap[member[v].data].phase = "live"
      /\ heap[member[v].data].cls = member[v].cls
  BY <1>1 DEF SafeInv, OwnInv, OwnedIsLive
<1>3. heap[member[v].data].content = heap[fresh[v]].content
  BY DEF SafeInv, CopyContent
<1>4. heap[member[v].data] \in Cell
  BY <1>1 DEF SafeInv, TypeInv, TypeOK
<1> QED
  BY <1>1, <1>2, <1>3, <1>4 DEF Cell

(* m_copy started on behalf of v finds the content of w. *)
LEMMA TakeMembersContent ==
  ASSUME TypeInv, OwnInv, failed = 0,
         NEW v \in Slot, NEW w \in Slot \ {v}, CanRead(w), NEW h \in [Obj -> Cell],
         NEW copying \in {"copy", "assign"}, TakeMembers(v, w, h, copying),
         \A o \in Obj : o \notin Claims(v) => h[o] = heap[o],
         pc'[v] \in {"copy", "assign"}
  PROVE  heap'[fresh'[v]].content = heap'[member'[v].data].content
<1> USE DEF TypeInv, TypeOK
<1>1. Owner(member[w])
  BY DEF TakeMembers
<1> DEFINE d == member[w].data
           c == member[w].cls
<1>2. d \in Claims(w) /\ Holds(w)
  BY <1>1 DEF Claims, Holds, CanRead, Shape
<1>3. d \in Obj /\ d \notin Claims(v)
  BY <1>2 DEF OwnInv, DisjointClaims, Claims
<1>4. h[d].phase = "live" /\ h[d].cls = c
  BY <1>2, <1>3 DEF OwnInv, OwnedIsLive, CanRead
<1>5. PICK o \in Obj, x \in Found(h, d, c) :
        /\ h[o].phase = "free"
        /\ heap' = [h EXCEPT ![o] = Building(c, x)]
        /\ fresh' = [fresh EXCEPT ![v] = o]
        /\ member' = [member EXCEPT ![v] = member[w]]
  BY <1>1 DEF TakeMembers
<1>6. x = h[d].content
  BY <1>4, <1>5 DEF Found
<1> QED
  BY <1>3, <1>4, <1>5, <1>6 DEF Building

LEMMA NextCopyContent ==
  ~SelfAssign /\ SafeInv /\ SourceRests' /\ TypeInv' /\ [Next]_vars => CopyContent'
<1> SUFFICES ASSUME ~SelfAssign, SafeInv, SourceRests', TypeInv', [Next]_vars, failed' = 0,
                    NEW u \in Slot, pc'[u] \in {"copy", "assign"}
             PROVE  heap'[fresh'[u]].content = heap'[member'[u].data].content
  BY DEF CopyContent
<1> USE DEF SafeInv
<1>1. CASE UNCHANGED vars
  BY <1>1 DEF vars, CopyContent
<1>2. ASSUME NEW v \in Slot, Start(v) \/ Leave(v)
      PROVE  heap'[fresh'[u]].content = heap'[member'[u].data].content
  <2>0. failed = 0
    BY <1>2, ClientAssumption
       DEF Start, ConstructEmpty, ConstructFromConstPtr, ConstructFromPtr, BeginCreate,
           DestroyUnowned, BeginDestroy, SetContent, BeginCopy, BeginRelease,
           AssignOverUnowned, Leave, EndBuild, ThrowInConstructor, EndRelease,
           ThrowInAssign, EndDestroy, TypeInv, TypeOK
  <2>1. CASE u # v
    <3>1. UNCHANGED <<member[u], pc[u], from[u], fresh[u]>>
      BY <1>2, <2>1, Footprint
    <3>2. /\ from[u] \in Slot \ {u} /\ member[u].data \in Claims(from[u])
          /\ fresh[u] \in Claims(u) /\ pc[from[u]] = "idle"
      BY <3>1, SourceIsClaimed DEF SourceRests
    <3>3. fresh[u] \notin Claims(v) /\ heap[fresh[u]].phase # "free" /\ fresh[u] \in Obj
      BY <2>0, <2>1, <3>2, ClaimedIsTaken DEF OwnInv, DisjointClaims, Claims
    <3>4. heap'[fresh[u]] = heap[fresh[u]]
      BY <1>2, <3>3, Footprint
    <3>5. CASE from[u] # v
      <4>1. /\ member[u].data \notin Claims(v) /\ heap[member[u].data].phase # "free"
            /\ member[u].data \in Obj
        BY <2>0, <3>2, <3>5, ClaimedIsTaken DEF OwnInv, DisjointClaims, Claims
      <4>2. heap'[member[u].data] = heap[member[u].data]
        BY <1>2, <4>1, Footprint
      <4> QED
        BY <2>0, <3>1, <3>4, <4>2 DEF CopyContent
    <3>6. CASE from[u] = v
      <4>1. ~CanWrite(v) /\ pc[v] = "idle"
        BY <3>2, <3>6 DEF CanWrite
      <4> QED
        BY <1>2, <4>1 DEF Start, ConstructEmpty, ConstructFromConstPtr, ConstructFromPtr,
           BeginCreate, DestroyUnowned, BeginDestroy, SetContent, BeginCopy, BeginRelease,
           AssignOverUnowned, Leave, EndBuild, ThrowInConstructor, EndRelease,
           ThrowInAssign, EndDestroy
    <3> QED
      BY <3>5, <3>6
  <2>2. CASE u = v /\ Start(v)
    <3>1. PICK w \in Slot : BeginCopy(v, w) \/ AssignOverUnowned(v, w)
      BY <2>2 DEF Start, ConstructEmpty, ConstructFromConstPtr, ConstructFromPtr, BeginCreate,
         DestroyUnowned, BeginDestroy, SetContent, BeginRelease, TypeInv, TypeOK, CanWrite
    <3>2. CanRead(w) /\ (TakeMembers(v, w, heap, "copy") \/ TakeMembers(v, w, heap, "assign"))
      BY <3>1 DEF BeginCopy, AssignOverUnowned
    <3>3. Owner(member[w]) /\ w # v
      BY <2>2, <3>1, <3>2 DEF TakeMembers, BeginCopy, AssignOverUnowned, CanRead, TypeInv, TypeOK
    <3> QED
      BY <2>0, <2>2, <3>2, <3>3, TakeMembersContent DEF TypeInv, TypeOK
  <2>3. CASE u = v /\ Leave(v)
    <3>1. EndRelease(v)
      BY <2>3 DEF Leave, EndBuild, ThrowInConstructor, ThrowInAssign, EndDestroy,
         TypeInv, TypeOK
    <3>2. from[v] \in Slot \ {v} /\ CanRead(from[v]) /\ member[v].data \in Claims(v)
      BY <3>1 DEF EndRelease, SourceRests, CanRead, TypeInv, Shape, Busy, Claims, Holds
    <3>3. /\ Released(v) \in [Obj -> Cell]
          /\ \A o \in Obj : o \notin Claims(v) => Released(v)[o] = heap[o]
      BY <3>2, HeapCells DEF Released, Claims, TypeInv, TypeOK
    <3> QED
      BY <2>0, <2>3, <3>1, <3>2, <3>3, TakeMembersContent DEF EndRelease
  <2> QED
    BY <1>2, <2>1, <2>2, <2>3
<1> QED
  BY <1>1, <1>2 DEF Next

LEMMA InitSafeInv == Init => SafeInv
  BY InitTypeInv DEF Init, SafeInv, OwnInv, OwnedIsLive, DisjointClaims, BuildsOwn, Claims,
     Holds, Builds, MemberShape, SourceRests, CopyContent

LEMMA NextSafeInv == ~SelfAssign /\ SafeInv /\ [Next]_vars => SafeInv'
  BY NextTypeInv, NextOwn, NextMemberShape, NextSourceRests, NextCopyContent DEF SafeInv

(* Without self-assignment, m_copy reads a live object from its call to its  *)
(* return, and the copy has its content.                                     *)
THEOREM CopiesReadLiveObjects ==
  ASSUME ~SelfAssign
  PROVE  Spec => []CopySource
  BY InitSafeInv, NextSafeInv, CopySourceHolds, PTL DEF Spec

-----------------------------------------------------------------------------
(* The count of constructors and destructors *)

Holders == {v \in Slot : Holds(v)}

(* How an operation on v changes the count and whether v holds an object.    *)
LEMMA CountStep ==
  ASSUME TypeInv, NEW v \in Slot, Start(v) \/ Leave(v)
  PROVE  \/ (Holds(v)' <=> Holds(v)) /\ living' + failed' = living + failed
         \/ ~Holds(v) /\ Holds(v)' /\ living' + failed' = living + failed + 1
         \/ Holds(v) /\ ~Holds(v)' /\ living' + failed' = living + failed - 1
<1> USE DEF TypeInv, TypeOK
<1>0. living \in Int /\ failed \in Nat
  BY ClientAssumption
<1>1. ASSUME NEW w \in Slot, NEW h, NEW copying \in {"copy", "assign"}, TakeMembers(v, w, h, copying)
      PROVE  ~Holds(v)'
  BY <1>1 DEF TakeMembers, Holds
<1>2. CASE \/ ConstructEmpty(v) \/ ConstructFromConstPtr(v) \/ ConstructFromPtr(v)
           \/ DestroyUnowned(v)
  <2>1. PICK m \in Members : ~Owner(m) /\ member' = [member EXCEPT ![v] = m]
    BY <1>2, StoredMembers, EmptyMembers
       DEF ConstructEmpty, ConstructFromConstPtr, ConstructFromPtr, DestroyUnowned
  <2> QED
    BY <1>2, <2>1 DEF ConstructEmpty, ConstructFromConstPtr, ConstructFromPtr,
       DestroyUnowned, Holds
<1>3. CASE BeginCreate(v)
  BY <1>3 DEF BeginCreate, Holds
<1>4. CASE BeginDestroy(v) \/ \E w \in Slot : BeginRelease(v, w)
  BY <1>4 DEF BeginDestroy, BeginRelease, CanWrite, Holds
<1>5. CASE SetContent(v)
  BY <1>5 DEF SetContent, Holds
<1>6. ASSUME NEW w \in Slot, BeginCopy(v, w) \/ AssignOverUnowned(v, w)
      PROVE  ~Holds(v) /\ ~Holds(v)' /\ living' + failed' = living + failed
  BY <1>1, <1>6 DEF BeginCopy, AssignOverUnowned, Holds
<1>7. CASE EndBuild(v)
  <2>1. ~Holds(v) /\ Owner(member[v])
    BY <1>7 DEF EndBuild, Holds, Shape, Busy
  <2>2. Holds(v)'
    BY <1>7, <2>1 DEF EndBuild, Holds, Owner, Members
  <2>3. living' + failed' = living + failed + 1
    BY <1>0, <1>7 DEF EndBuild
  <2> QED
    BY <2>1, <2>2, <2>3
<1>8. CASE ThrowInConstructor(v)
  BY <1>8, EmptyMembers DEF ThrowInConstructor, Unbuild, Holds
<1>9. CASE ThrowInAssign(v)
  <2>1. ~Holds(v) /\ Owner(member[v])
    BY <1>9 DEF ThrowInAssign, Holds, Shape, Busy
  <2>2. Holds(v)'
    BY <1>9, <2>1 DEF ThrowInAssign, Holds
  <2>3. living' + failed' = living + failed + 1
    BY <1>0, <1>9 DEF ThrowInAssign, Unbuild
  <2> QED
    BY <2>1, <2>2, <2>3
<1>10. CASE EndRelease(v)
  <2>1. Holds(v) /\ from[v] \in Slot
    BY <1>10 DEF EndRelease, Holds, Shape, Busy
  <2>2. ~Holds(v)'
    BY <1>1, <1>10, <2>1 DEF EndRelease
  <2>3. living' + failed' = living + failed - 1
    BY <1>0, <1>10 DEF EndRelease
  <2> QED
    BY <2>1, <2>2, <2>3
<1>11. CASE EndDestroy(v)
  <2>1. Holds(v) /\ ~Holds(v)'
    BY <1>11, EmptyMembers DEF EndDestroy, Holds, Shape, Busy
  <2>2. living' + failed' = living + failed - 1
    BY <1>0, <1>11 DEF EndDestroy
  <2> QED
    BY <2>1, <2>2
<1> QED
  BY <1>2, <1>3, <1>4, <1>5, <1>6, <1>7, <1>8, <1>9, <1>10, <1>11 DEF Start, Leave

LEMMA NextLivingCount ==
  ASSUME IsFiniteSet(Slot)
  PROVE  TypeInv /\ MemberShape /\ LivingCount /\ [Next]_vars => LivingCount'
<1> SUFFICES ASSUME TypeInv, MemberShape, LivingCount, [Next]_vars PROVE LivingCount'
  OBVIOUS
<1>1. CASE UNCHANGED vars
  BY <1>1 DEF LivingCount, Holds, vars
<1>2. ASSUME NEW v \in Slot, Start(v) \/ Leave(v) PROVE LivingCount'
  <2>1. \A u \in Slot \ {v} : Holds(u)' <=> Holds(u)
    BY <1>2, Footprint DEF Holds
  <2>2. IsFiniteSet(Holders) /\ Cardinality(Holders) \in Nat
    BY FS_Subset, FS_CardinalityType DEF Holders
  <2>3. living + failed = Cardinality(Holders)
    BY DEF LivingCount, Holders
  <2>4. CASE (Holds(v)' <=> Holds(v)) /\ living' + failed' = living + failed
    <3>1. Holders' = Holders
      BY <2>1, <2>4 DEF Holders
    <3> QED
      BY <2>3, <2>4, <3>1 DEF LivingCount, Holders
  <2>5. CASE ~Holds(v) /\ Holds(v)' /\ living' + failed' = living + failed + 1
    <3>1. Holders' = Holders \cup {v} /\ v \notin Holders
      BY <2>1, <2>5 DEF Holders
    <3>2. Cardinality(Holders') = Cardinality(Holders) + 1
      BY <2>2, <3>1, FS_AddElement
    <3> QED
      BY <2>3, <2>5, <3>2 DEF LivingCount, Holders
  <2>6. CASE Holds(v) /\ ~Holds(v)' /\ living' + failed' = living + failed - 1
    <3>1. Holders' = Holders \ {v} /\ v \in Holders
      BY <2>1, <2>6 DEF Holders
    <3>2. Cardinality(Holders') = Cardinality(Holders) - 1
      BY <2>2, <3>1, FS_RemoveElement
    <3>3. living' + failed' = living + failed - 1
      BY <2>6
    <3>4. living \in Int /\ failed \in Int
      BY DEF TypeInv, TypeOK
    <3>5. living' + failed' = Cardinality(Holders')
      BY <2>3, <3>2, <3>3, <3>4
    <3> QED
      BY <3>5 DEF LivingCount, Holders
  <2> QED
    BY <1>2, <2>4, <2>5, <2>6, CountStep
<1> QED
  BY <1>1, <1>2 DEF Next

(* One destructor too many runs for each failed assignment, and no other:    *)
(* when all of finitely many Varients are destroyed, the count that should   *)
(* be zero is minus the number of failed assignments.                        *)
THEOREM FailedAssignmentsAreCounted ==
  ASSUME IsFiniteSet(Slot)
  PROVE  Spec => []LivingCount
<1>1. Init => LivingCount
  <2> SUFFICES ASSUME Init PROVE LivingCount
    OBVIOUS
  <2>1. {v \in Slot : Holds(v)} = {}
    BY EmptyMembers DEF Init, Holds
  <2> QED
    BY <2>1, FS_EmptySet DEF Init, LivingCount
<1> QED
  BY MemberInvariant, <1>1, NextLivingCount, PTL DEF Spec
=============================================================================
