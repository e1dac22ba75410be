------------------------------ MODULE Varient ------------------------------
(***************************************************************************)
(* The life of Methan::Varient objects (methan/utility/varient.hpp) and of *)
(* the heap objects they own.                                              *)
(*                                                                         *)
(* An operation that runs code of the stored class (its copy constructor   *)
(* or its destructor) takes a step that enters that code and a step that   *)
(* leaves it.  In between, operations on other Varients take place: those  *)
(* of other threads, or those that the class's own code calls.  A copy     *)
(* constructor, or the allocation before it, may throw.                    *)
(*                                                                         *)
(* Varient takes no lock, so the client keeps the rule of every such C++   *)
(* class: no operation starts on a Varient that another operation is still *)
(* writing, and none writes a Varient that another is still reading.       *)
(***************************************************************************)
EXTENDS VarientTypes, Integers, FiniteSets

CONSTANTS
  Slot,        (* the storage of each Varient object                         *)
  Content,     (* what an object of a class can contain                      *)
  SelfAssign,  (* the client may assign an owning Varient to itself          *)
  MaxThrows    (* bound: assignments that end with an exception              *)

ASSUME ClientAssumption ==
  /\ NULL \notin Slot \cup Content
  /\ SelfAssign \in BOOLEAN
  /\ MaxThrows \in Nat

VARIABLES
  member,   (* the members of each Varient                                   *)
  pc,       (* where each Varient is in its life                             *)
  from,     (* the Varient that an operation in progress copies, or NULL     *)
  fresh,    (* the object that a copy constructor is building, or NULL       *)
  heap,     (* the cell at each heap address                                 *)
  living,   (* constructors completed less destructors completed             *)
  failed    (* assignments that ended with an exception                      *)

vars == <<member, pc, from, fresh, heap, living, failed>>

(* "raw"        no Varient here: not yet constructed, or destroyed           *)
(* "idle"       between operations                                           *)
(* "create"     in new T(ref), in the constructor from a value               *)
(* "copy"       in m_copy, in the copy constructor                           *)
(* "release"    in m_destructor, in operator=                                *)
(* "assign"     in m_copy, in operator=                                      *)
(* "destroy"    in m_destructor, in ~Varient                                 *)
Pc == {"raw", "idle", "create", "copy", "release", "assign", "destroy"}

Cell ==
  [phase : {"free", "building", "live", "dying"},
   cls : Class \cup {NULL}, content : Content \cup {NULL}]

Free           == [phase |-> "free", cls |-> NULL, content |-> NULL]
Building(c, x) == [phase |-> "building", cls |-> c, content |-> x]

TypeOK ==
  /\ member \in [Slot -> Members]
  /\ pc \in [Slot -> Pc]
  /\ from \in [Slot -> Slot \cup {NULL}]
  /\ fresh \in [Slot -> Obj \cup {NULL}]
  /\ heap \in [Obj -> Cell]
  /\ living \in Int
  /\ failed \in 0 .. MaxThrows

Init ==
  /\ member = [v \in Slot |-> Empty]
  /\ pc = [v \in Slot |-> "raw"]
  /\ from = [v \in Slot |-> NULL]
  /\ fresh = [v \in Slot |-> NULL]
  /\ heap = [o \in Obj |-> Free]
  /\ living = 0
  /\ failed = 0

-----------------------------------------------------------------------------
(* What the operations are made of *)

(* The client's rule *)
CanRead(v)  == pc[v] = "idle"
CanWrite(v) == pc[v] = "idle" /\ \A u \in Slot : from[u] # v

(* What a copy constructor of class c finds at address o of heap h: the     *)
(* content of the object there, and anything when there is none.            *)
Found(h, o, c) ==
  IF h[o].phase = "live" /\ h[o].cls = c THEN {h[o].content} ELSE Content

(* A slip: a copy shares the object of the original. *)
TakeMembers_Shallow(v, w, h, copying) ==
  /\ member' = [member EXCEPT ![v] = member[w]]
  /\ heap' = h
  /\ pc' = [pc EXCEPT ![v] = "idle"]
  /\ from' = [from EXCEPT ![v] = NULL]
  /\ fresh' = fresh

(* v takes over the members of w and, if they say that w owns its data,     *)
(* calls m_copy(&m_data, other.m_data).  h is the heap at this point, and   *)
(* copying is where m_copy is called from.                                  *)
TakeMembers(v, w, h, copying) ==
  /\ member' = [member EXCEPT ![v] = member[w]]
  /\ \/ /\ ~Owner(member[w])
        /\ heap' = h
        /\ pc' = [pc EXCEPT ![v] = "idle"]
        /\ from' = [from EXCEPT ![v] = NULL]
        /\ fresh' = fresh
     \/ /\ Owner(member[w])
        /\ \E o \in Obj, x \in Found(h, member[w].data, member[w].cls) :
             /\ h[o].phase = "free"
             /\ heap' = [h EXCEPT ![o] = Building(member[w].cls, x)]
             /\ fresh' = [fresh EXCEPT ![v] = o]
        /\ pc' = [pc EXCEPT ![v] = copying]
        /\ from' = [from EXCEPT ![v] = w]

(* m_destructor(m_data) of v, entered and left *)
EnterDestructor(v) ==
  heap' = [heap EXCEPT ![member[v].data].phase = IF @ = "free" THEN @ ELSE "dying"]

(* A slip: m_destructor runs the destructor and does not delete. *)
Released_Leak(v) == heap

Released(v) == [o \in Obj |-> IF o = member[v].data THEN Free ELSE heap[o]]

(* A slip: the memory of what a throw leaves unbuilt is not given back. *)
Unbuild_Leak(v) ==
  /\ fresh' = [fresh EXCEPT ![v] = NULL]
  /\ from' = [from EXCEPT ![v] = NULL]
  /\ UNCHANGED <<heap, living>>

(* The copy constructor that builds fresh[v] throws: new gives the memory   *)
(* back.                                                                    *)
Unbuild(v) ==
  /\ heap' = [heap EXCEPT ![fresh[v]] = Free]
  /\ fresh' = [fresh EXCEPT ![v] = NULL]
  /\ from' = [from EXCEPT ![v] = NULL]
  /\ UNCHANGED living

-----------------------------------------------------------------------------
(* Constructors *)

(* Varient(std::nullptr_t) *)
ConstructEmpty(v) ==
  /\ pc[v] = "raw"
  /\ pc' = [pc EXCEPT ![v] = "idle"]
  /\ member' = [member EXCEPT ![v] = Empty]
  /\ UNCHANGED <<from, fresh, heap, living, failed>>

(* Varient(T constPtr) *)
ConstructFromConstPtr(v) ==
  /\ pc[v] = "raw"
  /\ pc' = [pc EXCEPT ![v] = "idle"]
  /\ \E c \in Class : \E p \in Pointees(c) :
       member' = [member EXCEPT ![v] = OfConstPtr(c, p)]
  /\ UNCHANGED <<from, fresh, heap, living, failed>>

(* Varient(T ptr) *)
ConstructFromPtr(v) ==
  /\ pc[v] = "raw"
  /\ pc' = [pc EXCEPT ![v] = "idle"]
  /\ \E c \in Class : \E p \in Pointees(c) :
       member' = [member EXCEPT ![v] = OfPtr(c, p)]
  /\ UNCHANGED <<from, fresh, heap, living, failed>>

(* Varient(const T& ref) up to the copy constructor in new T(ref).  The     *)
(* initializers after it cannot fail, so the members are written here; none *)
(* can be read before the constructor returns.                              *)
BeginCreate(v) ==
  /\ pc[v] = "raw"
  /\ pc' = [pc EXCEPT ![v] = "create"]
  /\ \E c \in Class, x \in Content, o \in Obj :
       /\ heap[o].phase = "free"
       /\ heap' = [heap EXCEPT ![o] = Building(c, x)]
       /\ fresh' = [fresh EXCEPT ![v] = o]
       /\ member' = [member EXCEPT ![v] = OfValue(c, o)]
  /\ UNCHANGED <<from, living, failed>>

(* Varient(const Varient& other) *)
BeginCopy(v, w) ==
  /\ pc[v] = "raw"
  /\ CanRead(w)
  /\ TakeMembers(v, w, heap, "copy")
  /\ UNCHANGED <<living, failed>>

(* A constructor left by an exception: no Varient comes to be, and          *)
(* ~Varient does not run.                                                   *)
ThrowInConstructor(v) ==
  /\ pc[v] \in {"create", "copy"}
  /\ Unbuild(v)
  /\ pc' = [pc EXCEPT ![v] = "raw"]
  /\ member' = [member EXCEPT ![v] = Empty]
  /\ UNCHANGED failed

-----------------------------------------------------------------------------
(* operator= *)

(* __destruct() runs m_destructor; the members of other are read after it. *)
BeginRelease(v, w) ==
  /\ CanWrite(v)
  /\ CanRead(w)
  /\ Owner(member[v])
  /\ v = w => SelfAssign
  /\ EnterDestructor(v)
  /\ pc' = [pc EXCEPT ![v] = "release"]
  /\ from' = [from EXCEPT ![v] = w]
  /\ UNCHANGED <<member, fresh, living, failed>>

(* A slip: the members are taken first, so that __destruct() releases the   *)
(* object of other.                                                         *)
EndRelease_Swapped(v) ==
  /\ pc[v] = "release"
  /\ TakeMembers(v, from[v], [heap EXCEPT ![member[from[v]].data] = Free], "assign")
  /\ living' = living - 1
  /\ UNCHANGED failed

(* A slip: m_copy is written as one more assignment, which releases again.  *)
EndRelease_Again(v) ==
  /\ pc[v] = "release"
  /\ TakeMembers(v, from[v], Released(v), "release")
  /\ UNCHANGED <<living, failed>>

EndRelease(v) ==
  /\ pc[v] = "release"
  /\ TakeMembers(v, from[v], Released(v), "assign")
  /\ living' = living - 1
  /\ UNCHANGED failed

(* __destruct() finds nothing to release. *)
AssignOverUnowned(v, w) ==
  /\ CanWrite(v)
  /\ CanRead(w)
  /\ ~Owner(member[v])
  /\ TakeMembers(v, w, heap, "assign")
  /\ UNCHANGED <<living, failed>>

(* m_copy throws: the members written so far stay, m_data = other.m_data    *)
(* and the owner flag among them.                                           *)
ThrowInAssign(v) ==
  /\ pc[v] = "assign"
  /\ failed < MaxThrows
  /\ failed' = failed + 1
  /\ Unbuild(v)
  /\ pc' = [pc EXCEPT ![v] = "idle"]
  /\ UNCHANGED member

-----------------------------------------------------------------------------
(* The copy constructor of the class returns: *dest = new T(...).           *)
EndBuild(v) ==
  /\ pc[v] \in {"create", "copy", "assign"}
  /\ heap' = [heap EXCEPT ![fresh[v]].phase = "live"]
  /\ member' = [member EXCEPT ![v].data = fresh[v]]
  /\ pc' = [pc EXCEPT ![v] = "idle"]
  /\ fresh' = [fresh EXCEPT ![v] = NULL]
  /\ from' = [from EXCEPT ![v] = NULL]
  /\ living' = living + 1
  /\ UNCHANGED failed

(* ~Varient *)
DestroyUnowned(v) ==
  /\ CanWrite(v)
  /\ ~Owner(member[v])
  /\ pc' = [pc EXCEPT ![v] = "raw"]
  /\ member' = [member EXCEPT ![v] = Empty]
  /\ UNCHANGED <<from, fresh, heap, living, failed>>

BeginDestroy(v) ==
  /\ CanWrite(v)
  /\ Owner(member[v])
  /\ EnterDestructor(v)
  /\ pc' = [pc EXCEPT ![v] = "destroy"]
  /\ UNCHANGED <<member, from, fresh, living, failed>>

EndDestroy(v) ==
  /\ pc[v] = "destroy"
  /\ heap' = Released(v)
  /\ pc' = [pc EXCEPT ![v] = "raw"]
  /\ member' = [member EXCEPT ![v] = Empty]
  /\ living' = living - 1
  /\ UNCHANGED <<from, fresh, failed>>

(* varient.get<T>() = ..., through the reference get returns *)
SetContent(v) ==
  /\ CanWrite(v)
  /\ \E c \in Class, x \in Content :
       /\ Is(member[v], Value(c))
       /\ GetReturns(member[v], Value(c))
       /\ heap' = [heap EXCEPT ![member[v].data].content = x]
  /\ UNCHANGED <<member, pc, from, fresh, living, failed>>

-----------------------------------------------------------------------------
(* The class's code in progress on v's behalf returns or throws. *)
Leave(v) ==
  \/ EndBuild(v)
  \/ ThrowInConstructor(v)
  \/ EndRelease(v)
  \/ ThrowInAssign(v)
  \/ EndDestroy(v)

Start(v) ==
  \/ ConstructEmpty(v)
  \/ ConstructFromConstPtr(v)
  \/ ConstructFromPtr(v)
  \/ BeginCreate(v)
  \/ DestroyUnowned(v)
  \/ BeginDestroy(v)
  \/ SetContent(v)
  \/ \E w \in Slot :
       \/ BeginCopy(v, w)
       \/ BeginRelease(v, w)
       \/ AssignOverUnowned(v, w)

Next == \E v \in Slot : Start(v) \/ Leave(v)

Spec == Init /\ [][Next]_vars

(* The constructors and destructors of the stored classes end. *)
FairSpec == Spec /\ \A v \in Slot : WF_vars(Leave(v))

-----------------------------------------------------------------------------
(* Properties.  An assignment that throws breaks the ownership of the heap   *)
(* objects for good, so what is said of it is said for failed = 0.           *)

Busy(v)    == pc[v] \notin {"raw", "idle"}
Builds(v)  == pc[v] \in {"create", "copy", "assign"}
Holds(v)   == Owner(member[v]) /\ pc[v] \in {"idle", "release", "destroy"}

(* The heap objects that v must delete, or hand to a member *)
Claims(v) ==
  {o \in Obj : \/ Holds(v) /\ o = member[v].data
               \/ Builds(v) /\ o = fresh[v]}

(* What an owning Varient points to is an object, of the class that its      *)
(* m_destructor and m_copy are for; it is dying only while the Varient's own *)
(* operation destroys it.                                                    *)
OwnedIsLive ==
  failed = 0 =>
    \A v \in Slot : Holds(v) =>
      LET cell == heap[member[v].data] IN
        /\ cell.phase = IF pc[v] = "idle" THEN "live" ELSE "dying"
        /\ cell.cls = member[v].cls

(* No two Varients are to delete the same object: copying is deep, whatever  *)
(* operations overlap.                                                       *)
DisjointClaims ==
  failed = 0 => \A v, w \in Slot : v # w => Claims(v) \cap Claims(w) = {}

(* No heap object is without a Varient that will delete it, failed           *)
(* assignments and constructors included.                                    *)
NoLeak ==
  \A o \in Obj : heap[o].phase # "free" => \E v \in Slot : o \in Claims(v)

(* From the moment operator= or the copy constructor has taken the members   *)
(* of other until m_copy returns, the object that m_copy reads is alive and  *)
(* has the content that the copy gets.                                       *)
CopySource ==
  failed = 0 =>
    \A v \in Slot : pc[v] \in {"copy", "assign"} =>
      /\ pc[from[v]] = "idle"
      /\ member[v] = member[from[v]]
      /\ heap[member[v].data] =
           [phase |-> "live", cls |-> member[v].cls,
            content |-> heap[fresh[v]].content]

(* Constructors and destructors match, but for one destructor too many with  *)
(* each failed assignment, whenever it comes to run.                         *)
LivingCount == living + failed = Cardinality({v \in Slot : Holds(v)})

(* The count is back at zero when every Varient is destroyed                 *)
(* (test_varient.cpp).                                                       *)
LivingZero == (\A v \in Slot : pc[v] = "raw") => living = 0

(* A get<T>() that returns gives a live T, or the pointer to one, when the   *)
(* assertions are compiled in and hash codes identify types.                 *)
TypedAccess ==
  failed = 0 /\ Checked /\ DistinctIds =>
    \A v \in Slot, t \in Type : CanRead(v) /\ GetReturns(member[v], t) =>
      IF IsPointer(t)
      THEN member[v].data \in Pointees(t[2])
      ELSE /\ member[v].data \in Obj
           /\ heap[member[v].data].phase = "live"
           /\ heap[member[v].data].cls = t[2]

(* is<T>() accepts the type of the constructor's argument, a pointer to      *)
(* const where that is a pointer to non-const, and no other type.            *)
IsExact ==
  DistinctIds =>
    \A v \in Slot, t \in Type : CanRead(v) =>
      (Is(member[v], t) <=>
         \/ Stored(member[v], t)
         \/ t[1] = "pointer to const" /\ Stored(member[v], Ptr(t[2])))

(* However hash codes collide, get never makes a pointer to non-const of     *)
(* what a constructor was given as a pointer to const.                       *)
ConstSafe ==
  Checked =>
    \A v \in Slot, c, d \in Class :
      CanRead(v) /\ Stored(member[v], ConstPtr(d)) => ~GetReturns(member[v], Ptr(c))

(* Every operation returns: no operation waits for another, since none       *)
(* starts on a Varient in use.                                               *)
OpsReturn == \A v \in Slot : Busy(v) ~> ~Busy(v)
=============================================================================
