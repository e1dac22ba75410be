---------------------------- MODULE VarientTypes ----------------------------
(***************************************************************************)
(* The type side of Methan::Varient (methan/utility/varient.hpp): the      *)
(* members each constructor stores, and what is<T>() and get<T>() answer   *)
(* when they compare a requested C++ type with those members.              *)
(*                                                                         *)
(* A C++ type is a pair: how a class is held (by value, by pointer, by     *)
(* pointer to const) and the class.  Classes stand for the copy            *)
(* constructible, non-pointer types T of the template parameters.          *)
(***************************************************************************)
EXTENDS Naturals

CONSTANTS
  Class,    (* the classes T that a Varient is used with                    *)
  TypeId,   (* typeid(T).hash_code(), for every type T                      *)
  Obj,      (* heap addresses that new T can return                         *)
  Ext,      (* objects of the client, which pointers refer to               *)
  ClassOf,  (* the class of each of the client's objects                    *)
  Checked,  (* METHAN_ASSERT expands: METHAN_DEBUG or METHAN_FORCE_ASSERTION *)
  NULL      (* nullptr                                                      *)

Value(c)    == <<"value", c>>
Ptr(c)      == <<"pointer", c>>
ConstPtr(c) == <<"pointer to const", c>>

Type == {"value", "pointer", "pointer to const"} \X Class

ASSUME TypeAssumption ==
  /\ TypeId \in [Type -> Nat]
  /\ ClassOf \in [Ext -> Class]
  /\ Obj \cap Ext = {}
  /\ NULL \notin Obj \cup Ext \cup Class
  /\ Checked \in BOOLEAN

(***************************************************************************)
(* The C++ standard lets hash_code() collide and lets it be zero, and the  *)
(* code takes it for an identity.  What needs this to be so says it.       *)
(***************************************************************************)
DistinctIds ==
  \A s, t \in Type : TypeId[s] # 0 /\ (TypeId[s] = TypeId[t] => s = t)

-----------------------------------------------------------------------------
(* The members of a Varient.  cls is the class whose destructor and copy   *)
(* lambdas m_destructor and m_copy hold, NULL when they are empty.         *)

IsConstant  == "IsConstant"
IsDataOwner == "IsDataOwner"

Members ==
  [typeId : Nat, data : Obj \cup Ext \cup {NULL},
   flag : SUBSET {IsConstant, IsDataOwner}, cls : Class \cup {NULL}]

Owner(m) == IsDataOwner \in m.flag

(* What each constructor stores in the members. *)
Empty ==
  [typeId |-> 0, data |-> NULL, flag |-> {}, cls |-> NULL]

(* A slip: the flag is forgotten. *)
OfConstPtr_NoFlag(c, p) ==
  [typeId |-> TypeId[ConstPtr(c)], data |-> p, flag |-> {}, cls |-> NULL]

OfConstPtr(c, p) ==
  [typeId |-> TypeId[ConstPtr(c)], data |-> p, flag |-> {IsConstant}, cls |-> NULL]

(* A slip: m_flag is not initialized. *)
OfPtr_StaleFlag(c, p) ==
  [typeId |-> TypeId[Ptr(c)], data |-> p, flag |-> {"stale"}, cls |-> NULL]

OfPtr(c, p) ==
  [typeId |-> TypeId[Ptr(c)], data |-> p, flag |-> {}, cls |-> NULL]

OfValue(c, o) ==
  [typeId |-> TypeId[Value(c)], data |-> o, flag |-> {IsDataOwner}, cls |-> c]

(* The addresses a C* or const C* can hold: one of the client's C, or null. *)
Pointees(c) == {p \in Ext : ClassOf[p] = c} \cup {NULL}

(* m is what a constructor given an argument of type t stores. *)
Stored(m, t) ==
  \E c \in Class :
    \/ /\ t = ConstPtr(c)
       /\ \E p \in Pointees(c) : m = OfConstPtr(c, p)
    \/ /\ t = Ptr(c)
       /\ \E p \in Pointees(c) : m = OfPtr(c, p)
    \/ /\ t = Value(c)
       /\ \E o \in Obj : m = OfValue(c, o)

-----------------------------------------------------------------------------
(* isEmpty(), is<T>() and get<T>() *)

isEmpty(m) == m.typeId = 0

IsPointer(t) == t[1] # "value"

(* A slip: is<T>() without its is_pointer<T> condition. *)
Is_AnyPointee(m, t) ==
  /\ ~isEmpty(m)
  /\ \/ m.typeId = TypeId[t]
     \/ IsConstant \notin m.flag /\ m.typeId = TypeId[Ptr(t[2])]

Is(m, t) ==
  /\ ~isEmpty(m)
  /\ \/ m.typeId = TypeId[t]
     \/ /\ IsPointer(t)
        /\ IsConstant \notin m.flag
        /\ m.typeId = TypeId[Ptr(t[2])]

(* The three assertions of get<T>(); the last is in the overload for a      *)
(* pointer to non-const alone.                                              *)
NonEmptyAsserted(m)  == ~isEmpty(m)
TypeAsserted(m, t)   == Is(m, t)
ConstAsserted(m, t)  == t[1] = "pointer" => IsConstant \notin m.flag

(* get<T>() returns; compiled out, no assertion stands in its way. *)
GetReturns(m, t) ==
  Checked => NonEmptyAsserted(m) /\ TypeAsserted(m, t) /\ ConstAsserted(m, t)
=============================================================================
