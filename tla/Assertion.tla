----------------------------- MODULE Assertion -----------------------------
(***************************************************************************)
(* The assertion macros (methan/utility/assertion.hpp) and the exceptions  *)
(* that they throw (methan/utility/exception.hpp and .cpp).                *)
(*                                                                         *)
(* One program of assertions runs in two builds side by side: "checked",   *)
(* with METHAN_DEBUG or METHAN_FORCE_ASSERTION, and "release", where the   *)
(* macros without FORCE expand to nothing.  It ends at the first line that *)
(* throws in either build.                                                 *)
(***************************************************************************)
EXTENDS IndexCheck

CONSTANT MaxLine  (* bound: lines of the program                            *)

ASSUME ProgramAssumption == MaxLine \in Nat /\ 2 * MaxLine < SizeType.count - 1

Build == {"checked", "release"}

VARIABLES
  careful, (* the client keeps the rule that no argument of a macro without *)
           (* FORCE has a side effect                                       *)
  line,    (* the line last executed                                        *)
  index,   (* the index and bound that it asserts, the index as tested in   *)
           (* each build; none or one                                       *)
  thrown,  (* the exception that it threw in each build; none or one        *)
  taken    (* a counter of the client in each build, which an argument may  *)
           (* increment: counter++                                          *)

vars == <<careful, line, index, thrown, taken>>

(* to_string(ExceptionType) *)
Named == {"IllegalArgument", "IllegalState", "NullPointer", "AlreadyInitialized",
          "IndexOutOfBounds", "BadCastException"}
ExceptionType == Named \cup {"Unknown"}

(* A slip: a case is missing. *)
to_string_NoState(type) == IF type \in Named \ {"IllegalState"} THEN type ELSE "Unknown"

to_string(type) == IF type \in Named THEN type ELSE "Unknown"

(* Exception(what, file, line, type); shown is the index in what, if any.    *)
Exception(type, l, shown) ==
  [type |-> type, line |-> l, what |-> <<to_string(type), shown, l>>]

(* A slip: the constructor leaves the type out. *)
NullException_NoType ==
  [type |-> "uninitialized", line |-> Convert(-1, SizeType), what |-> <<"Unknown", {}, 0>>]

(* Exception(std::nullptr_t) *)
NullException == Exception("Unknown", Convert(-1, SizeType), {})

Init ==
  /\ careful \in BOOLEAN
  /\ line = 0
  /\ index = {}
  /\ thrown = [b \in Build |-> {}]
  /\ taken = [b \in Build |-> 0]

-----------------------------------------------------------------------------
Running == line < MaxLine /\ \A b \in Build : thrown[b] = {}

(* A slip: the #if of assertion.hpp is the wrong way round. *)
Expands_Swapped(b, forced) == forced \/ b = "release"

Expands(b, forced) == forced \/ b = "checked"

(* METHAN_FORCE_ASSERT or METHAN_ASSERT(condition, type, msg).  takes[b] is *)
(* the number of times that the condition and then msg increment the        *)
(* counter.                                                                 *)
Assert(forced, holds, type, shown, first, second) ==
  /\ Running
  /\ first + second > 0 => forced \/ ~careful
  /\ UNCHANGED careful
  /\ line' = line + 1
  /\ thrown' = [b \in Build |->
                  IF Expands(b, forced) /\ ~holds[b]
                  THEN {Exception(type, line + 1, shown[b])} ELSE {}]
  /\ taken' = [b \in Build |->
                 taken[b] + IF ~Expands(b, forced) THEN 0
                            ELSE IF holds[b] THEN first ELSE first + second]

(* An assertion of something else than an index: a condition that is given, *)
(* or counter++ < n.                                                        *)
AssertOther(type) ==
  /\ \E forced \in BOOLEAN :
       \/ \E c \in BOOLEAN :
            Assert(forced, [b \in Build |-> c], type, [b \in Build |-> {}], 0, 0)
       \/ \E n \in 0 .. MaxLine :
            Assert(forced, [b \in Build |-> taken[b] < n], type,
                   [b \in Build |-> {}], 1, 0)
  /\ index' = {}

ASSERT          == \E type \in ExceptionType : AssertOther(type)
ASSERT_ARGUMENT == AssertOther("IllegalArgument")
ASSERT_NON_NULL == AssertOther("NullPointer")
ASSERT_NULL     == AssertOther("AlreadyInitialized")

(* METHAN_(FORCE_)ASSERT_INDEX(index, upperBound), which has index twice:   *)
(* in the condition, where it is i[b], and in msg.  takes is the number of  *)
(* times that each of the two increments the counter, and so the index.     *)
AssertIndex(forced, split, takes, i, s, n, t, holds) ==
  /\ Assert(forced, holds, "IndexOutOfBounds", [b \in Build |-> {i[b] + takes}], takes, takes)
  /\ index' = {[forced |-> forced, split |-> split, takes |-> takes,
                i |-> i, s |-> s, n |-> n, t |-> t]}

(* An index without a side effect, of any value *)
ASSERT_INDEX ==
  \E forced, split \in BOOLEAN, s, t \in Type :
    \E i \in Values(s), n \in Values(t) :
      \E test \in Tested(i, split, s, n, t) :
        AssertIndex(forced, split, 0, [b \in Build |-> i], s, n, t, [b \in Build |-> test])

(* counter++ for the index *)
ASSERT_INDEX_Taking ==
  \E forced \in BOOLEAN, t \in Type :
    \E n \in Values(t) :
      AssertIndex(forced, FALSE, 1, taken, SizeType, n, t,
                  [b \in Build |-> Less(taken[b], SizeType, n, t)])

Throw(e) ==
  /\ Running
  /\ line' = line + 1
  /\ thrown' = [b \in Build |-> {e}]
  /\ index' = {}
  /\ UNCHANGED <<careful, taken>>

INVALID_STATE == Throw(Exception("IllegalState", line + 1, {}))
ThrowNull     == Throw(NullException)

Next ==
  \/ ASSERT \/ ASSERT_ARGUMENT \/ ASSERT_NON_NULL \/ ASSERT_NULL
  \/ ASSERT_INDEX \/ ASSERT_INDEX_Taking
  \/ INVALID_STATE \/ ThrowNull

Spec == Init /\ [][Next]_vars
-----------------------------------------------------------------------------
(* Properties *)

Index ==
  LET Value == UNION {Values(t) : t \in Type \cup {SizeType}} IN
    [forced : BOOLEAN, split : BOOLEAN, takes : {0, 1},
     i : [Build -> Value], s : Type \cup {SizeType}, n : Value, t : Type]

TypeOK ==
  /\ careful \in BOOLEAN
  /\ line \in 0 .. MaxLine
  /\ index \subseteq Index
  /\ \A b \in Build : \A e \in thrown[b] : e.type \in ExceptionType
  /\ taken \in [Build -> 0 .. 2 * MaxLine]

(* What the release build throws the checked one throws too, on the same     *)
(* line and with the same text, and compiling the macros out changes no data *)
(* of the client, unless an argument of theirs has a side effect.  Then it   *)
(* is the release build that lacks it.                                       *)
Agree ==
  /\ taken["checked"] = taken["release"] => thrown["release"] \subseteq thrown["checked"]
  /\ careful => taken["checked"] = taken["release"]
  /\ taken["release"] <= taken["checked"]

(* Where the comparison of C++ is reliable, METHAN_ASSERT_INDEX lets exactly *)
(* the indices below the bound pass, and an index below the bound always     *)
(* passes; with counter++ for the index too.  Arguments that < takes apart   *)
(* are no part of this, and may refuse an index that is below.               *)
IndexInBounds ==
  \A x \in index, b \in Build :
    Expands(b, x.forced) /\ ~x.split =>
      /\ x.i[b] \in 0 .. x.n - 1 => thrown[b] = {}
      /\ Reliable(x.i[b], x.s, x.n, x.t) /\ thrown[b] = {} => x.i[b] \in 0 .. x.n - 1

(* An exception says what happened: its line is the one that threw and its   *)
(* text names its type.  The line of Exception(nullptr) is that of no        *)
(* program.  The index that it shows is the one that was tested, but with    *)
(* counter++ for the index the one after; the index tested was out of        *)
(* bounds, unless < took the arguments apart.                                *)
Report ==
  \A b \in Build : \A e \in thrown[b] :
    /\ e.what[1] = e.type
    /\ e.line # line => e = NullException /\ e.line = SizeType.count - 1
    /\ \A x \in index :
         /\ e.what[2] = {x.i[b] + x.takes}
         /\ ~x.split => x.i[b] \notin 0 .. x.n - 1
=============================================================================
