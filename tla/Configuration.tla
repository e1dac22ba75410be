--------------------------- MODULE Configuration ---------------------------
(***************************************************************************)
(* The preprocessor over the headers of Methan: which macros each          *)
(* translation unit of a program has when it reads them, and what Varient  *)
(* is there.                                                               *)
(*                                                                         *)
(* A unit is read line by line.  A line is the name of a header, for its   *)
(* #include, or of a macro, for #ifndef, #define and #endif of it.  The    *)
(* units are read side by side, and linked into one program.               *)
(***************************************************************************)
EXTENDS Platform, FiniteSets

CONSTANTS
  Unit,       (* the units of the program                                   *)
  Library,    (* those of the library: exception.cpp, one #include          *)
  Machine,    (* what compilers predefine on the machines they compile for  *)
  Options,    (* the options that configuration.hpp may be generated with   *)
  Line,       (* what the client's units may consist of                     *)
  MaxLine     (* bound: lines of a unit                                     *)

(* The macros of the client that the headers look at *)
Defined == {"METHAN_DEBUG", "METHAN_FORCE_ASSERTION"}

(* The #includes of each header *)
Includes ==
  [platform      |-> {}, configuration |-> {},
   except        |-> {"platform", "configuration"},
   exception     |-> {"except"},
   assertion     |-> {"except", "exception"},
   varient       |-> {"except", "assertion"}]

Header == DOMAIN Includes

ASSUME UnitAssumption ==
  /\ Library \subseteq Unit
  /\ Line \subseteq Header \cup Defined
  /\ MaxLine \in Nat

(* The macros that METHAN_API depends on are Methan's own: no compiler      *)
(* predefines them, and configuration.hpp defines METHAN_BUILD_SHARED alone. *)
ASSUME MachineAssumption ==
  /\ \A m \in Machine : m \cap
       {"METHAN_BUILD_SHARED", "METHAN_EXPORT", "METHAN_COMPILER_CLANG",
        "METHAN_COMPILER_MSC", "METHAN_COMPILER_GCC"} = {}
  /\ \A o \in Options : o \subseteq Defined \cup {"METHAN_BUILD_SHARED"}

(* Instruction sets, each with those that come with it, and each after those *)
(* that it extends: as the headers announce them, as gcc and Clang do, and   *)
(* as MSVC does, for which SSE2 is a matter of the processor.                *)
Ladder ==
  <<{"SSE2"}, {"SSE3"}, {"SSSE3"}, {"SSE41", "SSSE41"}, {"SSE42", "SSSE42"},
    {"AVX"}, {"AVX2", "AVX_F16C", "AVX_FMA"}, {"AVX512F"}>>

GccLadder ==
  <<{"__SSE2__"}, {"__SSE3__"}, {"__SSSE3__"}, {"__SSE4_1__"}, {"__SSE4_2__"},
    {"__AVX__"}, {"__AVX2__", "__F16C__", "__FMA__"}, {"__AVX512F__"}>>

MscLadder ==
  <<{"_M_IX86_FP=2", "_M_AMD64", "_M_X64"}, {"__AVX__"}, {"__AVX2__"}, {"__AVX512F__"}>>

Ascending(ladder, macros) ==
  \A i \in DOMAIN ladder :
    ladder[i] \cap macros # {} => \A j \in 1 .. i - 1 : ladder[j] \cap macros # {}

(* Compilers predefine the macro of an instruction set together with those   *)
(* of the sets it extends, and none of the names that the headers announce.  *)
ASSUME CompilersAscend ==
  \A m \in Machine :
    /\ Ascending(IF "_MSC_VER" \in m THEN MscLadder ELSE GccLadder, m)
    /\ m \cap UNION {Ladder[i] : i \in DOMAIN Ladder} = {}

VARIABLES
  build,    (* the machine and the options of the program                   *)
  lines,    (* the lines of each unit, as far as they are read              *)
  defined,  (* the macros that are defined at this point of the unit        *)
  mode,     (* what METHAN_DEBUG_OR_RELEASE chooses                         *)
  checks,   (* whether METHAN_ASSERT is METHAN_FORCE_ASSERT                 *)
  api,      (* what METHAN_API is; "undefined" too before except.hpp        *)
  varient   (* of Varient: whether it has m_dataName, and get() checks      *)

vars == <<build, lines, defined, mode, checks, api, varient>>

(* All that reading a header may read; no chain of #includes is longer.     *)
Reads[h \in Header] ==
  LET Step(S) == S \cup UNION {Includes[g] : g \in S} IN
    Step(Step(Step({h})))

(* The headers read so far: #pragma once keeps each from being read again.  *)
Read(u) == UNION {Reads[lines[u][i]] : i \in {j \in DOMAIN lines[u] : lines[u][j] \in Header}}

Rejected(u) == "#error" \in defined[u]

Init ==
  /\ build \in [machine : Machine, options : Options]
  /\ lines = [u \in Unit |-> <<>>]
  /\ defined = [u \in Unit |->
       build.machine \cup IF u \in Library THEN {"METHAN_EXPORT"} ELSE {}]
  /\ mode = [u \in Unit |-> "none"]
  /\ checks = [u \in Unit |-> FALSE]
  /\ api = [u \in Unit |-> "undefined"]
  /\ varient = [u \in Unit |-> {}]

-----------------------------------------------------------------------------
NextLine(u, l) ==
  /\ Len(lines[u]) < MaxLine /\ ~Rejected(u)
  /\ lines' = [lines EXCEPT ![u] = Append(@, l)]
  /\ UNCHANGED build

(* #ifndef m, #define m, #endif *)
Define(u, m) ==
  /\ m \in Defined /\ u \notin Library
  /\ NextLine(u, m)
  /\ defined' = [defined EXCEPT ![u] = @ \cup {m}]
  /\ UNCHANGED <<mode, checks, api, varient>>

(* The macros after platform.hpp and configuration.hpp, where these are new  *)
Configured(u, new) ==
  LET d == defined[u] IN
    d \cup (IF "platform" \in new
            THEN Os(d) \cup Compiler(d) \cup Support(d) \cup (IF Os(d) = {} THEN {"#error"} ELSE {})
            ELSE {})
      \cup (IF "configuration" \in new THEN build.options ELSE {})

(* A slip: release builds have neither of the macros. *)
ModeOf_DebugOnly(u, d) == IF "METHAN_DEBUG" \in d THEN "debug" ELSE "none"

(* A slip: except.hpp looks at METHAN_DEBUG before it reads configuration.hpp. *)
ModeOf_Before(u, d) == IF "METHAN_DEBUG" \in defined[u] THEN "debug" ELSE "release"

ModeOf(u, d) == IF "METHAN_DEBUG" \in d THEN "debug" ELSE "release"

ChecksOf(d) == d \cap {"METHAN_DEBUG", "METHAN_FORCE_ASSERTION"} # {}

(* #include of h *)
Include(u, h) ==
  /\ h \in Header
  /\ u \in Library => h = "exception" /\ lines[u] = <<>>
  /\ NextLine(u, h)
  /\ LET new    == Reads[h] \ Read(u)
         d      == Configured(u, new)
         chosen == IF "except" \in new THEN ModeOf(u, d) ELSE mode[u]
         check  == IF "assertion" \in new THEN ChecksOf(d) ELSE checks[u]
     IN
     /\ defined' = [defined EXCEPT ![u] = d]
     /\ mode' = [mode EXCEPT ![u] = chosen]
     /\ checks' = [checks EXCEPT ![u] = check]
     /\ api' = [api EXCEPT ![u] = IF "except" \in new THEN Api(d) ELSE @]
     /\ varient' = [varient EXCEPT ![u] =
          IF "varient" \in new
          THEN {[named |-> chosen = "debug", checked |-> check]} ELSE @]

Next == \E u \in Unit, l \in Line : Define(u, l) \/ Include(u, l)

Spec == Init /\ [][Next]_vars
-----------------------------------------------------------------------------
(* Properties *)

TypeOK ==
  \A u \in Unit :
    /\ mode[u] \in {"none", "debug", "release"}
    /\ mode[u] = "none" <=> "except" \notin Read(u)
    /\ checks[u] \in BOOLEAN
    /\ api[u] \in {"undefined", "nothing", "dllexport", "dllimport", "visible"}
    /\ varient[u] \subseteq [named : BOOLEAN, checked : BOOLEAN]
    /\ varient[u] = {} <=> "varient" \notin Read(u)

(* The client's unit defines its macros before it reads except.hpp.  It may  *)
(* have read configuration.hpp.                                              *)
Orderly(u) ==
  \A i \in DOMAIN lines[u] :
    lines[u][i] \in Defined =>
      \E k \in 1 .. i :
        /\ lines[u][k] = lines[u][i]
        /\ \A j \in 1 .. k - 1 : lines[u][j] \in Header => "except" \notin Reads[lines[u][j]]

(* Units that define the same macros, before they read except.hpp, have the  *)
(* same Varient: their objects can be passed from one to the other.  Such a  *)
(* Varient is one of debug or of release altogether, but for the checks that *)
(* METHAN_FORCE_ASSERTION adds.  No Varient with a name goes unchecked.      *)
OneVarient ==
  /\ \A u, w \in Unit :
       Orderly(u) /\ Orderly(w) /\ defined[u] \cap Defined = defined[w] \cap Defined =>
         \A x \in varient[u], y \in varient[w] : x = y
  /\ \A u \in Unit : \A x \in varient[u] :
       /\ x.named => x.checked
       /\ Orderly(u) /\ x.checked => x.named \/ "METHAN_FORCE_ASSERTION" \in defined[u]

(* The compilers that the export policy is for *)
Compilers == {"METHAN_COMPILER_GCC", "METHAN_COMPILER_CLANG", "METHAN_COMPILER_MSC"}

(* A unit that has read except.hpp has METHAN_API, if its compiler is one of *)
(* these.  What the client's units import is what the library's export, and  *)
(* only in a shared build is there anything of the kind.                     *)
Linked ==
  /\ \A u \in Unit :
       "except" \in Read(u) /\ defined[u] \cap Compilers # {} => api[u] # "undefined"
  /\ \A u \in Library, w \in Unit \ Library :
       "except" \in Read(u) \cap Read(w) =>
         /\ api[w] = "dllimport" <=> api[u] = "dllexport"
         /\ api[w] # "dllexport" /\ api[u] # "dllimport"
         /\ "METHAN_BUILD_SHARED" \notin defined[w] => api[u] = "nothing"
         /\ api[u] = "nothing" => api[w] = "nothing"

(* Code for one instruction set may use those that it extends: wherever one  *)
(* is announced, so is each below it, by its macro or a misspelling of that. *)
Graded == \A u \in Unit : Ascending(Ladder, defined[u])
=============================================================================
