------------------------------ MODULE Platform ------------------------------
(***************************************************************************)
(* The #if cascades of methan/core/details/platform.hpp and the one for    *)
(* METHAN_API in methan/core/except.hpp.  The macros of a translation unit *)
(* are the set of the names that are defined.                              *)
(***************************************************************************)
EXTENDS Integers, Sequences

(* #if defined(a) || defined(b) ... *)
AnyOf(macros) == {{x} : x \in macros}

(* A cascade is a list of branches <<condition, what it defines>>; the      *)
(* condition is the sets of macros of which one has to be defined whole.    *)
Holds(branch, defined) == \E c \in branch[1] : c \subseteq defined

Cascade(branches, defined) ==
  UNION {branches[i][2] : i \in
    {i \in DOMAIN branches :
      Holds(branches[i], defined) /\ \A j \in 1 .. i - 1 : ~Holds(branches[j], defined)}}

Os(defined) == Cascade(<<
  <<AnyOf({"_WIN32", "_WIN64", "__WIN32__", "__TOS_WIN__", "__WINDOWS__"}),
    {"METHAN_OS_WINDOWS"}>>,
  <<AnyOf({"macintosh", "Macintosh"}) \cup {{"__APPLE__", "__MACH__"}},
    {"METHAN_OS_MACOS", "METHAN_OS_UNIX_LIKE"}>>,
  <<AnyOf({"linux", "__linux"}),
    {"METHAN_OS_LINUX", "METHAN_OS_UNIX_LIKE"}>>,
  <<AnyOf({"unix", "__unix", "_XOPEN_SOURCE", "_POSIX_SOURCE"}),
    {"METHAN_OS_UNIX", "METHAN_OS_UNIX_LIKE"}>> >>, defined)

Compiler(defined) == Cascade(<<
  <<AnyOf({"__clang__"}),    {"METHAN_COMPILER_CLANG"}>>,
  <<AnyOf({"_MSC_VER"}),     {"METHAN_COMPILER_MSC"}>>,
  <<AnyOf({"__llvm__"}),     {"METHAN_COMPILER_LLVM"}>>,
  <<AnyOf({"__MINGW32__"}),  {"METHAN_COMPILER_MINGW", "METHAN_COMPILER_GCC"}>>,
  <<AnyOf({"__GNUC__"}),     {"METHAN_COMPILER_GCC"}>> >>, defined)

(* What each compiler predefines, and the METHAN_SUPPORT_ macro it gives    *)
SupportOfGcc == {
  <<"__SSE2__", "SSE2">>, <<"__SSE3__", "SSE3">>, <<"__SSSE3__", "SSSE3">>,
  <<"__SSE4_1__", "SSSE41">>, <<"__SSE4_2__", "SSSE42">>,
  <<"__AVX__", "AVX">>, <<"__AVX2__", "AVX2">>, <<"__AVX512F__", "AVX512F">>,
  <<"__F16C__", "AVX_F16C">>, <<"__FMA__", "AVX_FMA">>}

(* A slip: /arch:AVX is taken for the name of one instruction set. *)
SupportOfMsc_AvxAlone == {
  <<"_M_IX86_FP=2", "SSE2">>, <<"_M_AMD64", "SSE2">>, <<"_M_X64", "SSE2">>,
  <<"__AVX__", "AVX">>, <<"__AVX2__", "AVX2">>, <<"__AVX512F__", "AVX512F">>}

SupportOfMsc == {
  <<"_M_IX86_FP=2", "SSE2">>, <<"_M_AMD64", "SSE2">>, <<"_M_X64", "SSE2">>,
  <<"__AVX__", "SSE3">>, <<"__AVX__", "SSSE3">>, <<"__AVX__", "SSE41">>,
  <<"__AVX__", "SSE42">>, <<"__AVX__", "AVX">>,
  <<"__AVX2__", "AVX2">>, <<"__AVX512F__", "AVX512F">>,
  <<"__AVX2__", "AVX_F16C">>, <<"__AVX2__", "AVX_FMA">>}

Support(defined) ==
  LET table ==
        CASE "METHAN_COMPILER_GCC" \in Compiler(defined) -> SupportOfGcc
          [] "METHAN_COMPILER_MSC" \in Compiler(defined) -> SupportOfMsc
          [] OTHER -> {}
  IN {entry[2] : entry \in {e \in table : e[1] \in defined}}

(* A slip: the unit that exports and the one that imports are swapped. *)
Api_Swapped(defined) ==
  CASE "METHAN_BUILD_SHARED" \notin defined -> "nothing"
    [] "METHAN_BUILD_SHARED" \in defined /\ "METHAN_COMPILER_MSC" \in defined ->
         IF "METHAN_EXPORT" \in defined THEN "dllimport" ELSE "dllexport"
    [] OTHER -> "visible"

(* What METHAN_API stands for in a unit with these macros, if anything *)
Api(defined) ==
  CASE "METHAN_BUILD_SHARED" \notin defined -> "nothing"
    [] "METHAN_BUILD_SHARED" \in defined /\ "METHAN_COMPILER_MSC" \in defined ->
         IF "METHAN_EXPORT" \in defined THEN "dllexport" ELSE "dllimport"
    [] "METHAN_BUILD_SHARED" \in defined
         /\ defined \cap {"METHAN_COMPILER_GCC", "METHAN_COMPILER_CLANG"} # {} ->
         IF "METHAN_EXPORT" \in defined THEN "visible" ELSE "nothing"
    [] OTHER -> "undefined"
=============================================================================
