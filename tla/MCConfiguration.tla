-------------------------- MODULE MCConfiguration --------------------------
(* Machines and options for TLC                                            *)
EXTENDS Configuration, TLC

CONSTANTS lib, u, w

Rungs == <<"__SSE2__", "__SSE3__", "__SSSE3__", "__SSE4_1__", "__SSE4_2__",
           "__AVX__", "__AVX2__", "__AVX512F__">>

Upto(k) == {Rungs[i] : i \in 1 .. k}

(* gcc with -msse4.1 and with -mavx512f, and MinGW with -mavx2 *)
Gcc   == {"linux", "__linux", "unix", "__unix", "__GNUC__"}
Mingw == {"_WIN32", "__MINGW32__", "__GNUC__"}
Gccs  == {Gcc \cup Upto(4), Gcc \cup Upto(8) \cup {"__F16C__", "__FMA__"},
          Mingw \cup Upto(7) \cup {"__F16C__", "__FMA__"}}

(* MSVC for x86 and x64, without /arch: and with /arch:AVX and AVX512 *)
Mscs  == {{"_WIN32", "_MSC_VER"} \cup more : more \in
           {{}, {"_M_IX86_FP=2", "__AVX__"}, {"_M_AMD64", "_M_X64"},
            {"_M_AMD64", "_M_X64", "__AVX__", "__AVX2__", "__AVX512F__"}}}

(* Clang for macOS and, with the macros of MSVC, for Windows *)
Clangs == {{"__APPLE__", "__MACH__", "__clang__", "__llvm__", "__GNUC__"},
           {"_WIN32", "_MSC_VER", "__clang__", "__llvm__"}}

(* Clang for no known system, and gcc with the code generator of LLVM *)
Wasm    == {"__clang__", "__llvm__", "__GNUC__"}
LlvmGcc == {"__linux", "__llvm__", "__GNUC__"}

Machines == Gccs \cup Mscs \cup Clangs \cup {Wasm, LlvmGcc}

MCOptions == {{}, {"METHAN_FORCE_ASSERTION"}, {"METHAN_BUILD_SHARED"},
              {"METHAN_DEBUG", "METHAN_BUILD_SHARED"}}

Lines == {"METHAN_DEBUG", "METHAN_FORCE_ASSERTION", "exception", "varient"}

Interchangeable == Permutations({u, w})
============================================================================
