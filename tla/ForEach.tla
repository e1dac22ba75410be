------------------------------ MODULE ForEach ------------------------------
(***************************************************************************)
(* METHAN_PP_NARGS (core/except.hpp, core/details/macro.hpp) and the       *)
(* METHAN_FOR_EACH_P<k> macros (utility/foreach.hpp), as the rewriting     *)
(* that the preprocessor does for one call                                 *)
(*   METHAN_FOR_EACH_P<k>(WHAT, p0, ..., p<k-1>, args...).                 *)
(*                                                                         *)
(* The number of args selects a row METHAN_FOR_EACH_P<k>_<row>; each row   *)
(* calls WHAT on one argument and the row below on the others, in the      *)
(* argument of METHAN_EXPAND.  A call may end with WHAT called on every    *)
(* argument, with a macro given the wrong number of arguments, or with the *)
(* name of a row that does not exist left in the text.                     *)
(*                                                                         *)
(* A macro argument is a number.  Only whether it can be pasted to the     *)
(* name of a row matters: any number above MaxRow stands for a text that   *)
(* cannot.                                                                 *)
(***************************************************************************)
EXTENDS Integers, Sequences

CONSTANTS
  Calls,   (* the calls considered                                           *)
  Blank    (* the argument made of no tokens                                 *)

MaxRow   == 62    (* the rows of each table are 0 .. MaxRow                  *)
MaxTable == 7     (* METHAN_FOR_EACH_P0 .. METHAN_FOR_EACH_P7                *)

Token == Nat \cup {Blank}

(* table   the k of METHAN_FOR_EACH_P<k>                                     *)
(* params  what p0 .. p<k-1> expand to: a parameter that is itself a macro   *)
(*         may become several                                                *)
(* args    what the arguments after them expand to                           *)
(* comma   WHAT(...) expands to a text with a comma outside parentheses      *)
Call ==
  {c \in [table : 0 .. MaxTable, params : Seq(Nat), args : Seq(Nat), comma : BOOLEAN] :
     Len(c.params) >= c.table}

ASSUME CallsAssumption == Calls \subseteq Call /\ Blank \notin Nat

VARIABLES
  call,    (* the call being expanded                                        *)
  pc,      (* where its expansion is                                         *)
  row,     (* the row to expand next                                         *)
  list,    (* the arguments of that row, after WHAT                          *)
  open,    (* the METHAN_EXPAND whose argument is being expanded             *)
  out      (* the calls of WHAT in the text so far                           *)

vars == <<call, pc, row, list, open, out>>

Ended == {"done", "ill-formed", "unexpanded"}

-----------------------------------------------------------------------------
(* METHAN_PP_NARGS *)

(* A slip: 62 is left out as well as 63. *)
RSeqN_No62 == [i \in 1 .. 64 |-> IF i = 1 THEN 64 ELSE IF i = 64 THEN 0 ELSE 63 - i]

(* __METHAN_PP_RSEQ_N_DETAILS(): 64, 62, 61, ..., 1, 0 *)
RSeqN == [i \in 1 .. 64 |-> IF i = 1 THEN 64 ELSE 64 - i]

(* A variadic macro called with nothing gets one argument, which is blank. *)
VaArgs(s) == IF s = <<>> THEN <<Blank>> ELSE s

(* __METHAN_PP_ARGN_DETAILS gives its 64th argument. *)
PpNargs(s) == (VaArgs(s) \o RSeqN)[64]

-----------------------------------------------------------------------------
Invocation(params, x) == [params |-> params, x |-> x]

(* A slip: the rows named _1 are declared with x, ... as the others are. *)
Takes_Variadic(k, r, n) == IF r = 0 THEN n = k ELSE n >= k + 1

(* The declaration of METHAN_FOR_EACH_P<k>_<r> allows n arguments after WHAT *)
Takes(k, r, n) ==
  CASE r = 0 -> n = k
    [] r = 1 -> n = k + 1
    [] OTHER -> n >= k + 1

TypeOK ==
  /\ call \in Call
  /\ pc \in {"call", "expand", "close"} \cup Ended
  /\ row \in Nat
  /\ list \in Seq(Token)
  /\ open \in 0 .. MaxRow
  /\ out \in Seq([params : Seq(Token), x : Token])

Init ==
  /\ call \in Calls
  /\ pc = "call"
  /\ row = 0
  /\ list = <<>>
  /\ open = 0
  /\ out = <<>>

(* METHAN_FOR_EACH_P<k> pastes the count to the name of the table, and       *)
(* METHAN_FOR_EACH_P<k>_ passes that row everything after WHAT.              *)
Dispatch ==
  /\ pc = "call"
  /\ pc' = "expand"
  /\ row' = PpNargs(call.args)
  /\ list' = call.params \o VaArgs(call.args)
  /\ open' = 1
  /\ UNCHANGED <<call, out>>

(* A slip: there is taken to be a row for every number. *)
Invoke_NoTable ==
  LET k == call.table
      params == SubSeq(list, 1, k) IN
    /\ pc = "expand"
    /\ Takes(k, row, Len(list))
    /\ out' = IF row = 0 THEN out ELSE Append(out, Invocation(params, list[k + 1]))
    /\ IF row <= 1
       THEN pc' = "close" /\ UNCHANGED <<row, list, open>>
       ELSE /\ row' = row - 1
            /\ list' = params \o VaArgs(SubSeq(list, k + 2, Len(list)))
            /\ open' = open + 1
            /\ UNCHANGED pc
    /\ UNCHANGED call

(* A slip: the rows above 1 do not pass the parameters on. *)
Invoke_ParamsLost ==
  LET k == call.table
      params == SubSeq(list, 1, k) IN
    /\ pc = "expand"
    /\ row \in 0 .. MaxRow
    /\ Takes(k, row, Len(list))
    /\ out' = IF row = 0 THEN out ELSE Append(out, Invocation(params, list[k + 1]))
    /\ IF row <= 1
       THEN pc' = "close" /\ UNCHANGED <<row, list, open>>
       ELSE /\ row' = row - 1
            /\ list' = VaArgs(SubSeq(list, k + 2, Len(list)))
            /\ open' = open + 1
            /\ UNCHANGED pc
    /\ UNCHANGED call

(* METHAN_FOR_EACH_P<k>_<row>(WHAT, p0, ..., x, ...) becomes                 *)
(*   WHAT(p0, ..., x) METHAN_EXPAND(METHAN_FOR_EACH_P<k>_<row-1>(...)).      *)
(* Row 1 stops after WHAT, and row 0 is empty.                               *)
Invoke ==
  LET k == call.table
      params == SubSeq(list, 1, k) IN
    /\ pc = "expand"
    /\ row \in 0 .. MaxRow
    /\ Takes(k, row, Len(list))
    /\ out' = IF row = 0 THEN out ELSE Append(out, Invocation(params, list[k + 1]))
    /\ IF row <= 1
       THEN pc' = "close" /\ UNCHANGED <<row, list, open>>
       ELSE /\ row' = row - 1
            /\ list' = params \o VaArgs(SubSeq(list, k + 2, Len(list)))
            /\ open' = open + 1
            /\ UNCHANGED pc
    /\ UNCHANGED call

(* The row is given a number of arguments that it does not take. *)
WrongArity ==
  /\ pc = "expand"
  /\ row \in 0 .. MaxRow
  /\ ~Takes(call.table, row, Len(list))
  /\ pc' = "ill-formed"
  /\ UNCHANGED <<call, row, list, open, out>>

(* METHAN_FOR_EACH_P<k>_<row> is not the name of a macro. *)
NoSuchRow ==
  /\ pc = "expand"
  /\ row \notin 0 .. MaxRow
  /\ pc' = "unexpanded"
  /\ UNCHANGED <<call, row, list, open, out>>

(* The innermost METHAN_EXPAND gives __METHAN_EXPAND_DETAILS, which has one  *)
(* parameter, the text that its own argument expanded to.                    *)
CloseExpand ==
  /\ pc = "close"
  /\ ~(call.comma /\ out # <<>>)
  /\ open' = open - 1
  /\ pc' = IF open = 1 THEN "done" ELSE "close"
  /\ UNCHANGED <<call, row, list, out>>

TextSplits ==
  /\ pc = "close"
  /\ call.comma /\ out # <<>>
  /\ pc' = "ill-formed"
  /\ UNCHANGED <<call, row, list, open, out>>

Next ==
  \/ Dispatch
  \/ Invoke
  \/ WrongArity
  \/ NoSuchRow
  \/ CloseExpand
  \/ TextSplits

Spec == Init /\ [][Next]_vars

-----------------------------------------------------------------------------
(* Properties *)

(* A call that expands without a complaint calls WHAT once on each argument, *)
(* in order, with the parameters that were given.                            *)
EachOnce ==
  pc = "done" =>
    out = [i \in 1 .. Len(call.args) |-> Invocation(call.params, call.args[i])]

(* A call within the size of the tables: each parameter is one argument, and *)
(* WHAT can be used inside METHAN_EXPAND.                                    *)
Ordinary(c) ==
  /\ Len(c.params) = c.table
  /\ Len(c.args) \in 1 .. MaxRow
  /\ ~c.comma

(* No call within the size of the tables is refused or left unexpanded.      *)
Accepted == Ordinary(call) => pc \notin {"ill-formed", "unexpanded"}

(* METHAN_PP_NARGS counts the arguments, up to the 63 that                   *)
(* __METHAN_PP_ARGN_DETAILS names (macro.hpp), and each row has below it one *)
(* row for each argument left.                                               *)
Counted ==
  pc = "expand" /\ Len(call.args) \in 1 .. 63 => row + Len(out) = Len(call.args)
=============================================================================
