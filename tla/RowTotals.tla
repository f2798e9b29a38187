----------------------------- MODULE RowTotals -----------------------------
(***************************************************************************)
(* Totals of rows over a set of tool calls.                                *)
(*                                                                         *)
(* A row handed to a tool call is identified by the call and its position  *)
(* in the call's result, so the total over a set of calls is the           *)
(* cardinality of a set.  The definition needs no recursion, and every     *)
(* fact about it follows from facts about finite sets.                     *)
(***************************************************************************)
EXTENDS Integers, FiniteSets

\* The rows of the calls in S, where call c has r[c] of them.
RowsOf(S, r) == UNION {{c} \X (1 .. r[c]) : c \in S}

\* How many rows the calls in S have together.
Total(S, r) == Cardinality(RowsOf(S, r))

=============================================================================
