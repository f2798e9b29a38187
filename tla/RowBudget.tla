----------------------------- MODULE RowBudget -----------------------------
(***************************************************************************)
(* What the row budget of guardrails.py promises, whatever the mechanism:  *)
(* a ledger per agent.  A call enters its rows in the ledger of its agent, *)
(* and is then told whether it may return them.  The verdict is a function *)
(* of the ledger: the rows are returned while the ledger stays within the  *)
(* budget and withheld from then on.                                       *)
(*                                                                         *)
(* The first half of the promise is made when entries are serialised.      *)
(* Without that (serial = FALSE) rows may be returned beyond the budget,   *)
(* and what is left is that nothing is withheld within it.                 *)
(***************************************************************************)
EXTENDS RowTotals

CONSTANTS Calls, AgentOf, MaxRows, NoBudget

VARIABLES
  budget,    \* budget[a]: the row budget of agent a, or NoBudget
  serial,    \* whether entries are serialised
  entered,   \* the calls whose rows are in a ledger
  rows,      \* rows[c]: the rows call c asks to return
  verdict    \* verdict[c]: "open", "returned" or "withheld"

vars == <<budget, serial, entered, rows, verdict>>

Ledger(a) == Total({c \in entered : AgentOf[c] = a}, rows)

Limited(c) == budget[AgentOf[c]] # NoBudget

Overdrawn(a) == Ledger(a) > budget[a]

Init ==
  /\ entered = {}
  /\ rows = [c \in Calls |-> 0]
  /\ verdict = [c \in Calls |-> "open"]

\* A call that got its rows from the database, and has not entered them yet.
Ask(c, n) ==
  /\ c \notin entered
  /\ rows' = [rows EXCEPT ![c] = n]
  /\ UNCHANGED <<budget, serial, entered, verdict>>

Charge(c) ==
  /\ Limited(c)
  /\ c \notin entered
  /\ entered' = entered \cup {c}
  /\ UNCHANGED <<budget, serial, rows, verdict>>

Return(c) ==
  /\ Limited(c) => c \in entered /\ (serial => ~Overdrawn(AgentOf[c]))
  /\ verdict[c] = "open"
  /\ verdict' = [verdict EXCEPT ![c] = "returned"]
  /\ UNCHANGED <<budget, serial, entered, rows>>

Withhold(c) ==
  /\ Limited(c)
  /\ c \in entered
  /\ Overdrawn(AgentOf[c])
  /\ verdict[c] = "open"
  /\ verdict' = [verdict EXCEPT ![c] = "withheld"]
  /\ UNCHANGED <<budget, serial, entered, rows>>

Next == \E c \in Calls :
  \/ \E n \in 0 .. MaxRows : Ask(c, n)
  \/ Charge(c)
  \/ Return(c)
  \/ Withhold(c)

Spec == Init /\ [][Next]_vars

=============================================================================
