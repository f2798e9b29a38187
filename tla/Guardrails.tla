----------------------------- MODULE Guardrails -----------------------------
(***************************************************************************)
(* The guardrails of guardrails.py, as the tool calls of several agents    *)
(* use them concurrently: GuardrailConfig.check_estimate, and              *)
(* SessionBudget.charge with the SessionMetrics it updates.                *)
(*                                                                         *)
(* Every agent has a SessionBudget of its own (build_tools creates one),   *)
(* and the agents that were given metrics share one SessionMetrics.  The   *)
(* parallel tool calls of an agent run in worker threads over that state.  *)
(* A call makes at most one check_estimate, then at most one charge.       *)
(*                                                                         *)
(* SessionBudget has no lock.  On a build with a global interpreter lock   *)
(* threads are switched at calls and loops only, so `self.consumed += rows`*)
(* is one step; on a free-threaded build its read and its write are two.   *)
(* The comparison that follows reads self.consumed once more: it is a step *)
(* of its own on every build.                                              *)
(***************************************************************************)
EXTENDS SessionMetrics, RowTotals

CONSTANTS
  Agents,     \* the agents
  AgentOf,    \* AgentOf[c]: the agent that call c is made by
  MaxRows,    \* bound: the most rows one call charges
  Budgets,    \* the values of GuardrailConfig.row_budget to consider
  NoBudget,   \* row_budget = None
  Threshold,  \* GuardrailConfig.explain_row_threshold
  Estimates,  \* the row estimates to consider
  Builds      \* the interpreter builds to consider

ASSUME GuardrailsAssumption ==
  /\ IsFiniteSet(Calls)
  /\ AgentOf \in [Calls -> Agents]
  /\ MaxRows \in Nat
  /\ NoBudget \notin Nat
  /\ Budgets \subseteq Nat \cup {NoBudget}
  /\ Threshold \in Nat
  /\ Estimates \subseteq Nat
  /\ Builds \subseteq {"gil", "free"}

VARIABLES
  build,        \* the interpreter build the process runs on
  budget,       \* budget[a]: SessionBudget.budget of agent a
  hasMetrics,   \* hasMetrics[a]: whether agent a was given the metrics
  pc,           \* pc[c]: where call c is
  rows,         \* rows[c]: the argument of charge
  consumed,     \* consumed[a]: SessionBudget.consumed of agent a
  loaded        \* loaded[c]: self.consumed as call c read it

setupVars == <<build, budget, hasMetrics>>
vars == <<build, budget, hasMetrics, pc, rows, consumed, loaded,
          counters, mlock, seen>>

Locations ==
  {"idle", "cleared", "blockLock", "blockStore", "blocked",
   "queryLock", "queryStore", "recorded", "addStore", "check",
   "exhaustLock", "exhaustStore", "returned", "withheld"}

TypeOK ==
  /\ build \in Builds
  /\ budget \in [Agents -> Budgets]
  /\ hasMetrics \in [Agents -> BOOLEAN]
  /\ pc \in [Calls -> Locations]
  /\ rows \in [Calls -> 0 .. MaxRows]
  /\ consumed \in [Agents -> Nat]
  /\ loaded \in [Calls -> Nat]
  /\ MetricsTypeOK

Init ==
  /\ build \in Builds
  /\ budget \in [Agents -> Budgets]
  /\ hasMetrics \in [Agents -> BOOLEAN]
  /\ pc = [c \in Calls |-> "idle"]
  /\ rows = [c \in Calls |-> 0]
  /\ consumed = [a \in Agents |-> 0]
  /\ loaded = [c \in Calls |-> 0]
  /\ MetricsInit

Metered(c) == hasMetrics[AgentOf[c]]
Limited(c) == budget[AgentOf[c]] # NoBudget

\* A definition Name_Fault is what a plausible bug would make of Name.  No
\* action uses it: each shows that some property notices the bug.

\* Call c moves from one place to another.
Goto(c, from, to) ==
  /\ pc[c] = from
  /\ pc' = [pc EXCEPT ![c] = to]

-----------------------------------------------------------------------------
(* GuardrailConfig.check_estimate *)

CheckEstimate(c, e) ==
  /\ Goto(c, "idle", IF e <= Threshold THEN "cleared"
                     ELSE IF Metered(c) THEN "blockLock" ELSE "blocked")
  /\ UNCHANGED <<setupVars, rows, consumed, loaded, metricsVars>>

BlockEnter(c) ==
  /\ Goto(c, "blockLock", "blockStore")
  /\ Enter(c)
  /\ UNCHANGED <<setupVars, rows, consumed, loaded>>

BlockRecord(c) ==
  /\ Goto(c, "blockStore", "blocked")
  /\ RecordEstimateBlocked(c)
  /\ UNCHANGED <<setupVars, rows, consumed, loaded>>

-----------------------------------------------------------------------------
(* SessionBudget.charge *)

\* charge(n) is called.  sample_rows charges without an estimate.
Charge(c, n) ==
  /\ \E from \in {"idle", "cleared"} :
       Goto(c, from, IF Metered(c) THEN "queryLock" ELSE "recorded")
  /\ rows' = [rows EXCEPT ![c] = n]
  /\ UNCHANGED <<setupVars, consumed, loaded, metricsVars>>

QueryEnter(c) ==
  /\ Goto(c, "queryLock", "queryStore")
  /\ Enter(c)
  /\ UNCHANGED <<setupVars, rows, consumed, loaded>>

QueryRecord(c) ==
  /\ Goto(c, "queryStore", "recorded")
  /\ RecordQuery(c, rows[c])
  /\ UNCHANGED <<setupVars, rows, consumed, loaded>>

\* if self.budget is None: return
ReturnUnlimited(c) ==
  /\ ~Limited(c)
  /\ Goto(c, "recorded", "returned")
  /\ UNCHANGED <<setupVars, rows, consumed, loaded, metricsVars>>

Add_Queries(c) ==
  /\ build = "gil"
  /\ Limited(c)
  /\ Goto(c, "recorded", "check")
  /\ consumed' = [consumed EXCEPT ![AgentOf[c]] = @ + 1]
  /\ UNCHANGED <<setupVars, rows, loaded, metricsVars>>

Add_Remaining(c) ==
  /\ build = "gil"
  /\ Limited(c)
  /\ Goto(c, "recorded", "check")
  /\ consumed' = [consumed EXCEPT ![AgentOf[c]] = @ - rows[c]]
  /\ UNCHANGED <<setupVars, rows, loaded, metricsVars>>

\* self.consumed += rows, in one step.
Add(c) ==
  /\ build = "gil"
  /\ Limited(c)
  /\ Goto(c, "recorded", "check")
  /\ consumed' = [consumed EXCEPT ![AgentOf[c]] = @ + rows[c]]
  /\ UNCHANGED <<setupVars, rows, loaded, metricsVars>>

\* self.consumed += rows, as a read and a write.
AddRead(c) ==
  /\ build = "free"
  /\ Limited(c)
  /\ Goto(c, "recorded", "addStore")
  /\ loaded' = [loaded EXCEPT ![c] = consumed[AgentOf[c]]]
  /\ UNCHANGED <<setupVars, rows, consumed, metricsVars>>

AddStore(c) ==
  /\ Goto(c, "addStore", "check")
  /\ consumed' = [consumed EXCEPT ![AgentOf[c]] = loaded[c] + rows[c]]
  /\ loaded' = [loaded EXCEPT ![c] = 0]
  /\ UNCHANGED <<setupVars, rows, metricsVars>>

Exceeds_AtLimit(used, limit) == used >= limit

Exceeds_OneLate(used, limit) == used > limit + 1

\* The comparison of charge: a budget may be used up, not exceeded.
Exceeds(used, limit) == used > limit

Check_Refunds(c) ==
  /\ pc[c] = "check"
  /\ LET over == Exceeds(consumed[AgentOf[c]], budget[AgentOf[c]])
     IN  /\ Goto(c, "check", IF over THEN "withheld" ELSE "returned")
         /\ consumed' = [consumed EXCEPT ![AgentOf[c]] =
                           IF over THEN @ - rows[c] ELSE @]
  /\ UNCHANGED <<setupVars, rows, loaded, metricsVars>>

\* if self.consumed > self.budget
Check(c) ==
  /\ Goto(c, "check", IF ~Exceeds(consumed[AgentOf[c]], budget[AgentOf[c]])
                      THEN "returned"
                      ELSE IF Metered(c) THEN "exhaustLock" ELSE "withheld")
  /\ UNCHANGED <<setupVars, rows, consumed, loaded, metricsVars>>

ExhaustEnter(c) ==
  /\ Goto(c, "exhaustLock", "exhaustStore")
  /\ Enter(c)
  /\ UNCHANGED <<setupVars, rows, consumed, loaded>>

ExhaustRecord(c) ==
  /\ Goto(c, "exhaustStore", "withheld")
  /\ RecordBudgetExhausted(c)
  /\ UNCHANGED <<setupVars, rows, consumed, loaded>>

-----------------------------------------------------------------------------

\* The steps of a call that is inside check_estimate or charge.
Step(c) ==
  \/ BlockEnter(c) \/ BlockRecord(c)
  \/ QueryEnter(c) \/ QueryRecord(c) \/ ReturnUnlimited(c)
  \/ Add(c) \/ AddRead(c) \/ AddStore(c) \/ Check(c)
  \/ ExhaustEnter(c) \/ ExhaustRecord(c)

Next == \E c \in Calls :
  \/ \E e \in Estimates : CheckEstimate(c, e)
  \/ \E n \in 0 .. MaxRows : Charge(c, n)
  \/ Step(c)

\* The operating system schedules every thread.  Every call takes the lock a
\* bounded number of times, so weak fairness is enough to get it in the end.
Fairness == \A c \in Calls : WF_vars(Step(c))

Spec == Init /\ [][Next]_vars

FairSpec == Spec /\ Fairness

-----------------------------------------------------------------------------
(* Where the calls are *)

At(S) == {c \in Calls : pc[c] \in S}
Of(a) == {c \in Calls : AgentOf[c] = a}

\* The calls whose rows the agent got, and those that were told off.
Returned == At({"returned"})
Withheld == At({"exhaustLock", "exhaustStore", "withheld"})

\* The calls whose rows were added to self.consumed.
Added == {c \in At({"check", "returned"}) \cup Withheld : Limited(c)}

\* The calls that record_query has counted.
Recorded == {c \in At({"recorded", "addStore", "check", "returned"}) \cup Withheld :
               Metered(c)}

Exhausted(a) == budget[a] # NoBudget /\ consumed[a] > budget[a]

(* Properties *)

\* The rows an agent has got never exceed its budget, however its calls
\* interleave inside charge (SessionBudget.charge, "the cumulative consumed
\* rows"), on a build where the addition is one step.
BudgetRespected == build = "gil" =>
  \A a \in Agents : budget[a] # NoBudget =>
    Total(Returned \cap Of(a), rows) <= budget[a]

\* A result is withheld only when the rows charged by the calls of the same
\* agent, this one included, really are more than its budget.  It holds on
\* every build: a lost update makes charge too generous, never too strict.
WithheldOnlyOverBudget == \A c \in Withheld :
  Total(Added \cap Of(AgentOf[c]), rows) > budget[AgentOf[c]]

\* The counters agree with what happened, at every step and on every build,
\* though they are shared by agents and updated without any other ordering
\* (SessionMetrics, "Thread-safe: tool calls may run in parallel").
MetricsExact ==
  /\ counters.queries_run = Cardinality(Recorded)
  /\ counters.rows_returned = Total(Recorded, rows)
  /\ counters.budget_exhausted =
       Cardinality({c \in At({"withheld"}) : Metered(c)})
  /\ counters.estimate_blocked =
       Cardinality({c \in At({"blocked"}) : Metered(c)})

\* Once an agent has run over its budget it gets no more rows, not even from
\* a call that was already past its addition: charge leaves the excess in
\* consumed, so the session stays exhausted (format_budget_block, "Stop
\* extracting rows").
ExhaustionIsFinal == [][
  \A a \in Agents : (build = "gil" /\ Exhausted(a)) =>
    /\ Exhausted(a)'
    /\ (Returned \cap Of(a))' = Returned \cap Of(a)]_vars

\* Every call that enters check_estimate or charge comes out of it: the lock
\* is always released, and no call waits for another one's verdict.
EveryCallDecided == \A c \in Calls :
  pc[c] \notin {"idle", "cleared"} ~> pc[c] \in {"blocked", "returned", "withheld"}

-----------------------------------------------------------------------------
(* The inductive invariant of the budget *)

\* The rows that the calls of agent a have entered so far.
Entered(a) == Total(Added \cap Of(a), rows)

\* Only a limited call gets past `if self.budget is None: return`, and the
\* addition is split on a free-threaded build only.
PastTheGate == \A c \in Calls :
  /\ c \in At({"addStore", "check"}) \cup Withheld => Limited(c)
  /\ pc[c] = "addStore" => build = "free"

\* consumed never runs ahead of the rows entered, nor does a value read from
\* it before an addition; when the addition is one step it is exact.
ConsumedIsEntered ==
  /\ \A a \in Agents : consumed[a] <= Entered(a)
  /\ \A c \in Calls : loaded[c] <= Entered(AgentOf[c])
  /\ build = "gil" => \A a \in Agents : consumed[a] = Entered(a)

BudgetInv ==
  /\ TypeOK
  /\ PastTheGate
  /\ ConsumedIsEntered
  /\ WithheldOnlyOverBudget
  /\ BudgetRespected

-----------------------------------------------------------------------------
(* The inductive invariant of the metrics *)

\* The calls that hold SessionMetrics._lock, and those that go on to take it.
Recording == At({"blockStore", "queryStore", "exhaustStore"})
Waiting == At({"blockLock", "queryLock", "exhaustLock"})

\* While a call holds the lock, the counters are still as it has read them.
LockInv ==
  /\ \A c \in Calls : mlock = c <=> c \in Recording
  /\ \A c \in Recording : seen[c] = counters
  /\ \A c \in Recording \cup Waiting : Metered(c)

MetricsInv == TypeOK /\ LockInv /\ MetricsExact

-----------------------------------------------------------------------------
(* The row budget is a ledger: self.consumed stands for the rows entered.  *)

Verdict(c) ==
  IF c \in Returned THEN "returned"
  ELSE IF c \in Withheld THEN "withheld" ELSE "open"

RB == INSTANCE RowBudget WITH
        serial <- build = "gil",
        entered <- Added,
        verdict <- [c \in Calls |-> Verdict(c)]

\* Guardrails implements RowBudget.
Ledger == RB!Spec

=============================================================================
