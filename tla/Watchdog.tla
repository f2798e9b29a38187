------------------------------ MODULE Watchdog ------------------------------
(***************************************************************************)
(* The timeout of the file-based engines (FileSqlDialect._watchdog in      *)
(* sql_base.py): a one-shot threading.Timer per tool call that calls       *)
(* interrupt() on the connection of the call, around everything the call   *)
(* executes there.  The tools that run a query execute two statements on   *)
(* that connection: the estimate (for SQLite an exact COUNT) and the query *)
(* itself.  _estimate_rows turns whatever the estimate raises into 0.      *)
(*                                                                         *)
(* A statement may run for ever unless it is interrupted.  interrupt()     *)
(* stops the statement that is active on its target, and does nothing when *)
(* none is: the timer of a call may fire before its first statement or     *)
(* between two of them, and then it is spent.  Time passes in ticks, at    *)
(* any moment at which a call is under way.                                *)
(***************************************************************************)
EXTENDS Integers

CONSTANTS
  Calls,     \* the tool calls, each with a connection of its own
  NoCall,    \* no connection
  Timeout    \* query_timeout_s in ticks; no watchdog is armed when it is 0

ASSUME WatchdogAssumption ==
  /\ Timeout \in Nat
  /\ NoCall \notin Calls

VARIABLES
  tool,      \* tool[c]: "query" estimates first, "plain" does not
  at,        \* at[c]: where call c is
  timer,     \* timer[c]: its timer thread
  stopped,   \* stopped[c]: whether its active statement was interrupted
  elapsed,   \* elapsed[c]: ticks since its timer was started
  reply      \* reply[c]: what the agent is told

vars == <<tool, at, timer, stopped, elapsed, reply>>

\* Bound on elapsed: what matters is whether the timeout is past.
MaxElapsed == Timeout + 1

Executing == {c \in Calls : at[c] \in {"estimating", "running"}}
UnderWay == {c \in Calls : at[c] \notin {"idle", "done"}}

TypeOK ==
  /\ tool \in [Calls -> {"plain", "query"}]
  /\ at \in [Calls -> {"idle", "ready", "estimating", "planned", "running",
                       "leaving", "done"}]
  /\ timer \in [Calls -> {"off", "armed", "firing", "fired", "cancelled"}]
  /\ stopped \in [Calls -> BOOLEAN]
  /\ elapsed \in [Calls -> 0 .. MaxElapsed]
  /\ reply \in [Calls -> {"none", "result", "error", "estimate_block"}]
  /\ \A c \in Calls : stopped[c] => c \in Executing

Init ==
  /\ tool \in [Calls -> {"plain", "query"}]
  /\ at = [c \in Calls |-> "idle"]
  /\ timer = [c \in Calls |-> "off"]
  /\ stopped = [c \in Calls |-> FALSE]
  /\ elapsed = [c \in Calls |-> 0]
  /\ reply = [c \in Calls |-> "none"]

Goto(c, from, to) ==
  /\ at[c] = from
  /\ at' = [at EXCEPT ![c] = to]

-----------------------------------------------------------------------------
(* The thread of the call *)

\* The connection is open: _watchdog starts the timer.
Arm(c) ==
  /\ Goto(c, "idle", "ready")
  /\ timer' = [timer EXCEPT ![c] = IF Timeout > 0 THEN "armed" ELSE "off"]
  /\ UNCHANGED <<tool, stopped, elapsed, reply>>

ExecuteEstimate(c) ==
  /\ tool[c] = "query"
  /\ Goto(c, "ready", "estimating")
  /\ UNCHANGED <<tool, timer, stopped, elapsed, reply>>

ExecuteQuery(c) ==
  /\ \/ tool[c] = "plain" /\ Goto(c, "ready", "running")
     \/ Goto(c, "planned", "running")
  /\ UNCHANGED <<tool, timer, stopped, elapsed, reply>>

\* The estimate was interrupted: _estimate_rows swallows the exception and
\* answers 0, which is below every threshold.
EstimateStopped(c) ==
  /\ stopped[c]
  /\ Goto(c, "estimating", "planned")
  /\ stopped' = [stopped EXCEPT ![c] = FALSE]
  /\ UNCHANGED <<tool, timer, elapsed, reply>>

\* The query was interrupted: execute or fetchall raises.
QueryStopped(c) ==
  /\ stopped[c]
  /\ Goto(c, "running", "leaving")
  /\ stopped' = [stopped EXCEPT ![c] = FALSE]
  /\ reply' = [reply EXCEPT ![c] = "error"]
  /\ UNCHANGED <<tool, timer, elapsed>>

\* finally: timer.cancel(), which has no effect on a timer that is firing,
\* then connection.close().
Cancel(c) ==
  /\ Goto(c, "leaving", "done")
  /\ timer' = [timer EXCEPT ![c] = IF @ = "armed" THEN "cancelled" ELSE @]
  /\ elapsed' = [elapsed EXCEPT ![c] = 0]
  /\ UNCHANGED <<tool, stopped, reply>>

-----------------------------------------------------------------------------
(* The database: a statement that is not interrupted may end at any time *)

EstimateEnds(c) ==
  /\ ~stopped[c]
  /\ \/ Goto(c, "estimating", "planned") /\ UNCHANGED reply
     \/ /\ Goto(c, "estimating", "leaving")
        /\ reply' = [reply EXCEPT ![c] = "estimate_block"]
  /\ UNCHANGED <<tool, timer, stopped, elapsed>>

QueryEnds(c) ==
  /\ ~stopped[c]
  /\ Goto(c, "running", "leaving")
  /\ \E r \in {"result", "error"} : reply' = [reply EXCEPT ![c] = r]
  /\ UNCHANGED <<tool, timer, stopped, elapsed>>

-----------------------------------------------------------------------------
(* The timer thread, and time *)

Due(c) == timer[c] = "armed" /\ elapsed[c] >= Timeout

\* The wait of the timer is over, and the timer is not cancelled.
Wake(c) ==
  /\ Due(c)
  /\ timer' = [timer EXCEPT ![c] = "firing"]
  /\ UNCHANGED <<tool, at, stopped, elapsed, reply>>

\* A definition Name_Fault is what a plausible bug would make of Name.  No
\* action uses it: each shows that some property notices the bug.
Target_Parent(c) == NoCall

\* _interrupt_target: the connection whose statement interrupt() stops.  For
\* DuckDB it is the cursor of the call, not the connection that it came from.
Target(c) == c

Fire_Sticky(c) ==
  /\ timer[c] = "firing"
  /\ timer' = [timer EXCEPT ![c] = "fired"]
  /\ stopped' = [d \in Calls |-> stopped[d] \/ d = Target(c)]
  /\ UNCHANGED <<tool, at, elapsed, reply>>

Fire_Everyone(c) ==
  /\ timer[c] = "firing"
  /\ timer' = [timer EXCEPT ![c] = "fired"]
  /\ stopped' = [d \in Calls |-> stopped[d] \/ d \in Executing]
  /\ UNCHANGED <<tool, at, elapsed, reply>>

\* interrupt() in the timer thread.  On a connection that is closed by now it
\* raises in that thread, and nobody notices.
Fire(c) ==
  /\ timer[c] = "firing"
  /\ timer' = [timer EXCEPT ![c] = "fired"]
  /\ stopped' = [d \in Calls |-> stopped[d] \/ (d = Target(c) /\ d \in Executing)]
  /\ UNCHANGED <<tool, at, elapsed, reply>>

\* Time does not wait for the threads: they may be late in anything they do.
Tick ==
  /\ UnderWay # {}
  /\ elapsed' = [c \in Calls |->
                   IF c \in UnderWay /\ elapsed[c] < MaxElapsed
                   THEN elapsed[c] + 1 ELSE elapsed[c]]
  /\ UNCHANGED <<tool, at, timer, stopped, reply>>

-----------------------------------------------------------------------------

CallStep(c) ==
  \/ ExecuteEstimate(c) \/ ExecuteQuery(c)
  \/ EstimateStopped(c) \/ QueryStopped(c)
  \/ Cancel(c)

TimerStep(c) == Wake(c) \/ Fire(c)

Next ==
  \/ \E c \in Calls : Arm(c) \/ CallStep(c) \/ EstimateEnds(c) \/ QueryEnds(c)
  \/ \E c \in Calls : TimerStep(c)
  \/ Tick

\* The threads are scheduled and time passes.  Nothing is assumed of the
\* database but that an interrupted statement returns.
Fairness ==
  /\ \A c \in Calls : WF_vars(CallStep(c)) /\ WF_vars(TimerStep(c))
  /\ WF_vars(Tick)

Spec == Init /\ [][Next]_vars

FairSpec == Spec /\ Fairness

-----------------------------------------------------------------------------
(* Properties *)

\* No statement is interrupted before the timeout of its own call is past: a
\* timer never hits the statement of another call that runs in parallel.
NoEarlyInterrupt ==
  \A c \in Calls : stopped[c] => elapsed[c] >= Timeout

\* A statement that starts while the timer is armed ends, even on a database
\* that never answers (FileSqlDialect._watchdog, "interrupts the query if it
\* runs past timeout_s").  The condition is needed: a timer that went off
\* between timer.start() and the statement has interrupted nothing.
WatchedStatementEnds ==
  \A c \in Calls :
    (c \in Executing /\ timer[c] = "armed") ~> (c \notin Executing)

\* A call whose statement was interrupted gets its reply, as the documentation
\* has it: "a long or hung query gets interrupted instead of freezing the whole
\* tool node" (FileSqlDialect).
InterruptedCallReplies ==
  \A c \in Calls : stopped[c] ~> at[c] = "done"

-----------------------------------------------------------------------------
(* The inductive invariant: an interrupt is on time because the timer that   *)
(* makes it woke up on time, and the clock of a call does not go back before *)
(* the call has executed its last statement.                                 *)

Woken == {c \in Calls : timer[c] \in {"firing", "fired"}}

WokenOnTime == \A c \in Woken \cap UnderWay : elapsed[c] >= Timeout

WatchInv == TypeOK /\ WokenOnTime /\ NoEarlyInterrupt

=============================================================================
