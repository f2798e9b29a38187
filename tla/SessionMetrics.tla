--------------------------- MODULE SessionMetrics ---------------------------
(***************************************************************************)
(* SessionMetrics (observability.py): the counters that the tool calls of  *)
(* one or several agents update from the worker threads of the pool.       *)
(*                                                                         *)
(* An increment is a read followed by a write, so two threads can lose an  *)
(* update; `with self._lock` is what rules that out.  A record_* method is *)
(* therefore two steps here: Enter takes the lock and reads the counters,  *)
(* and the Record* action writes them back and releases the lock.          *)
(***************************************************************************)
EXTENDS Integers

CONSTANTS
  Calls,   \* the tool calls, each executed by a worker thread
  NoCall   \* the owner of a free lock

ASSUME NoCallAssumption == NoCall \notin Calls

VARIABLES
  counters,   \* the four public counters
  mlock,      \* the call that holds SessionMetrics._lock, or NoCall
  seen        \* seen[c]: the counters as call c read them under the lock

metricsVars == <<counters, mlock, seen>>

Counters == [queries_run : Nat, rows_returned : Nat,
             budget_exhausted : Nat, estimate_blocked : Nat]

Zero == [queries_run |-> 0, rows_returned |-> 0,
         budget_exhausted |-> 0, estimate_blocked |-> 0]

MetricsTypeOK ==
  /\ counters \in Counters
  /\ mlock \in Calls \cup {NoCall}
  /\ seen \in [Calls -> Counters]

MetricsInit ==
  /\ counters = Zero
  /\ mlock = NoCall
  /\ seen = [c \in Calls |-> Zero]

\* Enter when the lock is forgotten.
Enter_Unlocked(c) ==
  /\ mlock' = c
  /\ seen' = [seen EXCEPT ![c] = counters]
  /\ UNCHANGED counters

\* `with self._lock:` and the reads of the increments that follow.
Enter(c) ==
  /\ mlock = NoCall
  /\ mlock' = c
  /\ seen' = [seen EXCEPT ![c] = counters]
  /\ UNCHANGED counters

\* Leave when the lock is not released.
Leave_Locked(c) ==
  /\ mlock' = mlock
  /\ seen' = [seen EXCEPT ![c] = Zero]

\* The writes are done: release the lock.
Leave(c) ==
  /\ mlock' = NoCall
  /\ seen' = [seen EXCEPT ![c] = Zero]

RecordQuery(c, n) ==
  /\ counters' = [counters EXCEPT !.queries_run = seen[c].queries_run + 1,
                                  !.rows_returned = seen[c].rows_returned + n]
  /\ Leave(c)

RecordBudgetExhausted(c) ==
  /\ counters' = [counters EXCEPT
                    !.budget_exhausted = seen[c].budget_exhausted + 1]
  /\ Leave(c)

RecordEstimateBlocked(c) ==
  /\ counters' = [counters EXCEPT
                    !.estimate_blocked = seen[c].estimate_blocked + 1]
  /\ Leave(c)

=============================================================================
