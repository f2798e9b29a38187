------------------------------ MODULE SqlTools ------------------------------
(***************************************************************************)
(* The tools that SqlDialect.build_tools gives an agent (sql_base.py), as  *)
(* the worker threads of the pool run them in parallel: validation, the    *)
(* connection that _cursor opens per call, the estimate, the statement,    *)
(* the rows, the exit of _cursor, the charge, and the reply that the       *)
(* except ladder of the tool makes of whatever was raised on the way.      *)
(*                                                                         *)
(* The driver and the database are external: each of their steps succeeds  *)
(* or raises, by choice, or never ends: what Watchdog shows of the timeouts*)
(* is that they do not bound a call.                                       *)
(* Guardrails is the component that the calls share; its steps are steps   *)
(* of this module.                                                         *)
(***************************************************************************)
EXTENDS RowTotals

CONSTANTS
  Calls, NoCall, Agents, AgentOf, MaxRows, Budgets, NoBudget, Threshold,
  Estimates, Builds   \* as in Guardrails

ASSUME SqlToolsAssumption ==
  /\ IsFiniteSet(Calls)
  /\ NoCall \notin Calls
  /\ AgentOf \in [Calls -> Agents]
  /\ MaxRows \in Nat
  /\ NoBudget \notin Nat
  /\ Budgets \subseteq Nat \cup {NoBudget}
  /\ Threshold \in Nat
  /\ Estimates \subseteq Nat
  /\ Builds \subseteq {"gil", "free"}

VARIABLES
  build, budget, hasMetrics, pc, rows, consumed, loaded,
  counters, mlock, seen   \* as in Guardrails

VARIABLES
  backend,   \* backend[a]: whether a backend is injected in the tools of a
  tool,      \* tool[c]: the tool that call c invokes
  at,        \* at[c]: where call c is in the tool
  conn,      \* conn[c]: its connection, "none", "open" or "closed"
  exc,       \* exc[c]: the exception that is unwinding it, or "none"
  got,       \* got[c]: the rows it has fetched, or written to a file
  ran,       \* ran[c]: whether the database has run the statement of the tool
  file,      \* file[c]: the file it wrote: "none", "update" or "stored"
  reply      \* reply[c]: what the agent sees, "none" until the call is done

guardVars == <<build, budget, hasMetrics, pc, rows, consumed, loaded,
               counters, mlock, seen>>
toolVars == <<backend, tool, at, conn, exc, got, ran, file, reply>>
vars == <<guardVars, toolVars>>

\* A dialect that cannot estimate a statement answers 0 (_estimate_rows).
G == INSTANCE Guardrails WITH Estimates <- Estimates \cup {0}

-----------------------------------------------------------------------------

Tools == {"list_tables", "describe_table", "count_rows", "sample_rows",
          "run_query", "materialize_query"}

\* The tools that are given SQL by the agent, and estimate it first.
QueryTools == {"run_query", "materialize_query"}

\* The tools whose replies show rows, or report a file of rows.
Extracting == {"sample_rows", "run_query", "materialize_query"}

RowTools_NoSample == QueryTools

RowTools_Count == QueryTools \cup {"sample_rows", "count_rows"}

\* The tools that charge the rows they got.
RowTools == QueryTools \cup {"sample_rows"}

Exceptions ==
  {"BadText",    \* QueryNotAllowedError: the statement or the WHERE fragment
   "BadIdent",   \* QueryNotAllowedError: the name of the table
   "Estimate",   \* EstimateExceededError
   "Setup",      \* SessionSetupError
   "Import",     \* ImportError: the driver, or pandas, is not installed
   "Driver"}     \* any other exception: the driver, or the write of the file

Feedback == {"query_error", "setup_error", "estimate_block", "budget_block"}

Replies == Feedback \cup {"result", "no_backend", "raised"}

Locations == {"idle", "connect", "cursor", "timeout", "estimate", "estimating",
              "execute", "fetch", "leave", "unwind", "handle", "settle",
              "charging", "done"}

TypeOK ==
  /\ G!TypeOK
  /\ backend \in [Agents -> BOOLEAN]
  /\ tool \in [Calls -> Tools]
  /\ at \in [Calls -> Locations]
  /\ conn \in [Calls -> {"none", "open", "closed"}]
  /\ exc \in [Calls -> Exceptions \cup {"none"}]
  /\ got \in [Calls -> 0 .. MaxRows]
  /\ ran \in [Calls -> BOOLEAN]
  /\ file \in [Calls -> {"none", "update", "stored"}]
  /\ reply \in [Calls -> Replies \cup {"none"}]
  /\ \A c \in Calls : reply[c] = "none" <=> at[c] # "done"

Init ==
  /\ G!Init
  /\ backend \in [Agents -> BOOLEAN]
  /\ tool \in [Calls -> {"list_tables"}]
  /\ at = [c \in Calls |-> "idle"]
  /\ conn = [c \in Calls |-> "none"]
  /\ exc = [c \in Calls |-> "none"]
  /\ got = [c \in Calls |-> 0]
  /\ ran = [c \in Calls |-> FALSE]
  /\ file = [c \in Calls |-> "none"]
  /\ reply = [c \in Calls |-> "none"]

\* A definition Name_Fault is what a plausible bug would make of Name.  No
\* action uses it: each shows that some property notices the bug.

\* Call c goes on.
Goto(c, from, to) ==
  /\ at[c] = from
  /\ at' = [at EXCEPT ![c] = to]

\* Call c raises e: an open connection is closed before anything else.
Raise(c, from, e) ==
  /\ Goto(c, from, IF conn[c] = "open" THEN "unwind" ELSE "handle")
  /\ exc' = [exc EXCEPT ![c] = e]

-----------------------------------------------------------------------------
(* Validation, before anything reaches the driver *)

\* The ways in which the arguments of tool t can be rejected.
Rejections(t) ==
  CASE t = "list_tables" -> {}
    [] t \in {"describe_table", "sample_rows"} -> {"BadIdent"}
    [] t = "count_rows" -> {"BadIdent", "BadText"}
    [] t \in QueryTools -> {"BadText"}

LacksBackend(c, t) == t = "materialize_query" /\ ~backend[AgentOf[c]]

Invoke(c, t) ==
  /\ ~LacksBackend(c, t)
  /\ tool' = [tool EXCEPT ![c] = t]
  /\ \/ Goto(c, "idle", "connect") /\ UNCHANGED exc
     \/ \E e \in Rejections(t) : Raise(c, "idle", e)
  /\ UNCHANGED <<guardVars, backend, conn, got, ran, file, reply>>

InvokeWithoutBackend(c) ==
  /\ LacksBackend(c, "materialize_query")
  /\ tool' = [tool EXCEPT ![c] = "materialize_query"]
  /\ Goto(c, "idle", "done")
  /\ reply' = [reply EXCEPT ![c] = "no_backend"]
  /\ UNCHANGED <<guardVars, backend, conn, exc, got, ran, file>>

-----------------------------------------------------------------------------
(* _cursor, on the way in *)

Connect(c) ==
  /\ \/ /\ Goto(c, "connect", "cursor")
        /\ conn' = [conn EXCEPT ![c] = "open"]
        /\ UNCHANGED exc
     \/ /\ \E e \in {"Import", "Setup"} : Raise(c, "connect", e)
        /\ UNCHANGED conn
  /\ UNCHANGED <<guardVars, backend, tool, got, ran, file, reply>>

OpenCursor(c) ==
  /\ \/ Goto(c, "cursor", "timeout") /\ UNCHANGED exc
     \/ Raise(c, "cursor", "Driver")
  /\ UNCHANGED <<guardVars, backend, tool, conn, got, ran, file, reply>>

\* _apply_timeout: a server is told the timeout of the session.  A file-based
\* engine has nothing to raise here: its watchdog is armed, see Watchdog.
ApplyTimeout(c) ==
  /\ \/ /\ Goto(c, "timeout",
                IF tool[c] \in QueryTools THEN "estimate" ELSE "execute")
        /\ UNCHANGED exc
     \/ Raise(c, "timeout", "Setup")
  /\ UNCHANGED <<guardVars, backend, tool, conn, got, ran, file, reply>>

-----------------------------------------------------------------------------
(* The body of the tool, inside _cursor *)

\* _estimate_rows: MySQL and PostgreSQL raise when EXPLAIN fails; SQLite and
\* DuckDB answer 0 then, as every dialect does when it finds no estimate.
Estimate(c) ==
  /\ \/ /\ \E e \in Estimates \cup {0} : G!CheckEstimate(c, e)
        /\ Goto(c, "estimate", "estimating")
        /\ UNCHANGED exc
     \/ /\ Raise(c, "estimate", "Driver")
        /\ UNCHANGED guardVars
  /\ UNCHANGED <<backend, tool, conn, got, ran, file, reply>>

\* check_estimate has returned or raised.
Estimated(c) ==
  /\ \/ pc[c] = "cleared" /\ Goto(c, "estimating", "execute") /\ UNCHANGED exc
     \/ pc[c] = "blocked" /\ Raise(c, "estimating", "Estimate")
  /\ UNCHANGED <<guardVars, backend, tool, conn, got, ran, file, reply>>

\* cur.execute: the database runs the statement, or rejects it, or stops it.
Execute(c) ==
  /\ \/ /\ Goto(c, "execute", "fetch")
        /\ ran' = [ran EXCEPT ![c] = TRUE]
        /\ UNCHANGED exc
     \/ /\ Raise(c, "execute", "Driver")
        /\ UNCHANGED ran
  /\ UNCHANGED <<guardVars, backend, tool, conn, got, file, reply>>

\* cur.fetchone of a count, cur.fetchall of a catalog or of rows.
Fetch(c) ==
  /\ tool[c] # "materialize_query"
  /\ \/ /\ Goto(c, "fetch", "leave")
        /\ \E n \in IF tool[c] \in Extracting THEN 0 .. MaxRows ELSE {0} :
             got' = [got EXCEPT ![c] = n]
        /\ UNCHANGED exc
     \/ Raise(c, "fetch", "Driver") /\ UNCHANGED got
  /\ UNCHANGED <<guardVars, backend, tool, conn, ran, file, reply>>

\* materialize_result streams the rows to a file.  A StateBackend returns the
\* update that stores a text file and applies that of a binary one itself; an
\* external backend stores the file at once.  The fetch and the write can fail,
\* and so can the import of pandas once the rows are read.
Materialize(c) ==
  /\ tool[c] = "materialize_query"
  /\ \/ /\ Goto(c, "fetch", "leave")
        /\ \E f \in {"update", "stored"} : file' = [file EXCEPT ![c] = f]
        /\ \E n \in 0 .. MaxRows : got' = [got EXCEPT ![c] = n]
        /\ UNCHANGED exc
     \/ /\ \E e \in {"Driver", "Import"} : Raise(c, "fetch", e)
        /\ UNCHANGED <<file, got>>
  /\ UNCHANGED <<guardVars, backend, tool, conn, ran, reply>>

-----------------------------------------------------------------------------
(* _cursor, on the way out *)

\* cur.close() is reached when the body raised nothing.
CloseCursor(c) ==
  /\ \/ Goto(c, "leave", "unwind") /\ UNCHANGED exc
     \/ Raise(c, "leave", "Driver")
  /\ UNCHANGED <<guardVars, backend, tool, conn, got, ran, file, reply>>

CloseConnection_IfClean(c) ==
  /\ Goto(c, "unwind", IF exc[c] # "none" THEN "handle" ELSE "settle")
  /\ conn' = [conn EXCEPT ![c] = IF exc[c] = "none" THEN "closed" ELSE @]
  /\ UNCHANGED <<guardVars, backend, tool, exc, got, ran, file, reply>>

\* finally: connection.close().  What it raises replaces the exception that
\* is on its way out.
CloseConnection(c) ==
  /\ \/ /\ Goto(c, "unwind", IF exc[c] # "none" THEN "handle" ELSE "settle")
        /\ UNCHANGED exc
     \/ /\ Goto(c, "unwind", "handle")
        /\ exc' = [exc EXCEPT ![c] = "Driver"]
  /\ conn' = [conn EXCEPT ![c] = "closed"]
  /\ UNCHANGED <<guardVars, backend, tool, got, ran, file, reply>>

-----------------------------------------------------------------------------
(* The end of the call *)

Handler_NoRetry(e) ==
  CASE e = "BadText" -> "query_error"
    [] e = "BadIdent" -> "raised"
    [] e = "Import" -> "raised"
    [] e \in {"Setup", "Driver"} -> "setup_error"
    [] e = "Estimate" -> "estimate_block"

\* What the except clauses of the tools make of exception e.
Handler(e) ==
  CASE e = "BadText" -> "query_error"
    [] e = "BadIdent" -> "raised"
    [] e = "Import" -> "raised"
    [] e = "Setup" -> "setup_error"
    [] e = "Estimate" -> "estimate_block"
    [] e = "Driver" -> "query_error"

Handle(c) ==
  /\ Goto(c, "handle", "done")
  /\ reply' = [reply EXCEPT ![c] = Handler(exc[c])]
  /\ exc' = [exc EXCEPT ![c] = "none"]
  /\ UNCHANGED <<guardVars, backend, tool, conn, got, ran, file>>

\* A tool that charges nothing replies at once.
ReplyUncharged(c) ==
  /\ tool[c] \notin RowTools
  /\ Goto(c, "settle", "done")
  /\ reply' = [reply EXCEPT ![c] = "result"]
  /\ UNCHANGED <<guardVars, backend, tool, conn, exc, got, ran, file>>

\* budget.charge(len(rows)), or the row count of the file.
Charge(c) ==
  /\ tool[c] \in RowTools
  /\ G!Charge(c, got[c])
  /\ Goto(c, "settle", "charging")
  /\ UNCHANGED <<backend, tool, conn, exc, got, ran, file, reply>>

\* The rows are within the budget.  The reply of materialize_query is a
\* Command, which applies the update that the backend returned.
ReplyResult(c) ==
  /\ pc[c] = "returned"
  /\ Goto(c, "charging", "done")
  /\ reply' = [reply EXCEPT ![c] = "result"]
  /\ file' = [file EXCEPT ![c] = IF @ = "update" THEN "stored" ELSE @]
  /\ UNCHANGED <<guardVars, backend, tool, conn, exc, got, ran>>

ReplyBlocked_Silent(c) ==
  /\ pc[c] = "withheld"
  /\ Goto(c, "charging", "done")
  /\ UNCHANGED <<guardVars, backend, tool, conn, exc, got, ran, file, reply>>

\* The budget is exhausted: the rows are dropped, and so is the update.
ReplyBlocked(c) ==
  /\ pc[c] = "withheld"
  /\ Goto(c, "charging", "done")
  /\ reply' = [reply EXCEPT ![c] = "budget_block"]
  /\ UNCHANGED <<guardVars, backend, tool, conn, exc, got, ran, file>>

-----------------------------------------------------------------------------

\* A step inside check_estimate or charge.
GuardrailStep(c) == G!Step(c) /\ UNCHANGED toolVars

Step(c) ==
  \/ Connect(c) \/ OpenCursor(c) \/ ApplyTimeout(c)
  \/ Estimate(c) \/ Estimated(c) \/ Execute(c) \/ Fetch(c) \/ Materialize(c)
  \/ CloseCursor(c) \/ CloseConnection(c)
  \/ Handle(c) \/ ReplyUncharged(c)
  \/ Charge(c) \/ ReplyResult(c) \/ ReplyBlocked(c)
  \/ GuardrailStep(c)

Next == \E c \in Calls :
  \/ \E t \in Tools : Invoke(c, t)
  \/ InvokeWithoutBackend(c)
  \/ Step(c)

Spec == Init /\ [][Next]_vars

\* The steps of the interpreter alone: neither the driver nor the database has
\* a part in them.
LocalStep(c) ==
  \/ Estimated(c) \/ Handle(c) \/ ReplyUncharged(c)
  \/ Charge(c) \/ ReplyResult(c) \/ ReplyBlocked(c)
  \/ GuardrailStep(c)

\* The threads are scheduled.  Nothing is assumed of the driver: a call that
\* has entered it may stay there for ever.
Fairness == \A c \in Calls : WF_vars(LocalStep(c))

FairSpec == Spec /\ Fairness

-----------------------------------------------------------------------------
(* Properties *)

Answered(S) == {c \in Calls : reply[c] \in S}
Invoked(T) == {c \in Calls : tool[c] \in T}

\* Whatever raises, and wherever, the connection of a call is closed when
\* the agent gets its reply ("the connection is closed automatically when
\* the context exits", SqlDialect._cursor).
NoConnectionLeak ==
  \A c \in Calls : reply[c] # "none" => conn[c] # "open"

\* The rows that the replies of all the tools of an agent show or report
\* are within its row budget, and so are two replies given in parallel, on a
\* build where the addition of charge is one step.
ShownWithinBudget == build = "gil" =>
  \A a \in Agents : budget[a] # NoBudget =>
    Total({c \in Answered({"result"}) : AgentOf[c] = a}, got) <= budget[a]

\* A reply that tells the agent that the database is unreachable, or that
\* the estimate is too high, is given only when the statement did not run
\* (format_setup_error, format_estimate_block: "was NOT executed").
StoppedBeforeRunning ==
  \A c \in Answered({"setup_error", "estimate_block", "no_backend"}) : ~ran[c]

\* The same for query_error, as its text has it: "was NOT executed by the
\* database" (format_query_error).
ErrorMeansNotRun == \A c \in Answered({"query_error"}) : ~ran[c]

\* When no call is under way, the metrics agree with the replies that the
\* agents got: one query per extraction that came to its end, whatever its
\* verdict, and one exhaustion per budget_block.
MetricsMatchReplies ==
  (\A c \in Calls : at[c] \in {"idle", "done"}) =>
    LET Metered == {c \in Calls : hasMetrics[AgentOf[c]]}
        Charged == Answered({"result", "budget_block"}) \cap Invoked(Extracting)
    IN  /\ counters.queries_run = Cardinality(Charged \cap Metered)
        /\ counters.rows_returned = Total(Charged \cap Metered, got)
        /\ counters.budget_exhausted =
             Cardinality(Answered({"budget_block"}) \cap Metered)
        /\ counters.estimate_blocked >=
             Cardinality(Answered({"estimate_block"}) \cap Metered)

\* A call that hangs in the driver holds nothing that another one needs: one
\* that is back from the driver goes on, to its statement or to its reply,
\* though all others hang for ever ("instead of freezing the whole tool node
\* when tool calls run in parallel", FileSqlDialect).
HungCallsBlockNoOther ==
  LET Local == {"estimating", "settle", "charging", "handle"}
  IN  \A c \in Calls : at[c] \in Local ~> at[c] \notin Local

-----------------------------------------------------------------------------
(* The inductive invariant: what is known at each place of a tool, of the    *)
(* call itself and of its place in the guardrails.                           *)

\* Where a call is in check_estimate and charge when it has nothing to do with
\* them now, and when it is inside one or the other.
Outside == {"idle", "cleared", "blocked"}
Estimating == {"cleared", "blockLock", "blockStore", "blocked"}
Charging == {"queryLock", "queryStore", "recorded", "addStore", "check",
             "exhaustLock", "exhaustStore", "returned", "withheld"}

Preparing == {"idle", "connect", "cursor", "timeout", "estimate"}

\* A connection is open only between _cursor's entry and its exit.
ConnInv == \A c \in Calls :
  at[c] \in {"idle", "connect", "handle", "settle", "charging", "done"} =>
    conn[c] # "open"

\* An exception is on its way only where one is handled, and those that tell
\* the agent that nothing was executed come before the statement does.
ExcInv == \A c \in Calls :
  /\ at[c] = "handle" => exc[c] # "none"
  /\ at[c] \notin {"unwind", "handle"} => exc[c] = "none"
  /\ at[c] \in Preparing \cup {"estimating", "execute"} => ~ran[c]
  /\ exc[c] \in {"Setup", "Estimate"} => ~ran[c]
  /\ exc[c] = "Estimate" => pc[c] = "blocked"

\* A call enters the guardrails where its tool calls them, with the rows that
\* it has got, and replies with the verdict that they gave.
GuardInv == \A c \in Calls :
  /\ at[c] \in Preparing => pc[c] = "idle"
  /\ at[c] = "estimating" => pc[c] \in Estimating
  /\ at[c] \in {"execute", "fetch", "leave", "unwind", "handle", "settle"} =>
       pc[c] \in Outside
  /\ at[c] = "charging" => pc[c] \in Charging
  /\ at[c] = "done" =>
       \/ pc[c] \in Outside /\ reply[c] # "budget_block"
          /\ (reply[c] = "result" => tool[c] \notin RowTools)
          /\ (reply[c] = "estimate_block" => pc[c] = "blocked")
       \/ pc[c] = "returned" /\ reply[c] = "result"
       \/ pc[c] = "withheld" /\ reply[c] = "budget_block"
  /\ pc[c] \in Charging => tool[c] \in RowTools /\ rows[c] = got[c]
  /\ at[c] = "idle" \/ tool[c] \notin RowTools => got[c] = 0

ToolsInv ==
  TypeOK /\ ConnInv /\ ExcInv /\ GuardInv /\ NoConnectionLeak /\ StoppedBeforeRunning

=============================================================================
