----------------------------- MODULE ClientTools -----------------------------
(***************************************************************************)
(* The tools of the dialects that share a driver client: Elasticsearch and *)
(* OpenSearch (search_base.py), MongoDB and Neo4j.  A tool validates its   *)
(* arguments, gets the client, makes one or more requests with it, writes  *)
(* a file if that is its purpose, charges its rows and replies.  What it   *)
(* does differently from one dialect to the next:                          *)
(*   - Neo4j gets the driver and opens a session for each request; the     *)
(*     others get the client once per call;                                *)
(*   - a search aggregation is not charged, and overflows to a file;       *)
(*   - whether more rows are left is known to Neo4j, and guessed from a    *)
(*     full page by the others;                                            *)
(*   - the search dialects ask for at most hard_max_rows, also for a file. *)
(*                                                                         *)
(* The calls are made by one agent, in parallel, and the application may   *)
(* close the dialect at any time.  What the tools share is represented by  *)
(* what it is proved to implement: LazyClient by ClientCell, Guardrails by *)
(* RowBudget.  The driver and the database are external.                   *)
(***************************************************************************)
EXTENDS RowTotals

CONSTANTS
  Calls, NoCall, Agents, AgentOf, Budgets, NoBudget,   \* as in Guardrails
  MaxRows,       \* GuardrailConfig.hard_max_rows; bound: the rows of a file
  DefaultRows,   \* GuardrailConfig.default_rows
  Closer,        \* the thread of the application that closes the dialect
  MaxCloses,     \* bound: how often it does
  Dialects       \* the dialects to consider

ASSUME ClientToolsAssumption ==
  /\ IsFiniteSet(Calls)
  /\ AgentOf \in [Calls -> Agents]
  /\ NoBudget \notin Nat
  /\ Budgets \subseteq Nat \cup {NoBudget}
  /\ MaxRows \in Nat
  /\ DefaultRows \in Nat
  /\ MaxCloses \in Nat
  /\ Dialects \subseteq {"search", "mongodb", "neo4j"}

VARIABLES
  budget, serial, entered, rows, verdict   \* as in RowBudget

VARIABLES
  cell, open, taken   \* as in ClientCell

VARIABLES
  dialect,   \* the dialect of the agent
  named,     \* whether a database is named, without which MongoDB refuses
  backend,   \* whether a backend is injected in the tools
  closes,    \* how often the application has closed the dialect
  tool,      \* tool[c]: the tool that call c invokes
  at,        \* at[c]: where call c is in the tool
  todo,      \* todo[c]: the requests that call c has not done yet
  session,   \* session[c]: whether call c has a Neo4j session open
  exc,       \* exc[c]: the exception that is unwinding it, or "none"
  ran,       \* ran[c]: whether the request for the data was made
  got,       \* got[c]: the rows it has fetched, or written to a file
  left,      \* left[c]: whether there were more rows than got[c]
  hint,      \* hint[c]: whether the reply says that there are more
  file,      \* file[c]: the file it wrote: "none", "update" or "stored"
  reply      \* reply[c]: what the agent sees, "none" until the call is done

budgetVars == <<budget, serial, entered, rows, verdict>>
cellVars == <<cell, open, taken>>
setupVars == <<dialect, named, backend>>
dataVars == <<ran, got, left, hint, file>>
toolVars == <<tool, at, todo, session, exc, reply, dataVars>>
vars == <<budgetVars, cellVars, setupVars, closes, toolVars>>

RB == INSTANCE RowBudget

\* A client is named by its turn: one may be built, and one more after each
\* close.  A tool uses what get answers at once, so answers are not kept.
Clients == 1 .. MaxCloses + 1

CC == INSTANCE ClientCell WITH
        Calls <- Clients \cup {Closer},
        answer <- [c \in Clients \cup {Closer} |-> NoCall]

-----------------------------------------------------------------------------
(* The tools *)

\* Tools that behave alike are represented by one of them: describe_index also
\* stands for count_documents, run_query for search_query, list_collections
\* for describe_collection, list_labels for list_relationship_types and
\* count_nodes.
Tools == [
  search |-> {"list_indices", "describe_index", "sample_documents", "run_query",
              "aggregate", "materialize_query"},
  mongodb |-> {"list_collections", "count_documents", "sample_documents",
               "find", "aggregate", "materialize_aggregate"},
  neo4j |-> {"list_labels", "schema", "run_cypher", "materialize_cypher"}]

\* The tools that reply with a page of rows, and say whether there are more.
Paged == {"run_query", "find", "run_cypher"}

\* The tools that write their rows to a file.
Writers == {"materialize_query", "materialize_aggregate", "materialize_cypher"}

\* The tools that request an estimate before they request the rows.
Estimating == Paged \cup {"materialize_cypher"}

\* The tools with arguments that can be rejected (an index out of scope,
\* malformed JSON, a forbidden operator or clause).  They are also those
\* with an `except QueryNotAllowedError`.
Validated == [
  search |-> Tools.search \ {"list_indices"},
  mongodb |-> {"count_documents", "find", "aggregate", "materialize_aggregate"},
  neo4j |-> {"run_cypher", "materialize_cypher"}]

Buckets(c) == dialect = "search" /\ tool[c] = "aggregate"

\* The tools whose replies show rows, or report a file of rows.
Extracting(c) ==
  \/ tool[c] \in Paged \cup Writers \cup {"sample_documents"}
  \/ dialect = "mongodb" /\ tool[c] = "aggregate"

\* A definition Name_Fault is what a plausible bug would make of Name.  No
\* action uses it: each shows that some property notices the bug.
Charging_NoSample(c) == Extracting(c) /\ tool[c] # "sample_documents"

\* The tools that charge the rows they got.
Charging(c) == Extracting(c)

Requests(t) == IF t = "schema" THEN 3 ELSE IF t \in Estimating THEN 2 ELSE 1

Exceptions ==
  {"Rejected",   \* QueryNotAllowedError
   "Estimate",   \* EstimateExceededError
   "Setup",      \* SessionSetupError, as setup_failures raises it
   "Import",     \* ImportError: the driver is not installed
   "Driver"}     \* any other exception of the driver

Replies == {"result", "query_error", "setup_error", "estimate_block",
            "budget_block", "no_backend", "raised"}

Locations == {"idle", "get", "receive", "request", "leave", "estimated",
              "write", "settle", "charging", "handle", "done"}

TypeOK ==
  /\ budget \in [Agents -> Budgets] /\ serial \in BOOLEAN
  /\ entered \subseteq Calls
  /\ rows \in [Calls -> 0 .. MaxRows]
  /\ verdict \in [Calls -> {"open", "returned", "withheld"}]
  /\ cell \in Clients \cup {NoCall}
  /\ open \subseteq Clients
  /\ taken \in [Clients \cup {Closer} -> Clients \cup {NoCall}]
  /\ dialect \in Dialects
  /\ named \in BOOLEAN /\ backend \in BOOLEAN
  /\ closes \in 0 .. MaxCloses
  /\ tool \in [Calls -> (UNION {Tools[d] : d \in Dialects}) \cup {"none"}]
  /\ at \in [Calls -> Locations]
  /\ todo \in [Calls -> 0 .. 3]
  /\ session \in [Calls -> BOOLEAN]
  /\ exc \in [Calls -> Exceptions \cup {"none"}]
  /\ ran \in [Calls -> BOOLEAN]
  /\ got \in [Calls -> 0 .. MaxRows]
  /\ left \in [Calls -> BOOLEAN] /\ hint \in [Calls -> BOOLEAN]
  /\ file \in [Calls -> {"none", "update", "stored"}]
  /\ reply \in [Calls -> Replies \cup {"none"}]
  /\ \A c \in Calls : reply[c] = "none" <=> at[c] # "done"

Init ==
  /\ RB!Init
  /\ budget \in [Agents -> Budgets]
  /\ serial = TRUE
  /\ CC!Init
  /\ dialect \in Dialects
  /\ named \in IF dialect = "mongodb" THEN BOOLEAN ELSE {TRUE}
  /\ backend \in BOOLEAN
  /\ closes = 0
  /\ tool = [c \in Calls |-> "none"]
  /\ at = [c \in Calls |-> "idle"]
  /\ todo = [c \in Calls |-> 0]
  /\ session = [c \in Calls |-> FALSE]
  /\ exc = [c \in Calls |-> "none"]
  /\ ran = [c \in Calls |-> FALSE]
  /\ got = [c \in Calls |-> 0]
  /\ left = [c \in Calls |-> FALSE]
  /\ hint = [c \in Calls |-> FALSE]
  /\ file = [c \in Calls |-> "none"]
  /\ reply = [c \in Calls |-> "none"]

\* Call c goes on.
Goto(c, from, to) ==
  /\ at[c] = from
  /\ at' = [at EXCEPT ![c] = to]

Raise_Past(c, from, e) ==
  /\ Goto(c, from, "handle")
  /\ exc' = [exc EXCEPT ![c] = e]

\* Call c raises e: an open session is closed before anything else.
Raise(c, from, e) ==
  /\ Goto(c, from, IF session[c] THEN "leave" ELSE "handle")
  /\ exc' = [exc EXCEPT ![c] = e]

Reply(c, from, r) ==
  /\ Goto(c, from, "done")
  /\ reply' = [reply EXCEPT ![c] = r]

-----------------------------------------------------------------------------
(* The beginning of a call: validation, before anything reaches the driver *)

Invoke(c, t) ==
  /\ ~(t \in Writers /\ ~backend)
  /\ tool' = [tool EXCEPT ![c] = t]
  /\ todo' = [todo EXCEPT ![c] = Requests(t)]
  /\ \/ Goto(c, "idle", "get") /\ UNCHANGED exc
     \/ t \in Validated[dialect] /\ Raise(c, "idle", "Rejected")
  /\ UNCHANGED <<budgetVars, cellVars, setupVars, closes, session, dataVars, reply>>

\* `if backend is None` comes first.
InvokeWithoutBackend(c, t) ==
  /\ t \in Writers /\ ~backend
  /\ tool' = [tool EXCEPT ![c] = t]
  /\ Reply(c, "idle", "no_backend")
  /\ UNCHANGED <<budgetVars, cellVars, setupVars, closes, todo, session, exc, dataVars>>

-----------------------------------------------------------------------------
(* The client: LazyClient.get, seen as ClientCell *)

\* The cell is full, or the factory fills it, or the factory raises: the
\* driver is missing, or rejects its parameters, which setup_failures
\* recognises or not.  MongoDB wants a database first.
GetClient(c) ==
  /\ named
  /\ \/ /\ cell # NoCall
        /\ Goto(c, "get", "receive")
        /\ UNCHANGED <<cellVars, exc>>
     \/ /\ Goto(c, "get", "receive")
        /\ CC!Open(closes + 1)
        /\ UNCHANGED exc
     \/ /\ cell = NoCall
        /\ \E e \in {"Import", "Setup", "Driver"} : Raise(c, "get", e)
        /\ UNCHANGED cellVars
  /\ UNCHANGED <<budgetVars, setupVars, closes, tool, todo, session, dataVars, reply>>

RefuseUnnamed(c) ==
  /\ ~named
  /\ Raise(c, "get", "Rejected")
  /\ UNCHANGED <<budgetVars, cellVars, setupVars, closes, tool, todo, session,
                 dataVars, reply>>

\* get returns what is in the cell now, None if a close has intervened; the
\* first use of None raises.  Neo4j opens a session, which may raise as well.
ReceiveClient(c) ==
  /\ \/ /\ cell # NoCall
        /\ Goto(c, "receive", "request")
        /\ session' = [session EXCEPT ![c] = dialect = "neo4j"]
        /\ UNCHANGED exc
     \/ /\ cell = NoCall
        /\ Raise(c, "receive", "Driver")
        /\ UNCHANGED session
     \/ /\ dialect = "neo4j"
        /\ \E e \in {"Setup", "Driver"} : Raise(c, "receive", e)
        /\ UNCHANGED session
  /\ UNCHANGED <<budgetVars, cellVars, setupVars, closes, tool, todo, dataVars, reply>>

\* close() of the dialect, called by the application.
TakeClient ==
  /\ closes < MaxCloses
  /\ closes' = closes + 1
  /\ CC!Take(Closer)
  /\ UNCHANGED <<budgetVars, setupVars, toolVars>>

CloseClient ==
  /\ CC!Close(Closer)
  /\ UNCHANGED <<budgetVars, setupVars, closes, toolVars>>

-----------------------------------------------------------------------------
(* The requests *)

\* A request is refused, or breaks off before or after the database has done
\* it, for instance because the client is closed: setup_failures tells the
\* failures of the connection from the others.
RequestFails(c) ==
  /\ \E e \in {"Setup", "Driver"} : Raise(c, "request", e)
  /\ ran' = [ran EXCEPT ![c] = todo[c] = 1]
  /\ UNCHANGED <<budgetVars, cellVars, setupVars, closes, tool, todo, session,
                 got, left, hint, file, reply>>

\* Where call c goes when n requests remain.
Onward(c, n) ==
  CASE n = 0 -> IF tool[c] \in Writers THEN "write" ELSE "settle"
    [] n > 0 /\ tool[c] = "schema" -> "get"
    [] n > 0 /\ tool[c] \in Estimating -> "estimated"

\* Call c has done a request.
Done(c) ==
  /\ Goto(c, "request", IF session[c] THEN "leave" ELSE Onward(c, todo[c] - 1))
  /\ todo' = [todo EXCEPT ![c] = @ - 1]
  /\ UNCHANGED <<budgetVars, cellVars, setupVars, closes, tool, session, exc, reply>>

RequestMore_Analyze(c) ==
  /\ todo[c] > 1
  /\ Done(c)
  /\ ran' = [ran EXCEPT ![c] = tool[c] \in Estimating]
  /\ UNCHANGED <<got, left, hint, file>>

\* A count or an EXPLAIN for the estimate, or one of the catalog requests
\* that schema makes before its last one.
RequestMore(c) ==
  /\ todo[c] > 1
  /\ Done(c)
  /\ UNCHANGED dataVars

\* The catalog, a count, the mapping or the buckets of an aggregation.
RequestFacts(c) ==
  /\ todo[c] = 1
  /\ ~Extracting(c)
  /\ Done(c)
  /\ ran' = [ran EXCEPT ![c] = TRUE]
  /\ UNCHANGED <<got, left, hint, file>>

\* GuardrailConfig.clamp_limit, with 0 for an absent page_size.
ClampLimit(size) ==
  LET wanted == IF size <= 0 THEN DefaultRows ELSE size
  IN  IF wanted < MaxRows THEN wanted ELSE MaxRows

SaysMore_PageSize(n, size, more) == IF dialect = "neo4j" THEN more ELSE n = size

\* Neo4j reads one record past the limit; the others take a full page as a
\* sign of more.
SaysMore(n, size, more) ==
  IF dialect = "neo4j" THEN more ELSE n = ClampLimit(size)

\* A page of rows: the database gives as many as there are, up to the limit.
RequestPage(c) ==
  /\ todo[c] = 1
  /\ Extracting(c) /\ tool[c] \notin Writers
  /\ Done(c)
  /\ \E size \in 0 .. MaxRows + 1, more \in BOOLEAN :
       \E n \in IF more THEN {ClampLimit(size)} ELSE 0 .. ClampLimit(size) :
         /\ got' = [got EXCEPT ![c] = n]
         /\ left' = [left EXCEPT ![c] = more]
         /\ hint' = [hint EXCEPT ![c] =
                       tool[c] \in Paged /\ SaysMore(n, size, more)]
  /\ ran' = [ran EXCEPT ![c] = TRUE]
  /\ UNCHANGED file

\* MongoDB and Neo4j know that they stopped early, and say so.
ReportsCut(cut) == dialect # "search" /\ cut

\* The rows for a file.  MongoDB and Neo4j stop at max_materialized_bytes,
\* the search dialects ask for hard_max_rows.
RequestRows(c) ==
  /\ todo[c] = 1
  /\ tool[c] \in Writers
  /\ Done(c)
  /\ \E cut \in BOOLEAN :
       \E n \in IF cut /\ dialect = "search" THEN {MaxRows} ELSE 0 .. MaxRows :
         /\ got' = [got EXCEPT ![c] = n]
         /\ left' = [left EXCEPT ![c] = cut]
         /\ hint' = [hint EXCEPT ![c] = ReportsCut(cut)]
  /\ ran' = [ran EXCEPT ![c] = TRUE]
  /\ UNCHANGED file

\* The end of `with driver.session()`: the session is closed, whatever
\* happened in it.  An exception of its close replaces the one in flight.
Leave(c) ==
  /\ session' = [session EXCEPT ![c] = FALSE]
  /\ \/ /\ Goto(c, "leave", IF exc[c] = "none" THEN Onward(c, todo[c]) ELSE "handle")
        /\ UNCHANGED exc
     \/ /\ Goto(c, "leave", "handle")
        /\ \E e \in {"Setup", "Driver"} : exc' = [exc EXCEPT ![c] = e]
  /\ UNCHANGED <<budgetVars, cellVars, setupVars, closes, tool, todo, dataVars, reply>>

-----------------------------------------------------------------------------
(* The estimate *)

\* check_estimate lets the estimate pass, or raises.  (The estimate of Neo4j is
\* 0 when _estimate swallows an exception: it passes then.)  Neo4j gets its
\* driver once more.
CheckEstimate(c) ==
  /\ \/ /\ Goto(c, "estimated", IF dialect = "neo4j" THEN "get" ELSE "request")
        /\ UNCHANGED exc
     \/ Raise(c, "estimated", "Estimate")
  /\ UNCHANGED <<budgetVars, cellVars, setupVars, closes, tool, todo, session,
                 dataVars, reply>>

-----------------------------------------------------------------------------
(* The file *)

\* materialize_result keeps the rows that fit into the file.  A StateBackend
\* returns the update that stores a text file; otherwise it is stored at once.
Write(c) ==
  /\ Goto(c, "write", "settle")
  /\ \E n \in 0 .. got[c] :
       /\ got' = [got EXCEPT ![c] = n]
       /\ left' = [left EXCEPT ![c] = @ \/ n < got[c]]
       /\ hint' = [hint EXCEPT ![c] = @ \/ n < got[c]]
  /\ \E f \in {"update", "stored"} : file' = [file EXCEPT ![c] = f]
  /\ UNCHANGED <<budgetVars, cellVars, setupVars, closes, tool, todo, session,
                 exc, ran, reply>>

\* It raises, outside of the try of the tool.
WriteFails(c) ==
  /\ Reply(c, "write", "raised")
  /\ UNCHANGED <<budgetVars, cellVars, setupVars, closes, tool, todo, session,
                 exc, dataVars>>

-----------------------------------------------------------------------------
(* The end of the call *)

\* What the except clauses of tool t make of exception e.  list_indices has
\* no clause that lets an ImportError pass.  count_documents of MongoDB may
\* have been given its filter as a dict, which it hands to format_query_error
\* as it is: that strips a text, and raises.
Handler(t, e) ==
  CASE e = "Rejected" -> {IF t \in Validated[dialect] THEN "query_error" ELSE "raised"}
    [] e = "Estimate" -> {"estimate_block"}
    [] e = "Setup" -> {"setup_error"}
    [] e = "Import" -> {IF t = "list_indices" THEN "query_error" ELSE "raised"}
    [] e = "Driver" -> {"query_error"} \cup
         (IF dialect = "mongodb" /\ t = "count_documents" THEN {"raised"} ELSE {})

Handle(c) ==
  /\ Goto(c, "handle", "done")
  /\ \E r \in Handler(tool[c], exc[c]) : reply' = [reply EXCEPT ![c] = r]
  /\ exc' = [exc EXCEPT ![c] = "none"]
  /\ todo' = [todo EXCEPT ![c] = 0]
  /\ UNCHANGED <<budgetVars, cellVars, setupVars, closes, tool, session, dataVars>>

\* The buckets are shown, or are too many and go to a file, or are cut when
\* there is no backend or its write fails.  The Command of the reply stores a
\* file that the backend returned as an update.
ReplyBuckets(c) ==
  /\ Buckets(c)
  /\ Reply(c, "settle", "result")
  /\ file' \in {file} \cup
       {[file EXCEPT ![c] = f] : f \in IF backend THEN {"stored"} ELSE {}}
  /\ UNCHANGED <<budgetVars, cellVars, setupVars, closes, tool, todo, session, exc,
                 ran, got, left, hint>>

\* Any other tool that charges nothing replies at once.
ReplyUncharged(c) ==
  /\ ~Charging(c) /\ ~Buckets(c)
  /\ Reply(c, "settle", "result")
  /\ UNCHANGED <<budgetVars, cellVars, setupVars, closes, tool, todo, session, exc,
                 dataVars>>

Charge_Limit(c) ==
  /\ Charging(c)
  /\ RB!Ask(c, MaxRows)
  /\ Goto(c, "settle", "charging")
  /\ UNCHANGED <<cellVars, setupVars, closes, tool, todo, session, exc, dataVars, reply>>

\* budget.charge(len(docs)), or the row count of the file.
Charge(c) ==
  /\ Charging(c)
  /\ RB!Ask(c, got[c])
  /\ Goto(c, "settle", "charging")
  /\ UNCHANGED <<cellVars, setupVars, closes, tool, todo, session, exc, dataVars, reply>>

\* self.consumed += rows, of a limited call.
Enter(c) ==
  /\ at[c] = "charging"
  /\ RB!Charge(c)
  /\ UNCHANGED <<cellVars, setupVars, closes, toolVars>>

\* charge returns.  The Command of the reply stores a file that the backend
\* returned as an update.
ReplyResult(c) ==
  /\ RB!Return(c)
  /\ Reply(c, "charging", "result")
  /\ file' = [file EXCEPT ![c] = IF @ = "update" THEN "stored" ELSE @]
  /\ UNCHANGED <<cellVars, setupVars, closes, tool, todo, session, exc,
                 ran, got, left, hint>>

ReplyBlocked_Silent(c) ==
  /\ RB!Withhold(c)
  /\ Goto(c, "charging", "done")
  /\ UNCHANGED <<cellVars, setupVars, closes, tool, todo, session, exc, dataVars, reply>>

\* charge raises: the rows are dropped, and so is the update.
ReplyBlocked(c) ==
  /\ RB!Withhold(c)
  /\ Reply(c, "charging", "budget_block")
  /\ UNCHANGED <<cellVars, setupVars, closes, tool, todo, session, exc, dataVars>>

-----------------------------------------------------------------------------

Step(c) ==
  \/ GetClient(c) \/ RefuseUnnamed(c) \/ ReceiveClient(c)
  \/ RequestFails(c) \/ RequestMore(c) \/ RequestFacts(c) \/ RequestPage(c)
  \/ RequestRows(c) \/ Leave(c)
  \/ CheckEstimate(c)
  \/ Write(c) \/ WriteFails(c)
  \/ Handle(c) \/ ReplyBuckets(c) \/ ReplyUncharged(c)
  \/ Charge(c) \/ Enter(c) \/ ReplyResult(c) \/ ReplyBlocked(c)

Next ==
  \/ \E c \in Calls : \E t \in Tools[dialect] :
       Invoke(c, t) \/ InvokeWithoutBackend(c, t)
  \/ \E c \in Calls : Step(c)
  \/ TakeClient
  \/ CloseClient

Spec == Init /\ [][Next]_vars

-----------------------------------------------------------------------------
(* Properties *)

Answered(S) == {c \in Calls : reply[c] \in S}

\* When no call is under way, the ledger holds the rows of the extractions
\* that came to their end, whatever their verdict, and nothing else: not those
\* of a file whose write failed, nor the buckets of a search aggregation.
LedgerMatchesReplies ==
  (\A c \in Calls : at[c] \in {"idle", "done"}) =>
    \A a \in Agents : budget[a] # NoBudget =>
      RB!Ledger(a) = Total({c \in Answered({"result", "budget_block"}) :
                             Extracting(c) /\ AgentOf[c] = a}, got)

\* The agent is told when there is more than it sees: a reply with a page
\* of rows offers the next one if there is any, and a file of MongoDB or Neo4j
\* that lacks rows is announced as incomplete (materialize_aggregate, "the
\* response warns if the file ends up incomplete").
NothingLeftUnsaid == \A c \in Answered({"result"}) :
  left[c] /\ tool[c] \in Paged \cup (Writers \ {"materialize_query"}) => hint[c]

\* The same for every file, as README.md has it: "if the write stops early the
\* tool response warns that the file is incomplete", and materialisation is
\* not bounded by hard_max_rows.
FilesAreComplete == \A c \in Answered({"result"}) :
  left[c] /\ tool[c] \in Writers => hint[c]

\* No session outlives its call: it is closed whatever fails, be it the driver,
\* the estimate or the close of the client under it (Neo4jDialect._session).
NoSessionLeak == \A c \in Calls : session[c] =>
  at[c] \in {"request", "leave"} /\ reply[c] = "none"

\* An extraction that the agent hears was blocked by the estimate, or could
\* not be written for want of a backend, has not reached the database.
BlockedBeforeRunning ==
  \A c \in Answered({"estimate_block", "no_backend"}) : ~ran[c]

\* The rows that an agent has been shown, or told of in a file, are within its
\* budget, however many calls it makes in parallel (SessionBudget.charge).
ShownWithinBudget == \A a \in Agents : budget[a] # NoBudget =>
  Total({c \in Answered({"result"}) : Extracting(c) /\ AgentOf[c] = a}, got) <= budget[a]

-----------------------------------------------------------------------------
(* Why the properties hold: an inductive invariant *)

\* A call is in a tool of its dialect, with requests to do while it is on its
\* way to one.  Its session lasts from a request to the leave, and an exception
\* until it is handled.
FlowInv == \A c \in Calls :
  /\ at[c] # "idle" => tool[c] \in Tools[dialect]
  /\ at[c] \in {"get", "receive", "request", "estimated"} =>
       todo[c] \in 1 .. Requests(tool[c])
  /\ at[c] = "leave" /\ exc[c] = "none" => todo[c] \in 0 .. Requests(tool[c]) - 1
  /\ session[c] => at[c] \in {"request", "leave"}
  /\ exc[c] # "none" => at[c] \in {"leave", "handle"}
  /\ at[c] = "handle" => exc[c] # "none"

\* The request for the data is the last one, and what comes before it can only
\* lead to it or to a reply that admits that there is no data.
RanInv == \A c \in Calls :
  /\ at[c] \in {"idle", "get", "receive", "request", "estimated"} => ~ran[c]
  /\ at[c] = "leave" /\ exc[c] = "none" /\ todo[c] > 0 => ~ran[c]
  /\ exc[c] = "Estimate" => ~ran[c]
  /\ reply[c] \in {"estimate_block", "no_backend"} => ~ran[c]

\* What NothingLeftUnsaid says of a reply is so from the request on.
SaidInv == \A c \in Calls :
  /\ at[c] = "idle" => ~left[c]
  /\ left[c] /\ tool[c] \in Paged \cup (Writers \ {"materialize_query"}) => hint[c]

\* A call is in the ledger with the rows it has got, from the charge on, and
\* only a reply that took the verdict of the ledger leaves it there.
EnteredInv == \A c \in Calls :
  /\ at[c] = "charging" => Extracting(c)
  /\ at[c] = "charging" \/ c \in entered => rows[c] = got[c]
  /\ c \in entered => at[c] \in {"charging", "done"} /\ Extracting(c) /\ RB!Limited(c)
  /\ at[c] = "done" =>
       (c \in entered <=> /\ reply[c] \in {"result", "budget_block"}
                         /\ Extracting(c) /\ RB!Limited(c))

\* The calls of agent a whose rows were let pass.
Returned(a) == {c \in Calls : verdict[c] = "returned" /\ AgentOf[c] = a}

\* Only a result gives the agent its rows, and the ledger that allowed the last of
\* them holds all of them.
ReturnedInv ==
  /\ serial
  /\ \A c \in Calls :
       verdict[c] = "returned" <=> reply[c] = "result" /\ Extracting(c)
  /\ \A a \in Agents : budget[a] # NoBudget => Total(Returned(a), rows) <= budget[a]

ClientToolsInv == TypeOK /\ FlowInv /\ RanInv /\ SaidInv /\ EnteredInv /\ ReturnedInv

=============================================================================
