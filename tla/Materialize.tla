---------------------------- MODULE Materialize ----------------------------
(***************************************************************************)
(* The files of the materialize tools (workspace.py): how many rows of a   *)
(* result fit in max_materialized_bytes, what the reply says of them, and  *)
(* what becomes of the file on the backend that the agent and the parallel *)
(* calls of its tools share.                                               *)
(*                                                                         *)
(* A call enters this module when its database has answered.  A row is its *)
(* size as JSON and its size as a line of CSV.  SqlTools and ClientTools   *)
(* have what comes before; the verdict of budget.charge is a choice here,  *)
(* and Guardrails has how it is made.                                      *)
(***************************************************************************)
EXTENDS Integers, Sequences, FiniteSetsExt

CONSTANTS
  Calls,      \* the calls of the materialize tools of one agent
  Threads,    \* its conversations
  Shared,     \* the one place where an external backend keeps its files
  Names,      \* the file names that the agent gives
  NoName,     \* no file name given: one is generated
  Sources,    \* the results, sequences of rows
  Header,     \* the size of the header line
  Limits,     \* max_bytes, see MaxBytes
  NoLimit,    \* None
  Dialects    \* the dialects of the agent

ASSUME MaterializeAssumption ==
  /\ Shared \notin Threads
  /\ NoName \notin Names
  /\ Names \cap Calls = {}
  /\ \A s \in Sources : s \in Seq([json : Nat \ {0}, csv : Nat \ {0}])
  /\ Header \in Nat
  /\ NoLimit \notin Nat
  /\ Limits \subseteq Nat \cup {NoLimit}
  /\ Dialects \subseteq {"sql", "search", "documents"}

VARIABLES
  dialect,     \* "documents" is MongoDB and Neo4j
  backend,     \* what kind of backend is injected, see Backends
  overwrites,  \* whether write replaces a file that exists, or is an error
  limit,       \* max_materialized_bytes
  files,       \* files[p]: the files at place p, by path
  at,          \* at[c]: where call c is
  thread,      \* thread[c]: the conversation of call c
  source,      \* source[c]: the result of its query
  fmt,         \* fmt[c]: the format it is asked for
  path,        \* path[c]: the file it writes
  taken,       \* taken[c]: the number of rows it read from the database
  left,        \* left[c]: whether it left some there, fetch_truncated
  rows,        \* rows[c]: the number of rows in its file
  truncated,   \* truncated[c]: MaterializedResult.truncated
  update,      \* update[c]: whether a files_update is to be applied
  reply        \* reply[c]: what the agent is told

config == <<dialect, backend, overwrites, limit>>
call == <<thread, source, fmt, path>>
vars == <<config, files, at, call, taken, left, rows, truncated, update, reply>>

Backends ==
  {"external",   \* keeps the files itself: FilesystemBackend, StoreBackend
   "update",     \* StateBackend whose write returns a files_update
   "state"}      \* StateBackend whose write applies the update itself

Places == Threads \cup {Shared}

\* What the agent can ask for; "other" is no format.  "json" is the file of an
\* aggregation of search that is too long for the reply.
Formats == {"csv", "parquet", "other"}

\* A generated name contains a UUID: it is the name of one call.
Paths == Names \cup Calls

File == [by : Calls, rows : Nat]

TypeOK ==
  /\ dialect \in Dialects
  /\ backend \in Backends
  /\ overwrites \in BOOLEAN
  /\ limit \in Limits
  /\ \A p \in Places : \A f \in DOMAIN files[p] : f \in Paths /\ files[p][f] \in File
  /\ at \in [Calls -> {"idle", "fetch", "serialize", "write", "charge", "reply",
                       "done"}]
  /\ thread \in [Calls -> Threads]
  /\ \A c \in Calls : at[c] # "idle" => source[c] \in Sources
  /\ fmt \in [Calls -> Formats \cup {"json"}]
  /\ path \in [Calls -> Paths]
  /\ \A c \in Calls : taken[c] \in 0 .. Len(source[c]) /\ rows[c] \in 0 .. taken[c]
  /\ left \in [Calls -> BOOLEAN]
  /\ truncated \in [Calls -> BOOLEAN]
  /\ update \in [Calls -> BOOLEAN]
  /\ reply \in [Calls -> {"none", "saved", "preview", "budget_block",
                         "query_error", "raised"}]
  /\ \A c \in Calls : update[c] => fmt[c] \in {"csv", "json"} /\ backend = "update"

Init ==
  /\ dialect \in Dialects
  /\ backend \in Backends
  /\ overwrites \in BOOLEAN
  /\ limit \in Limits
  /\ files = [p \in Places |-> [f \in {} |-> 0]]
  /\ at = [c \in Calls |-> "idle"]
  /\ thread \in [Calls -> Threads]
  /\ source = [c \in Calls |-> << >>]
  /\ fmt = [c \in Calls |-> "csv"]
  /\ path = [c \in Calls |-> c]
  /\ taken = [c \in Calls |-> 0]
  /\ left = [c \in Calls |-> FALSE]
  /\ rows = [c \in Calls |-> 0]
  /\ truncated = [c \in Calls |-> FALSE]
  /\ update = [c \in Calls |-> FALSE]
  /\ reply = [c \in Calls |-> "none"]

Goto(c, from, to) ==
  /\ at[c] = from
  /\ at' = [at EXCEPT ![c] = to]

\* A definition Name_Fault is what a plausible bug would make of Name.  No
\* action uses it: each shows that some property notices the bug.

-----------------------------------------------------------------------------
(* Reading within a number of bytes *)

\* The sizes of the rows s as JSON, and as lines of CSV.
JsonSizes(s) == [i \in DOMAIN s |-> s[i].json]
CsvSizes(s) == [i \in DOMAIN s |-> s[i].csv]

Overruns_ByTotal(total, size) == limit # NoLimit /\ total > limit

\* The test before an item is kept.
Overruns(total, size) == limit # NoLimit /\ total + size > limit

Iteration_Skip(r, size) ==
  IF Overruns(r.total, size) THEN [r EXCEPT !.cut = TRUE]
  ELSE [r EXCEPT !.n = @ + 1, !.total = @ + size]

\* An iteration of a loop that reads items: the number n of items kept, their
\* total size, and whether the loop broke off.
Iteration(r, size) ==
  IF r.cut THEN r
  ELSE IF Overruns(r.total, size) THEN [r EXCEPT !.cut = TRUE]
  ELSE [r EXCEPT !.n = @ + 1, !.total = @ + size]

\* take_within_bytes, _collect_within_bytes and the loop of materialize_result
\* over items of these sizes when start bytes are used up: after i iterations.
Loop(sizes, start) ==
  LET after[i \in 0 .. Len(sizes)] ==
        IF i = 0 THEN [n |-> 0, total |-> start, cut |-> FALSE]
        ELSE Iteration(after[i - 1], sizes[i])
  IN  after

Reading(sizes, start) == Loop(sizes, start)[Len(sizes)]

-----------------------------------------------------------------------------
(* A call *)

Path_Fixed(c, name) == IF name = NoName THEN CHOOSE d \in Calls : TRUE ELSE name

\* A name that is given becomes a path from the root; one that is generated
\* has no slash in front, but no other call has it.
Path(c, name) == IF name = NoName THEN c ELSE name

Invoke(c, s, f, name) ==
  /\ Goto(c, "idle", "fetch")
  /\ source' = [source EXCEPT ![c] = s]
  /\ fmt' = [fmt EXCEPT ![c] = f]
  /\ path' = [path EXCEPT ![c] = Path(c, name)]
  /\ UNCHANGED <<config, files, thread, taken, left, rows, truncated, update, reply>>

\* aggregate of search: a name is generated for its file, if it has to be one.
InvokeAggregate(c, s) ==
  /\ dialect = "search"
  /\ Invoke(c, s, "json", NoName)

\* MongoDB and Neo4j read documents up to max_bytes of JSON before they write;
\* SQL streams the rows while they are written; search has all its hits.
Fetch(c) ==
  /\ Goto(c, "fetch", "serialize")
  /\ LET r == Reading(JsonSizes(source[c]), 0)
         documents == dialect = "documents"
     IN  /\ taken' = [taken EXCEPT ![c] = IF documents THEN r.n ELSE Len(source[c])]
         /\ left' = [left EXCEPT ![c] = documents /\ r.cut]
  /\ UNCHANGED <<config, files, call, rows, truncated, update, reply>>

Serialize_NoHeader(c) ==
  /\ Goto(c, "serialize", "write")
  /\ LET r == Reading(CsvSizes(SubSeq(source[c], 1, taken[c])), 0) IN
       /\ rows' = [rows EXCEPT ![c] = r.n]
       /\ truncated' = [truncated EXCEPT ![c] = r.cut]
  /\ UNCHANGED <<config, files, call, taken, left, update, reply>>

\* The header, then row by row.
Serialize(c) ==
  /\ fmt[c] # "json"
  /\ Goto(c, "serialize", "write")
  /\ LET r == Reading(CsvSizes(SubSeq(source[c], 1, taken[c])), Header) IN
       /\ rows' = [rows EXCEPT ![c] = r.n]
       /\ truncated' = [truncated EXCEPT ![c] = r.cut]
  /\ UNCHANGED <<config, files, call, taken, left, update, reply>>

\* The aggregation as one text, whatever its length.
SerializeAll(c) ==
  /\ fmt[c] = "json"
  /\ Goto(c, "serialize", "write")
  /\ rows' = [rows EXCEPT ![c] = taken[c]]
  /\ UNCHANGED <<config, files, call, taken, left, truncated, update, reply>>

\* An exception of materialize_result: the SQL tools call it inside their try.
Fails(c, from) ==
  /\ Goto(c, from, "done")
  /\ reply' = [reply EXCEPT ![c] = IF dialect = "sql" THEN "query_error" ELSE "raised"]
  /\ UNCHANGED <<config, files, call, taken, left, rows, truncated, update>>

\* fetchmany raises while the rows of a SQL query are streamed.
StreamFails(c) == dialect = "sql" /\ Fails(c, "serialize")

\* Where the files of call c are: those of a StateBackend are in the state of
\* the conversation.
Place(c) == IF backend = "external" THEN Shared ELSE thread[c]

Exists(c) == path[c] \in DOMAIN files[Place(c)]

\* The files fs, with file e at path f.
WithFile(fs, f, e) == [g \in DOMAIN fs \cup {f} |-> IF g = f THEN e ELSE fs[g]]

Store(c) ==
  files' = [files EXCEPT ![Place(c)] =
              WithFile(@, path[c], [by |-> c, rows |-> rows[c]])]

Upload_WithUpdate(c) ==
  /\ fmt[c] = "parquet"
  /\ Goto(c, "write", "charge")
  /\ Store(c)
  /\ update' = [update EXCEPT ![c] = (backend = "update")]
  /\ UNCHANGED <<config, call, taken, left, rows, truncated, reply>>

\* Parquet: upload_files stores the file at once, on any backend.
Upload(c) ==
  /\ fmt[c] = "parquet"
  /\ Goto(c, "write", "charge")
  /\ Store(c)
  /\ UNCHANGED <<config, call, taken, left, rows, truncated, update, reply>>

\* CSV, or an aggregation, on a backend that stores it at once.
WriteStored(c) ==
  /\ fmt[c] \in {"csv", "json"} /\ backend # "update"
  /\ overwrites \/ ~Exists(c)
  /\ Goto(c, "write", "charge")
  /\ Store(c)
  /\ UNCHANGED <<config, call, taken, left, rows, truncated, update, reply>>

\* The same on a backend that returns the files_update to apply.
WriteUpdate(c) ==
  /\ fmt[c] \in {"csv", "json"} /\ backend = "update"
  /\ overwrites \/ ~Exists(c)
  /\ Goto(c, "write", "charge")
  /\ update' = [update EXCEPT ![c] = TRUE]
  /\ UNCHANGED <<config, files, call, taken, left, rows, truncated, reply>>

\* OSError: the backend reports an error.  ValueError: an unknown format.
WriteFails(c) == fmt[c] # "json" /\ Fails(c, "write")

\* The backend reports an error for an aggregation: the reply shows the start.
OverflowFails(c) ==
  /\ fmt[c] = "json"
  /\ Goto(c, "write", "done")
  /\ reply' = [reply EXCEPT ![c] = "preview"]
  /\ UNCHANGED <<config, files, call, taken, left, rows, truncated, update>>

\* ImportError, which every tool raises: pandas is not installed.
PandasMissing(c) ==
  /\ fmt[c] = "parquet"
  /\ Goto(c, "write", "done")
  /\ reply' = [reply EXCEPT ![c] = "raised"]
  /\ UNCHANGED <<config, files, call, taken, left, rows, truncated, update>>

\* The SQL tools write while the connection is open: closing it can raise,
\* and then the file is there but not reported.
CloseFails(c) == dialect = "sql" /\ Fails(c, "charge")

Charge_NoFetchCut(c) ==
  /\ fmt[c] # "json"
  /\ \/ Goto(c, "charge", "reply") /\ UNCHANGED reply
     \/ /\ Goto(c, "charge", "done")
        /\ reply' = [reply EXCEPT ![c] = "budget_block"]
  /\ UNCHANGED <<config, files, call, taken, left, rows, truncated, update>>

Charge_AppliesUpdate(c) ==
  /\ fmt[c] # "json"
  /\ \/ Goto(c, "charge", "reply") /\ UNCHANGED <<files, reply>>
     \/ /\ Goto(c, "charge", "done")
        /\ reply' = [reply EXCEPT ![c] = "budget_block"]
        /\ IF update[c] THEN Store(c) ELSE UNCHANGED files
  /\ truncated' = [truncated EXCEPT ![c] = @ \/ left[c]]
  /\ UNCHANGED <<config, call, taken, left, rows, update>>

\* budget.charge(result.row_count), and before it, for MongoDB and Neo4j,
\* result.truncated or fetch_truncated.
Charge(c) ==
  /\ fmt[c] # "json"
  /\ \/ Goto(c, "charge", "reply") /\ UNCHANGED reply
     \/ /\ Goto(c, "charge", "done")
        /\ reply' = [reply EXCEPT ![c] = "budget_block"]
  /\ truncated' = [truncated EXCEPT ![c] = @ \/ left[c]]
  /\ UNCHANGED <<config, files, call, taken, left, rows, update>>

\* An aggregation is not charged.
Uncharged(c) ==
  /\ fmt[c] = "json"
  /\ Goto(c, "charge", "reply")
  /\ UNCHANGED <<config, files, call, taken, left, rows, truncated, update, reply>>

Reply_NoUpdate(c) ==
  /\ Goto(c, "reply", "done")
  /\ reply' = [reply EXCEPT ![c] = "saved"]
  /\ UNCHANGED <<config, files, call, taken, left, rows, truncated, update>>

\* write_command: the summary, and the update if there is one.  The states of
\* parallel calls are merged, and the update that comes last wins.
Reply(c) ==
  /\ Goto(c, "reply", "done")
  /\ reply' = [reply EXCEPT ![c] = "saved"]
  /\ IF update[c] THEN Store(c) ELSE UNCHANGED files
  /\ UNCHANGED <<config, call, taken, left, rows, truncated, update>>

-----------------------------------------------------------------------------

Step(c) ==
  \/ Fetch(c) \/ Serialize(c) \/ SerializeAll(c) \/ StreamFails(c)
  \/ Upload(c) \/ WriteStored(c) \/ WriteUpdate(c) \/ WriteFails(c)
  \/ OverflowFails(c) \/ PandasMissing(c) \/ CloseFails(c)
  \/ Charge(c) \/ Uncharged(c) \/ Reply(c)

Next == \E c \in Calls :
  \/ \E s \in Sources :
       \/ \E f \in Formats, name \in Names \cup {NoName} : Invoke(c, s, f, name)
       \/ InvokeAggregate(c, s)
  \/ Step(c)

Spec == Init /\ [][Next]_vars

-----------------------------------------------------------------------------
(* Properties *)

\* The bytes that are used up with the first k items.
Used(sizes, start) ==
  LET used[k \in 0 .. Len(sizes)] == IF k = 0 THEN start ELSE used[k - 1] + sizes[k]
  IN  used

\* How many items of these sizes fit: the longest prefix within the limit.
Fitting(sizes, start) ==
  Max({0} \cup {k \in 1 .. Len(sizes) :
                  limit = NoLimit \/ Used(sizes, start)[k] <= limit})

Smaller(a, b) == IF a < b THEN a ELSE b

\* A file has as many whole rows, from the first on, as fit in the limit, with
\* the header, and as JSON where documents are read first: no row is skipped,
\* none is left out that fits, and a file over the limit has no rows at all
\* (materialize_result: "only whole rows whose cumulative size stays below").
FileIsLongestPrefix ==
  \A p \in Places : \A f \in DOMAIN files[p] :
    LET c == files[p][f].by
        csv == Fitting(CsvSizes(source[c]), Header)
        json == Fitting(JsonSizes(source[c]), 0)
    IN  fmt[c] # "json" =>
          files[p][f].rows = IF dialect = "documents" THEN Smaller(json, csv) ELSE csv

Saved == {c \in Calls : reply[c] = "saved"}

\* The summary warns of an incomplete file if and only if rows of the result
\* are missing, whichever of the two readings dropped them (to_summary).
TruncationIsTold ==
  \A c \in Saved : truncated[c] <=> rows[c] < Len(source[c])

\* A file that a reply reports is where the agent looks for it, in the same
\* conversation, and has the rows that the reply tells of, unless another call
\* was given the same name.  The update of a call that the budget blocked
\* replaces nothing: where there are updates, that call has reported its file.
FileHoldsReport ==
  \A c \in Saved :
    /\ Exists(c)
    /\ LET f == files[Place(c)][path[c]] IN
         \/ f = [by |-> c, rows |-> rows[c]]
         \/ /\ f.by # c
            /\ path[c] \in Names
            /\ fmt[f.by] = "csv" /\ backend = "update" => f.by \in Saved

-----------------------------------------------------------------------------
(* Why the properties hold: an inductive invariant *)

\* A result is one of the sources, or empty before there is one.
SourceInv ==
  /\ source \in [Calls -> Sources \cup {<< >>}]
  /\ taken \in [Calls -> Nat] /\ rows \in [Calls -> Nat]
  /\ DOMAIN files = Places

\* What the database was read for, where documents are read before the file is
\* written, and elsewhere.
Read(c) ==
  IF dialect = "documents" THEN Fitting(JsonSizes(source[c]), 0) ELSE Len(source[c])

\* The rows that a file of call c should have.
Wanted(c) ==
  IF fmt[c] = "json" THEN Len(source[c])
  ELSE Smaller(Read(c), Fitting(CsvSizes(source[c]), Header))

\* How far a call is determines how many rows it has, and what it knows of the
\* missing ones: from the charge on, whether there are any at all.
RowsOf(c) ==
  /\ at[c] \in {"idle", "fetch"} => taken[c] = 0 /\ rows[c] = 0 /\ ~left[c]
  /\ at[c] \in {"idle", "fetch", "serialize"} => rows[c] = 0 /\ ~truncated[c]
  /\ at[c] \in {"serialize", "write", "charge", "reply"} =>
       taken[c] = Read(c) /\ (left[c] <=> taken[c] < Len(source[c]))
  /\ at[c] \in {"write", "charge", "reply"} => rows[c] = Wanted(c)
  /\ at[c] \in {"write", "charge"} => (truncated[c] <=> rows[c] < taken[c])
  /\ at[c] = "reply" \/ reply[c] = "saved" =>
       (truncated[c] <=> rows[c] < Len(source[c]))
  /\ fmt[c] = "json" => dialect = "search"
  /\ reply[c] # "none" => at[c] = "done"

RowsInv == \A c \in Calls : RowsOf(c)

\* A file is where the call that wrote it put it, with the rows of that call.
\* One whose text the backend handed back is stored by the reply.
FileOf(p, f, e) ==
  /\ e \in File
  /\ p = Place(e.by) /\ f = path[e.by]
  /\ at[e.by] \in {"charge", "reply", "done"}
  /\ e.rows = rows[e.by] /\ rows[e.by] = Wanted(e.by)
  /\ fmt[e.by] \in {"csv", "json"} /\ backend = "update" => reply[e.by] = "saved"

FilesInv == \A p \in Places : \A f \in DOMAIN files[p] : FileOf(p, f, files[p][f])

\* A call that goes on after its write has stored its file, or has the update
\* that will.  A path is given by the agent or belongs to one call.
StoredOf(c) ==
  /\ path[c] \in Names \cup {c}
  /\ update[c] => at[c] \in {"charge", "reply", "done"}
  /\ at[c] \in {"charge", "reply"} /\ ~update[c] => Exists(c)
  /\ reply[c] = "saved" => Exists(c)

StoredInv == \A c \in Calls : StoredOf(c)

MaterializeInv == TypeOK /\ SourceInv /\ RowsInv /\ FilesInv /\ StoredInv

=============================================================================
