# deep-db-agents: a verification project

`deep-db-agents` builds LangChain "deep agents" that explore a database through
a small set of tools. What makes it more than glue code is what the tools
enforce while a language model drives them, several calls at a time, from
worker threads: row budgets, row estimates, timeouts, connections that are
always closed, driver clients and databases that are shared, files that are
bounded, budgets that outlive a conversation. This
directory models those parts in TLA+, checks them with TLC on small instances,
and proves the most important facts with TLAPS for every instance.

Paths below are relative to the repository; `deep_db_agents/` is
`src/deep_db_agents/` in it.

## 1. Inventory

| Component | State it keeps | Operations | Interacts with |
|---|---|---|---|
| `guardrails.py` | per agent: `budget`, `consumed` | `clamp_limit`, `check_estimate`, `charge` | metrics (calls), all tools (callers, in parallel) |
| `observability.py` | four counters, one lock | `record_query`, `record_budget_exhausted`, `record_estimate_blocked`, `summary` | guardrails of one or several agents |
| `pooling.py` | `_client`, one lock | `get(factory)`, `close` | tools of the MongoDB, Neo4j and search dialects |
| `dialects/sql_base.py` | per call: connection, cursor, exception in flight | six tools, `_cursor`, `_watchdog` | driver, guardrails, workspace, query_errors |
| `sqlite`, `duckdb` | per call: timer thread; DuckDB: cached data-lake connection, its folder, one lock | `_connect`, `_estimate_rows`, `_interrupt_target` | sql_base |
| `mysql`, `mariadb`, `postgres` | none | `_connect`, `_apply_timeout`, `_estimate_rows` | sql_base |
| `search_base.py`, `elasticsearch`, `opensearch` | shared client | eight tools | pooling, guardrails, workspace |
| `mongodb`, `neo4j` | shared client, or driver | seven and six tools | pooling, guardrails, workspace |
| `workspace.py` | the file being built; the files live in the backend | `materialize_result`, `take_within_bytes`, `write_command` | filesystem backend, tools |
| `query_errors.py` | none | one formatter per kind of failure, `setup_failures` | tools |
| `factory.py`, `base.py` | agents, each with a dialect, a budget and tools; teams | `create_deep_db_agents`, `create_db_agents`, `create_deep_db_multi_agents` | deepagents (external), conversations |
| `registry.py`, `connection.py`, `url.py`, `exceptions.py`, `tabular.py`, prompts | a dictionary of classes | look-up, parsing, flattening | start-up and data conversion only |

What is hard here, and what makes each part correct:

* **Concurrency.** LangGraph runs the tool calls of one model turn in parallel
  threads, and agents may share a `SessionMetrics`. `SessionMetrics` and
  `LazyClient` have a lock; `SessionBudget` has none. Correct means: no row
  beyond the budget, no result withheld within it, counters that add up, one
  client at a time, no client lost or closed twice.
* **Failure.** Every step of a tool can raise, the clean-up too, and the
  clean-up can replace the exception in flight. Correct means: the connection
  is closed, the agent gets exactly one reply, and the reply does not say the
  contrary of what happened.
* **Timeouts.** For SQLite and DuckDB the timeout is a timer thread that calls
  `interrupt()`. It races with the end of the statement and with other calls,
  and it fires once. Correct means: the overrun is stopped, and nothing else.
* **Ordering.** Metrics are recorded before the budget is compared, and a file
  is written before its rows are charged. Correct means: whatever the verdict,
  reply, metrics and file agree.
* **Lifetimes.** A budget, a lake or a client belongs to the agent; a
  conversation, a page or a file name to its user. Correct means: two
  conversations share the budget and nothing else, a cached lake is whole and of
  the folder that the caller resolved, a file that was reported is still there,
  and the pages of a result add up to the result.
* **Limits.** Rows are cut at byte limits, once or twice, and at page sizes that are
  clamped. Correct means: the longest prefix that fits, and the agent is told
  what is missing.

The complete list of hazards, each at its line, with the properties that watch
it, is in `PROJECT.json`.

## 2. Modules

```
 RowTotals          totals of rows over sets of calls, without recursion
   |
 RowBudget          ABSTRACT: a ledger of rows per agent
   |
 SessionMetrics     counters and their lock
   |
 Guardrails         check_estimate and charge       GuardrailsProofs
   |
 SqlTools           the six SQL tools, _cursor, except ladders, composed with Guardrails
                                                    SqlToolsProofs

 Watchdog           the timers of SQLite and DuckDB WatchdogProofs

 ClientCell         ABSTRACT: a cell with at most one client
   |
 LazyClient         get and close                   LazyClientProofs

 RowBudget + ClientCell
   |
 ClientTools        the tools of search, MongoDB and Neo4j, over the two abstract components
                                                    ClientToolsProofs

 DataLake           the connections of DuckDB: files, and the cached lake
                                                    DataLakeProofs
 Materialize        the files of the materialize tools, and their limits
                                                    MaterializeProofs
 Sessions           agents, teams, conversations, and the pages of run_query
                                                    SessionsProofs
```

Each module with behaviour has an `MC` module (`MCGuardrails`, `MCSqlTools`, ...) that names
the model values for TLC. A definition called `Name_Fault` is what a plausible bug would
make of `Name`. No action uses it; `PROJECT.json` pairs each property with the
fault that it notices.

### SessionMetrics and Guardrails

`consumed`, `budget` and `counters` are the fields of the classes; `pc[c]` says
where the thread of tool call `c` is inside `check_estimate` or `charge`. An
agent has one `SessionBudget` (`build_tools` creates it) and all agents share
one `SessionMetrics`, as the orchestrator sets it up; `hasMetrics` lets an
agent have none. A `record_*` method is two steps, `Enter` (take the lock, read)
and `Record...` (write, release), so that a missing lock would show.

`self.consumed += rows` is one action, `Add`, on a build with the global
interpreter lock: CPython switches threads at calls and at backward jumps,
and there is neither between the read and the write. On a free-threaded build
(`build = "free"`) it is two, `AddRead` and `AddStore`. The comparison on the
next line reads `self.consumed` again and is a step of its own on both.

| Property | What it says of the code |
|---|---|
| `BudgetRespected` | the rows returned to an agent are within `row_budget`, on a build where the addition is one step |
| `WithheldOnlyOverBudget` | a result is withheld only if the rows charged are more than the budget, on every build |
| `MetricsExact` | the counters equal what happened, at every step |
| `ExhaustionIsFinal` | (action property) once over its budget, an agent gets no more rows |
| `EveryCallDecided` | (liveness) `charge` and `check_estimate` always come to an end |
| `Ledger` | Guardrails implements `RowBudget` |

`RowBudget` is what an agent may count on whatever the mechanism: rows are
entered in a ledger, and the verdict is a function of the ledger. Its
refinement mapping takes as ledger the calls that are past their addition.

### SqlTools

One call is one invocation of one tool. `at[c]` walks through validation,
`_connect`, `cursor()`, `_apply_timeout`, the estimate, `execute`, the fetch or
the file, `cur.close()`, `connection.close()`, the `except` ladder, `charge`
and the reply. At each of these the driver may raise; `exc[c]` is the exception
in flight, and `CloseConnection` may replace it. `Handler` is the ladder. The
module instantiates `Guardrails`, whose steps are its own (`GuardrailStep`), so
two calls race inside `charge` while others are anywhere else.

| Property | What it says of the code |
|---|---|
| `NoConnectionLeak` | no call has replied while its connection is open |
| `ShownWithinBudget` | the rows in all the replies to an agent are within its budget |
| `StoppedBeforeRunning` | a setup error or an estimate block is reported only if the statement did not run |
| `MetricsMatchReplies` | at rest, the metrics equal what the replies said |
| `HungCallsBlockNoOther` | (liveness) a call that is back from the driver goes on, though all others hang in theirs for ever |

That every call gets its reply is not among them: `Watchdog` shows that it is not so.

### Watchdog

Two threads per call: the tool and its `threading.Timer`. Time is a counter per
call, and a `Tick` may come at any moment at which a call is under way: threads may be late,
so the timer of a call may fire before its first statement, between two of them or after the
last. Then it stops nothing, and is spent. A statement
never has to end by itself; that is the point of the timeout. `Target` is
`_interrupt_target`.

| Property | What it says of the code |
|---|---|
| `NoEarlyInterrupt` | no statement is interrupted before the timeout of its own call, so no timer hits another call |
| `WatchedStatementEnds` | (liveness) a statement that runs under an armed timer ends, on a database that never answers |

"Under an armed timer" is all that the code gives. A statement runs without one after an
estimate that was interrupted (`watchdog_hang`), and also when the timer fired between
`timer.start()` and `cur.execute`, which takes a thread that is held up for `query_timeout_s`.

### LazyClient and ClientCell

A call is one `get` and the use of its result, or one `close`. `get` reads
`_client` three times: unlocked, under the lock, and unlocked again to return
it. `close` swaps under the lock and closes outside. A client is named by the
call that built it, and `raced` remembers that a client was taken out since a
`get` began.

| Property | What it says of the code |
|---|---|
| `NoClientLeak` | every open client is cached or about to be closed |
| `ClosedOnce` | no two closes hold the same client, nor one that `get` can return |
| `GetIsUsable` | what `get` returned is open and shared, unless a close intervened |
| `EveryCallEnds` | (liveness) no call waits for ever, also when a build fails |
| `Cell` | LazyClient implements `ClientCell`, a cell with at most one client |

### ClientTools

The tools of the dialects that share a client, for one dialect at a time, with
the application closing the dialect under them. They use `Guardrails` and
`LazyClient`, but the module is composed with what those are proved to
implement, `RowBudget` and `ClientCell` (theorems `GuardrailsKeepTheLedger` and
`LazyClientIsACell`): the steps inside a lock would multiply the states and
change nothing that a tool can see. Metrics are not repeated here.

Tools that behave alike are one tool of the model (the comment of `Tools` says
which). `at[c]` walks through validation, the client, the requests, the
estimate, the file, the charge and the reply. What differs between the dialects
is a condition in the action: Neo4j gets the driver and opens a session for each
request, the others hold the client; Neo4j reads one record more to know whether
there are more, the others take a full page for it; the search dialects cap a
file by `hard_max_rows`, the others by bytes; MongoDB may have no database name.

| Property | What it says of the code |
|---|---|
| `LedgerMatchesReplies` | at rest, the ledger holds the rows of the extractions that came to their end, and no others |
| `NothingLeftUnsaid` | a page says that there are more if there are, a MongoDB or Neo4j file that it is incomplete |
| `NoSessionLeak` | no Neo4j session outlives its request, whatever fails |
| `BlockedBeforeRunning` | what the estimate blocked, or no backend could store, did not run |
| `ShownWithinBudget` | the rows that an agent was shown or told of, by any tools in parallel, are within its budget |

### DataLake

One call is one connection and one statement. `_connect` is `Connect` (is the
path a folder?), `Resolve` (which one?), then either `ConnectFile` or, under the
lock, `Enter`, `ConnectLake`, one `RegisterView` per file, `Publish` and
`GetCursor`; any step of the build may raise (`BuildFails`). `found` is what the glob found and
`todo` what of it has no view yet; `Rank` is the order of `sorted()`, in which the files are taken. The path is resolved
twice, and each time against the working directory of that moment, which
`ChangeDir` may have changed; `ChangeFile` adds and removes files under the glob, the build
and the queries. A lake is named by the call that built it, so a
cursor on a lake that has been replaced is told from one on the cached lake.

| Property | What it says of the code |
|---|---|
| `CachedLakeIsWhole` | the cached lake is open, is of the cached folder, and has the view of every file the glob found; of two files with one view name the later in sort order has it |
| `CursorOfItsFolder` | a call reads the folder that its own path resolved to, whatever others rebuilt meanwhile |
| `BuiltOncePerFolder` | (action property) a cached lake is replaced only by that of another folder |
| `EveryCallReplies` | (liveness) a build that fails under the lock makes no other call wait for ever |

What the module shows and no property forbids: the lake is a snapshot, so a
file that vanished later is a query error (`Query`) and one that appeared is not
there, as a comment in the code says; a path that ends with a slash and
does not exist is an empty lake and no error, and so is a folder that stopped
being the one looked up between the two resolutions.

### Materialize

It starts where the database has answered. A row is its size as JSON and as a line of CSV.
`Fetch` is what each dialect reads (MongoDB and Neo4j within `max_bytes` of
JSON, the search dialects one response, SQL a stream), `Serialize` the loop of `materialize_result`
within `max_bytes` of CSV. `Reading` is the loop itself, as it is written in three
places of the code: `Loop` has its variables after each `Iteration`. `Fitting` is the reference
it is compared with, the longest prefix whose total (`Used`) fits. The backend is one of three kinds: it keeps the files itself and conversations share them;
or the files are in the state of the conversation, and the write applies the update itself, or
returns it for the reply (`write_command`) to apply. An existing file is replaced or is an error, as
the backend has it. The verdict of `charge` is a free choice.

| Property | What it says of the code |
|---|---|
| `FileIsLongestPrefix` | a file has as many whole rows, from the first on, as fit with the header, and fit as JSON for MongoDB and Neo4j: none skipped, none left out |
| `TruncationIsTold` | the summary calls a file incomplete if and only if rows are missing, whichever of the two readings dropped them |
| `FileHoldsReport` | a reported file is where the conversation finds it and has the rows that were reported, unless another call was given its name; an update of a blocked call replaces nothing |

"Rows" here are those of the response: that the search dialects ask for no more than
`hard_max_rows` is `FilesAreComplete` in `ClientTools`. `materialize_result` says that a
file is "never larger than `max_bytes`"; it is not so for a limit below the
size of the header, which is written anyway (`Limits` has 0), and `FileIsLongestPrefix` is
what holds instead. A blocked call may have replaced a reported file on a backend that stores at once:
the file is written before the charge.

### Sessions

An agent or a team is named by the call of the factory that makes it. A conversation (`thread_id`)
is with an agent or with an orchestrator, which passes questions on to the agents of its team; an
agent may be in several teams and be asked directly. Each conversation reads
results of `run_query` page by page, as the replies tell it to. A call is one
step here, since its interleavings are in `SqlTools` and `Guardrails`.

| Property | What it says of the code |
|---|---|
| `BudgetOfTheAgent` | over all conversations, direct and through orchestrators, an agent shows no more rows than its budget, and withholds only if the rows fetched for it are more |
| `PagesCoverTheResult` | who follows the replies from page 0, with sizes to the same effect, sees each row once and in order, and all of them at the end, whatever that size is; at most one page announced is empty |

`BudgetOfTheAgent` states what the code does: a budget per agent, for all of its conversations
(`StartSession` leaves `consumed` alone). The texts for the agent have it otherwise, and advise to
start a new session when the budget is exhausted; that is `NewSessionResetsBudget`, which the run
`sessions_reset` refutes. Only a new agent has a new budget.

The reply announces the next page and says which `page_size` was applied, which may be less than
the one asked for; the hint does not say that the size must be repeated. `NextPage` repeats either size,
or leaves it out, and then `default_rows` applies. Between the two sizes that the agent knows the
pages are the same. One that leaves the size out, after a first page of another size, skips rows
or sees them twice: the field `steady` tells these readings from the others, and the property
promises them only the bound on empty pages.

## 3. Runs

| Run | Instance | Result |
|---|---|---|
| `guardrails` | 3 calls, 2 agents, rows 0..2, budget 2 or none, both builds | holds |
| `sql_tools` | 2 calls of one agent, rows 0..1, budget 1, estimates below and above the threshold | holds |
| `watchdog` | 2 calls, timeout of 2 ticks | holds |
| `lazy_client` | 4 calls, every mix of get and close | holds |
| `client_tools` | 2 calls of one agent, one close, page sizes 0..3 with `hard_max_rows` 2 and `default_rows` 1, budget 2, each of the three kinds of dialects | holds |
| `data_lake` | 2 calls, 2 places that are folders or not, 3 files of which two share a view name, 2 changes of files or directory, each kind of URL | holds |
| `materialize` | 2 calls in 1 or 2 conversations, 1 given name or none, results of 0, 2 and 3 rows, header of size 1, limits 0, 5 and none, each kind of dialect, backend and format | holds |
| `sessions` | 2 agents, 1 orchestrator, 2 conversations of one reading each, a result of 4 rows, page sizes 0, 1 and 5 with `default_rows` 3 and `hard_max_rows` 2, first page -1, 0 or 1, budget 5 or none | holds |
| `sql_error` | as `sql_tools` | `ErrorMeansNotRun` is violated |
| `watchdog_hang` | as `watchdog` | `InterruptedCallReplies` is violated |
| `client_tools_cut` | as `client_tools` | `FilesAreComplete` is violated |
| `sessions_reset` | as `sessions` | `NewSessionResetsBudget` is violated |

The bounds are the smallest at which every case happens. `guardrails`: two calls of one
agent overrun the budget only together, a third call of another agent contends
for the metrics lock. `sql_tools`: two calls suffice for every race on budget
and metrics, and all failures are failures of one call. `watchdog`: the timer
of one call and the statement of the other; two ticks tell "before", "at" and
"after". `lazy_client`: four calls allow two racing builds with two racing
closes. `client_tools`: page sizes below, at and above the limit, and an absent
one; two calls that fit the budget singly and exceed it together; a close before,
between and after the requests of a call. `data_lake`: one call builds while the other waits, uses
an older lake or needs another folder; two changes put one of them between any two steps of each
of two calls, or take a file away and bring it back. `materialize`: sizes such that a row fits or not by one, as JSON
and not as CSV and the other way round; two calls for every clash of names, in one
conversation and in two. The threads are symmetric. `sessions`: the default above the hard
limit, a size above it and one that divides the result; a result of two full
pages, so that an empty third is announced; a size whose pages differ from those of the default;
two readings that exceed the budget only together.

Deadlock is not checked, in any run: every call ends, and when all have ended the
system stops. The liveness properties say where it may not stop earlier.

**Fairness.** Weak fairness of every step of a call that has begun: the
operating system schedules its threads, and each takes a lock a bounded number
of times. Beginning a call is never fair. Nothing is assumed of the driver in `SqlTools`, where only
the steps of the interpreter are fair (`LocalStep`), nor in `Watchdog`, except that an
interrupted statement returns; there, time passes. In `DataLake` the driver answers also
while the lake is built, which the watchdog does not cover: nothing bounds that
wait in the code, and the lock makes the other calls share it. In `LazyClient` the
factory returns or raises (the drivers connect lazily, on the first request).
`ClientTools` has no liveness property: with its shared components abstract no
call can wait for another, and that they never make one wait for ever is
`EveryCallEnds` and `EveryCallDecided`.

### What the violations show

* `ErrorMeansNotRun`: "was NOT executed by the database" is also said of a
  statement that was executed, when the fetch, the file or the close failed.
* `InterruptedCallReplies`: the interrupt is spent on the estimate, which swallows
  it, and the query that follows is not watched.
* `FilesAreComplete`: `materialize_query` of the search dialects leaves out what is
  beyond `hard_max_rows` and does not say so.
* `NewSessionResetsBudget`: a conversation that is started because another one was told
  to start it is withheld its first page at once.

Five more divergences show in the models and have no run of their own:

* Thresholds "that cannot be bypassed" hold with the interpreter lock only. On a free-threaded
  build (`build = "free"`) `AddRead` and `AddStore` of two calls lose an update and both
  results are returned; this is why `BudgetRespected` is conditional and `Ledger` is not. The class
  beside it, `SessionMetrics`, has a lock.
* `rows_returned` counts rows that were then withheld: `MetricsExact` counts the calls
  that `record_query` has seen, returned or not.
* `LazyClient.get` can return `None`, when `close` intervenes before its last read:
  `GetIsUsable` excepts the calls that a close has raced.
* `count_documents` of MongoDB, given its filter as a dict, raises when it should report a
  failure of the driver (`mongodb/dialect.py:177`; `Handler` in `ClientTools`). One failing call
  shows it.
* A timer that fires before its statement leaves it without a timeout: see `Watchdog` above.

## 4. Proofs

All theorems hold for every value of the constants that the named assumptions of the
modules allow. Each model with theorems has an inductive invariant, `Guardrails` and `Sessions` two. `Init`
implies it, every step preserves it (one step of the proof per action), and the properties follow
from it. It is a definition of the model, so that TLC can check it too. Every
safety property and action property that a run checks is proved, and so are both refinements.

`GuardrailsProofs` proves, for any finite set of calls, any agents, budgets and row
counts, under `GuardrailsAssumption` and `NoCallAssumption` only:
`TypeCorrect`, `BudgetIsRespected`, `NeverTooStrict`, `NoRowsAfterExhaustion`, `MetricsAreExact` and
`GuardrailsKeepTheLedger` (`Spec => Ledger`). It begins with the facts about totals that all
proofs about rows use: they are naturals, they grow with the set, adding a call adds its rows;
they follow from the library's theorems on finite sets. `BudgetRespected` is not inductive:
it says nothing of `consumed`, which is all that `Check` looks at. `BudgetInv` adds `ConsumedIsEntered`: `consumed` never runs ahead of the
total of the rows entered, nor does a value loaded before a split addition, and on
a build with one-step additions it is that total. Then `Check` returns a
result only if the total of *all* entered rows, of which the returned ones are a
part, is within the budget; and it withholds only if the total is above it.
`PastTheGate` supplies that only limited agents get there. The refinement needs
the same invariant: `Check` decides by `consumed` and the ledger by the total, and
`ConsumedIsEntered` says how far apart they can be. `MetricsExact` needs `MetricsInv`: the lock is held by
exactly the call between `Enter` and its record, and what that call has read is what the
counters still are, so that its write loses nothing.

`SqlToolsProofs` proves, under `SqlToolsAssumption`, `TypeCorrect`, `ConnectionsAreClosed`,
`StoppedCorrect`, `ShownCorrect`, `MetricsCorrect` and the refinement on which the last two
rest: `ToolsUseGuardrails` (`Spec => G!Spec`). `G` is `Guardrails` over the variables of the tools, with 0
among the estimates, because a tool that does not extract asks for none. Each step
of a tool is one step of `Guardrails` or none, so the theorems of `GuardrailsProofs` are cited for the
tools as they are, `Ledger` among them (`ToolsKeepTheLedger`). `ToolsInv` links the two halves: where a call is in
its tool says where it is in `charge`, and a result that is shown is one that
`charge` let through. `ShownWithinBudget` is about builds with the interpreter lock, as
`BudgetRespected` is.

`ClientToolsProofs` proves, under `ClientToolsAssumption`, `TypeCorrect`, `SessionsAreClosed`,
`BlocksComeFirst`, `HintsAreGiven`, `LedgerCorrect`, and that the tools use the two abstract components as
these promise: `Spec => RB!Spec` and `Spec => CC!Spec`. `ClientToolsInv` follows a call: which tools
may be at which step (`FlowInv`), that nothing ran before the request (`RanInv`), that a hint is decided
with the rows (`SaidInv`), and that the ledger has exactly the extractions past their charge
(`EnteredInv`, `ReturnedInv`), from which `ShownCorrect` follows: the rows an agent is shown stay
within its budget.

`WatchdogProofs` proves, for any calls and timeout, `TypeCorrect` and `InterruptsOnTime`. `WatchInv`
adds `WokenOnTime`: a timer that has woken did so when the time of its call had passed, and the
clock of a call does not go back while it is under way.

`DataLakeProofs` proves, for any folders, files, view names and calls, under `DataLakeAssumption`:
`TypeCorrect`, `CacheCorrect`, `CursorCorrect` and `BuiltOnce`. `LakeInv` adds what the holder of the lock
has done so far: the lake it builds is open, and its views are those of the files before
`todo` in the order of `sorted()` (`BuildInv`); a lake is cached, or has a cursor, only after its
build (`PublishedInv`), and does not change from then on.

`MaterializeProofs` proves, for any results, sizes of rows, header and limits, and for any
calls, conversations, names and backends, under `MaterializeAssumption`: `TypeCorrect`,
`FilesAreLongestPrefixes`, `TruncationIsReported` and `FilesHoldReports`. Its first half is about data: a
set of naturals with 0 and the successor of each member has them all (`Induction`, from the
well-foundedness of `<`), so a recursive function is defined (`Recursion`) and what it
computes can be proved step by step. `LoopKeepsPrefix` is the invariant of the loop;
`ReadingIsFitting` says that the loop keeps the longest prefix that fits and breaks off exactly if there
is more; `FittingOfPrefix` that reading twice, as JSON and then as CSV, keeps the
shorter of the two prefixes. The second half carries that to the files: `RowsInv` says how
many rows a call has at each step and what it knows of the missing ones, `FilesInv`
that a file is where the call that wrote it put it and has the rows of that call, `StoredInv` that a call past its
write has its file or the update that will store it.

`LazyClientProofs` proves, for any set of calls, under `LazyClientAssumption`:
`ClientInv` is invariant, hence `TypeOK`, `NoClientLeak`, `ClosedOnce` and `GetIsUsable`,
and `Spec => Cell`, the refinement of `ClientCell`. What `ClientInv` adds is
`Places`: a call that is about to build has found the cell empty and it still is,
because the lock is held; a call that is past its checks finds it full unless a
close intervened; a cached client is open.

`SessionsProofs` proves, for any agents, orchestrators and conversations, limits, page
sizes and sizes of the result, under `SessionsAssumption`: `TypesAreRight`,
`OneBudgetPerAgent` and `PagesMissNothing`. For the budget the invariant, `BudgetInv`, adds
that a limited agent is charged exactly what is fetched for it, which holds across the reset in
`CreateAgent` because only agents that are built are asked (`BuiltOnly`). For the pages it is
`PagesInv`: while more rows are announced, the last page was full, and a steady reading has
seen the rows up to its end. A page begins where the one before it ended
(`NextOffset`), also when the agent repeats the limit applied instead of the size it
asked for, because `clamp_limit` leaves its own results alone (`ClampProperties`).

Only model-checked are the liveness properties, because fairness and `ENABLED` are beyond the prover:
`EveryCallDecided`, `HungCallsBlockNoOther`, `EveryCallReplies` (of `DataLake`), `WatchedStatementEnds`
and `EveryCallEnds`. The four violations are counterexamples of TLC.

## 5. Not modelled

Text: SQL keyword scanning, JSON parsing, redaction, messages, prompts. Pure
conversions (`tabular.py`, `url.py`), the registry, and deepagents itself.
Data: rows are counted, not looked at. `summary()` reads counters without the
lock and may print a mixture of two moments; it changes nothing. Two
parallel calls of `SqlTools` and `ClientTools` belong to one agent there; several
agents are in `Guardrails` and `Sessions`. Offsets are in `Sessions`, for `run_query` of SQL; in
`ClientTools` a page is a number of rows and whether more are left. Data that changes between
an estimate, a query and the next page: the code promises nothing about it. A file name is
given or generated: that a given one becomes absolute and a generated one does not (`workspace.py:195`) is
left out, since both are looked up as they were reported.

## 6. Plan

The modules of the plan are written, and every safety property that a run checks is
proved. What is left:

1. That the answers of `ClientTools` and `SqlTools` about files are those of `Materialize`: there a write is one
   step that succeeds or fails, here it is the whole call. A refinement would need a module
   that composes them.
2. That the conversations of `Sessions` see the ledger of `RowBudget`: `Sessions` takes a call as one step.
