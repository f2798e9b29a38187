------------------------------ MODULE DataLake ------------------------------
(***************************************************************************)
(* The connections of the DuckDB dialect (duckdb/dialect.py, tools.py).    *)
(* Each tool call connects: to a file, opened for this call alone, or to   *)
(* the data lake, an in-memory database with one view per data file of a   *)
(* folder, which the dialect builds under a lock, caches, and of which     *)
(* each call gets a cursor.                                                *)
(*                                                                         *)
(* The path of the URL is resolved in every call, against the working      *)
(* directory of the process: another thread may change it at any time, and *)
(* files come and go while the lake is built and while it is used.         *)
(*                                                                         *)
(* The database of a lake is named by the call that built it.              *)
(***************************************************************************)
EXTENDS Integers

CONSTANTS
  Calls,       \* the tool calls of one agent, each in a thread
  NoCall,      \* None, and the owner of a free lock
  Places,      \* what the path can resolve to
  NoPlace,     \* _datalake_folder before the first build
  Files,       \* the names of data files with a known extension
  Rank,        \* Rank[f]: the place of f in the order of sorted()
  ViewName,    \* ViewName[f]: _sanitize_view_name of f without its extension
  Contents,    \* what a folder can hold at first
  Urls,        \* the kinds of URL, a subset of UrlKinds
  MaxChanges   \* bound on the changes of the working directory and the files

UrlKinds == {"folder",   \* ends with a slash
             "plain",    \* does not: a file, or a folder when there is one
             "memory"}   \* :memory:, or no path

ASSUME DataLakeAssumption ==
  /\ NoCall \notin Calls
  /\ NoPlace \notin Places
  /\ ViewName \in [Files -> STRING]
  /\ Rank \in [Files -> Nat]
  /\ \A f, g \in Files : Rank[f] = Rank[g] => f = g
  /\ Contents \subseteq SUBSET Files
  /\ Urls \subseteq UrlKinds
  /\ MaxChanges \in Nat

VARIABLES
  url,       \* the kind of the URL of the agent
  dirs,      \* the places that are folders
  cwd,       \* what the path resolves to now
  files,     \* files[p]: the data files in folder p
  changes,   \* the changes so far of cwd and files
  con,       \* _datalake_con: the call that built it, or NoCall
  folder,    \* _datalake_folder
  lock,      \* the call that holds _datalake_lock, or NoCall
  open,      \* the databases of lakes that are open
  at,        \* at[c]: where call c is
  asked,     \* asked[c]: the folder that it resolved
  found,     \* found[c]: the files its glob found
  todo,      \* todo[c]: those that it has not registered yet
  views,     \* views[c]: the views it registered, each with its file
  lake,      \* lake[c]: the database that its cursor is on, or NoCall
  reply      \* reply[c]: what the agent is told

world == <<url, dirs, cwd, files, changes>>
vars == <<world, con, folder, lock, open, at, asked, found, todo, views, lake, reply>>

\* No views.
Nothing == [v \in {} |-> NoPlace]

UnderLock == {"connect", "register", "cursor"}

\* The names of the views of the files s.
Names(s) == {ViewName[f] : f \in s}

TypeOK ==
  /\ url \in Urls
  /\ dirs \subseteq Places
  /\ cwd \in Places
  /\ files \in [Places -> SUBSET Files]
  /\ changes \in 0 .. MaxChanges
  /\ con \in Calls \cup {NoCall}
  /\ folder \in Places \cup {NoPlace}
  /\ lock \in Calls \cup {NoCall}
  /\ open \subseteq Calls
  /\ at \in [Calls -> UnderLock \cup {"idle", "resolve", "enter", "file",
                                      "using", "closing", "done"}]
  /\ asked \in [Calls -> Places \cup {NoPlace}]
  /\ found \in [Calls -> SUBSET Files]
  /\ todo \in [Calls -> SUBSET Files]
  /\ views = [c \in Calls |-> views[c]]
  /\ \A c \in Calls : /\ todo[c] \subseteq found[c]
                       /\ \E s \in SUBSET Names(found[c]) : views[c] \in [s -> found[c]]
  /\ lake \in [Calls -> Calls \cup {NoCall}]
  /\ reply \in [Calls -> {"none", "result", "query_error", "failed"}]
  /\ \A c \in Calls : lock = c <=> at[c] \in UnderLock

Init ==
  /\ url \in Urls
  /\ dirs \in SUBSET Places
  /\ cwd \in Places
  /\ files \in [Places -> Contents]
  /\ changes = 0
  /\ con = NoCall
  /\ folder = NoPlace
  /\ lock = NoCall
  /\ open = {}
  /\ at = [c \in Calls |-> "idle"]
  /\ asked = [c \in Calls |-> NoPlace]
  /\ found = [c \in Calls |-> {}]
  /\ todo = [c \in Calls |-> {}]
  /\ views = [c \in Calls |-> Nothing]
  /\ lake = [c \in Calls |-> NoCall]
  /\ reply = [c \in Calls |-> "none"]

Goto(c, from, to) ==
  /\ at[c] = from
  /\ at' = [at EXCEPT ![c] = to]

\* A definition Name_Fault is what a plausible bug would make of Name.  No
\* action uses it: each shows that some property notices the bug.

-----------------------------------------------------------------------------
(* The path *)

\* is_directory: a slash at the end is enough, whether the folder exists or
\* not; without it the path is resolved, and looked up.
IsDirectory ==
  \/ url = "folder"
  \/ url = "plain" /\ cwd \in dirs

Connect(c) ==
  /\ Goto(c, "idle", IF IsDirectory THEN "resolve" ELSE "file")
  /\ UNCHANGED <<world, con, folder, lock, open, asked, found, todo, views, lake,
                 reply>>

\* resolve_path: once more, and before the lock is taken.
Resolve(c) ==
  /\ Goto(c, "resolve", "enter")
  /\ asked' = [asked EXCEPT ![c] = cwd]
  /\ UNCHANGED <<world, con, folder, lock, open, found, todo, views, lake, reply>>

\* connect_file: a connection for this call alone.  A database file is opened
\* read-only, so it must exist; a folder is not a database.
ConnectFile(c) ==
  /\ url = "memory" \/ cwd \notin dirs
  /\ Goto(c, "file", "using")
  /\ UNCHANGED <<world, con, folder, lock, open, asked, found, todo, views, lake,
                 reply>>

\* The file is no database, or in use by a writer, or duckdb is not installed.
ConnectFileFails(c) ==
  /\ Goto(c, "file", "done")
  /\ reply' = [reply EXCEPT ![c] = "failed"]
  /\ UNCHANGED <<world, con, folder, lock, open, asked, found, todo, views, lake>>

-----------------------------------------------------------------------------
(* The data lake, under the lock *)

\* The cached lake does not serve call c.
Stale(c) == con = NoCall \/ folder # asked[c]

Enter_NoLock(c) ==
  /\ lock' = c
  /\ Goto(c, "enter", IF Stale(c) THEN "connect" ELSE "cursor")
  /\ UNCHANGED <<world, con, folder, open, asked, found, todo, views, lake, reply>>

\* with self._datalake_lock, and the test of the cache.
Enter(c) ==
  /\ lock = NoCall
  /\ lock' = c
  /\ Goto(c, "enter", IF Stale(c) THEN "connect" ELSE "cursor")
  /\ UNCHANGED <<world, con, folder, open, asked, found, todo, views, lake, reply>>

\* connect_datalake: a new in-memory database, and the glob.  There are no
\* files in a folder that does not exist.
ConnectLake(c) ==
  /\ Goto(c, "connect", "register")
  /\ open' = open \cup {c}
  /\ LET listing == IF asked[c] \in dirs THEN files[asked[c]] ELSE {}
     IN  /\ found' = [found EXCEPT ![c] = listing]
         /\ todo' = [todo EXCEPT ![c] = listing]
  /\ UNCHANGED <<world, con, folder, lock, asked, views, lake, reply>>

\* The views w after CREATE OR REPLACE VIEW for file f.
WithView(w, f) ==
  [v \in DOMAIN w \cup {ViewName[f]} |-> IF v = ViewName[f] THEN f ELSE w[v]]

Register_IfNotExists(c, f) ==
  views' = [views EXCEPT ![c] = IF ViewName[f] \in DOMAIN @ THEN @ ELSE WithView(@, f)]

Register(c, f) == views' = [views EXCEPT ![c] = WithView(@, f)]

\* The first of the files s in the order of sorted().
IsFirst(f, s) == f \in s /\ \A g \in s : Rank[f] <= Rank[g]

RegisterView_SkipLost(c) == \E f \in Files :
  /\ IsFirst(f, todo[c])
  /\ Goto(c, "register", "register")
  /\ todo' = [todo EXCEPT ![c] = @ \ {f}]
  /\ IF f \in files[asked[c]] THEN Register(c, f) ELSE UNCHANGED views
  /\ UNCHANGED <<world, con, folder, lock, open, asked, found, lake, reply>>

\* CREATE OR REPLACE VIEW for the next file in sorted order: of two with one
\* name the later wins.  It reads the schema of the file, which must be there.
RegisterView(c) == \E f \in Files :
  /\ IsFirst(f, todo[c])
  /\ Goto(c, "register", "register")
  /\ f \in files[asked[c]]
  /\ todo' = [todo EXCEPT ![c] = @ \ {f}]
  /\ Register(c, f)
  /\ UNCHANGED <<world, con, folder, lock, open, asked, found, lake, reply>>

BuildFails_Locked(c) ==
  /\ at[c] \in {"connect", "register"}
  /\ at' = [at EXCEPT ![c] = "done"]
  /\ open' = open \ {c}
  /\ reply' = [reply EXCEPT ![c] = "failed"]
  /\ UNCHANGED <<world, con, folder, lock, asked, found, todo, views, lake>>

\* duckdb is not installed, or a file is gone or unreadable: the lock is
\* released, the half-made database has no reference left, and the cache is
\* as it was.
BuildFails(c) ==
  /\ at[c] \in {"connect", "register"}
  /\ at' = [at EXCEPT ![c] = "done"]
  /\ lock' = NoCall
  /\ open' = open \ {c}
  /\ reply' = [reply EXCEPT ![c] = "failed"]
  /\ UNCHANGED <<world, con, folder, asked, found, todo, views, lake>>

Publish_Unlocks(c) ==
  /\ todo[c] = {}
  /\ Goto(c, "register", "cursor")
  /\ con' = c
  /\ folder' = asked[c]
  /\ open' = open \ {con}
  /\ lock' = NoCall
  /\ UNCHANGED <<world, asked, found, todo, views, lake, reply>>

\* The views are registered: _datalake_con, then _datalake_folder.  The lake
\* that was cached has no reference left, but the cursors on it go on.
Publish(c) ==
  /\ todo[c] = {}
  /\ Goto(c, "register", "cursor")
  /\ con' = c
  /\ folder' = asked[c]
  /\ open' = open \ {con}
  /\ UNCHANGED <<world, lock, asked, found, todo, views, lake, reply>>

\* return self._datalake_con.cursor(), and the lock is released.
GetCursor(c) ==
  /\ Goto(c, "cursor", "using")
  /\ lake' = [lake EXCEPT ![c] = con]
  /\ lock' = NoCall
  /\ UNCHANGED <<world, con, folder, open, asked, found, todo, views, reply>>

-----------------------------------------------------------------------------
(* The tool *)

\* list_tables, describe_table, or any statement on a connection to a file.
Answer(c) ==
  /\ Goto(c, "using", "closing")
  /\ reply' = [reply EXCEPT ![c] = "result"]
  /\ UNCHANGED <<world, con, folder, lock, open, asked, found, todo, views, lake>>

\* A query on view v: the file is read now, and may be gone.
Query(c, v) ==
  /\ lake[c] # NoCall
  /\ v \in DOMAIN views[lake[c]]
  /\ Goto(c, "using", "closing")
  /\ reply' = [reply EXCEPT ![c] =
       IF views[lake[c]][v] \in files[asked[lake[c]]]
       THEN "result" ELSE "query_error"]
  /\ UNCHANGED <<world, con, folder, lock, open, asked, found, todo, views, lake>>

Close_Parent(c) ==
  /\ Goto(c, "closing", "done")
  /\ open' = open \ {lake[c]}
  /\ UNCHANGED <<world, con, folder, lock, asked, found, todo, views, lake, reply>>

\* connection.close() of _cursor closes the cursor of this call, or the
\* connection to the file, and not the lake.
Close(c) ==
  /\ Goto(c, "closing", "done")
  /\ UNCHANGED <<world, con, folder, lock, open, asked, found, todo, views, lake,
                 reply>>

-----------------------------------------------------------------------------
(* The rest of the process, and the owner of the files *)

calls == <<con, folder, lock, open, at, asked, found, todo, views, lake, reply>>

ChangeDir == \E p \in Places \ {cwd} :
  /\ changes < MaxChanges
  /\ cwd' = p
  /\ changes' = changes + 1
  /\ UNCHANGED <<url, dirs, files, calls>>

\* A file appears in a folder, or is removed.
ChangeFile == \E p \in dirs, f \in Files :
  /\ changes < MaxChanges
  /\ files' = [files EXCEPT ![p] = IF f \in @ THEN @ \ {f} ELSE @ \cup {f}]
  /\ changes' = changes + 1
  /\ UNCHANGED <<url, dirs, cwd, calls>>

-----------------------------------------------------------------------------

Step(c) ==
  \/ Resolve(c) \/ ConnectFile(c) \/ ConnectFileFails(c)
  \/ Enter(c) \/ ConnectLake(c) \/ RegisterView(c) \/ BuildFails(c)
  \/ Publish(c) \/ GetCursor(c)
  \/ Answer(c) \/ (\E f \in Files : Query(c, ViewName[f])) \/ Close(c)

Next ==
  \/ \E c \in Calls : Connect(c) \/ Step(c)
  \/ ChangeDir
  \/ ChangeFile

\* The threads are scheduled, and the driver answers: also while it reads the
\* schema of a file, which no watchdog limits.
Fairness == \A c \in Calls : WF_vars(Step(c))

Spec == Init /\ [][Next]_vars

FairSpec == Spec /\ Fairness

-----------------------------------------------------------------------------
(* Properties *)

\* The views w are those of the files s: each name has a view, and of two files
\* with the same name the view reads the one that is later in sorted order.
AreViewsOf(w, s) ==
  /\ DOMAIN w = Names(s)
  /\ \A v \in Names(s) :
       /\ w[v] \in s
       /\ ViewName[w[v]] = v
       /\ \A f \in s : ViewName[f] = v => Rank[f] <= Rank[w[v]]

\* Whatever fails while a lake is built, and whatever changes around it, the
\* lake that _connect caches is open, is that of the cached folder, and has a
\* view for every file that the glob found (connect_datalake).
CachedLakeIsWhole == con # NoCall =>
  /\ con \in open
  /\ asked[con] = folder
  /\ AreViewsOf(views[con], found[con])

\* A call reads the folder that its own path resolved to, though others may
\* rebuild the lake for another folder before, meanwhile and afterwards.
CursorOfItsFolder ==
  \A c \in Calls : lake[c] # NoCall => asked[lake[c]] = asked[c]

\* "The views are created only once per dialect instance" (duckdb/dialect.py):
\* a cached lake is only ever replaced by that of another folder.
BuiltOncePerFolder == [][con' # con /\ con # NoCall => folder' # folder]_vars

\* Every call gets its reply, also after one that failed under the lock.
EveryCallReplies == \A c \in Calls : at[c] # "idle" ~> at[c] = "done"

-----------------------------------------------------------------------------
(* The inductive invariant: what the call that holds the lock has done so    *)
(* far, and that a lake does not change once it has been published.          *)

Before == {"idle", "resolve", "enter", "connect", "file"}
Served == {"using", "closing", "done"}

\* A call has registered nothing before its build; during it the lake is open,
\* the views are those of the files up to the one that comes next, and the
\* cache does not serve the call; with the lock in hand for the cursor it does.
BuildInv == \A c \in Calls :
  /\ at[c] \in Before => todo[c] = {} /\ views[c] = Nothing
  /\ at[c] = "register" =>
       /\ c \in open
       /\ AreViewsOf(views[c], found[c] \ todo[c])
       /\ \A f \in found[c] \ todo[c], g \in todo[c] : Rank[f] < Rank[g]
  /\ at[c] \in {"connect", "register"} => Stale(c)
  /\ at[c] = "cursor" => ~Stale(c)

\* The lakes that are cached or have a cursor were published by calls that are
\* past their build, and the calls with a cursor have left the lock.
PublishedInv ==
  /\ con # NoCall => at[con] \in Served \cup {"cursor"}
  /\ \A c \in Calls : lake[c] # NoCall =>
       at[c] \in Served /\ at[lake[c]] \in Served \cup {"cursor"}

LakeInv ==
  TypeOK /\ BuildInv /\ PublishedInv /\ CachedLakeIsWhole /\ CursorOfItsFolder

=============================================================================
