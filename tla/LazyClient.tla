----------------------------- MODULE LazyClient -----------------------------
(***************************************************************************)
(* LazyClient (pooling.py): the driver client that the parallel tool calls *)
(* of a MongoDB, Neo4j or search agent share.  get() reads _client without *)
(* the lock, reads it again under the lock before it builds a client, and  *)
(* reads it once more, without the lock, for its `return self._client`.    *)
(* close() takes the client out under the lock and closes it outside.      *)
(*                                                                         *)
(* A call is one get(), followed by the use of what it returned, or one    *)
(* close().  A client is named by the call that built it.                  *)
(***************************************************************************)
CONSTANTS
  Calls,     \* the calls of get and close, each in a thread
  NoCall     \* None, and the owner of a free lock

ASSUME LazyClientAssumption == NoCall \notin Calls

VARIABLES
  client,    \* LazyClient._client
  lock,      \* the call that holds LazyClient._lock, or NoCall
  pc,        \* pc[c]: where call c is
  got,       \* got[c]: what get returned, or what close took out
  open,      \* the clients that are built and not closed
  raced      \* history: a client was taken out since the get of c began

vars == <<client, lock, pc, got, open, raced>>

\* The calls that are in one of the locations L.
At(L) == {c \in Calls : pc[c] \in L}

GetLocations == {"getLock", "build", "leave", "load", "using"}

UnderLock == {"build", "leave", "swap"}

TypeOK ==
  /\ client \in Calls \cup {NoCall}
  /\ lock \in Calls \cup {NoCall}
  /\ pc \in [Calls -> GetLocations \cup {"idle", "closeLock", "swap", "closing",
                                         "failed", "done"}]
  /\ got \in [Calls -> Calls \cup {NoCall}]
  /\ open \subseteq Calls
  /\ raced \in [Calls -> BOOLEAN]
  /\ \A c \in Calls : lock = c <=> c \in At(UnderLock)

Init ==
  /\ client = NoCall
  /\ lock = NoCall
  /\ pc = [c \in Calls |-> "idle"]
  /\ got = [c \in Calls |-> NoCall]
  /\ open = {}
  /\ raced = [c \in Calls |-> FALSE]

\* Call c moves from one place to another.
Goto(c, from, to) ==
  /\ pc[c] = from
  /\ pc' = [pc EXCEPT ![c] = to]

\* A definition Name_Fault is what a plausible bug would make of Name.  No
\* action uses it: each shows that some property notices the bug.

-----------------------------------------------------------------------------
(* get *)

\* `if self._client is None`, without the lock.
GetCheck(c) ==
  /\ Goto(c, "idle", IF client = NoCall THEN "getLock" ELSE "load")
  /\ UNCHANGED <<client, lock, got, open, raced>>

GetEnter_NoRecheck(c) ==
  /\ lock = NoCall
  /\ lock' = c
  /\ Goto(c, "getLock", "build")
  /\ UNCHANGED <<client, got, open, raced>>

\* `with self._lock`, and the second check.
GetEnter(c) ==
  /\ lock = NoCall
  /\ lock' = c
  /\ Goto(c, "getLock", IF client = NoCall THEN "build" ELSE "leave")
  /\ UNCHANGED <<client, got, open, raced>>

\* `self._client = factory()`, and the lock is released.
Build(c) ==
  /\ Goto(c, "build", "load")
  /\ client' = c
  /\ open' = open \cup {c}
  /\ lock' = NoCall
  /\ UNCHANGED <<got, raced>>

BuildFails_Locked(c) ==
  /\ Goto(c, "build", "failed")
  /\ UNCHANGED <<client, lock, got, open, raced>>

\* factory() raises: the driver is not installed, or rejects its parameters.
BuildFails(c) ==
  /\ Goto(c, "build", "failed")
  /\ lock' = NoCall
  /\ UNCHANGED <<client, got, open, raced>>

\* Another call has built the client in the meantime.
GetLeave(c) ==
  /\ Goto(c, "leave", "load")
  /\ lock' = NoCall
  /\ UNCHANGED <<client, got, open, raced>>

\* `return self._client`, without the lock.
GetReturn(c) ==
  /\ Goto(c, "load", "using")
  /\ got' = [got EXCEPT ![c] = client]
  /\ UNCHANGED <<client, lock, open, raced>>

\* The tool that called get has finished with the client.
Use(c) ==
  /\ Goto(c, "using", "done")
  /\ UNCHANGED <<client, lock, got, open, raced>>

-----------------------------------------------------------------------------
(* close *)

CloseCall(c) ==
  /\ Goto(c, "idle", "closeLock")
  /\ UNCHANGED <<client, lock, got, open, raced>>

\* `with self._lock`, and `client = self._client`.
CloseEnter(c) ==
  /\ lock = NoCall
  /\ lock' = c
  /\ Goto(c, "closeLock", "swap")
  /\ got' = [got EXCEPT ![c] = client]
  /\ UNCHANGED <<client, open, raced>>

Swap_Kept(c) ==
  /\ Goto(c, "swap", IF got[c] = NoCall THEN "done" ELSE "closing")
  /\ lock' = NoCall
  /\ raced' = [d \in Calls |-> raced[d] \/ (got[c] # NoCall /\ d \in At(GetLocations))]
  /\ UNCHANGED <<client, got, open>>

\* `self._client = None`, and the lock is released.
Swap(c) ==
  /\ Goto(c, "swap", IF got[c] = NoCall THEN "done" ELSE "closing")
  /\ client' = NoCall
  /\ lock' = NoCall
  /\ raced' = [d \in Calls |-> raced[d] \/ (got[c] # NoCall /\ d \in At(GetLocations))]
  /\ UNCHANGED <<got, open>>

\* client.close(), without the lock.
Close(c) ==
  /\ Goto(c, "closing", "done")
  /\ open' = open \ {got[c]}
  /\ got' = [got EXCEPT ![c] = NoCall]
  /\ UNCHANGED <<client, lock, raced>>

-----------------------------------------------------------------------------

\* The steps of a call that has begun.
Step(c) ==
  \/ GetEnter(c) \/ Build(c) \/ BuildFails(c) \/ GetLeave(c) \/ GetReturn(c)
  \/ Use(c)
  \/ CloseEnter(c) \/ Swap(c) \/ Close(c)

Next == \E c \in Calls : GetCheck(c) \/ CloseCall(c) \/ Step(c)

\* Every thread is scheduled, and factory() returns or raises: the drivers
\* connect on the first request, not in the constructor of the client.
Fairness == \A c \in Calls : WF_vars(Step(c))

Spec == Init /\ [][Next]_vars

FairSpec == Spec /\ Fairness

-----------------------------------------------------------------------------
(* Properties *)

\* No client is lost: each one that is open is the cached one, or is about to
\* be closed by a call of close.  In particular at most one client is open
\* and in service, however many first calls race ("double-checked: build only
\* once", LazyClient.get).
NoClientLeak == \A d \in open :
  d = client \/ \E c \in At({"closing"}) : got[c] = d

\* Two calls of close never close the same client, and never one that get can
\* still return ("Close and forget the client", LazyClient.close).
ClosedOnce == \A c \in At({"closing"}) :
  /\ got[c] \in open \ {client}
  /\ \A d \in At({"closing"}) : got[d] = got[c] => d = c

\* What get returned is open, and is the client that every other call uses,
\* unless a close has intervened since that get began.
GetIsUsable == \A c \in At({"using"}) :
  ~raced[c] => got[c] \in open /\ got[c] = client

\* Every get and every close comes to its end, and so do the calls that wait
\* while another one builds the client under the lock, or fails to.
EveryCallEnds == \A c \in Calls : pc[c] # "idle" ~> pc[c] \in {"failed", "done"}

-----------------------------------------------------------------------------
(* The inductive invariant *)

\* What holds at each place of get and of close.  The call that builds is the
\* only one that can find the cell empty under the lock, and once a get is
\* past its checks the cell stays full unless a close has intervened.
Places ==
  /\ client # NoCall => client \in open
  /\ \A c \in open : pc[c] \in {"load", "using", "done"}
  /\ \A c \in At({"build"}) : client = NoCall
  /\ \A c \in At({"leave", "load"}) : ~raced[c] => client # NoCall
  /\ \A c \in At({"swap"}) : got[c] = client

ClientInv ==
  /\ TypeOK
  /\ Places
  /\ NoClientLeak
  /\ ClosedOnce
  /\ GetIsUsable

-----------------------------------------------------------------------------
(* LazyClient implements ClientCell. *)

CC == INSTANCE ClientCell WITH
        cell <- client,
        taken <- [c \in Calls |-> IF pc[c] = "closing" THEN got[c] ELSE NoCall],
        answer <- [c \in Calls |-> IF pc[c] \in {"using", "done"} THEN got[c]
                                   ELSE NoCall]

\* The locks and the double check of LazyClient make a cell of it.
Cell == CC!Spec

=============================================================================
