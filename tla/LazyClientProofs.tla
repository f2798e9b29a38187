-------------------------- MODULE LazyClientProofs --------------------------
(***************************************************************************)
(* The proofs about LazyClient, for any number of concurrent calls.        *)
(* ClientInv is inductive: what it adds to the properties is what holds at *)
(* each place of get and close.  Lock and unlock are the same for every    *)
(* call, so a step of call c leaves the other calls where they are, and    *)
(* what has to be shown is that it takes nothing away from them.           *)
(***************************************************************************)
EXTENDS LazyClient, TLAPS

USE LazyClientAssumption DEF At

\* ClientInv holds initially: the cell is empty and no call has begun.
LEMMA InitInv == Init => ClientInv
BY DEF Init, ClientInv, TypeOK, Places, NoClientLeak, ClosedOnce, GetIsUsable,
       GetLocations, UnderLock

\* Every step has the types right, and the lock is held exactly by the call
\* that is inside `with self._lock`.
LEMMA NextType == TypeOK /\ [Next]_vars => TypeOK'
<1> SUFFICES ASSUME TypeOK, [Next]_vars PROVE TypeOK'
  OBVIOUS
<1> USE DEF TypeOK, Goto, GetLocations, UnderLock
<1>1. ASSUME NEW c \in Calls, GetCheck(c) PROVE TypeOK'
  BY <1>1 DEF GetCheck
<1>2. ASSUME NEW c \in Calls, CloseCall(c) PROVE TypeOK'
  BY <1>2 DEF CloseCall
<1>3. ASSUME NEW c \in Calls, GetEnter(c) PROVE TypeOK'
  BY <1>3 DEF GetEnter
<1>4. ASSUME NEW c \in Calls, Build(c) PROVE TypeOK'
  BY <1>4 DEF Build
<1>5. ASSUME NEW c \in Calls, BuildFails(c) PROVE TypeOK'
  BY <1>5 DEF BuildFails
<1>6. ASSUME NEW c \in Calls, GetLeave(c) PROVE TypeOK'
  BY <1>6 DEF GetLeave
<1>7. ASSUME NEW c \in Calls, GetReturn(c) PROVE TypeOK'
  BY <1>7 DEF GetReturn
<1>8. ASSUME NEW c \in Calls, Use(c) PROVE TypeOK'
  BY <1>8 DEF Use
<1>9. ASSUME NEW c \in Calls, CloseEnter(c) PROVE TypeOK'
  BY <1>9 DEF CloseEnter
<1>10. ASSUME NEW c \in Calls, Swap(c) PROVE TypeOK'
  BY <1>10 DEF Swap
<1>11. ASSUME NEW c \in Calls, Close(c) PROVE TypeOK'
  BY <1>11 DEF Close
<1>12. CASE UNCHANGED vars
  BY <1>12 DEF vars
<1> QED
  BY <1>1, <1>2, <1>3, <1>4, <1>5, <1>6, <1>7, <1>8, <1>9, <1>10, <1>11,
     <1>12 DEF Next, Step

\* Every step preserves the inductive invariant.
LEMMA NextInv == ClientInv /\ [Next]_vars => ClientInv'
<1> SUFFICES ASSUME ClientInv, [Next]_vars PROVE ClientInv'
  OBVIOUS
<1> DEFINE Rest == Places /\ NoClientLeak /\ ClosedOnce /\ GetIsUsable
<1>a. TypeOK'
  BY NextType DEF ClientInv
<1>b. SUFFICES Rest'
  BY <1>a DEF ClientInv
<1> USE DEF ClientInv, TypeOK, Goto, GetLocations, UnderLock
<1> USE DEF Places, NoClientLeak, ClosedOnce, GetIsUsable
<1>1. ASSUME NEW c \in Calls, GetCheck(c) PROVE Rest'
  BY <1>1 DEF GetCheck
<1>2. ASSUME NEW c \in Calls, CloseCall(c) PROVE Rest'
  BY <1>2 DEF CloseCall
<1>3. ASSUME NEW c \in Calls, GetEnter(c) PROVE Rest'
  BY <1>3 DEF GetEnter
<1>4. ASSUME NEW c \in Calls, Build(c) PROVE Rest'
  BY <1>4 DEF Build
<1>5. ASSUME NEW c \in Calls, BuildFails(c) PROVE Rest'
  BY <1>5 DEF BuildFails
<1>6. ASSUME NEW c \in Calls, GetLeave(c) PROVE Rest'
  BY <1>6 DEF GetLeave
<1>7. ASSUME NEW c \in Calls, GetReturn(c) PROVE Rest'
  BY <1>7 DEF GetReturn
<1>8. ASSUME NEW c \in Calls, Use(c) PROVE Rest'
  BY <1>8 DEF Use
<1>9. ASSUME NEW c \in Calls, CloseEnter(c) PROVE Rest'
  BY <1>9 DEF CloseEnter
<1>10. ASSUME NEW c \in Calls, Swap(c) PROVE Rest'
  <2> USE <1>10 DEF Swap
  <2>1. \A d \in At(GetLocations) : got[c] # NoCall => raced'[d]
    OBVIOUS
  <2>2. \A d \in Calls : raced[d] => raced'[d]
    OBVIOUS
  <2>3. /\ got[c] = client
        /\ pc'[c] = IF got[c] = NoCall THEN "done" ELSE "closing"
        /\ \A d \in Calls \ {c} : pc'[d] = pc[d]
    OBVIOUS
  <2>4. \A d \in Calls : lock = d => d = c
    OBVIOUS
  <2>5. Places'
    BY <2>1, <2>2, <2>3, <2>4
  <2>6. NoClientLeak'
    BY <2>3
  <2>7. ClosedOnce'
    BY <2>3
  <2>8. GetIsUsable'
    BY <2>1, <2>2, <2>3
  <2> QED
    BY <2>5, <2>6, <2>7, <2>8
<1>11. ASSUME NEW c \in Calls, Close(c) PROVE Rest'
  BY <1>11 DEF Close
<1>12. CASE UNCHANGED vars
  BY <1>12 DEF vars
<1> QED
  BY <1>1, <1>2, <1>3, <1>4, <1>5, <1>6, <1>7, <1>8, <1>9, <1>10, <1>11,
     <1>12 DEF Next, Step

\* The invariant holds in every reachable state, for any set of calls.
THEOREM ClientInvariant == Spec => []ClientInv
<1>1. ClientInv /\ [Next]_vars => ClientInv'
  BY NextInv
<1> QED
  BY InitInv, <1>1, PTL DEF Spec

\* The lock is held by exactly the call whose step is under it, for any number
\* of calls of get and close (LazyClient._lock), and every variable is typed.
THEOREM TypeCorrect == Spec => []TypeOK
<1>1. ClientInv => TypeOK
  BY DEF ClientInv
<1> QED
  BY ClientInvariant, <1>1, PTL

\* No client is lost by the race of first calls, or by a close: LazyClient.get,
\* "double-checked: build only once".
THEOREM NothingLeaks == Spec => []NoClientLeak
<1>1. ClientInv => NoClientLeak
  BY DEF ClientInv
<1> QED
  BY ClientInvariant, <1>1, PTL

\* No client is closed twice, or while it can still be returned.
THEOREM NothingClosedTwice == Spec => []ClosedOnce
<1>1. ClientInv => ClosedOnce
  BY DEF ClientInv
<1> QED
  BY ClientInvariant, <1>1, PTL

\* A client that get returned is open and shared unless a close intervened.
THEOREM ClientsAreUsable == Spec => []GetIsUsable
<1>1. ClientInv => GetIsUsable
  BY DEF ClientInv
<1> QED
  BY ClientInvariant, <1>1, PTL

-----------------------------------------------------------------------------
(* LazyClient implements ClientCell *)

\* A step of LazyClient is a step of the cell, or leaves it as it is.  Build
\* is its Open, Swap its Take, Close its Close and GetReturn its Answer.
LEMMA CellStep == ClientInv /\ [Next]_vars => [CC!Next]_CC!vars
<1> SUFFICES ASSUME ClientInv, [Next]_vars PROVE [CC!Next]_CC!vars
  OBVIOUS
<1> USE DEF ClientInv, TypeOK, Goto, GetLocations, CC!vars
<1>1. ASSUME NEW c \in Calls, GetCheck(c) PROVE UNCHANGED CC!vars
  BY <1>1 DEF GetCheck
<1>2. ASSUME NEW c \in Calls, CloseCall(c) PROVE UNCHANGED CC!vars
  BY <1>2 DEF CloseCall
<1>3. ASSUME NEW c \in Calls, GetEnter(c) PROVE UNCHANGED CC!vars
  BY <1>3 DEF GetEnter
<1>4. ASSUME NEW c \in Calls, Build(c) PROVE CC!Open(c)
  BY <1>4 DEF Build, CC!Open, Places
<1>5. ASSUME NEW c \in Calls, BuildFails(c) PROVE UNCHANGED CC!vars
  BY <1>5 DEF BuildFails
<1>6. ASSUME NEW c \in Calls, GetLeave(c) PROVE UNCHANGED CC!vars
  BY <1>6 DEF GetLeave
<1>7. ASSUME NEW c \in Calls, GetReturn(c) PROVE CC!Answer(c)
  BY <1>7 DEF GetReturn, CC!Answer
<1>8. ASSUME NEW c \in Calls, Use(c) PROVE UNCHANGED CC!vars
  BY <1>8 DEF Use
<1>9. ASSUME NEW c \in Calls, CloseEnter(c) PROVE UNCHANGED CC!vars
  BY <1>9 DEF CloseEnter
<1>10. ASSUME NEW c \in Calls, Swap(c) PROVE CC!Take(c) \/ UNCHANGED CC!vars
  BY <1>10 DEF Swap, CC!Take, Places
<1>11. ASSUME NEW c \in Calls, Close(c) PROVE CC!Close(c)
  BY <1>11 DEF Close, CC!Close, ClosedOnce
<1>12. CASE UNCHANGED vars
  BY <1>12 DEF vars
<1> QED
  BY <1>1, <1>2, <1>3, <1>4, <1>5, <1>6, <1>7, <1>8, <1>9, <1>10, <1>11,
     <1>12 DEF Next, Step, CC!Next

\* The locks and the double check make a cell of LazyClient: it is empty or
\* holds the one client in service, whatever its callers do.
THEOREM LazyClientIsACell == Spec => Cell
<1>1. Init => CC!Init
  BY DEF Init, CC!Init
<1> QED
  BY <1>1, CellStep, ClientInvariant, PTL DEF Spec, Cell, CC!Spec

=============================================================================
