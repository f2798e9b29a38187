--------------------------- MODULE WatchdogProofs ---------------------------
(***************************************************************************)
(* The proofs about Watchdog, for any number of parallel calls and any     *)
(* timeout.  NoEarlyInterrupt is not inductive: that a timer fires late    *)
(* enough was decided when it woke up, so WatchInv says it of every timer  *)
(* that is awake while its call is under way.                              *)
(***************************************************************************)
EXTENDS Watchdog, TLAPS

USE WatchdogAssumption

LEMMA InitInv == Init => WatchInv
BY DEF Init, WatchInv, TypeOK, WokenOnTime, NoEarlyInterrupt, Woken, UnderWay,
       Executing, MaxElapsed

\* Every step has the types right, and only a statement that is being
\* executed is interrupted.
LEMMA NextType == TypeOK /\ [Next]_vars => TypeOK'
<1> SUFFICES ASSUME TypeOK, [Next]_vars PROVE TypeOK'
  OBVIOUS
<1> USE DEF TypeOK, Goto, Executing, MaxElapsed
<1>1. ASSUME NEW c \in Calls, Arm(c) PROVE TypeOK'
  BY <1>1 DEF Arm
<1>2. ASSUME NEW c \in Calls, ExecuteEstimate(c) PROVE TypeOK'
  BY <1>2 DEF ExecuteEstimate
<1>3. ASSUME NEW c \in Calls, ExecuteQuery(c) PROVE TypeOK'
  BY <1>3 DEF ExecuteQuery
<1>4. ASSUME NEW c \in Calls, EstimateStopped(c) PROVE TypeOK'
  BY <1>4 DEF EstimateStopped
<1>5. ASSUME NEW c \in Calls, QueryStopped(c) PROVE TypeOK'
  BY <1>5 DEF QueryStopped
<1>6. ASSUME NEW c \in Calls, Cancel(c) PROVE TypeOK'
  BY <1>6 DEF Cancel
<1>7. ASSUME NEW c \in Calls, EstimateEnds(c) PROVE TypeOK'
  BY <1>7 DEF EstimateEnds
<1>8. ASSUME NEW c \in Calls, QueryEnds(c) PROVE TypeOK'
  BY <1>8 DEF QueryEnds
<1>9. ASSUME NEW c \in Calls, Wake(c) PROVE TypeOK'
  BY <1>9 DEF Wake, Due
<1>10. ASSUME NEW c \in Calls, Fire(c) PROVE TypeOK'
  BY <1>10 DEF Fire, Target
<1>11. CASE Tick
  BY <1>11 DEF Tick
<1>12. CASE UNCHANGED vars
  BY <1>12 DEF vars
<1> QED
  BY <1>1, <1>2, <1>3, <1>4, <1>5, <1>6, <1>7, <1>8, <1>9, <1>10, <1>11,
     <1>12 DEF Next, CallStep, TimerStep

\* Every step preserves the inductive invariant: only Cancel sets a clock
\* back, when its call is done; only Wake wakes a timer, when it is due; and
\* only Fire interrupts, the statement of its own call.
LEMMA NextInv == WatchInv /\ [Next]_vars => WatchInv'
<1> SUFFICES ASSUME WatchInv, [Next]_vars PROVE WatchInv'
  OBVIOUS
<1> DEFINE OnTime == WokenOnTime /\ NoEarlyInterrupt
<1>a. TypeOK'
  BY NextType DEF WatchInv
<1>b. SUFFICES OnTime'
  BY <1>a DEF WatchInv
<1> USE DEF WatchInv, TypeOK, WokenOnTime, NoEarlyInterrupt, Woken, UnderWay,
            Executing, Goto, MaxElapsed
<1>1. ASSUME NEW c \in Calls, Arm(c) PROVE OnTime'
  BY <1>1 DEF Arm
<1>2. ASSUME NEW c \in Calls, ExecuteEstimate(c) PROVE OnTime'
  BY <1>2 DEF ExecuteEstimate
<1>3. ASSUME NEW c \in Calls, ExecuteQuery(c) PROVE OnTime'
  BY <1>3 DEF ExecuteQuery
<1>4. ASSUME NEW c \in Calls, EstimateStopped(c) PROVE OnTime'
  BY <1>4 DEF EstimateStopped
<1>5. ASSUME NEW c \in Calls, QueryStopped(c) PROVE OnTime'
  BY <1>5 DEF QueryStopped
<1>6. ASSUME NEW c \in Calls, Cancel(c) PROVE OnTime'
  BY <1>6 DEF Cancel
<1>7. ASSUME NEW c \in Calls, EstimateEnds(c) PROVE OnTime'
  BY <1>7 DEF EstimateEnds
<1>8. ASSUME NEW c \in Calls, QueryEnds(c) PROVE OnTime'
  BY <1>8 DEF QueryEnds
<1>9. ASSUME NEW c \in Calls, Wake(c) PROVE OnTime'
  BY <1>9 DEF Wake, Due
<1>10. ASSUME NEW c \in Calls, Fire(c) PROVE OnTime'
  BY <1>10 DEF Fire, Target
<1>11. CASE Tick
  BY <1>11 DEF Tick
<1>12. CASE UNCHANGED vars
  BY <1>12 DEF vars
<1> QED
  BY <1>1, <1>2, <1>3, <1>4, <1>5, <1>6, <1>7, <1>8, <1>9, <1>10, <1>11,
     <1>12 DEF Next, CallStep, TimerStep

LEMMA InvCorrect == Spec => []WatchInv
BY InitInv, NextInv, PTL DEF Spec

\* The types are right, and only the active statement of a call is ever
\* interrupted (FileSqlDialect._watchdog).
THEOREM TypeCorrect == Spec => []TypeOK
<1>1. WatchInv => TypeOK
  BY DEF WatchInv
<1> QED
  BY <1>1, InvCorrect, PTL

\* However many calls run in parallel, no statement is interrupted before the
\* timeout of its own call is past (FileSqlDialect._interrupt_target).
THEOREM InterruptsOnTime == Spec => []NoEarlyInterrupt
<1>1. WatchInv => NoEarlyInterrupt
  BY DEF WatchInv
<1> QED
  BY <1>1, InvCorrect, PTL

=============================================================================
