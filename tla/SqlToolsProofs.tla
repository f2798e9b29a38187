--------------------------- MODULE SqlToolsProofs ---------------------------
(***************************************************************************)
(* The proofs about SqlTools, for any number of agents and parallel calls, *)
(* any budgets, estimates and rows.  Every step of a tool is a step of     *)
(* Guardrails or leaves it alone, so that the theorems about Guardrails    *)
(* hold of the tools; ToolsInv says which state of the guardrails belongs  *)
(* to which place of a tool, and carries them over to what the agent sees. *)
(***************************************************************************)
EXTENDS SqlTools, FiniteSetTheorems, TLAPS

\* The theorems about Guardrails, for the estimates that the dialects give.
GP == INSTANCE GuardrailsProofs WITH Estimates <- Estimates \cup {0}

USE SqlToolsAssumption

-----------------------------------------------------------------------------
(* The guardrails of the tools *)

\* What is assumed of the tools is what is assumed of Guardrails.
LEMMA GuardrailsAssumed == GP!GuardrailsAssumption /\ GP!NoCallAssumption
BY DEF GP!GuardrailsAssumption, GP!NoCallAssumption, IsFiniteSet, GP!IsFiniteSet

\* Counting is the same in both.
LEMMA SameCounts ==
  ASSUME NEW S, NEW r
  PROVE  /\ G!Cardinality(S) = Cardinality(S) /\ GP!Cardinality(S) = Cardinality(S)
         /\ G!Total(S, r) = Total(S, r) /\ GP!Total(S, r) = Total(S, r)
         /\ IsFiniteSet(S) <=> GP!IsFiniteSet(S)
BY DEF IsFiniteSet, GP!IsFiniteSet, Cardinality, G!Cardinality, GP!Cardinality, Total, G!Total, GP!Total,
       RowsOf, G!RowsOf, GP!RowsOf

\* GP is about the guardrails that the tools use.
LEMMA SameState ==
  /\ G!TypeOK <=> GP!TypeOK
  /\ G!TypeOK' <=> GP!TypeOK'
  /\ G!Init <=> GP!Init
  /\ G!vars = GP!vars
BY DEF G!TypeOK, GP!TypeOK, G!Locations, GP!Locations, G!MetricsTypeOK,
       GP!MetricsTypeOK, G!Counters, GP!Counters, G!Init, GP!Init, G!MetricsInit,
       GP!MetricsInit, G!Zero, GP!Zero, G!vars, GP!vars

LEMMA SameSteps ==
  ASSUME NEW c, NEW n
  PROVE  /\ G!CheckEstimate(c, n) <=> GP!CheckEstimate(c, n)
         /\ G!Charge(c, n) <=> GP!Charge(c, n)
         /\ G!Step(c) <=> GP!Step(c)
<1> USE DEF G!Goto, GP!Goto, G!Metered, GP!Metered, G!Limited, GP!Limited,
            G!setupVars, GP!setupVars, G!metricsVars, GP!metricsVars,
            G!Enter, GP!Enter, G!Leave, GP!Leave, G!Zero, GP!Zero
<1>1. G!CheckEstimate(c, n) <=> GP!CheckEstimate(c, n)
  BY DEF G!CheckEstimate, GP!CheckEstimate
<1>2. G!Charge(c, n) <=> GP!Charge(c, n)
  BY DEF G!Charge, GP!Charge
<1>3. /\ G!BlockEnter(c) <=> GP!BlockEnter(c)
      /\ G!QueryEnter(c) <=> GP!QueryEnter(c)
      /\ G!ExhaustEnter(c) <=> GP!ExhaustEnter(c)
  BY DEF G!BlockEnter, GP!BlockEnter, G!QueryEnter, GP!QueryEnter, G!ExhaustEnter,
         GP!ExhaustEnter
<1>4. G!BlockRecord(c) <=> GP!BlockRecord(c)
  BY DEF G!BlockRecord, GP!BlockRecord, G!RecordEstimateBlocked, GP!RecordEstimateBlocked
<1>5. G!QueryRecord(c) <=> GP!QueryRecord(c)
  BY DEF G!QueryRecord, GP!QueryRecord, G!RecordQuery, GP!RecordQuery
<1>6. G!ExhaustRecord(c) <=> GP!ExhaustRecord(c)
  BY DEF G!ExhaustRecord, GP!ExhaustRecord, G!RecordBudgetExhausted,
         GP!RecordBudgetExhausted
<1>7. /\ G!ReturnUnlimited(c) <=> GP!ReturnUnlimited(c)
      /\ G!Add(c) <=> GP!Add(c)
      /\ G!AddRead(c) <=> GP!AddRead(c)
      /\ G!AddStore(c) <=> GP!AddStore(c)
  BY DEF G!ReturnUnlimited, GP!ReturnUnlimited, G!Add, GP!Add, G!AddRead, GP!AddRead,
         G!AddStore, GP!AddStore
<1>8. G!Check(c) <=> GP!Check(c)
  BY DEF G!Check, GP!Check, G!Exceeds, GP!Exceeds
<1> HIDE DEF G!Goto, GP!Goto
<1> QED
  BY <1>1, <1>2, <1>3, <1>4, <1>5, <1>6, <1>7, <1>8 DEF G!Step, GP!Step

\* Every step of a tool is a step of the guardrails, or leaves them alone.
LEMMA GuardrailsStep == TypeOK /\ [Next]_vars => [G!Next]_(G!vars)
<1> SUFFICES ASSUME TypeOK, [Next]_vars PROVE [G!Next]_(G!vars)
  OBVIOUS
<1>1. UNCHANGED guardVars => UNCHANGED G!vars
  BY DEF guardVars, G!vars
<1>2. ASSUME NEW c \in Calls, Estimate(c) PROVE [G!Next]_(G!vars)
  BY <1>1, <1>2 DEF Estimate, G!Next
<1>3. ASSUME NEW c \in Calls, Charge(c) PROVE G!Next
  <2>1. got[c] \in 0 .. MaxRows
    BY DEF TypeOK
  <2> QED
    BY <1>3, <2>1 DEF Charge, G!Next
<1>4. ASSUME NEW c \in Calls, GuardrailStep(c) PROVE G!Next
  BY <1>4 DEF GuardrailStep, G!Next
<1>5. ASSUME NEW c \in Calls, NEW t \in Tools, Invoke(c, t) PROVE UNCHANGED guardVars
  BY <1>5 DEF Invoke
<1>6. ASSUME NEW c \in Calls,
             \/ InvokeWithoutBackend(c) \/ Connect(c) \/ OpenCursor(c) \/ ApplyTimeout(c)
             \/ Estimated(c) \/ Execute(c) \/ Fetch(c) \/ Materialize(c)
      PROVE  UNCHANGED guardVars
  BY <1>6 DEF InvokeWithoutBackend, Connect, OpenCursor, ApplyTimeout, Estimated,
              Execute, Fetch, Materialize
<1>7. ASSUME NEW c \in Calls,
             \/ CloseCursor(c) \/ CloseConnection(c) \/ Handle(c) \/ ReplyUncharged(c)
             \/ ReplyResult(c) \/ ReplyBlocked(c)
      PROVE  UNCHANGED guardVars
  BY <1>7 DEF CloseCursor, CloseConnection, Handle, ReplyUncharged, ReplyResult,
              ReplyBlocked
<1>8. UNCHANGED vars => UNCHANGED guardVars
  BY DEF vars
<1> QED
  BY <1>1, <1>2, <1>3, <1>4, <1>5, <1>6, <1>7, <1>8 DEF Next, Step

LEMMA SameNext == [G!Next]_(G!vars) <=> [GP!Next]_(GP!vars)
<1>1. \A c, n : /\ G!CheckEstimate(c, n) <=> GP!CheckEstimate(c, n)
                /\ G!Charge(c, n) <=> GP!Charge(c, n)
                /\ G!Step(c) <=> GP!Step(c)
  BY SameSteps
<1>2. G!Next <=> GP!Next
  BY <1>1 DEF G!Next, GP!Next
<1> QED
  BY <1>2 DEF G!vars, GP!vars

\* What a step inside check_estimate or charge does to the call and to the
\* rows: it stays inside the one or the other, or comes out of it.
LEMMA InsideStep ==
  ASSUME TypeOK, NEW c \in Calls, G!Step(c)
  PROVE  /\ pc' = [pc EXCEPT ![c] = pc'[c]]
         /\ UNCHANGED <<rows, build, budget, hasMetrics>>
         /\ \/ pc[c] \in {"blockLock", "blockStore"} /\ pc'[c] \in Estimating
            \/ pc[c] \in Charging \ {"returned", "withheld"} /\ pc'[c] \in Charging
<1> USE DEF G!Goto, G!setupVars, Estimating, Charging
<1>1. DOMAIN pc = Calls
  BY DEF TypeOK, G!TypeOK
<1>2. CASE G!BlockEnter(c) \/ G!BlockRecord(c) \/ G!QueryEnter(c) \/ G!QueryRecord(c)
           \/ G!ExhaustEnter(c) \/ G!ExhaustRecord(c)
  BY <1>1, <1>2 DEF G!BlockEnter, G!BlockRecord, G!QueryEnter, G!QueryRecord,
                    G!ExhaustEnter, G!ExhaustRecord
<1>3. CASE G!ReturnUnlimited(c) \/ G!Add(c) \/ G!AddRead(c) \/ G!AddStore(c)
  BY <1>1, <1>3 DEF G!ReturnUnlimited, G!Add, G!AddRead, G!AddStore
<1>4. CASE G!Check(c)
  BY <1>1, <1>4 DEF G!Check
<1> QED
  BY <1>2, <1>3, <1>4 DEF G!Step

\* What check_estimate and charge do when they are called.
LEMMA EnterStep ==
  ASSUME TypeOK, NEW c \in Calls, NEW n
  PROVE  /\ G!CheckEstimate(c, n) =>
              /\ pc[c] = "idle" /\ pc' = [pc EXCEPT ![c] = pc'[c]]
              /\ pc'[c] \in Estimating /\ rows' = rows
         /\ G!Charge(c, n) =>
              /\ pc[c] \in {"idle", "cleared"} /\ pc' = [pc EXCEPT ![c] = pc'[c]]
              /\ pc'[c] \in Charging /\ rows' = [rows EXCEPT ![c] = n]
<1>1. DOMAIN pc = Calls
  BY DEF TypeOK, G!TypeOK
<1> QED
  BY <1>1 DEF G!CheckEstimate, G!Charge, G!Goto, G!setupVars, Estimating, Charging

-----------------------------------------------------------------------------
(* The types *)

LEMMA InitInv == Init => ToolsInv
<1> SUFFICES ASSUME Init PROVE ToolsInv
  OBVIOUS
<1>1. G!TypeOK
  BY GuardrailsAssumed, GP!InitType, SameState DEF Init
<1>2. pc = [c \in Calls |-> "idle"] /\ rows = [c \in Calls |-> 0]
  BY DEF Init, G!Init
<1>3. TypeOK
  BY <1>1 DEF Init, TypeOK, Tools, Locations, Replies, Feedback
<1>4. ConnInv /\ ExcInv
  BY DEF Init, ConnInv, ExcInv
<1>5. GuardInv
  BY <1>2 DEF Init, GuardInv, Preparing, Charging
<1>6. NoConnectionLeak /\ StoppedBeforeRunning
  BY DEF Init, NoConnectionLeak, StoppedBeforeRunning, Answered
<1> QED
  BY <1>3, <1>4, <1>5, <1>6 DEF ToolsInv

\* The types of the state of the tools.
ToolTypes ==
  /\ backend \in [Agents -> BOOLEAN]
  /\ tool \in [Calls -> Tools]
  /\ at \in [Calls -> Locations]
  /\ conn \in [Calls -> {"none", "open", "closed"}]
  /\ exc \in [Calls -> Exceptions \cup {"none"}]
  /\ got \in [Calls -> 0 .. MaxRows]
  /\ ran \in [Calls -> BOOLEAN]
  /\ file \in [Calls -> {"none", "update", "stored"}]
  /\ reply \in [Calls -> Replies \cup {"none"}]
  /\ \A c \in Calls : reply[c] = "none" <=> at[c] # "done"

\* Every exception has a handler, which makes a reply of it.
LEMMA HandlerType == ASSUME NEW e \in Exceptions PROVE Handler(e) \in Replies
BY DEF Exceptions, Handler, Replies, Feedback

\* Only what a tool raises is an exception.
LEMMA RaiseType ==
  ASSUME ToolTypes, NEW c \in Calls, NEW from, from # "done", NEW e \in Exceptions,
         Raise(c, from, e)
  PROVE  /\ at' \in [Calls -> Locations] /\ exc' \in [Calls -> Exceptions \cup {"none"}]
         /\ \A d \in Calls : at'[d] = "done" <=> at[d] = "done"
BY DEF ToolTypes, Raise, Goto, Locations

LEMMA NextTools == ToolTypes /\ ExcInv /\ [Next]_vars => ToolTypes'
<1> SUFFICES ASSUME ToolTypes, ExcInv, [Next]_vars PROVE ToolTypes'
  OBVIOUS
<1> USE DEF ToolTypes, Goto, Locations
<1>1. ASSUME NEW c \in Calls, NEW t \in Tools, Invoke(c, t) PROVE ToolTypes'
  <2>1. Rejections(t) \subseteq Exceptions
    BY DEF Rejections, Tools, QueryTools, Exceptions
  <2> QED
    BY <1>1, <2>1, RaiseType DEF Invoke
<1>2. ASSUME NEW c \in Calls, InvokeWithoutBackend(c) PROVE ToolTypes'
  BY <1>2 DEF InvokeWithoutBackend, Tools, Replies
<1>3. ASSUME NEW c \in Calls, Connect(c) PROVE ToolTypes'
  BY <1>3, RaiseType DEF Connect, Exceptions
<1>4. ASSUME NEW c \in Calls, OpenCursor(c) PROVE ToolTypes'
  BY <1>4, RaiseType DEF OpenCursor, Exceptions
<1>5. ASSUME NEW c \in Calls, ApplyTimeout(c) PROVE ToolTypes'
  BY <1>5, RaiseType DEF ApplyTimeout, Exceptions
<1>6. ASSUME NEW c \in Calls, Estimate(c) PROVE ToolTypes'
  BY <1>6, RaiseType DEF Estimate, Exceptions
<1>7. ASSUME NEW c \in Calls, Estimated(c) PROVE ToolTypes'
  BY <1>7, RaiseType DEF Estimated, Exceptions
<1>8. ASSUME NEW c \in Calls, Execute(c) PROVE ToolTypes'
  BY <1>8, RaiseType DEF Execute, Exceptions
<1>9. ASSUME NEW c \in Calls, Fetch(c) PROVE ToolTypes'
  BY <1>9, RaiseType DEF Fetch, Exceptions
<1>10. ASSUME NEW c \in Calls, Materialize(c) PROVE ToolTypes'
  BY <1>10, RaiseType DEF Materialize, Exceptions
<1>11. ASSUME NEW c \in Calls, CloseCursor(c) PROVE ToolTypes'
  BY <1>11, RaiseType DEF CloseCursor, Exceptions
<1>12. ASSUME NEW c \in Calls, CloseConnection(c) PROVE ToolTypes'
  BY <1>12 DEF CloseConnection, Exceptions
<1>13. ASSUME NEW c \in Calls, Handle(c) PROVE ToolTypes'
  <2>1. Handler(exc[c]) \in Replies /\ Handler(exc[c]) # "none"
    BY <1>13, HandlerType DEF Handle, ExcInv, Replies, Feedback
  <2> QED
    BY <1>13, <2>1 DEF Handle
<1>14. ASSUME NEW c \in Calls, ReplyUncharged(c) PROVE ToolTypes'
  BY <1>14 DEF ReplyUncharged, Replies
<1>15. ASSUME NEW c \in Calls, Charge(c) PROVE ToolTypes'
  BY <1>15 DEF Charge
<1>16. ASSUME NEW c \in Calls, ReplyResult(c) PROVE ToolTypes'
  BY <1>16 DEF ReplyResult, Replies
<1>17. ASSUME NEW c \in Calls, ReplyBlocked(c) PROVE ToolTypes'
  BY <1>17 DEF ReplyBlocked, Replies, Feedback
<1>18. ASSUME NEW c \in Calls, GuardrailStep(c) PROVE ToolTypes'
  BY <1>18 DEF GuardrailStep, toolVars
<1>19. CASE UNCHANGED vars
  BY <1>19 DEF vars, toolVars
<1> QED
  BY <1>1, <1>2, <1>3, <1>4, <1>5, <1>6, <1>7, <1>8, <1>9, <1>10, <1>11, <1>12,
     <1>13, <1>14, <1>15, <1>16, <1>17, <1>18, <1>19 DEF Next, Step

\* Every step has the types right, and a call has its reply when it is done.
LEMMA NextType == TypeOK /\ ExcInv /\ [Next]_vars => TypeOK'
<1> SUFFICES ASSUME TypeOK, ExcInv, [Next]_vars PROVE TypeOK'
  OBVIOUS
<1>1. ToolTypes'
  BY NextTools DEF TypeOK, ToolTypes
<1>2. G!TypeOK'
  BY GuardrailsAssumed, GuardrailsStep, SameNext, SameState, GP!NextType DEF TypeOK
<1> QED
  BY <1>1, <1>2 DEF TypeOK, ToolTypes

-----------------------------------------------------------------------------
(* The places of a tool *)

\* Whatever raises goes on to the exit of _cursor while a connection is open.
LEMMA NextConn == TypeOK /\ ConnInv /\ ExcInv /\ GuardInv /\ [Next]_vars => ConnInv'
<1> SUFFICES ASSUME TypeOK, ConnInv, ExcInv, GuardInv, [Next]_vars PROVE ConnInv'
  OBVIOUS
<1>t. /\ DOMAIN at = Calls /\ DOMAIN conn = Calls /\ DOMAIN exc = Calls
      /\ DOMAIN ran = Calls /\ DOMAIN reply = Calls /\ DOMAIN tool = Calls
      /\ DOMAIN got = Calls /\ DOMAIN pc = Calls /\ DOMAIN rows = Calls
      /\ at \in [Calls -> Locations]
  BY DEF TypeOK, G!TypeOK
<1>g. UNCHANGED guardVars => UNCHANGED <<pc, rows>>
  BY DEF guardVars
<1> USE DEF ConnInv, Goto, Raise, Locations
<1>1. ASSUME NEW c \in Calls, NEW t \in Tools, Invoke(c, t) PROVE ConnInv'
  BY <1>t, <1>g, <1>1 DEF Invoke
<1>2. ASSUME NEW c \in Calls, InvokeWithoutBackend(c) PROVE ConnInv'
  BY <1>t, <1>g, <1>2 DEF InvokeWithoutBackend
<1>3. ASSUME NEW c \in Calls, Connect(c) PROVE ConnInv'
  BY <1>t, <1>g, <1>3 DEF Connect
<1>4. ASSUME NEW c \in Calls, OpenCursor(c) PROVE ConnInv'
  BY <1>t, <1>g, <1>4 DEF OpenCursor
<1>5. ASSUME NEW c \in Calls, ApplyTimeout(c) PROVE ConnInv'
  BY <1>t, <1>g, <1>5 DEF ApplyTimeout
<1>6. ASSUME NEW c \in Calls, Estimate(c) PROVE ConnInv'
  BY <1>t, <1>g, <1>6 DEF Estimate
<1>7. ASSUME NEW c \in Calls, Estimated(c) PROVE ConnInv'
  BY <1>t, <1>g, <1>7 DEF Estimated
<1>8. ASSUME NEW c \in Calls, Execute(c) PROVE ConnInv'
  BY <1>t, <1>g, <1>8 DEF Execute
<1>9. ASSUME NEW c \in Calls, Fetch(c) PROVE ConnInv'
  BY <1>t, <1>g, <1>9 DEF Fetch
<1>10. ASSUME NEW c \in Calls, Materialize(c) PROVE ConnInv'
  BY <1>t, <1>g, <1>10 DEF Materialize
<1>11. ASSUME NEW c \in Calls, CloseCursor(c) PROVE ConnInv'
  BY <1>t, <1>g, <1>11 DEF CloseCursor
<1>12. ASSUME NEW c \in Calls, CloseConnection(c) PROVE ConnInv'
  BY <1>t, <1>g, <1>12 DEF CloseConnection
<1>13. ASSUME NEW c \in Calls, Handle(c) PROVE ConnInv'
  BY <1>t, <1>g, <1>13 DEF Handle
<1>14. ASSUME NEW c \in Calls, ReplyUncharged(c) PROVE ConnInv'
  BY <1>t, <1>g, <1>14 DEF ReplyUncharged
<1>15. ASSUME NEW c \in Calls, Charge(c) PROVE ConnInv'
  BY <1>t, <1>g, <1>15 DEF Charge
<1>16. ASSUME NEW c \in Calls, ReplyResult(c) PROVE ConnInv'
  BY <1>t, <1>g, <1>16 DEF ReplyResult
<1>17. ASSUME NEW c \in Calls, ReplyBlocked(c) PROVE ConnInv'
  BY <1>t, <1>g, <1>17 DEF ReplyBlocked
<1>18. ASSUME NEW c \in Calls, GuardrailStep(c) PROVE ConnInv'
  BY <1>t, <1>18 DEF GuardrailStep, toolVars
<1>19. CASE UNCHANGED vars
  BY <1>19 DEF vars, toolVars, guardVars
<1> QED
  BY <1>1, <1>2, <1>3, <1>4, <1>5, <1>6, <1>7, <1>8, <1>9, <1>10, <1>11, <1>12,
     <1>13, <1>14, <1>15, <1>16, <1>17, <1>18, <1>19 DEF Next, Step

\* An exception is handled before the call goes on.
LEMMA NextExc == TypeOK /\ ConnInv /\ ExcInv /\ GuardInv /\ [Next]_vars => ExcInv'
<1> SUFFICES ASSUME TypeOK, ConnInv, ExcInv, GuardInv, [Next]_vars PROVE ExcInv'
  OBVIOUS
<1>t. /\ DOMAIN at = Calls /\ DOMAIN conn = Calls /\ DOMAIN exc = Calls
      /\ DOMAIN ran = Calls /\ DOMAIN reply = Calls /\ DOMAIN tool = Calls
      /\ DOMAIN got = Calls /\ DOMAIN pc = Calls /\ DOMAIN rows = Calls
      /\ at \in [Calls -> Locations]
  BY DEF TypeOK, G!TypeOK
<1>g. UNCHANGED guardVars => UNCHANGED <<pc, rows>>
  BY DEF guardVars
<1> USE DEF ExcInv, Goto, Raise, Locations, Preparing
<1>1. ASSUME NEW c \in Calls, NEW t \in Tools, Invoke(c, t) PROVE ExcInv'
  <2>1. Rejections(t) \subseteq {"BadText", "BadIdent"}
    BY DEF Rejections, Tools, QueryTools
  <2> QED
    BY <1>t, <1>g, <1>1, <2>1 DEF Invoke
<1>2. ASSUME NEW c \in Calls, InvokeWithoutBackend(c) PROVE ExcInv'
  BY <1>t, <1>g, <1>2 DEF InvokeWithoutBackend
<1>3. ASSUME NEW c \in Calls, Connect(c) PROVE ExcInv'
  BY <1>t, <1>g, <1>3 DEF Connect
<1>4. ASSUME NEW c \in Calls, OpenCursor(c) PROVE ExcInv'
  BY <1>t, <1>g, <1>4 DEF OpenCursor
<1>5. ASSUME NEW c \in Calls, ApplyTimeout(c) PROVE ExcInv'
  BY <1>t, <1>g, <1>5 DEF ApplyTimeout
<1>6. ASSUME NEW c \in Calls, Estimate(c) PROVE ExcInv'
  <2>1. UNCHANGED pc \/ (pc[c] = "idle" /\ pc' = [pc EXCEPT ![c] = pc'[c]])
    BY <1>g, <1>6, EnterStep DEF Estimate
  <2> QED
    BY <1>t, <1>6, <2>1 DEF Estimate
<1>7. ASSUME NEW c \in Calls, Estimated(c) PROVE ExcInv'
  BY <1>t, <1>g, <1>7 DEF Estimated
<1>8. ASSUME NEW c \in Calls, Execute(c) PROVE ExcInv'
  BY <1>t, <1>g, <1>8 DEF Execute
<1>9. ASSUME NEW c \in Calls, Fetch(c) PROVE ExcInv'
  BY <1>t, <1>g, <1>9 DEF Fetch
<1>10. ASSUME NEW c \in Calls, Materialize(c) PROVE ExcInv'
  BY <1>t, <1>g, <1>10 DEF Materialize
<1>11. ASSUME NEW c \in Calls, CloseCursor(c) PROVE ExcInv'
  BY <1>t, <1>g, <1>11 DEF CloseCursor
<1>12. ASSUME NEW c \in Calls, CloseConnection(c) PROVE ExcInv'
  BY <1>t, <1>g, <1>12 DEF CloseConnection
<1>13. ASSUME NEW c \in Calls, Handle(c) PROVE ExcInv'
  BY <1>t, <1>g, <1>13 DEF Handle
<1>14. ASSUME NEW c \in Calls, ReplyUncharged(c) PROVE ExcInv'
  BY <1>t, <1>g, <1>14 DEF ReplyUncharged
<1>15. ASSUME NEW c \in Calls, Charge(c) PROVE ExcInv'
  <2>1. pc[c] \in {"idle", "cleared"} /\ pc' = [pc EXCEPT ![c] = pc'[c]]
    BY <1>15, EnterStep DEF Charge
  <2> QED
    BY <1>t, <1>15, <2>1 DEF Charge
<1>16. ASSUME NEW c \in Calls, ReplyResult(c) PROVE ExcInv'
  BY <1>t, <1>g, <1>16 DEF ReplyResult
<1>17. ASSUME NEW c \in Calls, ReplyBlocked(c) PROVE ExcInv'
  BY <1>t, <1>g, <1>17 DEF ReplyBlocked
<1>18. ASSUME NEW c \in Calls, GuardrailStep(c) PROVE ExcInv'
  <2>1. pc[c] # "blocked" /\ pc' = [pc EXCEPT ![c] = pc'[c]]
    BY <1>18, InsideStep DEF GuardrailStep, Charging
  <2> QED
    BY <1>t, <1>18, <2>1 DEF GuardrailStep, toolVars
<1>19. CASE UNCHANGED vars
  BY <1>19 DEF vars, toolVars, guardVars
<1> QED
  BY <1>1, <1>2, <1>3, <1>4, <1>5, <1>6, <1>7, <1>8, <1>9, <1>10, <1>11, <1>12,
     <1>13, <1>14, <1>15, <1>16, <1>17, <1>18, <1>19 DEF Next, Step

\* A call goes into the guardrails with the rows that it has got, and takes the
\* verdict from them.
LEMMA NextGuard == TypeOK /\ ConnInv /\ ExcInv /\ GuardInv /\ [Next]_vars => GuardInv'
<1> SUFFICES ASSUME TypeOK, ConnInv, ExcInv, GuardInv, [Next]_vars PROVE GuardInv'
  OBVIOUS
<1>t. /\ DOMAIN at = Calls /\ DOMAIN conn = Calls /\ DOMAIN exc = Calls
      /\ DOMAIN ran = Calls /\ DOMAIN reply = Calls /\ DOMAIN tool = Calls
      /\ DOMAIN got = Calls /\ DOMAIN pc = Calls /\ DOMAIN rows = Calls
      /\ at \in [Calls -> Locations]
  BY DEF TypeOK, G!TypeOK
<1>g. UNCHANGED guardVars => UNCHANGED <<pc, rows>>
  BY DEF guardVars
<1> USE DEF GuardInv, Goto, Raise, Locations, Preparing, Outside
<1>1. ASSUME NEW c \in Calls, NEW t \in Tools, Invoke(c, t) PROVE GuardInv'
  BY <1>t, <1>g, <1>1 DEF Invoke, Charging
<1>2. ASSUME NEW c \in Calls, InvokeWithoutBackend(c) PROVE GuardInv'
  BY <1>t, <1>g, <1>2 DEF InvokeWithoutBackend, Charging
<1>3. ASSUME NEW c \in Calls, Connect(c) PROVE GuardInv'
  BY <1>t, <1>g, <1>3 DEF Connect
<1>4. ASSUME NEW c \in Calls, OpenCursor(c) PROVE GuardInv'
  BY <1>t, <1>g, <1>4 DEF OpenCursor
<1>5. ASSUME NEW c \in Calls, ApplyTimeout(c) PROVE GuardInv'
  BY <1>t, <1>g, <1>5 DEF ApplyTimeout
<1>6. ASSUME NEW c \in Calls, Estimate(c) PROVE GuardInv'
  <2>1. \/ /\ pc[c] = "idle" /\ pc' = [pc EXCEPT ![c] = pc'[c]]
           /\ pc'[c] \in Estimating /\ rows' = rows
           /\ Goto(c, "estimate", "estimating")
        \/ Raise(c, "estimate", "Driver") /\ UNCHANGED <<pc, rows>>
    BY <1>g, <1>6, EnterStep DEF Estimate
  <2>2. pc'[c] \in Charging => pc[c] \in Charging
    BY <1>t, <2>1 DEF Estimating, Charging
  <2> QED
    BY <1>t, <1>6, <2>1, <2>2 DEF Estimate, Estimating
<1>7. ASSUME NEW c \in Calls, Estimated(c) PROVE GuardInv'
  BY <1>t, <1>g, <1>7 DEF Estimated, Charging
<1>8. ASSUME NEW c \in Calls, Execute(c) PROVE GuardInv'
  BY <1>t, <1>g, <1>8 DEF Execute
<1>9. ASSUME NEW c \in Calls, Fetch(c) PROVE GuardInv'
  BY <1>t, <1>g, <1>9 DEF Fetch, Charging, Extracting, RowTools, QueryTools
<1>10. ASSUME NEW c \in Calls, Materialize(c) PROVE GuardInv'
  BY <1>t, <1>g, <1>10 DEF Materialize, Charging, RowTools, QueryTools
<1>11. ASSUME NEW c \in Calls, CloseCursor(c) PROVE GuardInv'
  BY <1>t, <1>g, <1>11 DEF CloseCursor
<1>12. ASSUME NEW c \in Calls, CloseConnection(c) PROVE GuardInv'
  BY <1>t, <1>g, <1>12 DEF CloseConnection
<1>13. ASSUME NEW c \in Calls, Handle(c) PROVE GuardInv'
  <2>1. /\ Handler(exc[c]) \notin {"result", "budget_block"}
        /\ Handler(exc[c]) = "estimate_block" => exc[c] = "Estimate"
    <3>1. exc[c] \in Exceptions
      BY <1>13 DEF Handle, ExcInv, TypeOK
    <3> QED
      BY <3>1 DEF Handler, Exceptions
  <2> QED
    BY <1>t, <1>g, <1>13, <2>1 DEF Handle, ExcInv
<1>14. ASSUME NEW c \in Calls, ReplyUncharged(c) PROVE GuardInv'
  BY <1>t, <1>g, <1>14 DEF ReplyUncharged
<1>15. ASSUME NEW c \in Calls, Charge(c) PROVE GuardInv'
  <2>1. /\ pc[c] \in {"idle", "cleared"} /\ pc' = [pc EXCEPT ![c] = pc'[c]]
        /\ pc'[c] \in Charging /\ rows' = [rows EXCEPT ![c] = got[c]]
    BY <1>15, EnterStep DEF Charge
  <2> QED
    BY <1>t, <1>15, <2>1 DEF Charge, Charging
<1>16. ASSUME NEW c \in Calls, ReplyResult(c) PROVE GuardInv'
  BY <1>t, <1>g, <1>16 DEF ReplyResult
<1>17. ASSUME NEW c \in Calls, ReplyBlocked(c) PROVE GuardInv'
  BY <1>t, <1>g, <1>17 DEF ReplyBlocked
<1>18. ASSUME NEW c \in Calls, GuardrailStep(c) PROVE GuardInv'
  <2>1. /\ pc' = [pc EXCEPT ![c] = pc'[c]] /\ rows' = rows
        /\ \/ pc[c] \in {"blockLock", "blockStore"} /\ pc'[c] \in Estimating
           \/ pc[c] \in Charging \ {"returned", "withheld"} /\ pc'[c] \in Charging
    BY <1>18, InsideStep DEF GuardrailStep
  <2> QED
    BY <1>t, <1>18, <2>1 DEF GuardrailStep, toolVars, Estimating, Charging
<1>19. CASE UNCHANGED vars
  BY <1>19 DEF vars, toolVars, guardVars
<1> QED
  BY <1>1, <1>2, <1>3, <1>4, <1>5, <1>6, <1>7, <1>8, <1>9, <1>10, <1>11, <1>12,
     <1>13, <1>14, <1>15, <1>16, <1>17, <1>18, <1>19 DEF Next, Step

\* No reply is changed, and none is given before the call has stopped running.
LEMMA NextStopped == TypeOK /\ ConnInv /\ ExcInv /\ GuardInv /\ StoppedBeforeRunning
                    /\ [Next]_vars => StoppedBeforeRunning'
<1> SUFFICES ASSUME TypeOK, ConnInv, ExcInv, GuardInv, StoppedBeforeRunning,
                    [Next]_vars
             PROVE  StoppedBeforeRunning'
  OBVIOUS
<1>t. /\ DOMAIN at = Calls /\ DOMAIN conn = Calls /\ DOMAIN exc = Calls
      /\ DOMAIN ran = Calls /\ DOMAIN reply = Calls /\ DOMAIN tool = Calls
      /\ DOMAIN got = Calls /\ DOMAIN pc = Calls /\ DOMAIN rows = Calls
      /\ at \in [Calls -> Locations]
  BY DEF TypeOK, G!TypeOK
<1>g. UNCHANGED guardVars => UNCHANGED <<pc, rows>>
  BY DEF guardVars
<1> USE DEF StoppedBeforeRunning, Answered, Goto, Raise, Locations
<1>1. ASSUME NEW c \in Calls, NEW t \in Tools, Invoke(c, t) PROVE StoppedBeforeRunning'
  BY <1>t, <1>g, <1>1 DEF Invoke
<1>2. ASSUME NEW c \in Calls, InvokeWithoutBackend(c) PROVE StoppedBeforeRunning'
  BY <1>t, <1>g, <1>2 DEF InvokeWithoutBackend, ExcInv, Preparing
<1>3. ASSUME NEW c \in Calls, Connect(c) PROVE StoppedBeforeRunning'
  BY <1>t, <1>g, <1>3 DEF Connect
<1>4. ASSUME NEW c \in Calls, OpenCursor(c) PROVE StoppedBeforeRunning'
  BY <1>t, <1>g, <1>4 DEF OpenCursor
<1>5. ASSUME NEW c \in Calls, ApplyTimeout(c) PROVE StoppedBeforeRunning'
  BY <1>t, <1>g, <1>5 DEF ApplyTimeout
<1>6. ASSUME NEW c \in Calls, Estimate(c) PROVE StoppedBeforeRunning'
  BY <1>t, <1>g, <1>6 DEF Estimate
<1>7. ASSUME NEW c \in Calls, Estimated(c) PROVE StoppedBeforeRunning'
  BY <1>t, <1>g, <1>7 DEF Estimated
<1>8. ASSUME NEW c \in Calls, Execute(c) PROVE StoppedBeforeRunning'
  <2>1. reply[c] = "none"
    BY <1>8 DEF Execute, TypeOK
  <2> QED
    BY <1>t, <1>8, <2>1 DEF Execute
<1>9. ASSUME NEW c \in Calls, Fetch(c) PROVE StoppedBeforeRunning'
  BY <1>t, <1>g, <1>9 DEF Fetch
<1>10. ASSUME NEW c \in Calls, Materialize(c) PROVE StoppedBeforeRunning'
  BY <1>t, <1>g, <1>10 DEF Materialize
<1>11. ASSUME NEW c \in Calls, CloseCursor(c) PROVE StoppedBeforeRunning'
  BY <1>t, <1>g, <1>11 DEF CloseCursor
<1>12. ASSUME NEW c \in Calls, CloseConnection(c) PROVE StoppedBeforeRunning'
  BY <1>t, <1>g, <1>12 DEF CloseConnection
<1>13. ASSUME NEW c \in Calls, Handle(c) PROVE StoppedBeforeRunning'
  <2>1. Handler(exc[c]) \in {"setup_error", "estimate_block", "no_backend"}
          => exc[c] \in {"Setup", "Estimate"}
    <3>1. exc[c] \in Exceptions
      BY <1>13 DEF Handle, ExcInv, TypeOK
    <3> QED
      BY <3>1 DEF Handler, Exceptions
  <2> QED
    BY <1>t, <1>13, <2>1 DEF Handle, ExcInv
<1>14. ASSUME NEW c \in Calls, ReplyUncharged(c) PROVE StoppedBeforeRunning'
  BY <1>t, <1>g, <1>14 DEF ReplyUncharged
<1>15. ASSUME NEW c \in Calls, Charge(c) PROVE StoppedBeforeRunning'
  BY <1>t, <1>g, <1>15 DEF Charge
<1>16. ASSUME NEW c \in Calls, ReplyResult(c) PROVE StoppedBeforeRunning'
  BY <1>t, <1>g, <1>16 DEF ReplyResult
<1>17. ASSUME NEW c \in Calls, ReplyBlocked(c) PROVE StoppedBeforeRunning'
  BY <1>t, <1>g, <1>17 DEF ReplyBlocked
<1>18. ASSUME NEW c \in Calls, GuardrailStep(c) PROVE StoppedBeforeRunning'
  BY <1>t, <1>18 DEF GuardrailStep, toolVars
<1>19. CASE UNCHANGED vars
  BY <1>19 DEF vars, toolVars, guardVars
<1> QED
  BY <1>1, <1>2, <1>3, <1>4, <1>5, <1>6, <1>7, <1>8, <1>9, <1>10, <1>11, <1>12,
     <1>13, <1>14, <1>15, <1>16, <1>17, <1>18, <1>19 DEF Next, Step

-----------------------------------------------------------------------------
(* The theorems about the tools *)

LEMMA InvCorrect == Spec => []ToolsInv
<1>1. ToolsInv /\ [Next]_vars => ToolsInv'
  <2> SUFFICES ASSUME ToolsInv, [Next]_vars PROVE ToolsInv'
    OBVIOUS
  <2>1. TypeOK' /\ ConnInv' /\ ExcInv' /\ GuardInv' /\ StoppedBeforeRunning'
    BY NextType, NextConn, NextExc, NextGuard, NextStopped DEF ToolsInv
  <2>2. NoConnectionLeak'
    BY <2>1 DEF TypeOK, ConnInv, NoConnectionLeak
  <2> QED
    BY <2>1, <2>2 DEF ToolsInv
<1> QED
  BY InitInv, <1>1, PTL DEF Spec

\* The types are right, and a call has its reply when it is done.
THEOREM TypeCorrect == Spec => []TypeOK
<1>1. ToolsInv => TypeOK
  BY DEF ToolsInv
<1> QED
  BY <1>1, InvCorrect, PTL

\* Whatever raises, and wherever, the connection of a call is closed when the
\* agent gets its reply (SqlDialect._cursor).
THEOREM ConnectionsAreClosed == Spec => []NoConnectionLeak
<1>1. ToolsInv => NoConnectionLeak
  BY DEF ToolsInv
<1> QED
  BY <1>1, InvCorrect, PTL

\* A reply that says so is given only when the statement did not run
\* (format_setup_error, format_estimate_block).
THEOREM StoppedCorrect == Spec => []StoppedBeforeRunning
<1>1. ToolsInv => StoppedBeforeRunning
  BY DEF ToolsInv
<1> QED
  BY <1>1, InvCorrect, PTL

\* The tools use the guardrails as Guardrails has it: one estimate at most, then
\* one charge, each from where the other left off (SqlDialect.build_tools).
THEOREM ToolsUseGuardrails == Spec => G!Spec
<1>1. Init => G!Init
  BY DEF Init
<1>2. Spec => []TypeOK
  BY TypeCorrect
<1> QED
  BY <1>1, <1>2, GuardrailsStep, PTL DEF Spec, G!Spec

\* Through them the tools keep the ledger of the abstract budget: what an agent
\* is charged is never forgotten, and a result is withheld only beyond its
\* budget, whatever connections and watchdogs do in between.
THEOREM ToolsKeepTheLedger == Spec => GP!Ledger
<1>1. G!Init => GP!Init
  BY SameState
<1>2. G!Spec => GP!Spec
  BY <1>1, SameNext, PTL DEF G!Spec, GP!Spec
<1>3. GP!Spec => GP!Ledger
  BY GuardrailsAssumed, GP!GuardrailsKeepTheLedger
<1> QED
  BY <1>2, <1>3, ToolsUseGuardrails, PTL

LEMMA GuardrailsTheorems == Spec => []GP!BudgetRespected /\ []GP!MetricsExact
<1>1. G!Init => GP!Init
  BY SameState
<1>2. G!Spec => GP!Spec
  BY <1>1, SameNext, PTL DEF G!Spec, GP!Spec
<1>3. GP!Spec => []GP!BudgetRespected
  BY GuardrailsAssumed, GP!BudgetIsRespected
<1>4. GP!Spec => []GP!MetricsExact
  BY GuardrailsAssumed, GP!MetricsAreExact
<1> QED
  BY <1>2, <1>3, <1>4, ToolsUseGuardrails, PTL

-----------------------------------------------------------------------------
(* What the agent sees *)

\* The rows that are shown are rows that charge has let through.
LEMMA ShownIsReturned == ToolsInv /\ GP!BudgetRespected => ShownWithinBudget
<1> SUFFICES ASSUME ToolsInv, GP!BudgetRespected, build = "gil",
                    NEW a \in Agents, budget[a] # NoBudget
             PROVE  Total({c \in Answered({"result"}) : AgentOf[c] = a}, got) <= budget[a]
  BY DEF ShownWithinBudget
<1> DEFINE S == {c \in Answered({"result"}) : AgentOf[c] = a}
           R == {c \in Calls : pc[c] = "returned" /\ AgentOf[c] = a}
<1>1. Total(R, rows) <= budget[a]
  <2>1. GP!Returned \cap GP!Of(a) = R
    BY DEF GP!Returned, GP!At, GP!Of
  <2>2. GP!Total(R, rows) <= budget[a]
    BY <2>1 DEF GP!BudgetRespected
  <2> QED
    BY <2>2, SameCounts
<1>2. rows \in [Calls -> Nat] /\ got \in [Calls -> Nat] /\ budget[a] \in Nat
  <2>1. rows \in [Calls -> 0 .. MaxRows] /\ got \in [Calls -> 0 .. MaxRows]
    BY DEF ToolsInv, TypeOK, G!TypeOK
  <2>2. budget[a] \in Nat \cup {NoBudget}
    BY DEF ToolsInv, TypeOK, G!TypeOK
  <2> QED
    BY <2>1, <2>2
<1>3. ASSUME NEW c \in S PROVE got[c] = 0 \/ (c \in R /\ got[c] = rows[c])
  <2>1. c \in Calls /\ reply[c] = "result" /\ AgentOf[c] = a
    BY DEF Answered
  <2>2. at[c] = "done"
    BY <2>1 DEF ToolsInv, TypeOK
  <2>3. tool[c] \notin RowTools => got[c] = 0
    BY <2>1 DEF ToolsInv, GuardInv
  <2>4. tool[c] \in RowTools => pc[c] = "returned"
    BY <2>1, <2>2 DEF ToolsInv, GuardInv
  <2>5. pc[c] = "returned" => rows[c] = got[c]
    BY <2>1 DEF ToolsInv, GuardInv, Charging
  <2> QED
    BY <2>1, <2>3, <2>4, <2>5
<1>4. RowsOf(S, got) \in SUBSET RowsOf(R, rows)
  <2> SUFFICES ASSUME NEW c \in S, NEW i \in 1 .. got[c] PROVE <<c, i>> \in RowsOf(R, rows)
    BY DEF RowsOf
  <2>1. c \in R /\ i \in 1 .. rows[c]
    BY <1>2, <1>3 DEF Answered
  <2> QED
    BY <2>1 DEF RowsOf
<1>5. R \in SUBSET Calls /\ IsFiniteSet(R)
  BY FS_Subset
<1>6. IsFiniteSet(RowsOf(R, rows))
  <2>1. GP!IsFiniteSet(R)
    BY <1>5, SameCounts
  <2>2. GP!IsFiniteSet(GP!RowsOf(R, rows))
    BY <1>2, <1>5, <2>1, GuardrailsAssumed, GP!RowsFinite
  <2>3. GP!RowsOf(R, rows) = RowsOf(R, rows)
    BY DEF RowsOf, GP!RowsOf
  <2> QED
    BY <2>2, <2>3, SameCounts
<1>7. Total(S, got) <= Total(R, rows) /\ Total(S, got) \in Nat /\ Total(R, rows) \in Nat
  BY <1>4, <1>6, FS_Subset, FS_CardinalityType DEF Total
<1> QED
  BY <1>1, <1>2, <1>7

\* When no call is under way, what was recorded is what was replied.
LEMMA RecordedIsReplied == ToolsInv /\ GP!MetricsExact => MetricsMatchReplies
<1> SUFFICES ASSUME ToolsInv, GP!MetricsExact, \A c \in Calls : at[c] \in {"idle", "done"}
             PROVE  LET Metered == {c \in Calls : hasMetrics[AgentOf[c]]}
                        Charged == Answered({"result", "budget_block"}) \cap Invoked(Extracting)
                    IN  /\ counters.queries_run = Cardinality(Charged \cap Metered)
                        /\ counters.rows_returned = Total(Charged \cap Metered, got)
                        /\ counters.budget_exhausted =
                             Cardinality(Answered({"budget_block"}) \cap Metered)
                        /\ counters.estimate_blocked >=
                             Cardinality(Answered({"estimate_block"}) \cap Metered)
  BY DEF MetricsMatchReplies
<1> DEFINE Metered == {c \in Calls : hasMetrics[AgentOf[c]]}
           Charged == Answered({"result", "budget_block"}) \cap Invoked(Extracting)
           Told == {c \in GP!At({"withheld"}) : GP!Metered(c)}
           Stopped == {c \in GP!At({"blocked"}) : GP!Metered(c)}
<1>1. /\ counters.queries_run = Cardinality(GP!Recorded)
      /\ counters.rows_returned = Total(GP!Recorded, rows)
      /\ counters.budget_exhausted = Cardinality(Told)
      /\ counters.estimate_blocked = Cardinality(Stopped)
  BY SameCounts DEF GP!MetricsExact
<1>2. ASSUME NEW c \in Calls
      PROVE  /\ pc[c] \in Outside \cup {"returned", "withheld"}
             /\ pc[c] = "returned" => tool[c] \in RowTools /\ reply[c] = "result"
             /\ pc[c] = "withheld" => tool[c] \in RowTools /\ reply[c] = "budget_block"
             /\ pc[c] \in Outside => ~(reply[c] = "result" /\ tool[c] \in RowTools)
             /\ pc[c] \in Outside => reply[c] # "budget_block"
             /\ reply[c] = "estimate_block" => pc[c] = "blocked"
             /\ pc[c] \in {"returned", "withheld"} => got[c] = rows[c]
  BY DEF ToolsInv, TypeOK, GuardInv, Preparing, Outside, Charging
<1>3. RowTools = Extracting
  BY DEF RowTools, Extracting, QueryTools
<1>4. GP!Recorded = Charged \cap Metered
  BY <1>2, <1>3 DEF GP!Recorded, GP!Withheld, GP!At, GP!Metered, Answered, Invoked, Outside
<1>5. Told = Answered({"budget_block"}) \cap Metered
  BY <1>2 DEF GP!At, GP!Metered, Answered, Outside
<1>6. Answered({"estimate_block"}) \cap Metered \in SUBSET Stopped
  BY <1>2 DEF GP!At, GP!Metered, Answered
<1>7. Total(GP!Recorded, rows) = Total(GP!Recorded, got)
  <2>1. \A c \in GP!Recorded : rows[c] = got[c]
    BY <1>2 DEF GP!Recorded, GP!Withheld, GP!At, Outside
  <2> QED
    BY <2>1, GuardrailsAssumed, SameCounts, GP!TotalAgree
<1>8. IsFiniteSet(Stopped)
  <2>1. Stopped \in SUBSET Calls
    BY DEF GP!At
  <2> QED
    BY <2>1, FS_Subset
<1>9. Cardinality(Answered({"estimate_block"}) \cap Metered) <= Cardinality(Stopped)
      /\ Cardinality(Answered({"estimate_block"}) \cap Metered) \in Nat
      /\ Cardinality(Stopped) \in Nat
  <2> DEFINE B == Answered({"estimate_block"}) \cap Metered
  <2> HIDE DEF B, Stopped
  <2> QED
    BY <1>6, <1>8, FS_Subset, FS_CardinalityType DEF B
<1> QED
  BY <1>1, <1>4, <1>5, <1>7, <1>9

\* What all the tools of an agent show it is within its row budget, however its
\* calls interleave (SqlDialect.build_tools, SessionBudget.charge).
THEOREM ShownCorrect == Spec => []ShownWithinBudget
BY InvCorrect, GuardrailsTheorems, ShownIsReturned, PTL

\* The shared metrics agree with the replies that the agents got
\* (SessionMetrics, SqlDialect.build_tools).
THEOREM MetricsCorrect == Spec => []MetricsMatchReplies
BY InvCorrect, GuardrailsTheorems, RecordedIsReplied, PTL

=============================================================================
