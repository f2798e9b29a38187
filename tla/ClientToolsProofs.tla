-------------------------- MODULE ClientToolsProofs --------------------------
(***************************************************************************)
(* The proofs about ClientTools, for any number of agents and parallel     *)
(* calls, any budgets and numbers of rows and any number of closes: what   *)
(* the tools do with the row budget and with the client is what RowBudget  *)
(* and ClientCell promise, and ClientToolsInv carries it over to what the  *)
(* agent sees.                                                             *)
(***************************************************************************)
EXTENDS ClientTools, FiniteSetTheorems, TLAPS

USE ClientToolsAssumption

-----------------------------------------------------------------------------
(* The types *)

\* What a call may be doing.
ToolNames == (UNION {Tools[d] : d \in Dialects}) \cup {"none"}

\* The types of the state of the calls.
ToolTypes ==
  /\ tool \in [Calls -> ToolNames]
  /\ at \in [Calls -> Locations]
  /\ todo \in [Calls -> 0 .. 3]
  /\ session \in [Calls -> BOOLEAN]
  /\ exc \in [Calls -> Exceptions \cup {"none"}]
  /\ reply \in [Calls -> Replies \cup {"none"}]
  /\ \A c \in Calls : reply[c] = "none" <=> at[c] # "done"

\* The types of the data that they carry.
DataTypes ==
  /\ ran \in [Calls -> BOOLEAN]
  /\ got \in [Calls -> 0 .. MaxRows]
  /\ left \in [Calls -> BOOLEAN] /\ hint \in [Calls -> BOOLEAN]
  /\ file \in [Calls -> {"none", "update", "stored"}]

\* The types of what they share.
SharedTypes ==
  /\ budget \in [Agents -> Budgets] /\ serial \in BOOLEAN
  /\ entered \subseteq Calls
  /\ rows \in [Calls -> 0 .. MaxRows]
  /\ verdict \in [Calls -> {"open", "returned", "withheld"}]
  /\ cell \in Clients \cup {NoCall}
  /\ open \subseteq Clients
  /\ taken \in [Clients \cup {Closer} -> Clients \cup {NoCall}]
  /\ dialect \in Dialects
  /\ named \in BOOLEAN /\ backend \in BOOLEAN
  /\ closes \in 0 .. MaxCloses

LEMMA TypeParts == TypeOK <=> ToolTypes /\ DataTypes /\ SharedTypes
BY DEF TypeOK, ToolNames, ToolTypes, DataTypes, SharedTypes

\* A page is never larger than hard_max_rows.
LEMMA ClampLimitType ==
  ASSUME NEW size \in Int
  PROVE  ClampLimit(size) \in Nat /\ ClampLimit(size) <= MaxRows
BY DEF ClampLimit

\* A tool of the dialect of the agent is a tool.
LEMMA ToolType == SharedTypes => Tools[dialect] \subseteq ToolNames
<1>1. SharedTypes => dialect \in Dialects
  BY DEF SharedTypes
<1>2. dialect \in Dialects => Tools[dialect] \in {Tools[d] : d \in Dialects}
  OBVIOUS
<1> QED
  BY <1>1, <1>2 DEF ToolNames

LEMMA RequestsType == \A t : Requests(t) \in 1 .. 3
BY DEF Requests

\* A call goes from a request to one of five places.
LEMMA OnwardType ==
  ASSUME FlowInv, ToolTypes, SharedTypes, NEW c \in Calls, at[c] # "idle",
         NEW n \in 0 .. Requests(tool[c]) - 1
  PROVE  /\ n = 0 => Onward(c, n) \in {"write", "settle"}
         /\ n # 0 => Onward(c, n) \in {"get", "estimated"}
<1>1. n # 0 => Requests(tool[c]) # 1
  BY RequestsType
<1>2. n # 0 => tool[c] = "schema" \/ tool[c] \in Estimating
  BY <1>1 DEF Requests
<1>3. n \in Nat
  BY RequestsType
<1> QED
  BY <1>2, <1>3 DEF Onward

\* Every exception has a handler, and the agent hears of a block only then.
LEMMA HandlerType ==
  ASSUME NEW t, NEW e \in Exceptions, NEW r \in Handler(t, e)
  PROVE  /\ r \in Replies \ {"none", "result", "budget_block", "no_backend"}
         /\ r = "estimate_block" => e = "Estimate"
BY DEF Exceptions, Handler, Replies

\* A call has its reply when it is done, and no sooner.
LEMMA NextTools == ToolTypes /\ SharedTypes /\ FlowInv /\ [Next]_vars => ToolTypes'
<1> SUFFICES ASSUME ToolTypes, SharedTypes, FlowInv, [Next]_vars PROVE ToolTypes'
  OBVIOUS
<1>o. ASSUME NEW c \in Calls, Done(c)
      PROVE  Onward(c, todo[c] - 1) \in Locations \ {"idle", "done"}
  <2>1. at[c] = "request" /\ todo[c] - 1 \in 0 .. Requests(tool[c]) - 1
    BY <1>o, RequestsType DEF Done, Goto, FlowInv
  <2> QED
    BY <2>1, OnwardType DEF Locations
<1>d. ASSUME NEW c \in Calls, Done(c) PROVE ToolTypes'
  <2>1. todo[c] - 1 \in 0 .. 3
    BY <1>d, RequestsType DEF Done, Goto, FlowInv
  <2> QED
    BY <1>d, <1>o, <2>1 DEF Done, Goto, ToolTypes, Locations
<1> USE DEF ToolTypes, Goto, Raise, Reply, Locations, Exceptions, Replies
<1>1. ASSUME NEW c \in Calls, NEW t \in Tools[dialect], Invoke(c, t) PROVE ToolTypes'
  <2>1. t \in ToolNames
    BY <1>1, ToolType
  <2>2. Requests(t) \in 0 .. 3
    BY RequestsType
  <2> QED
    BY <1>1, <2>1, <2>2 DEF Invoke
<1>2. ASSUME NEW c \in Calls, NEW t \in Tools[dialect], InvokeWithoutBackend(c, t)
      PROVE  ToolTypes'
  <2>1. t \in ToolNames
    BY <1>2, ToolType
  <2> QED
    BY <1>2, <2>1 DEF InvokeWithoutBackend
<1>3. ASSUME NEW c \in Calls, GetClient(c) PROVE ToolTypes'
  BY <1>3 DEF GetClient
<1>4. ASSUME NEW c \in Calls, RefuseUnnamed(c) PROVE ToolTypes'
  BY <1>4 DEF RefuseUnnamed
<1>5. ASSUME NEW c \in Calls, ReceiveClient(c) PROVE ToolTypes'
  BY <1>5 DEF ReceiveClient
<1>6. ASSUME NEW c \in Calls, RequestFails(c) PROVE ToolTypes'
  BY <1>6 DEF RequestFails
<1>7. ASSUME NEW c \in Calls, RequestMore(c) PROVE ToolTypes'
  BY <1>d, <1>7 DEF RequestMore
<1>8. ASSUME NEW c \in Calls, RequestFacts(c) PROVE ToolTypes'
  BY <1>d, <1>8 DEF RequestFacts
<1>9. ASSUME NEW c \in Calls, RequestPage(c) PROVE ToolTypes'
  BY <1>d, <1>9 DEF RequestPage
<1>10. ASSUME NEW c \in Calls, RequestRows(c) PROVE ToolTypes'
  BY <1>d, <1>10 DEF RequestRows
<1>11. ASSUME NEW c \in Calls, Leave(c) PROVE ToolTypes'
  <2>1. at[c] = "leave" /\ exc[c] = "none" =>
          Onward(c, todo[c]) \in Locations \ {"idle", "done"}
    BY OnwardType DEF FlowInv
  <2> QED
    BY <1>11, <2>1 DEF Leave
<1>12. ASSUME NEW c \in Calls, CheckEstimate(c) PROVE ToolTypes'
  BY <1>12 DEF CheckEstimate
<1>13. ASSUME NEW c \in Calls, Write(c) PROVE ToolTypes'
  BY <1>13 DEF Write
<1>14. ASSUME NEW c \in Calls, WriteFails(c) PROVE ToolTypes'
  BY <1>14 DEF WriteFails
<1>15. ASSUME NEW c \in Calls, Handle(c) PROVE ToolTypes'
  <2>1. PICK r \in Handler(tool[c], exc[c]) : reply' = [reply EXCEPT ![c] = r]
    BY <1>15 DEF Handle
  <2>2. exc[c] \in Exceptions
    BY <1>15 DEF Handle, FlowInv
  <2>3. r \in Replies /\ r # "none"
    BY <2>1, <2>2, HandlerType
  <2> QED
    BY <1>15, <2>1, <2>3 DEF Handle
<1>16. ASSUME NEW c \in Calls, ReplyBuckets(c) PROVE ToolTypes'
  BY <1>16 DEF ReplyBuckets
<1>17. ASSUME NEW c \in Calls, ReplyUncharged(c) PROVE ToolTypes'
  BY <1>17 DEF ReplyUncharged
<1>18. ASSUME NEW c \in Calls, Charge(c) PROVE ToolTypes'
  BY <1>18 DEF Charge
<1>19. ASSUME NEW c \in Calls, Enter(c) PROVE ToolTypes'
  BY <1>19 DEF Enter, toolVars
<1>20. ASSUME NEW c \in Calls, ReplyResult(c) PROVE ToolTypes'
  BY <1>20 DEF ReplyResult
<1>21. ASSUME NEW c \in Calls, ReplyBlocked(c) PROVE ToolTypes'
  BY <1>21 DEF ReplyBlocked
<1>22. ASSUME TakeClient \/ CloseClient PROVE ToolTypes'
  BY <1>22 DEF TakeClient, CloseClient, toolVars, budgetVars, setupVars, dataVars
<1>23. CASE UNCHANGED vars
  BY <1>23 DEF vars, toolVars, budgetVars, setupVars, dataVars
<1> QED
  BY <1>1, <1>2, <1>3, <1>4, <1>5, <1>6, <1>7, <1>8, <1>9, <1>10, <1>11, <1>12,
     <1>13, <1>14, <1>15, <1>16, <1>17, <1>18, <1>19, <1>20, <1>21, <1>22, <1>23
     DEF Next, Step

\* A call has at most hard_max_rows rows.
LEMMA NextData == ToolTypes /\ DataTypes /\ [Next]_vars => DataTypes'
<1> SUFFICES ASSUME ToolTypes, DataTypes, [Next]_vars PROVE DataTypes'
  OBVIOUS
<1>o. \A size \in 0 .. MaxRows + 1 : 0 .. ClampLimit(size) \subseteq 0 .. MaxRows
  BY ClampLimitType
<1>z. \A size \in 0 .. MaxRows + 1 : ClampLimit(size) \in 0 .. MaxRows
  BY ClampLimitType
<1> USE DEF DataTypes
<1>1. ASSUME NEW c \in Calls, NEW t \in Tools[dialect], Invoke(c, t) PROVE DataTypes'
  BY <1>1 DEF Invoke, dataVars
<1>2. ASSUME NEW c \in Calls, NEW t \in Tools[dialect], InvokeWithoutBackend(c, t)
      PROVE  DataTypes'
  BY <1>2 DEF InvokeWithoutBackend, dataVars
<1>3. ASSUME NEW c \in Calls, GetClient(c) PROVE DataTypes'
  BY <1>3 DEF GetClient, dataVars
<1>4. ASSUME NEW c \in Calls, RefuseUnnamed(c) PROVE DataTypes'
  BY <1>4 DEF RefuseUnnamed, dataVars
<1>5. ASSUME NEW c \in Calls, ReceiveClient(c) PROVE DataTypes'
  BY <1>5 DEF ReceiveClient, dataVars
<1>6. ASSUME NEW c \in Calls, RequestFails(c) PROVE DataTypes'
  BY <1>6 DEF RequestFails, dataVars
<1>7. ASSUME NEW c \in Calls, RequestMore(c) PROVE DataTypes'
  BY <1>7 DEF RequestMore, dataVars
<1>8. ASSUME NEW c \in Calls, RequestFacts(c) PROVE DataTypes'
  BY <1>8 DEF RequestFacts, dataVars
<1>9. ASSUME NEW c \in Calls, RequestPage(c) PROVE DataTypes'
  <2>1. PICK size \in 0 .. MaxRows + 1, more \in BOOLEAN :
               \E n \in IF more THEN {ClampLimit(size)} ELSE 0 .. ClampLimit(size) :
                 /\ got' = [got EXCEPT ![c] = n]
                 /\ left' = [left EXCEPT ![c] = more]
                 /\ hint' = [hint EXCEPT ![c] =
                               tool[c] \in Paged /\ SaysMore(n, size, more)]
    BY <1>9 DEF RequestPage
  <2>2. PICK n \in IF more THEN {ClampLimit(size)} ELSE 0 .. ClampLimit(size) :
               /\ got' = [got EXCEPT ![c] = n]
               /\ hint' = [hint EXCEPT ![c] =
                             tool[c] \in Paged /\ SaysMore(n, size, more)]
    BY <2>1
  <2>n. n \in 0 .. MaxRows
    BY <1>o, <1>z
  <2>3. left' \in [Calls -> BOOLEAN] /\ hint' \in [Calls -> BOOLEAN]
    BY <2>1, <2>2
  <2> QED
    BY <1>9, <2>2, <2>n, <2>3 DEF RequestPage
<1>10. ASSUME NEW c \in Calls, RequestRows(c) PROVE DataTypes'
  <2>1. PICK cut \in BOOLEAN :
               \E n \in IF cut /\ dialect = "search" THEN {MaxRows} ELSE 0 .. MaxRows :
                 /\ got' = [got EXCEPT ![c] = n]
                 /\ left' = [left EXCEPT ![c] = cut]
                 /\ hint' = [hint EXCEPT ![c] = ReportsCut(cut)]
    BY <1>10 DEF RequestRows
  <2>2. PICK n \in IF cut /\ dialect = "search" THEN {MaxRows} ELSE 0 .. MaxRows :
               /\ got' = [got EXCEPT ![c] = n]
               /\ hint' = [hint EXCEPT ![c] = ReportsCut(cut)]
    BY <2>1
  <2>n. n \in 0 .. MaxRows
    OBVIOUS
  <2>3. left' \in [Calls -> BOOLEAN] /\ hint' \in [Calls -> BOOLEAN]
    BY <2>1, <2>2 DEF ReportsCut
  <2> QED
    BY <1>10, <2>2, <2>n, <2>3 DEF RequestRows
<1>11. ASSUME NEW c \in Calls, Leave(c) PROVE DataTypes'
  BY <1>11 DEF Leave, dataVars
<1>12. ASSUME NEW c \in Calls, CheckEstimate(c) PROVE DataTypes'
  BY <1>12 DEF CheckEstimate, dataVars
<1>13. ASSUME NEW c \in Calls, Write(c) PROVE DataTypes'
  <2>1. 0 .. got[c] \subseteq 0 .. MaxRows
    OBVIOUS
  <2> QED
    BY <1>13, <2>1 DEF Write
<1>14. ASSUME NEW c \in Calls, WriteFails(c) PROVE DataTypes'
  BY <1>14 DEF WriteFails, dataVars
<1>15. ASSUME NEW c \in Calls, Handle(c) PROVE DataTypes'
  BY <1>15 DEF Handle, dataVars
<1>16. ASSUME NEW c \in Calls, ReplyBuckets(c) PROVE DataTypes'
  BY <1>16 DEF ReplyBuckets, dataVars
<1>17. ASSUME NEW c \in Calls, ReplyUncharged(c) PROVE DataTypes'
  BY <1>17 DEF ReplyUncharged, dataVars
<1>18. ASSUME NEW c \in Calls, Charge(c) PROVE DataTypes'
  BY <1>18 DEF Charge, dataVars
<1>19. ASSUME NEW c \in Calls, Enter(c) PROVE DataTypes'
  BY <1>19 DEF Enter, toolVars, dataVars
<1>20. ASSUME NEW c \in Calls, ReplyResult(c) PROVE DataTypes'
  BY <1>20 DEF ReplyResult, dataVars
<1>21. ASSUME NEW c \in Calls, ReplyBlocked(c) PROVE DataTypes'
  BY <1>21 DEF ReplyBlocked, dataVars
<1>22. ASSUME TakeClient \/ CloseClient PROVE DataTypes'
  BY <1>22 DEF TakeClient, CloseClient, toolVars, budgetVars, setupVars, dataVars
<1>23. CASE UNCHANGED vars
  BY <1>23 DEF vars, toolVars, budgetVars, setupVars, dataVars
<1> QED
  BY <1>1, <1>2, <1>3, <1>4, <1>5, <1>6, <1>7, <1>8, <1>9, <1>10, <1>11, <1>12,
     <1>13, <1>14, <1>15, <1>16, <1>17, <1>18, <1>19, <1>20, <1>21, <1>22, <1>23
     DEF Next, Step

\* What a step does to the row budget is a step of RowBudget.
LEMMA BudgetStep == DataTypes /\ [Next]_vars => [RB!Next]_(RB!vars)
<1> SUFFICES ASSUME DataTypes, [Next]_vars PROVE [RB!Next]_(RB!vars)
  OBVIOUS
<1>1. UNCHANGED budgetVars => UNCHANGED RB!vars
  BY DEF budgetVars, RB!vars
<1>2. ASSUME NEW c \in Calls, NEW t \in Tools[dialect],
             Invoke(c, t) \/ InvokeWithoutBackend(c, t)
      PROVE  UNCHANGED budgetVars
  BY <1>2 DEF Invoke, InvokeWithoutBackend
<1>3. ASSUME NEW c \in Calls,
             \/ GetClient(c) \/ RefuseUnnamed(c) \/ ReceiveClient(c) \/ RequestFails(c)
             \/ RequestMore(c) \/ RequestFacts(c) \/ RequestPage(c) \/ RequestRows(c)
             \/ Leave(c)
      PROVE  UNCHANGED budgetVars
  BY <1>3 DEF GetClient, RefuseUnnamed, ReceiveClient, RequestFails, RequestMore,
              RequestFacts, RequestPage, RequestRows, Leave, Done
<1>4. ASSUME NEW c \in Calls,
             \/ CheckEstimate(c) \/ Write(c) \/ WriteFails(c) \/ Handle(c)
             \/ ReplyBuckets(c) \/ ReplyUncharged(c)
      PROVE  UNCHANGED budgetVars
  BY <1>4 DEF CheckEstimate, Write, WriteFails, Handle, ReplyBuckets, ReplyUncharged
<1>5. ASSUME NEW c \in Calls, Charge(c) PROVE RB!Next
  <2>1. got[c] \in 0 .. MaxRows
    BY DEF DataTypes
  <2> QED
    BY <1>5, <2>1 DEF Charge, RB!Next
<1>6. ASSUME NEW c \in Calls, Enter(c) \/ ReplyResult(c) \/ ReplyBlocked(c) PROVE RB!Next
  BY <1>6 DEF Enter, ReplyResult, ReplyBlocked, RB!Next
<1>7. TakeClient \/ CloseClient \/ UNCHANGED vars => UNCHANGED budgetVars
  BY DEF TakeClient, CloseClient, vars
<1> QED
  BY <1>1, <1>2, <1>3, <1>4, <1>5, <1>6, <1>7 DEF Next, Step

\* What a step does to the client is a step of ClientCell.
LEMMA CellStep == SharedTypes /\ [Next]_vars => [CC!Next]_(CC!vars)
<1> SUFFICES ASSUME SharedTypes, [Next]_vars PROVE [CC!Next]_(CC!vars)
  OBVIOUS
<1>1. UNCHANGED cellVars => UNCHANGED CC!vars
  BY DEF cellVars, CC!vars
<1>2. ASSUME NEW c \in Calls, GetClient(c) PROVE [CC!Next]_(CC!vars)
  <2>1. closes + 1 \in Clients \cup {Closer}
    BY DEF SharedTypes, Clients
  <2> QED
    BY <1>1, <1>2, <2>1 DEF GetClient, CC!Next
<1>3. TakeClient \/ CloseClient => CC!Next
  BY DEF TakeClient, CloseClient, CC!Next
<1>4. ASSUME NEW c \in Calls, NEW t \in Tools[dialect],
             Invoke(c, t) \/ InvokeWithoutBackend(c, t)
      PROVE  UNCHANGED cellVars
  BY <1>4 DEF Invoke, InvokeWithoutBackend
<1>5. ASSUME NEW c \in Calls,
             \/ RefuseUnnamed(c) \/ ReceiveClient(c) \/ RequestFails(c)
             \/ RequestMore(c) \/ RequestFacts(c) \/ RequestPage(c) \/ RequestRows(c)
             \/ Leave(c)
      PROVE  UNCHANGED cellVars
  BY <1>5 DEF RefuseUnnamed, ReceiveClient, RequestFails, RequestMore, RequestFacts,
              RequestPage, RequestRows, Leave, Done
<1>6. ASSUME NEW c \in Calls,
             \/ CheckEstimate(c) \/ Write(c) \/ WriteFails(c) \/ Handle(c)
             \/ ReplyBuckets(c) \/ ReplyUncharged(c)
             \/ Charge(c) \/ Enter(c) \/ ReplyResult(c) \/ ReplyBlocked(c)
      PROVE  UNCHANGED cellVars
  BY <1>6 DEF CheckEstimate, Write, WriteFails, Handle, ReplyBuckets, ReplyUncharged,
              Charge, Enter, ReplyResult, ReplyBlocked
<1>7. UNCHANGED vars => UNCHANGED cellVars
  BY DEF vars
<1> QED
  BY <1>1, <1>2, <1>3, <1>4, <1>5, <1>6, <1>7 DEF Next, Step

\* The tools charge what they have got, and close only what was opened.
LEMMA NextShared == SharedTypes /\ DataTypes /\ [Next]_vars => SharedTypes'
<1> SUFFICES ASSUME SharedTypes, DataTypes, [Next]_vars PROVE SharedTypes'
  OBVIOUS
<1> USE DEF SharedTypes
<1>1. ASSUME NEW c \in Calls, NEW t \in Tools[dialect], Invoke(c, t) PROVE SharedTypes'
  BY <1>1 DEF Invoke, budgetVars, cellVars, setupVars
<1>2. ASSUME NEW c \in Calls, NEW t \in Tools[dialect], InvokeWithoutBackend(c, t)
      PROVE  SharedTypes'
  BY <1>2 DEF InvokeWithoutBackend, budgetVars, cellVars, setupVars
<1>3. ASSUME NEW c \in Calls, GetClient(c) PROVE SharedTypes'
  <2>1. closes + 1 \in Clients \/ UNCHANGED <<cell, open, taken>>
    <3>1. CASE CC!Open(closes + 1)
      BY <1>3, <3>1 DEF GetClient, Goto, Clients
    <3> QED
      BY <1>3, <3>1 DEF GetClient, cellVars
  <2> QED
    BY <1>3, <2>1 DEF GetClient, CC!Open, cellVars, budgetVars, setupVars
<1>4. ASSUME NEW c \in Calls, RefuseUnnamed(c) PROVE SharedTypes'
  BY <1>4 DEF RefuseUnnamed, budgetVars, cellVars, setupVars
<1>5. ASSUME NEW c \in Calls, ReceiveClient(c) PROVE SharedTypes'
  BY <1>5 DEF ReceiveClient, budgetVars, cellVars, setupVars
<1>6. ASSUME NEW c \in Calls, RequestFails(c) PROVE SharedTypes'
  BY <1>6 DEF RequestFails, budgetVars, cellVars, setupVars
<1>7. ASSUME NEW c \in Calls, RequestMore(c) PROVE SharedTypes'
  BY <1>7 DEF RequestMore, Done, budgetVars, cellVars, setupVars
<1>8. ASSUME NEW c \in Calls, RequestFacts(c) PROVE SharedTypes'
  BY <1>8 DEF RequestFacts, Done, budgetVars, cellVars, setupVars
<1>9. ASSUME NEW c \in Calls, RequestPage(c) PROVE SharedTypes'
  BY <1>9 DEF RequestPage, Done, budgetVars, cellVars, setupVars
<1>10. ASSUME NEW c \in Calls, RequestRows(c) PROVE SharedTypes'
  BY <1>10 DEF RequestRows, Done, budgetVars, cellVars, setupVars
<1>11. ASSUME NEW c \in Calls, Leave(c) PROVE SharedTypes'
  BY <1>11 DEF Leave, budgetVars, cellVars, setupVars
<1>12. ASSUME NEW c \in Calls, CheckEstimate(c) PROVE SharedTypes'
  BY <1>12 DEF CheckEstimate, budgetVars, cellVars, setupVars
<1>13. ASSUME NEW c \in Calls, Write(c) PROVE SharedTypes'
  BY <1>13 DEF Write, budgetVars, cellVars, setupVars
<1>14. ASSUME NEW c \in Calls, WriteFails(c) PROVE SharedTypes'
  BY <1>14 DEF WriteFails, budgetVars, cellVars, setupVars
<1>15. ASSUME NEW c \in Calls, Handle(c) PROVE SharedTypes'
  BY <1>15 DEF Handle, budgetVars, cellVars, setupVars
<1>16. ASSUME NEW c \in Calls, ReplyBuckets(c) PROVE SharedTypes'
  BY <1>16 DEF ReplyBuckets, budgetVars, cellVars, setupVars
<1>17. ASSUME NEW c \in Calls, ReplyUncharged(c) PROVE SharedTypes'
  BY <1>17 DEF ReplyUncharged, budgetVars, cellVars, setupVars
<1>18. ASSUME NEW c \in Calls, Charge(c) PROVE SharedTypes'
  <2>1. got[c] \in 0 .. MaxRows
    BY DEF DataTypes
  <2> QED
    BY <1>18, <2>1 DEF Charge, RB!Ask, cellVars, setupVars
<1>19. ASSUME NEW c \in Calls, Enter(c) PROVE SharedTypes'
  BY <1>19 DEF Enter, RB!Charge, cellVars, setupVars, toolVars
<1>20. ASSUME NEW c \in Calls, ReplyResult(c) PROVE SharedTypes'
  BY <1>20 DEF ReplyResult, RB!Return, cellVars, setupVars
<1>21. ASSUME NEW c \in Calls, ReplyBlocked(c) PROVE SharedTypes'
  BY <1>21 DEF ReplyBlocked, RB!Withhold, cellVars, setupVars
<1>22. ASSUME TakeClient \/ CloseClient PROVE SharedTypes'
  <2>1. CASE TakeClient
    BY <2>1 DEF TakeClient, CC!Take, budgetVars, setupVars
  <2>2. CASE CloseClient
    BY <2>2 DEF CloseClient, CC!Close, budgetVars, setupVars
  <2> QED
    BY <1>22, <2>1, <2>2
<1>23. CASE UNCHANGED vars
  BY <1>23 DEF vars, budgetVars, cellVars, setupVars
<1> QED
  BY <1>1, <1>2, <1>3, <1>4, <1>5, <1>6, <1>7, <1>8, <1>9, <1>10, <1>11, <1>12,
     <1>13, <1>14, <1>15, <1>16, <1>17, <1>18, <1>19, <1>20, <1>21, <1>22, <1>23
     DEF Next, Step

-----------------------------------------------------------------------------
(* The course of a call *)

\* A request that is done leads to the exit of its session, to the next one, or
\* to the end of the call.
LEMMA DoneStep ==
  ASSUME ToolTypes, SharedTypes, FlowInv, NEW c \in Calls, Done(c)
  PROVE  /\ at[c] = "request" /\ at' = [at EXCEPT ![c] = at'[c]]
         /\ exc[c] = "none" /\ todo' = [todo EXCEPT ![c] = todo[c] - 1]
         /\ todo[c] \in 1 .. Requests(tool[c])
         /\ \/ at'[c] = "leave"
            \/ ~session[c] /\ todo[c] = 1 /\ at'[c] \in {"write", "settle"}
            \/ ~session[c] /\ todo[c] > 1 /\ at'[c] \in {"get", "estimated"}
<1>1. /\ at[c] = "request"
      /\ at' = [at EXCEPT ![c] = IF session[c] THEN "leave" ELSE Onward(c, todo[c] - 1)]
      /\ DOMAIN at = Calls
  BY DEF Done, Goto, ToolTypes
<1>2. todo[c] \in 1 .. Requests(tool[c]) /\ exc[c] = "none"
  BY <1>1 DEF FlowInv
<1>3. todo[c] \in Nat /\ (todo[c] = 1 \/ todo[c] > 1)
  BY <1>2, RequestsType
<1>4. /\ todo[c] = 1 => Onward(c, todo[c] - 1) \in {"write", "settle"}
      /\ todo[c] > 1 => Onward(c, todo[c] - 1) \in {"get", "estimated"}
  <2>1. todo[c] - 1 \in 0 .. Requests(tool[c]) - 1
    BY <1>2, RequestsType
  <2> QED
    BY <1>1, <1>3, <2>1, OnwardType
<1>5. session[c] \/ ~session[c]
  OBVIOUS
<1> QED
  BY <1>1, <1>2, <1>3, <1>4, <1>5 DEF Done

\* A session is left before the call goes on, and an exception handled.
LEMMA NextFlow == ToolTypes /\ DataTypes /\ SharedTypes /\ FlowInv /\ [Next]_vars => FlowInv'
<1> SUFFICES ASSUME ToolTypes, DataTypes, SharedTypes, FlowInv, [Next]_vars PROVE FlowInv'
  OBVIOUS
<1>t. /\ DOMAIN at = Calls /\ DOMAIN exc = Calls /\ DOMAIN todo = Calls
      /\ DOMAIN session = Calls /\ DOMAIN reply = Calls /\ DOMAIN tool = Calls
      /\ DOMAIN ran = Calls /\ DOMAIN got = Calls /\ DOMAIN left = Calls
      /\ DOMAIN hint = Calls
      /\ at \in [Calls -> Locations] /\ session \in [Calls -> BOOLEAN]
      /\ todo \in [Calls -> 0 .. 3]
  BY DEF ToolTypes, DataTypes
<1>d. ASSUME NEW c \in Calls, Done(c)
      PROVE  /\ at[c] = "request" /\ at' = [at EXCEPT ![c] = at'[c]]
             /\ exc[c] = "none" /\ todo' = [todo EXCEPT ![c] = todo[c] - 1]
             /\ todo[c] \in 1 .. Requests(tool[c])
             /\ \/ at'[c] = "leave"
                \/ ~session[c] /\ todo[c] = 1 /\ at'[c] \in {"write", "settle"}
                \/ ~session[c] /\ todo[c] > 1 /\ at'[c] \in {"get", "estimated"}
  BY <1>d, DoneStep
<1> USE DEF FlowInv, Goto, Raise, Reply, Locations
<1>1. ASSUME NEW c \in Calls, NEW t \in Tools[dialect], Invoke(c, t) PROVE FlowInv'
  <2>1. Requests(t) \in 1 .. Requests(t)
    BY RequestsType
  <2> QED
    BY <1>t, <1>1, <2>1 DEF Invoke, setupVars
<1>2. ASSUME NEW c \in Calls, NEW t \in Tools[dialect], InvokeWithoutBackend(c, t)
      PROVE  FlowInv'
  BY <1>t, <1>2 DEF InvokeWithoutBackend, setupVars
<1>3. ASSUME NEW c \in Calls, GetClient(c) PROVE FlowInv'
  BY <1>t, <1>3 DEF GetClient, setupVars
<1>4. ASSUME NEW c \in Calls, RefuseUnnamed(c) PROVE FlowInv'
  BY <1>t, <1>4 DEF RefuseUnnamed, setupVars
<1>5. ASSUME NEW c \in Calls, ReceiveClient(c) PROVE FlowInv'
  BY <1>t, <1>5 DEF ReceiveClient, setupVars
<1>6. ASSUME NEW c \in Calls, RequestFails(c) PROVE FlowInv'
  BY <1>t, <1>6 DEF RequestFails, setupVars
<1>7. ASSUME NEW c \in Calls, RequestMore(c) PROVE FlowInv'
  <2>1. todo[c] - 1 \in 0 .. Requests(tool[c]) - 1 /\ (todo[c] > 1 => todo[c] - 1 \in 1 .. Requests(tool[c]))
    BY <1>d, <1>7, RequestsType DEF RequestMore
  <2>2. at[c] = "request" /\ Done(c) /\ UNCHANGED <<tool, session, exc, dialect>>
    BY <1>d, <1>7 DEF RequestMore, Done, setupVars
  <2>3. todo'[c] = todo[c] - 1 /\ \A e \in Calls \ {c} : todo'[e] = todo[e] /\ at'[e] = at[e]
    BY <1>t, <1>d, <2>2
  <2> QED
    BY <1>t, <1>d, <2>1, <2>2, <2>3
<1>8. ASSUME NEW c \in Calls, RequestFacts(c) PROVE FlowInv'
  <2>1. todo[c] - 1 \in 0 .. Requests(tool[c]) - 1 /\ (todo[c] > 1 => todo[c] - 1 \in 1 .. Requests(tool[c]))
    BY <1>d, <1>8, RequestsType DEF RequestFacts
  <2>2. at[c] = "request" /\ Done(c) /\ UNCHANGED <<tool, session, exc, dialect>>
    BY <1>d, <1>8 DEF RequestFacts, Done, setupVars
  <2>3. todo'[c] = todo[c] - 1 /\ \A e \in Calls \ {c} : todo'[e] = todo[e] /\ at'[e] = at[e]
    BY <1>t, <1>d, <2>2
  <2> QED
    BY <1>t, <1>d, <2>1, <2>2, <2>3
<1>9. ASSUME NEW c \in Calls, RequestPage(c) PROVE FlowInv'
  <2>1. todo[c] - 1 \in 0 .. Requests(tool[c]) - 1 /\ (todo[c] > 1 => todo[c] - 1 \in 1 .. Requests(tool[c]))
    BY <1>d, <1>9, RequestsType DEF RequestPage
  <2>2. at[c] = "request" /\ Done(c) /\ UNCHANGED <<tool, session, exc, dialect>>
    BY <1>d, <1>9 DEF RequestPage, Done, setupVars
  <2>3. todo'[c] = todo[c] - 1 /\ \A e \in Calls \ {c} : todo'[e] = todo[e] /\ at'[e] = at[e]
    BY <1>t, <1>d, <2>2
  <2> QED
    BY <1>t, <1>d, <2>1, <2>2, <2>3
<1>10. ASSUME NEW c \in Calls, RequestRows(c) PROVE FlowInv'
  <2>1. todo[c] - 1 \in 0 .. Requests(tool[c]) - 1 /\ (todo[c] > 1 => todo[c] - 1 \in 1 .. Requests(tool[c]))
    BY <1>d, <1>10, RequestsType DEF RequestRows
  <2>2. at[c] = "request" /\ Done(c) /\ UNCHANGED <<tool, session, exc, dialect>>
    BY <1>d, <1>10 DEF RequestRows, Done, setupVars
  <2>3. todo'[c] = todo[c] - 1 /\ \A e \in Calls \ {c} : todo'[e] = todo[e] /\ at'[e] = at[e]
    BY <1>t, <1>d, <2>2
  <2> QED
    BY <1>t, <1>d, <2>1, <2>2, <2>3
<1>11. ASSUME NEW c \in Calls, Leave(c) PROVE FlowInv'
  <2>1. at[c] = "leave" /\ exc[c] = "none" =>
          /\ todo[c] \in 0 .. Requests(tool[c]) - 1
          /\ todo[c] = 0 => Onward(c, todo[c]) \in {"write", "settle"}
          /\ todo[c] # 0 => /\ Onward(c, todo[c]) \in {"get", "estimated"}
                           /\ todo[c] \in 1 .. Requests(tool[c])
    BY OnwardType, RequestsType
  <2> QED
    BY <1>t, <1>11, <2>1 DEF Leave, setupVars
<1>12. ASSUME NEW c \in Calls, CheckEstimate(c) PROVE FlowInv'
  BY <1>t, <1>12 DEF CheckEstimate, setupVars
<1>13. ASSUME NEW c \in Calls, Write(c) PROVE FlowInv'
  BY <1>t, <1>13 DEF Write, setupVars
<1>14. ASSUME NEW c \in Calls, WriteFails(c) PROVE FlowInv'
  BY <1>t, <1>14 DEF WriteFails, setupVars
<1>15. ASSUME NEW c \in Calls, Handle(c) PROVE FlowInv'
  BY <1>t, <1>15 DEF Handle, setupVars
<1>16. ASSUME NEW c \in Calls, ReplyBuckets(c) PROVE FlowInv'
  BY <1>t, <1>16 DEF ReplyBuckets, setupVars
<1>17. ASSUME NEW c \in Calls, ReplyUncharged(c) PROVE FlowInv'
  BY <1>t, <1>17 DEF ReplyUncharged, setupVars
<1>18. ASSUME NEW c \in Calls, Charge(c) PROVE FlowInv'
  BY <1>t, <1>18 DEF Charge, setupVars
<1>19. ASSUME NEW c \in Calls, Enter(c) PROVE FlowInv'
  BY <1>t, <1>19 DEF Enter, toolVars, setupVars
<1>20. ASSUME NEW c \in Calls, ReplyResult(c) PROVE FlowInv'
  BY <1>t, <1>20 DEF ReplyResult, setupVars
<1>21. ASSUME NEW c \in Calls, ReplyBlocked(c) PROVE FlowInv'
  BY <1>t, <1>21 DEF ReplyBlocked, setupVars
<1>22. ASSUME TakeClient \/ CloseClient PROVE FlowInv'
  BY <1>t, <1>22 DEF TakeClient, CloseClient, toolVars, budgetVars, setupVars, dataVars
<1>23. CASE UNCHANGED vars
  BY <1>t, <1>23 DEF vars, toolVars, budgetVars, setupVars, dataVars
<1> QED
  BY <1>1, <1>2, <1>3, <1>4, <1>5, <1>6, <1>7, <1>8, <1>9, <1>10, <1>11, <1>12,
     <1>13, <1>14, <1>15, <1>16, <1>17, <1>18, <1>19, <1>20, <1>21, <1>22, <1>23
     DEF Next, Step

\* So does the exit of a session.
LEMMA LeaveStep ==
  ASSUME ToolTypes, SharedTypes, FlowInv, NEW c \in Calls, Leave(c)
  PROVE  /\ at[c] = "leave" /\ at' = [at EXCEPT ![c] = at'[c]]
         /\ at'[c] \in {"get", "estimated", "write", "settle", "handle"}
<1>1. DOMAIN at = Calls
  BY DEF ToolTypes
<1>2. at[c] = "leave"
  BY DEF Leave, Goto
<1>3. exc[c] = "none" => Onward(c, todo[c]) \in {"get", "estimated", "write", "settle"}
  BY <1>2, OnwardType DEF FlowInv
<1> QED
  BY <1>1, <1>2, <1>3 DEF Leave, Goto

\* The data is requested last.
LEMMA NextRan == ToolTypes /\ DataTypes /\ SharedTypes /\ FlowInv /\ RanInv /\ [Next]_vars => RanInv'
<1> SUFFICES ASSUME ToolTypes, DataTypes, SharedTypes, FlowInv, RanInv, [Next]_vars PROVE RanInv'
  OBVIOUS
<1>t. /\ DOMAIN at = Calls /\ DOMAIN exc = Calls /\ DOMAIN todo = Calls
      /\ DOMAIN session = Calls /\ DOMAIN reply = Calls /\ DOMAIN tool = Calls
      /\ DOMAIN ran = Calls /\ DOMAIN got = Calls /\ DOMAIN left = Calls
      /\ DOMAIN hint = Calls
      /\ at \in [Calls -> Locations] /\ session \in [Calls -> BOOLEAN]
      /\ todo \in [Calls -> 0 .. 3]
  BY DEF ToolTypes, DataTypes
<1>d. ASSUME NEW c \in Calls, Done(c)
      PROVE  /\ at[c] = "request" /\ at' = [at EXCEPT ![c] = at'[c]]
             /\ exc[c] = "none" /\ todo' = [todo EXCEPT ![c] = todo[c] - 1]
             /\ todo[c] \in 1 .. Requests(tool[c])
             /\ \/ at'[c] = "leave"
                \/ ~session[c] /\ todo[c] = 1 /\ at'[c] \in {"write", "settle"}
                \/ ~session[c] /\ todo[c] > 1 /\ at'[c] \in {"get", "estimated"}
  BY <1>d, DoneStep
<1>r. \A c \in Calls : reply[c] = "none" <=> at[c] # "done"
  BY DEF ToolTypes
<1> USE DEF RanInv, Goto, Raise, Reply, Locations
<1>1. ASSUME NEW c \in Calls, NEW t \in Tools[dialect], Invoke(c, t) PROVE RanInv'
  BY <1>t, <1>r, <1>1 DEF Invoke, dataVars
<1>2. ASSUME NEW c \in Calls, NEW t \in Tools[dialect], InvokeWithoutBackend(c, t)
      PROVE  RanInv'
  BY <1>t, <1>r, <1>2 DEF InvokeWithoutBackend, dataVars
<1>3. ASSUME NEW c \in Calls, GetClient(c) PROVE RanInv'
  BY <1>t, <1>r, <1>3 DEF GetClient, dataVars
<1>4. ASSUME NEW c \in Calls, RefuseUnnamed(c) PROVE RanInv'
  BY <1>t, <1>r, <1>4 DEF RefuseUnnamed, dataVars
<1>5. ASSUME NEW c \in Calls, ReceiveClient(c) PROVE RanInv'
  BY <1>t, <1>r, <1>5 DEF ReceiveClient, dataVars
<1>6. ASSUME NEW c \in Calls, RequestFails(c) PROVE RanInv'
  <2>1. exc[c] = "none" /\ reply[c] = "none"
    BY <1>r, <1>6 DEF RequestFails, FlowInv
  <2>2. PICK e \in {"Setup", "Driver"} : exc' = [exc EXCEPT ![c] = e]
    BY <1>6 DEF RequestFails
  <2>3. at'[c] \in {"leave", "handle"}
    BY <1>t, <1>6 DEF RequestFails
  <2> QED
    BY <1>t, <1>6, <2>1, <2>2, <2>3 DEF RequestFails
<1>7. ASSUME NEW c \in Calls, RequestMore(c) PROVE RanInv'
  <2>1. at[c] = "request" /\ UNCHANGED reply /\ exc' = exc
    BY <1>d, <1>7 DEF RequestMore, Done
  <2>2. todo'[c] = todo[c] - 1 /\ \A e \in Calls \ {c} : todo'[e] = todo[e] /\ at'[e] = at[e]
    BY <1>t, <1>d, <1>7 DEF RequestMore
  <2> QED
    BY <1>t, <1>r, <1>d, <1>7, <2>1, <2>2 DEF RequestMore, dataVars
<1>8. ASSUME NEW c \in Calls, RequestFacts(c) PROVE RanInv'
  <2>1. at[c] = "request" /\ UNCHANGED reply /\ exc' = exc
    BY <1>d, <1>8 DEF RequestFacts, Done
  <2>2. todo'[c] = todo[c] - 1 /\ \A e \in Calls \ {c} : todo'[e] = todo[e] /\ at'[e] = at[e]
    BY <1>t, <1>d, <1>8 DEF RequestFacts
  <2> QED
    BY <1>t, <1>r, <1>d, <1>8, <2>1, <2>2 DEF RequestFacts, dataVars
<1>9. ASSUME NEW c \in Calls, RequestPage(c) PROVE RanInv'
  <2>1. at[c] = "request" /\ UNCHANGED reply /\ exc' = exc
    BY <1>d, <1>9 DEF RequestPage, Done
  <2>2. todo'[c] = todo[c] - 1 /\ \A e \in Calls \ {c} : todo'[e] = todo[e] /\ at'[e] = at[e]
    BY <1>t, <1>d, <1>9 DEF RequestPage
  <2> QED
    BY <1>t, <1>r, <1>d, <1>9, <2>1, <2>2 DEF RequestPage, dataVars
<1>10. ASSUME NEW c \in Calls, RequestRows(c) PROVE RanInv'
  <2>1. at[c] = "request" /\ UNCHANGED reply /\ exc' = exc
    BY <1>d, <1>10 DEF RequestRows, Done
  <2>2. todo'[c] = todo[c] - 1 /\ \A e \in Calls \ {c} : todo'[e] = todo[e] /\ at'[e] = at[e]
    BY <1>t, <1>d, <1>10 DEF RequestRows
  <2> QED
    BY <1>t, <1>r, <1>d, <1>10, <2>1, <2>2 DEF RequestRows, dataVars
<1>11. ASSUME NEW c \in Calls, Leave(c) PROVE RanInv'
  <2>1. at[c] = "leave" /\ exc[c] = "none" =>
          /\ todo[c] = 0 => Onward(c, todo[c]) \in {"write", "settle"}
          /\ todo[c] # 0 => Onward(c, todo[c]) \in {"get", "estimated"} /\ todo[c] > 0
    BY <1>t, OnwardType, RequestsType DEF FlowInv
  <2> QED
    BY <1>t, <1>r, <1>11, <2>1 DEF Leave, dataVars
<1>12. ASSUME NEW c \in Calls, CheckEstimate(c) PROVE RanInv'
  BY <1>t, <1>r, <1>12 DEF CheckEstimate, dataVars
<1>13. ASSUME NEW c \in Calls, Write(c) PROVE RanInv'
  BY <1>t, <1>r, <1>13 DEF Write, dataVars
<1>14. ASSUME NEW c \in Calls, WriteFails(c) PROVE RanInv'
  BY <1>t, <1>r, <1>14 DEF WriteFails, dataVars
<1>15. ASSUME NEW c \in Calls, Handle(c) PROVE RanInv'
  <2>1. PICK r \in Handler(tool[c], exc[c]) : reply' = [reply EXCEPT ![c] = r]
    BY <1>15 DEF Handle
  <2>2. exc[c] \in Exceptions
    BY <1>15 DEF Handle, FlowInv, ToolTypes
  <2>3. r \in {"estimate_block", "no_backend"} => exc[c] = "Estimate"
    BY <2>1, <2>2, HandlerType
  <2> QED
    BY <1>t, <1>15, <2>1, <2>3 DEF Handle, dataVars
<1>16. ASSUME NEW c \in Calls, ReplyBuckets(c) PROVE RanInv'
  BY <1>t, <1>r, <1>16 DEF ReplyBuckets, dataVars
<1>17. ASSUME NEW c \in Calls, ReplyUncharged(c) PROVE RanInv'
  BY <1>t, <1>r, <1>17 DEF ReplyUncharged, dataVars
<1>18. ASSUME NEW c \in Calls, Charge(c) PROVE RanInv'
  BY <1>t, <1>r, <1>18 DEF Charge, dataVars
<1>19. ASSUME NEW c \in Calls, Enter(c) PROVE RanInv'
  BY <1>t, <1>19 DEF Enter, toolVars, dataVars
<1>20. ASSUME NEW c \in Calls, ReplyResult(c) PROVE RanInv'
  BY <1>t, <1>r, <1>20 DEF ReplyResult, dataVars
<1>21. ASSUME NEW c \in Calls, ReplyBlocked(c) PROVE RanInv'
  BY <1>t, <1>r, <1>21 DEF ReplyBlocked, dataVars
<1>22. ASSUME TakeClient \/ CloseClient PROVE RanInv'
  BY <1>t, <1>r, <1>22 DEF TakeClient, CloseClient, toolVars, budgetVars, setupVars, dataVars
<1>23. CASE UNCHANGED vars
  BY <1>t, <1>r, <1>23 DEF vars, toolVars, budgetVars, setupVars, dataVars
<1> QED
  BY <1>1, <1>2, <1>3, <1>4, <1>5, <1>6, <1>7, <1>8, <1>9, <1>10, <1>11, <1>12,
     <1>13, <1>14, <1>15, <1>16, <1>17, <1>18, <1>19, <1>20, <1>21, <1>22, <1>23
     DEF Next, Step

\* What is left unread is noticed when it is, and not forgotten.
LEMMA NextSaid == ToolTypes /\ DataTypes /\ SharedTypes /\ FlowInv /\ SaidInv /\ [Next]_vars => SaidInv'
<1> SUFFICES ASSUME ToolTypes, DataTypes, SharedTypes, FlowInv, SaidInv, [Next]_vars PROVE SaidInv'
  OBVIOUS
<1>t. /\ DOMAIN at = Calls /\ DOMAIN exc = Calls /\ DOMAIN todo = Calls
      /\ DOMAIN session = Calls /\ DOMAIN reply = Calls /\ DOMAIN tool = Calls
      /\ DOMAIN ran = Calls /\ DOMAIN got = Calls /\ DOMAIN left = Calls
      /\ DOMAIN hint = Calls
      /\ at \in [Calls -> Locations] /\ session \in [Calls -> BOOLEAN]
      /\ todo \in [Calls -> 0 .. 3]
  BY DEF ToolTypes, DataTypes
<1>d. ASSUME NEW c \in Calls, Done(c)
      PROVE  /\ at[c] = "request" /\ at' = [at EXCEPT ![c] = at'[c]]
             /\ exc[c] = "none" /\ todo' = [todo EXCEPT ![c] = todo[c] - 1]
             /\ todo[c] \in 1 .. Requests(tool[c])
             /\ \/ at'[c] = "leave"
                \/ ~session[c] /\ todo[c] = 1 /\ at'[c] \in {"write", "settle"}
                \/ ~session[c] /\ todo[c] > 1 /\ at'[c] \in {"get", "estimated"}
  BY <1>d, DoneStep
<1> USE DEF SaidInv, Goto, Raise, Reply, Locations
<1>1. ASSUME NEW c \in Calls, NEW t \in Tools[dialect], Invoke(c, t) PROVE SaidInv'
  BY <1>t, <1>1 DEF Invoke, dataVars
<1>2. ASSUME NEW c \in Calls, NEW t \in Tools[dialect], InvokeWithoutBackend(c, t)
      PROVE  SaidInv'
  BY <1>t, <1>2 DEF InvokeWithoutBackend, dataVars
<1>3. ASSUME NEW c \in Calls, GetClient(c) PROVE SaidInv'
  BY <1>t, <1>3 DEF GetClient, dataVars
<1>4. ASSUME NEW c \in Calls, RefuseUnnamed(c) PROVE SaidInv'
  BY <1>t, <1>4 DEF RefuseUnnamed, dataVars
<1>5. ASSUME NEW c \in Calls, ReceiveClient(c) PROVE SaidInv'
  BY <1>t, <1>5 DEF ReceiveClient, dataVars
<1>6. ASSUME NEW c \in Calls, RequestFails(c) PROVE SaidInv'
  BY <1>t, <1>6 DEF RequestFails, dataVars
<1>7. ASSUME NEW c \in Calls, RequestMore(c) PROVE SaidInv'
  BY <1>t, <1>d, <1>7 DEF RequestMore, Done, dataVars
<1>8. ASSUME NEW c \in Calls, RequestFacts(c) PROVE SaidInv'
  BY <1>t, <1>d, <1>8 DEF RequestFacts, Done, dataVars
<1>9. ASSUME NEW c \in Calls, RequestPage(c) PROVE SaidInv'
  <2>1. PICK size \in 0 .. MaxRows + 1, more \in BOOLEAN :
               \E n \in IF more THEN {ClampLimit(size)} ELSE 0 .. ClampLimit(size) :
                 /\ got' = [got EXCEPT ![c] = n]
                 /\ left' = [left EXCEPT ![c] = more]
                 /\ hint' = [hint EXCEPT ![c] =
                               tool[c] \in Paged /\ SaysMore(n, size, more)]
    BY <1>9 DEF RequestPage
  <2>2. PICK n \in IF more THEN {ClampLimit(size)} ELSE 0 .. ClampLimit(size) :
               /\ left' = [left EXCEPT ![c] = more]
               /\ hint' = [hint EXCEPT ![c] =
                             tool[c] \in Paged /\ SaysMore(n, size, more)]
    BY <2>1
  <2>3. more => SaysMore(n, size, more)
    BY <2>2 DEF SaysMore
  <2> QED
    BY <1>t, <1>d, <1>9, <2>2, <2>3 DEF RequestPage, Done
<1>10. ASSUME NEW c \in Calls, RequestRows(c) PROVE SaidInv'
  <2>1. PICK cut \in BOOLEAN :
               /\ left' = [left EXCEPT ![c] = cut]
               /\ hint' = [hint EXCEPT ![c] = ReportsCut(cut)]
    BY <1>10 DEF RequestRows
  <2>2. tool[c] \in Writers \ {"materialize_query"} => dialect # "search"
    BY <1>d, <1>10 DEF RequestRows, FlowInv, Tools, Writers
  <2>3. tool[c] \notin Paged
    BY <1>10 DEF RequestRows, Paged, Writers
  <2> QED
    BY <1>t, <1>d, <1>10, <2>1, <2>2, <2>3 DEF RequestRows, Done, ReportsCut
<1>11. ASSUME NEW c \in Calls, Leave(c) PROVE SaidInv'
  BY <1>t, <1>11, LeaveStep DEF Leave, dataVars
<1>12. ASSUME NEW c \in Calls, CheckEstimate(c) PROVE SaidInv'
  BY <1>t, <1>12 DEF CheckEstimate, dataVars
<1>13. ASSUME NEW c \in Calls, Write(c) PROVE SaidInv'
  <2>1. PICK n \in 0 .. got[c] :
               /\ left' = [left EXCEPT ![c] = left[c] \/ n < got[c]]
               /\ hint' = [hint EXCEPT ![c] = hint[c] \/ n < got[c]]
    BY <1>13 DEF Write
  <2> QED
    BY <1>t, <1>13, <2>1 DEF Write
<1>14. ASSUME NEW c \in Calls, WriteFails(c) PROVE SaidInv'
  BY <1>t, <1>14 DEF WriteFails, dataVars
<1>15. ASSUME NEW c \in Calls, Handle(c) PROVE SaidInv'
  BY <1>t, <1>15 DEF Handle, dataVars
<1>16. ASSUME NEW c \in Calls, ReplyBuckets(c) PROVE SaidInv'
  BY <1>t, <1>16 DEF ReplyBuckets, dataVars
<1>17. ASSUME NEW c \in Calls, ReplyUncharged(c) PROVE SaidInv'
  BY <1>t, <1>17 DEF ReplyUncharged, dataVars
<1>18. ASSUME NEW c \in Calls, Charge(c) PROVE SaidInv'
  BY <1>t, <1>18 DEF Charge, dataVars
<1>19. ASSUME NEW c \in Calls, Enter(c) PROVE SaidInv'
  BY <1>t, <1>19 DEF Enter, toolVars, dataVars
<1>20. ASSUME NEW c \in Calls, ReplyResult(c) PROVE SaidInv'
  BY <1>t, <1>20 DEF ReplyResult, dataVars
<1>21. ASSUME NEW c \in Calls, ReplyBlocked(c) PROVE SaidInv'
  BY <1>t, <1>21 DEF ReplyBlocked, dataVars
<1>22. ASSUME TakeClient \/ CloseClient PROVE SaidInv'
  BY <1>t, <1>22 DEF TakeClient, CloseClient, toolVars, budgetVars, setupVars, dataVars
<1>23. CASE UNCHANGED vars
  BY <1>t, <1>23 DEF vars, toolVars, budgetVars, setupVars, dataVars
<1> QED
  BY <1>1, <1>2, <1>3, <1>4, <1>5, <1>6, <1>7, <1>8, <1>9, <1>10, <1>11, <1>12,
     <1>13, <1>14, <1>15, <1>16, <1>17, <1>18, <1>19, <1>20, <1>21, <1>22, <1>23
     DEF Next, Step

\* What is charged is what is shown, and only once.
LEMMA NextEntered == ToolTypes /\ DataTypes /\ SharedTypes /\ FlowInv /\ EnteredInv /\ [Next]_vars => EnteredInv'
<1> SUFFICES ASSUME ToolTypes, DataTypes, SharedTypes, FlowInv, EnteredInv, [Next]_vars PROVE EnteredInv'
  OBVIOUS
<1>t. /\ DOMAIN at = Calls /\ DOMAIN reply = Calls /\ DOMAIN tool = Calls
      /\ DOMAIN got = Calls /\ DOMAIN rows = Calls
      /\ at \in [Calls -> Locations]
  BY DEF ToolTypes, DataTypes, SharedTypes
<1> USE DEF EnteredInv, Goto, Raise, Reply, Locations, Extracting, RB!Limited, budgetVars, setupVars, dataVars
<1>1. ASSUME NEW c \in Calls, NEW t \in Tools[dialect], Invoke(c, t) PROVE EnteredInv'
  BY <1>t, <1>1 DEF Invoke
<1>2. ASSUME NEW c \in Calls, NEW t \in Tools[dialect], InvokeWithoutBackend(c, t)
      PROVE  EnteredInv'
  BY <1>t, <1>2 DEF InvokeWithoutBackend
<1>3. ASSUME NEW c \in Calls, GetClient(c) PROVE EnteredInv'
  BY <1>t, <1>3 DEF GetClient
<1>4. ASSUME NEW c \in Calls, RefuseUnnamed(c) PROVE EnteredInv'
  BY <1>t, <1>4 DEF RefuseUnnamed
<1>5. ASSUME NEW c \in Calls, ReceiveClient(c) PROVE EnteredInv'
  BY <1>t, <1>5 DEF ReceiveClient
<1>6. ASSUME NEW c \in Calls, RequestFails(c) PROVE EnteredInv'
  BY <1>t, <1>6 DEF RequestFails
<1>7. ASSUME NEW c \in Calls, RequestMore(c) PROVE EnteredInv'
  <2>1. /\ at[c] = "request" /\ at' = [at EXCEPT ![c] = at'[c]]
        /\ at'[c] \notin {"charging", "done"}
    BY <1>7, DoneStep DEF RequestMore
  <2>2. UNCHANGED <<entered, rows, budget, tool, dialect, reply>>
    BY <1>7 DEF RequestMore, Done
  <2> QED
    BY <1>t, <1>7, <2>1, <2>2 DEF RequestMore
<1>8. ASSUME NEW c \in Calls, RequestFacts(c) PROVE EnteredInv'
  <2>1. /\ at[c] = "request" /\ at' = [at EXCEPT ![c] = at'[c]]
        /\ at'[c] \notin {"charging", "done"}
    BY <1>8, DoneStep DEF RequestFacts
  <2>2. UNCHANGED <<entered, rows, budget, tool, dialect, reply>>
    BY <1>8 DEF RequestFacts, Done
  <2> QED
    BY <1>t, <1>8, <2>1, <2>2 DEF RequestFacts
<1>9. ASSUME NEW c \in Calls, RequestPage(c) PROVE EnteredInv'
  <2>1. /\ at[c] = "request" /\ at' = [at EXCEPT ![c] = at'[c]]
        /\ at'[c] \notin {"charging", "done"}
    BY <1>9, DoneStep DEF RequestPage
  <2>2. UNCHANGED <<entered, rows, budget, tool, dialect, reply>>
    BY <1>9 DEF RequestPage, Done
  <2> QED
    BY <1>t, <1>9, <2>1, <2>2 DEF RequestPage
<1>10. ASSUME NEW c \in Calls, RequestRows(c) PROVE EnteredInv'
  <2>1. /\ at[c] = "request" /\ at' = [at EXCEPT ![c] = at'[c]]
        /\ at'[c] \notin {"charging", "done"}
    BY <1>10, DoneStep DEF RequestRows
  <2>2. UNCHANGED <<entered, rows, budget, tool, dialect, reply>>
    BY <1>10 DEF RequestRows, Done
  <2> QED
    BY <1>t, <1>10, <2>1, <2>2 DEF RequestRows
<1>11. ASSUME NEW c \in Calls, Leave(c) PROVE EnteredInv'
  <2>1. /\ at[c] = "leave" /\ at' = [at EXCEPT ![c] = at'[c]]
        /\ at'[c] \notin {"charging", "done"}
    BY <1>11, LeaveStep
  <2> QED
    BY <1>t, <1>11, <2>1 DEF Leave
<1>12. ASSUME NEW c \in Calls, CheckEstimate(c) PROVE EnteredInv'
  BY <1>t, <1>12 DEF CheckEstimate
<1>13. ASSUME NEW c \in Calls, Write(c) PROVE EnteredInv'
  BY <1>t, <1>13 DEF Write
<1>14. ASSUME NEW c \in Calls, WriteFails(c) PROVE EnteredInv'
  BY <1>t, <1>14 DEF WriteFails
<1>15. ASSUME NEW c \in Calls, Handle(c) PROVE EnteredInv'
  <2>1. PICK r \in Handler(tool[c], exc[c]) : reply' = [reply EXCEPT ![c] = r]
    BY <1>15 DEF Handle
  <2>2. exc[c] \in Exceptions
    BY <1>15 DEF Handle, FlowInv, ToolTypes
  <2>3. r \notin {"result", "budget_block"}
    BY <2>1, <2>2, HandlerType
  <2> QED
    BY <1>t, <1>15, <2>1, <2>3 DEF Handle
<1>16. ASSUME NEW c \in Calls, ReplyBuckets(c) PROVE EnteredInv'
  BY <1>t, <1>16 DEF ReplyBuckets, Buckets, Paged, Writers
<1>17. ASSUME NEW c \in Calls, ReplyUncharged(c) PROVE EnteredInv'
  BY <1>t, <1>17 DEF ReplyUncharged, Charging
<1>18. ASSUME NEW c \in Calls, Charge(c) PROVE EnteredInv'
  BY <1>t, <1>18 DEF Charge, Charging, RB!Ask
<1>19. ASSUME NEW c \in Calls, Enter(c) PROVE EnteredInv'
  BY <1>t, <1>19 DEF Enter, toolVars, RB!Charge
<1>20. ASSUME NEW c \in Calls, ReplyResult(c) PROVE EnteredInv'
  BY <1>t, <1>20 DEF ReplyResult, RB!Return
<1>21. ASSUME NEW c \in Calls, ReplyBlocked(c) PROVE EnteredInv'
  BY <1>t, <1>21 DEF ReplyBlocked, RB!Withhold
<1>22. ASSUME TakeClient \/ CloseClient PROVE EnteredInv'
  BY <1>t, <1>22 DEF TakeClient, CloseClient, toolVars, budgetVars, setupVars, dataVars
<1>23. CASE UNCHANGED vars
  BY <1>t, <1>23 DEF vars, toolVars, budgetVars, setupVars, dataVars
<1> QED
  BY <1>1, <1>2, <1>3, <1>4, <1>5, <1>6, <1>7, <1>8, <1>9, <1>10, <1>11, <1>12,
     <1>13, <1>14, <1>15, <1>16, <1>17, <1>18, <1>19, <1>20, <1>21, <1>22, <1>23
     DEF Next, Step

-----------------------------------------------------------------------------
(* The rows that the agent is given *)

\* The two halves of ReturnedInv.
VerdictInv ==
  /\ serial
  /\ \A c \in Calls :
       verdict[c] = "returned" <=> reply[c] = "result" /\ Extracting(c)

TotalInv == \A a \in Agents :
  budget[a] # NoBudget => Total(Returned(a), rows) <= budget[a]

\* Only a result gives the agent its rows.
LEMMA NextVerdict == ToolTypes /\ SharedTypes /\ FlowInv /\ EnteredInv /\ VerdictInv /\ [Next]_vars => VerdictInv'
<1> SUFFICES ASSUME ToolTypes, SharedTypes, FlowInv, EnteredInv, VerdictInv, [Next]_vars PROVE VerdictInv'
  OBVIOUS
<1>t. /\ DOMAIN at = Calls /\ DOMAIN reply = Calls /\ DOMAIN tool = Calls
      /\ DOMAIN verdict = Calls
      /\ \A c \in Calls : reply[c] = "none" <=> at[c] # "done"
  BY DEF ToolTypes, SharedTypes
<1> USE DEF VerdictInv, Goto, Raise, Reply, Extracting, budgetVars, setupVars, dataVars
<1>1. ASSUME NEW c \in Calls, NEW t \in Tools[dialect], Invoke(c, t) PROVE VerdictInv'
  BY <1>t, <1>1 DEF Invoke
<1>2. ASSUME NEW c \in Calls, NEW t \in Tools[dialect], InvokeWithoutBackend(c, t)
      PROVE  VerdictInv'
  BY <1>t, <1>2 DEF InvokeWithoutBackend
<1>3. ASSUME NEW c \in Calls, GetClient(c) PROVE VerdictInv'
  BY <1>t, <1>3 DEF GetClient
<1>4. ASSUME NEW c \in Calls, RefuseUnnamed(c) PROVE VerdictInv'
  BY <1>t, <1>4 DEF RefuseUnnamed
<1>5. ASSUME NEW c \in Calls, ReceiveClient(c) PROVE VerdictInv'
  BY <1>t, <1>5 DEF ReceiveClient
<1>6. ASSUME NEW c \in Calls, RequestFails(c) PROVE VerdictInv'
  BY <1>t, <1>6 DEF RequestFails
<1>7. ASSUME NEW c \in Calls, RequestMore(c) PROVE VerdictInv'
  BY <1>t, <1>7 DEF RequestMore, Done
<1>8. ASSUME NEW c \in Calls, RequestFacts(c) PROVE VerdictInv'
  BY <1>t, <1>8 DEF RequestFacts, Done
<1>9. ASSUME NEW c \in Calls, RequestPage(c) PROVE VerdictInv'
  BY <1>t, <1>9 DEF RequestPage, Done
<1>10. ASSUME NEW c \in Calls, RequestRows(c) PROVE VerdictInv'
  BY <1>t, <1>10 DEF RequestRows, Done
<1>11. ASSUME NEW c \in Calls, Leave(c) PROVE VerdictInv'
  BY <1>t, <1>11 DEF Leave
<1>12. ASSUME NEW c \in Calls, CheckEstimate(c) PROVE VerdictInv'
  BY <1>t, <1>12 DEF CheckEstimate
<1>13. ASSUME NEW c \in Calls, Write(c) PROVE VerdictInv'
  BY <1>t, <1>13 DEF Write
<1>14. ASSUME NEW c \in Calls, WriteFails(c) PROVE VerdictInv'
  BY <1>t, <1>14 DEF WriteFails
<1>15. ASSUME NEW c \in Calls, Handle(c) PROVE VerdictInv'
  <2>1. PICK r \in Handler(tool[c], exc[c]) : reply' = [reply EXCEPT ![c] = r]
    BY <1>15 DEF Handle
  <2>2. exc[c] \in Exceptions
    BY <1>15 DEF Handle, FlowInv, ToolTypes
  <2>3. r # "result"
    BY <2>1, <2>2, HandlerType
  <2> QED
    BY <1>t, <1>15, <2>1, <2>3 DEF Handle
<1>16. ASSUME NEW c \in Calls, ReplyBuckets(c) PROVE VerdictInv'
  BY <1>t, <1>16 DEF ReplyBuckets, Buckets, Paged, Writers
<1>17. ASSUME NEW c \in Calls, ReplyUncharged(c) PROVE VerdictInv'
  BY <1>t, <1>17 DEF ReplyUncharged, Charging
<1>18. ASSUME NEW c \in Calls, Charge(c) PROVE VerdictInv'
  BY <1>t, <1>18 DEF Charge, RB!Ask
<1>19. ASSUME NEW c \in Calls, Enter(c) PROVE VerdictInv'
  BY <1>t, <1>19 DEF Enter, toolVars, RB!Charge
<1>20. ASSUME NEW c \in Calls, ReplyResult(c) PROVE VerdictInv'
  BY <1>t, <1>20 DEF ReplyResult, RB!Return, EnteredInv
<1>21. ASSUME NEW c \in Calls, ReplyBlocked(c) PROVE VerdictInv'
  BY <1>t, <1>21 DEF ReplyBlocked, RB!Withhold
<1>22. ASSUME TakeClient \/ CloseClient PROVE VerdictInv'
  BY <1>t, <1>22 DEF TakeClient, CloseClient, toolVars, budgetVars, setupVars, dataVars
<1>23. CASE UNCHANGED vars
  BY <1>t, <1>23 DEF vars, toolVars, budgetVars, setupVars, dataVars
<1> QED
  BY <1>1, <1>2, <1>3, <1>4, <1>5, <1>6, <1>7, <1>8, <1>9, <1>10, <1>11, <1>12,
     <1>13, <1>14, <1>15, <1>16, <1>17, <1>18, <1>19, <1>20, <1>21, <1>22, <1>23
     DEF Next, Step

\* A total depends on the rows of the calls it is over only, and grows with them.
LEMMA TotalAgree ==
  ASSUME NEW S, NEW r, NEW q, \A c \in S : r[c] = q[c]
  PROVE  Total(S, r) = Total(S, q)
<1>1. RowsOf(S, r) = RowsOf(S, q)
  BY DEF RowsOf
<1> QED
  BY <1>1 DEF Total

LEMMA TotalMonotone ==
  ASSUME SharedTypes, NEW S \in SUBSET Calls, NEW T \in SUBSET S
  PROVE  /\ Total(S, rows) \in Nat /\ Total(T, rows) \in Nat
         /\ Total(T, rows) <= Total(S, rows)
<1>1. /\ RowsOf(S, rows) \subseteq Calls \X (1 .. MaxRows)
      /\ RowsOf(T, rows) \subseteq RowsOf(S, rows)
  <2>1. ASSUME NEW c \in Calls PROVE 1 .. rows[c] \subseteq 1 .. MaxRows
    <3>1. rows[c] \in 0 .. MaxRows
      BY DEF SharedTypes
    <3> QED
      BY <3>1
  <2> QED
    BY <2>1 DEF RowsOf
<1>2. IsFiniteSet(Calls \X (1 .. MaxRows))
  <2>1. IsFiniteSet(1 .. MaxRows)
    BY FS_Interval
  <2> QED
    BY <2>1, FS_Product
<1>3. IsFiniteSet(RowsOf(S, rows))
  BY <1>1, <1>2, FS_Subset
<1> QED
  BY <1>1, <1>3, FS_Subset, FS_CardinalityType DEF Total

\* RowBudget counts as this module does.
LEMMA SameLedger ==
  ASSUME NEW a
  PROVE  RB!Ledger(a) = Total({c \in entered : AgentOf[c] = a}, rows)
BY DEF RB!Ledger, RB!Total, RB!RowsOf, RB!Cardinality, Total, RowsOf, Cardinality

\* What a limited agent has been given is in its ledger.
LEMMA ReturnedEntered ==
  ASSUME ToolTypes, EnteredInv, VerdictInv, NEW a \in Agents, budget[a] # NoBudget
  PROVE  Returned(a) \subseteq {c \in entered : AgentOf[c] = a}
BY DEF ToolTypes, EnteredInv, VerdictInv, Returned, RB!Limited

\* An agent is given no more rows than its budget: the ledger that lets the last
\* of them pass has all of them.
LEMMA NextTotal ==
  ToolTypes /\ SharedTypes /\ EnteredInv /\ VerdictInv /\ TotalInv /\ [RB!Next]_(RB!vars)
    => TotalInv'
<1> SUFFICES ASSUME ToolTypes, SharedTypes, EnteredInv, VerdictInv, TotalInv,
                    [RB!Next]_(RB!vars),
                    NEW a \in Agents, budget'[a] # NoBudget
             PROVE  Total(Returned(a)', rows') <= budget'[a]
  BY DEF TotalInv
<1> DEFINE mine == {c \in entered : AgentOf[c] = a}
<1>t. /\ DOMAIN rows = Calls /\ DOMAIN verdict = Calls
      /\ entered \subseteq Calls
  BY DEF SharedTypes
<1>b. budget' = budget
  BY DEF RB!Next, RB!vars, RB!Ask, RB!Charge, RB!Return, RB!Withhold
<1>n. budget[a] \in Nat /\ budget[a] # NoBudget
  BY <1>b DEF SharedTypes
<1>i. Total(Returned(a), rows) <= budget[a]
  BY <1>n DEF TotalInv
<1>e. Returned(a) \subseteq mine
  BY <1>n, ReturnedEntered
<1>1. ASSUME NEW c \in Calls, NEW n \in 0 .. MaxRows, RB!Ask(c, n)
      PROVE  Total(Returned(a)', rows') <= budget'[a]
  <2>1. Returned(a)' = Returned(a)
    BY <1>1 DEF RB!Ask, Returned
  <2>2. \A d \in Returned(a) : rows'[d] = rows[d]
    BY <1>t, <1>e, <1>1 DEF RB!Ask
  <2> QED
    BY <1>b, <1>i, <2>1, <2>2, TotalAgree
<1>2. ASSUME NEW c \in Calls, RB!Charge(c)
      PROVE  Total(Returned(a)', rows') <= budget'[a]
  BY <1>b, <1>i, <1>2 DEF RB!Charge, Returned
<1>3. ASSUME NEW c \in Calls, RB!Return(c)
      PROVE  Total(Returned(a)', rows') <= budget'[a]
  <2>1. CASE AgentOf[c] = a
    <3>1. c \in entered /\ ~RB!Overdrawn(a)
      BY <1>n, <1>3, <2>1 DEF RB!Return, RB!Limited, VerdictInv
    <3>2. Returned(a)' \subseteq mine
      BY <1>t, <1>e, <1>3, <3>1 DEF RB!Return, Returned
    <3>3. mine \subseteq Calls
      BY <1>t
    <3>4. /\ Total(mine, rows) \in Nat /\ Total(Returned(a)', rows) \in Nat
          /\ Total(Returned(a)', rows) <= Total(mine, rows)
      BY <3>2, <3>3, TotalMonotone
    <3>7. Total(mine, rows) <= budget[a]
      BY <1>n, <3>1, <3>4, SameLedger DEF RB!Overdrawn
    <3>8. rows' = rows
      BY <1>3 DEF RB!Return
    <3> QED
      BY <1>b, <1>n, <3>4, <3>7, <3>8
  <2>2. CASE AgentOf[c] # a
    <3>1. Returned(a)' = Returned(a) /\ rows' = rows
      BY <1>t, <1>3, <2>2 DEF RB!Return, Returned
    <3> QED
      BY <1>b, <1>i, <3>1
  <2> QED
    BY <2>1, <2>2
<1>4. ASSUME NEW c \in Calls, RB!Withhold(c)
      PROVE  Total(Returned(a)', rows') <= budget'[a]
  <2>1. Returned(a)' = Returned(a) /\ rows' = rows
    BY <1>t, <1>4 DEF RB!Withhold, Returned
  <2> QED
    BY <1>b, <1>i, <2>1
<1>5. CASE UNCHANGED RB!vars
  BY <1>b, <1>i, <1>5 DEF RB!vars, Returned
<1> QED
  BY <1>1, <1>2, <1>3, <1>4, <1>5 DEF RB!Next

-----------------------------------------------------------------------------
(* The theorems *)

\* The same, seen from the whole state.
LEMMA InvParts ==
  ClientToolsInv <=> /\ ToolTypes /\ DataTypes /\ SharedTypes
                     /\ FlowInv /\ RanInv /\ SaidInv /\ EnteredInv
                     /\ VerdictInv /\ TotalInv
BY TypeParts DEF ClientToolsInv, ReturnedInv, VerdictInv, TotalInv

LEMMA InvPartsNext ==
  ClientToolsInv' <=> /\ ToolTypes' /\ DataTypes' /\ SharedTypes'
                      /\ FlowInv' /\ RanInv' /\ SaidInv' /\ EnteredInv'
                      /\ VerdictInv' /\ TotalInv'
BY DEF ClientToolsInv, ReturnedInv, VerdictInv, TotalInv, TypeOK, ToolNames, ToolTypes,
       DataTypes, SharedTypes

LEMMA InitInv == Init => ClientToolsInv
<1> SUFFICES ASSUME Init PROVE ClientToolsInv
  OBVIOUS
<1> USE DEF Init, RB!Init, CC!Init
<1>z. 0 \in 0 .. MaxRows /\ 0 \in 0 .. MaxCloses
  OBVIOUS
<1>1. ToolTypes
  <2>1. tool \in [Calls -> ToolNames]
    BY DEF ToolNames
  <2>2. at \in [Calls -> Locations] /\ todo \in [Calls -> 0 .. 3]
    BY DEF Locations
  <2>3. /\ session \in [Calls -> BOOLEAN]
        /\ exc \in [Calls -> Exceptions \cup {"none"}]
        /\ reply \in [Calls -> Replies \cup {"none"}]
        /\ \A c \in Calls : reply[c] = "none" <=> at[c] # "done"
    OBVIOUS
  <2> QED
    BY <2>1, <2>2, <2>3 DEF ToolTypes
<1>2. DataTypes
  BY <1>z DEF DataTypes
<1>3. SharedTypes
  <2>1. rows = [c \in Calls |-> 0] /\ rows \in [Calls -> 0 .. MaxRows]
    BY <1>z
  <2>2. dialect \in Dialects /\ named \in BOOLEAN /\ closes \in 0 .. MaxCloses
    BY <1>z
  <2>3. taken \in [Clients \cup {Closer} -> Clients \cup {NoCall}]
    OBVIOUS
  <2>4. budget \in [Agents -> Budgets] /\ serial \in BOOLEAN /\ backend \in BOOLEAN
    OBVIOUS
  <2> QED
    BY <2>1, <2>2, <2>3, <2>4 DEF SharedTypes
<1>4. FlowInv /\ RanInv /\ SaidInv
  BY DEF FlowInv, RanInv, SaidInv
<1>5. EnteredInv /\ VerdictInv
  BY DEF EnteredInv, VerdictInv
<1>6. ASSUME NEW a \in Agents, budget[a] # NoBudget
      PROVE  Total(Returned(a), rows) <= budget[a]
  <2>1. RowsOf(Returned(a), rows) = {}
    BY DEF RowsOf, Returned
  <2>2. budget[a] \in Nat
    BY <1>6
  <2>3. Total(Returned(a), rows) = 0
    BY <2>1, FS_EmptySet DEF Total
  <2> QED
    BY <2>2, <2>3
<1> QED
  BY <1>1, <1>2, <1>3, <1>4, <1>5, <1>6, InvParts DEF TotalInv

LEMMA NextInv == ClientToolsInv /\ [Next]_vars => ClientToolsInv'
BY InvParts, InvPartsNext, NextTools, NextData, NextShared, NextFlow, NextRan, NextSaid,
   NextEntered, NextVerdict, NextTotal, BudgetStep

LEMMA ClientToolsInvariant == Spec => []ClientToolsInv
<1>1. Init => ClientToolsInv
  BY InitInv
<1>2. ClientToolsInv /\ [Next]_vars => ClientToolsInv'
  BY NextInv
<1> QED
  BY <1>1, <1>2, PTL DEF Spec

\* The state of the tools, of the budget and of the client has the types that
\* the code gives it, and a call has its reply when it is done.
THEOREM TypeCorrect == Spec => []TypeOK
<1>1. ClientToolsInv => TypeOK
  BY DEF ClientToolsInv
<1> QED
  BY <1>1, ClientToolsInvariant, PTL

\* Every Neo4j session is closed before its call goes on, whatever fails.
THEOREM SessionsAreClosed == Spec => []NoSessionLeak
<1>1. ClientToolsInv => NoSessionLeak
  BY InvParts DEF NoSessionLeak, FlowInv, ToolTypes
<1> QED
  BY <1>1, ClientToolsInvariant, PTL

\* A call that the agent hears was blocked has not made the request for the
\* data, in no dialect.
THEOREM BlocksComeFirst == Spec => []BlockedBeforeRunning
<1>1. ClientToolsInv => BlockedBeforeRunning
  BY DEF ClientToolsInv, RanInv, BlockedBeforeRunning, Answered
<1> QED
  BY <1>1, ClientToolsInvariant, PTL

\* No reply leaves the agent in the belief that it has seen everything: page or
\* file, but for the files of the search dialects.
THEOREM HintsAreGiven == Spec => []NothingLeftUnsaid
<1>1. ClientToolsInv => NothingLeftUnsaid
  BY DEF ClientToolsInv, SaidInv, NothingLeftUnsaid, Answered
<1> QED
  BY <1>1, ClientToolsInvariant, PTL

\* Between calls, the ledger of an agent holds exactly the rows of the
\* extractions that came to their end.
THEOREM LedgerCorrect == Spec => []LedgerMatchesReplies
<1>1. ASSUME ClientToolsInv, \A c \in Calls : at[c] \in {"idle", "done"},
             NEW a \in Agents, budget[a] # NoBudget
      PROVE  RB!Ledger(a) = Total({c \in Answered({"result", "budget_block"}) :
                                    Extracting(c) /\ AgentOf[c] = a}, got)
  <2> DEFINE mine == {c \in entered : AgentOf[c] = a}
             told == {c \in Answered({"result", "budget_block"}) :
                       Extracting(c) /\ AgentOf[c] = a}
  <2>1. ToolTypes /\ SharedTypes /\ EnteredInv
    BY <1>1, InvParts
  <2>2. mine = told
    BY <1>1, <2>1 DEF ToolTypes, SharedTypes, EnteredInv, Answered, RB!Limited
  <2>3. \A c \in mine : rows[c] = got[c]
    BY <2>1 DEF SharedTypes, EnteredInv
  <2>4. Total(mine, rows) = Total(mine, got)
    BY <2>3, TotalAgree
  <2> QED
    BY <2>2, <2>4, SameLedger
<1>2. ClientToolsInv => LedgerMatchesReplies
  BY <1>1 DEF LedgerMatchesReplies
<1> QED
  BY <1>2, ClientToolsInvariant, PTL

\* An agent is never shown more rows than its budget allows, however its calls
\* interleave (SessionBudget.charge, its addition taken as one step).
THEOREM ShownCorrect == Spec => []ShownWithinBudget
<1>1. ASSUME ClientToolsInv, NEW a \in Agents, budget[a] # NoBudget
      PROVE  Total({c \in Answered({"result"}) : Extracting(c) /\ AgentOf[c] = a}, got)
               <= budget[a]
  <2>1. ToolTypes /\ EnteredInv /\ VerdictInv /\ TotalInv
    BY <1>1, InvParts
  <2>2. {c \in Answered({"result"}) : Extracting(c) /\ AgentOf[c] = a} = Returned(a)
    BY <2>1 DEF VerdictInv, Answered, Returned
  <2>3. \A c \in Returned(a) : rows[c] = got[c]
    BY <1>1, <2>1, ReturnedEntered DEF EnteredInv, Returned
  <2>4. Total(Returned(a), rows) = Total(Returned(a), got)
    BY <2>3, TotalAgree
  <2> QED
    BY <1>1, <2>1, <2>2, <2>4 DEF TotalInv
<1>2. ClientToolsInv => ShownWithinBudget
  BY <1>1 DEF ShownWithinBudget
<1> QED
  BY <1>2, ClientToolsInvariant, PTL

\* The tools use the row budget as RowBudget promises it: one entry per
\* extraction, and a verdict that follows from the ledger.
THEOREM ToolsUseRowBudget == Spec => RB!Spec
<1>1. Init => RB!Init
  BY DEF Init
<1>2. ClientToolsInv /\ [Next]_vars => [RB!Next]_(RB!vars)
  BY InvParts, BudgetStep
<1> QED
  BY <1>1, <1>2, ClientToolsInvariant, PTL DEF Spec, RB!Spec

\* They use the driver client as ClientCell promises it: one at a time, opened
\* when there is none, and closed once.
THEOREM ToolsUseClientCell == Spec => CC!Spec
<1>1. Init => CC!Init
  BY DEF Init
<1>2. ClientToolsInv /\ [Next]_vars => [CC!Next]_(CC!vars)
  BY InvParts, CellStep
<1> QED
  BY <1>1, <1>2, ClientToolsInvariant, PTL DEF Spec, CC!Spec

=============================================================================
