-------------------------- MODULE GuardrailsProofs --------------------------
(***************************************************************************)
(* Theorems about Guardrails, for any number of agents and calls, any      *)
(* budgets and any row counts, and about the totals of rows that they are  *)
(* stated with.                                                            *)
(***************************************************************************)
EXTENDS Guardrails, FiniteSetTheorems, TLAPS

-----------------------------------------------------------------------------
(* What Total does when a set of calls grows *)

\* The rows of finitely many calls are finitely many.
LEMMA RowsFinite ==
  ASSUME NEW D, NEW r \in [D -> Nat], NEW S \in SUBSET D, IsFiniteSet(S)
  PROVE  IsFiniteSet(RowsOf(S, r))
<1>. DEFINE F == {{c} \X (1 .. r[c]) : c \in S}
            f == [c \in S |-> {c} \X (1 .. r[c])]
<1>1. IsFiniteSet(F)
  <2>1. f \in Surjection(S, F)
    BY DEF Surjection
  <2>. QED BY <2>1, FS_Surjection
<1>2. ASSUME NEW X \in F PROVE IsFiniteSet(X)
  <2>1. PICK c \in S : X = {c} \X (1 .. r[c])
    OBVIOUS
  <2>2. IsFiniteSet(1 .. r[c])
    <3>1. r[c] \in Int
      OBVIOUS
    <3>. QED BY <3>1, FS_Interval
  <2>3. IsFiniteSet({c})
    BY FS_Singleton
  <2>. QED BY <2>1, <2>2, <2>3, FS_Product
<1>. QED BY <1>1, <1>2, FS_UNION DEF RowsOf

\* A total is a natural number.
LEMMA TotalType ==
  ASSUME NEW D, NEW r \in [D -> Nat], NEW S \in SUBSET D, IsFiniteSet(S)
  PROVE  Total(S, r) \in Nat
BY RowsFinite, FS_CardinalityType DEF Total

\* No calls, no rows.
LEMMA TotalEmpty ==
  ASSUME NEW r
  PROVE  Total({}, r) = 0
<1>1. RowsOf({}, r) = {}
  BY DEF RowsOf
<1>. QED BY <1>1, FS_EmptySet DEF Total

\* More calls have at least as many rows.
LEMMA TotalMonotone ==
  ASSUME NEW D, NEW r \in [D -> Nat],
         NEW S \in SUBSET D, IsFiniteSet(S), NEW T \in SUBSET S
  PROVE  Total(T, r) <= Total(S, r)
<1>1. RowsOf(T, r) \in SUBSET RowsOf(S, r)
  BY DEF RowsOf
<1>. QED BY <1>1, RowsFinite, FS_Subset DEF Total

\* One more call adds its own rows.
LEMMA TotalAdd ==
  ASSUME NEW D, NEW r \in [D -> Nat],
         NEW S \in SUBSET D, IsFiniteSet(S), NEW c \in D, c \notin S
  PROVE  Total(S \cup {c}, r) = Total(S, r) + r[c]
<1>. DEFINE R == {c} \X (1 .. r[c])
<1>1. RowsOf(S \cup {c}, r) = RowsOf(S, r) \cup R
  BY DEF RowsOf
<1>2. RowsOf(S, r) \cap R = {}
  BY DEF RowsOf
<1>3. IsFiniteSet(R) /\ Cardinality(R) = r[c]
  <2>1. r[c] \in Nat
    OBVIOUS
  <2>2. IsFiniteSet(1 .. r[c]) /\ Cardinality(1 .. r[c]) = r[c]
    BY <2>1, FS_Interval
  <2>3. IsFiniteSet({c}) /\ Cardinality({c}) = 1
    BY FS_Singleton
  <2>. QED BY <2>1, <2>2, <2>3, FS_Product
<1>4. IsFiniteSet(RowsOf(S, r)) /\ Cardinality(RowsOf(S, r)) \in Nat
  BY RowsFinite, FS_CardinalityType
<1>5. r[c] \in Nat
  OBVIOUS
<1>. HIDE DEF R
<1>6. Cardinality(RowsOf(S, r) \cup R) = Cardinality(RowsOf(S, r)) + r[c]
  BY <1>2, <1>3, <1>4, <1>5, FS_Union, FS_EmptySet
<1>. QED BY <1>1, <1>6 DEF Total

\* A total depends on the rows of the calls it is over only.
LEMMA TotalAgree ==
  ASSUME NEW S, NEW r, NEW q, \A c \in S : r[c] = q[c]
  PROVE  Total(S, r) = Total(S, q)
<1>1. RowsOf(S, r) = RowsOf(S, q)
  BY DEF RowsOf
<1>. QED BY <1>1 DEF Total


USE GuardrailsAssumption, NoCallAssumption

-----------------------------------------------------------------------------
(* Type correctness *)

\* The initial states have the types that TypeOK names.
LEMMA InitType == Init => TypeOK
BY DEF Init, TypeOK, MetricsInit, MetricsTypeOK, Zero, Counters, Locations

\* Taking the lock of the metrics keeps the types of their state.
LEMMA EnterType ==
  ASSUME MetricsTypeOK, NEW c \in Calls, Enter(c)
  PROVE  MetricsTypeOK'
BY DEF MetricsTypeOK, Enter

\* So does each of the three methods that writes the counters.
LEMMA RecordType ==
  ASSUME MetricsTypeOK, NEW c \in Calls, NEW n \in Nat,
         \/ RecordQuery(c, n)
         \/ RecordBudgetExhausted(c)
         \/ RecordEstimateBlocked(c)
  PROVE  MetricsTypeOK'
<1>1. counters \in Counters /\ seen[c] \in Counters
  BY DEF MetricsTypeOK
<1>2. counters' \in Counters
  <2>1. /\ seen[c].queries_run + 1 \in Nat
        /\ seen[c].rows_returned + n \in Nat
        /\ seen[c].budget_exhausted + 1 \in Nat
        /\ seen[c].estimate_blocked + 1 \in Nat
    BY <1>1 DEF Counters
  <2>2. CASE RecordQuery(c, n)
    BY <1>1, <2>1, <2>2 DEF RecordQuery, Counters
  <2>3. CASE RecordBudgetExhausted(c)
    BY <1>1, <2>1, <2>3 DEF RecordBudgetExhausted, Counters
  <2>4. CASE RecordEstimateBlocked(c)
    BY <1>1, <2>1, <2>4 DEF RecordEstimateBlocked, Counters
  <2>. QED BY <2>2, <2>3, <2>4
<1>3. Leave(c)
  BY DEF RecordQuery, RecordBudgetExhausted, RecordEstimateBlocked
<1>4. Zero \in Counters
  BY DEF Zero, Counters
<1>. QED BY <1>2, <1>3, <1>4 DEF MetricsTypeOK, Leave

\* Every step of every call keeps them.
LEMMA NextType == TypeOK /\ [Next]_vars => TypeOK'
<1>. SUFFICES ASSUME TypeOK, [Next]_vars
              PROVE  TypeOK'
  OBVIOUS
<1>. USE DEF TypeOK
<1>1. ASSUME NEW c \in Calls, NEW e \in Estimates, CheckEstimate(c, e)
      PROVE  TypeOK'
  BY <1>1 DEF CheckEstimate, Goto, Locations, metricsVars, setupVars, MetricsTypeOK
<1>2. ASSUME NEW c \in Calls, NEW n \in 0 .. MaxRows, Charge(c, n)
      PROVE  TypeOK'
  BY <1>2 DEF Charge, Goto, Locations, metricsVars, setupVars, MetricsTypeOK
<1>3. ASSUME NEW c \in Calls, BlockEnter(c) \/ QueryEnter(c) \/ ExhaustEnter(c)
      PROVE  TypeOK'
  <2>1. MetricsTypeOK'
    BY <1>3, EnterType DEF BlockEnter, QueryEnter, ExhaustEnter
  <2>. QED BY <1>3, <2>1 DEF BlockEnter, QueryEnter, ExhaustEnter, Goto,
                             Locations, setupVars
<1>4. ASSUME NEW c \in Calls, BlockRecord(c) \/ QueryRecord(c) \/ ExhaustRecord(c)
      PROVE  TypeOK'
  <2>1. rows[c] \in Nat
    OBVIOUS
  <2>2. MetricsTypeOK'
    BY <1>4, <2>1, RecordType DEF BlockRecord, QueryRecord, ExhaustRecord
  <2>. QED BY <1>4, <2>2 DEF BlockRecord, QueryRecord, ExhaustRecord, Goto,
                             Locations, setupVars
<1>5. ASSUME NEW c \in Calls, ReturnUnlimited(c) \/ Check(c)
      PROVE  TypeOK'
  BY <1>5 DEF ReturnUnlimited, Check, Goto, Locations, metricsVars, setupVars, MetricsTypeOK
<1>6. ASSUME NEW c \in Calls, Add(c) \/ AddRead(c) \/ AddStore(c)
      PROVE  TypeOK'
  BY <1>6 DEF Add, AddRead, AddStore, Goto, Locations, metricsVars, setupVars, MetricsTypeOK
<1>7. CASE UNCHANGED vars
  BY <1>7 DEF vars, MetricsTypeOK
<1>. QED
  BY <1>1, <1>2, <1>3, <1>4, <1>5, <1>6, <1>7 DEF Next, Step

\* Every variable has its type in every reachable state.
THEOREM TypeCorrect == Spec => []TypeOK
BY InitType, NextType, PTL DEF Spec

-----------------------------------------------------------------------------
(* The rows entered *)

\* The sets of calls that the totals range over are finite sets of calls.
LEMMA CallSets ==
  ASSUME NEW a
  PROVE  /\ Added \cap Of(a) \in SUBSET Calls
         /\ Returned \cap Of(a) \in SUBSET Calls
         /\ IsFiniteSet(Added \cap Of(a))
         /\ IsFiniteSet(Returned \cap Of(a))
<1>1. Added \cap Of(a) \in SUBSET Calls /\ Returned \cap Of(a) \in SUBSET Calls
  BY DEF Of
<1>. QED BY <1>1, FS_Subset

\* The rows entered are a natural number.
LEMMA EnteredType ==
  ASSUME TypeOK, NEW a
  PROVE  Entered(a) \in Nat
<1>1. rows \in [Calls -> Nat]
  BY DEF TypeOK
<1>. QED BY <1>1, CallSets, TotalType DEF Entered

\* The budget of a limited call is a natural number.
LEMMA LimitType ==
  ASSUME TypeOK, NEW c \in Calls, Limited(c)
  PROVE  budget[AgentOf[c]] \in Nat
<1>1. AgentOf[c] \in Agents
  OBVIOUS
<1>2. budget[AgentOf[c]] \in Nat \cup {NoBudget}
  BY <1>1 DEF TypeOK
<1>. QED BY <1>2 DEF Limited

\* A step that enters nothing, and changes the rows of no call that has
\* entered them, leaves every ledger as it was.
LEMMA EnteredStays ==
  ASSUME Added' = Added, \A c \in Added : rows'[c] = rows[c]
  PROVE  \A a : Entered(a)' = Entered(a)
<1>. TAKE a
<1>1. \A c \in Added \cap Of(a) : rows'[c] = rows[c]
  OBVIOUS
<1>2. Total(Added \cap Of(a), rows') = Total(Added \cap Of(a), rows)
  BY <1>1, TotalAgree
<1>. QED BY <1>2 DEF Entered, Of

\* An addition enters the rows of its call in the ledger of its agent.
LEMMA EnteredGrows ==
  ASSUME TypeOK, NEW c \in Calls, c \notin Added, Added' = Added \cup {c},
         rows' = rows
  PROVE  \A a : Entered(a)' = IF a = AgentOf[c] THEN Entered(a) + rows[c]
                                                ELSE Entered(a)
<1>. TAKE a
<1>1. rows \in [Calls -> Nat]
  BY DEF TypeOK
<1>2. CASE a = AgentOf[c]
  <2>1. Added' \cap Of(a) = (Added \cap Of(a)) \cup {c}
    BY <1>2 DEF Of
  <2>2. Total((Added \cap Of(a)) \cup {c}, rows) = Entered(a) + rows[c]
    <3>. DEFINE S == Added \cap Of(a)
    <3>1. S \in SUBSET Calls /\ IsFiniteSet(S) /\ c \notin S
      BY CallSets
    <3>2. Entered(a) = Total(S, rows)
      BY DEF Entered
    <3>. HIDE DEF S
    <3>3. Total(S \cup {c}, rows) = Total(S, rows) + rows[c]
      BY <1>1, <3>1, TotalAdd
    <3>. QED BY <3>2, <3>3 DEF S
  <2>. QED BY <1>2, <2>1, <2>2 DEF Entered, Of
<1>3. CASE a # AgentOf[c]
  <2>1. Added' \cap Of(a) = Added \cap Of(a)
    BY <1>3 DEF Of
  <2>. QED BY <1>3, <2>1 DEF Entered, Of
<1>. QED BY <1>2, <1>3

-----------------------------------------------------------------------------
(* The row budget *)

\* A step that adds nothing to consumed and gives no verdict to a limited
\* call keeps the invariant.
LEMMA QuietStep ==
  ASSUME BudgetInv, TypeOK', PastTheGate',
         UNCHANGED <<build, budget, consumed, loaded>>,
         Added' = Added, Withheld' = Withheld,
         \A c \in Added : rows'[c] = rows[c],
         \A a \in Agents : budget[a] # NoBudget =>
           (Returned \cap Of(a))' = Returned \cap Of(a)
  PROVE  BudgetInv'
<1>. USE DEF BudgetInv
<1>1. \A a : Entered(a)' = Entered(a)
  BY EnteredStays
<1>2. ConsumedIsEntered'
  BY <1>1 DEF ConsumedIsEntered
<1>3. WithheldOnlyOverBudget'
  BY <1>1 DEF WithheldOnlyOverBudget, Entered
<1>4. BudgetRespected'
  <2>. SUFFICES ASSUME build = "gil", NEW a \in Agents, budget[a] # NoBudget
                PROVE  Total(Returned \cap Of(a), rows)' <= budget[a]
    BY DEF BudgetRespected
  <2>1. \A c \in Returned \cap Of(a) : rows'[c] = rows[c]
    BY DEF Returned, Added, At, Of, Limited
  <2>2. Total(Returned \cap Of(a), rows') = Total(Returned \cap Of(a), rows)
    BY <2>1, TotalAgree
  <2>. QED BY <2>2 DEF BudgetRespected
<1>. QED BY <1>2, <1>3, <1>4

\* An addition that leaves consumed within the rows entered keeps it.
LEMMA AdditionStep ==
  ASSUME BudgetInv, TypeOK', PastTheGate', NEW c \in Calls, NEW n \in Nat,
         Limited(c), c \notin Added, Added' = Added \cup {c},
         UNCHANGED <<build, budget, rows>>,
         Withheld' = Withheld, Returned' = Returned,
         consumed' = [consumed EXCEPT ![AgentOf[c]] = n],
         n <= Entered(AgentOf[c]) + rows[c],
         build = "gil" => n = Entered(AgentOf[c]) + rows[c],
         \A d \in Calls : loaded'[d] <= loaded[d]
  PROVE  BudgetInv'
<1>. USE DEF BudgetInv
<1>1. \A a : Entered(a)' = IF a = AgentOf[c] THEN Entered(a) + rows[c]
                                            ELSE Entered(a)
  BY EnteredGrows
<1>2. \A a : Entered(a) \in Nat
  BY EnteredType
<1>3. rows[c] \in Nat /\ consumed \in [Agents -> Nat] /\ AgentOf[c] \in Agents
  BY DEF TypeOK
<1>4. ConsumedIsEntered'
  <2>1. \A a \in Agents : consumed'[a] <= Entered(a)'
    BY <1>1, <1>2, <1>3 DEF ConsumedIsEntered
  <2>2. \A d \in Calls : loaded'[d] <= Entered(AgentOf[d])'
    BY <1>1, <1>2, <1>3 DEF ConsumedIsEntered, TypeOK
  <2>3. build = "gil" => \A a \in Agents : consumed'[a] = Entered(a)'
    BY <1>1, <1>2, <1>3 DEF ConsumedIsEntered
  <2>. QED BY <2>1, <2>2, <2>3 DEF ConsumedIsEntered
<1>5. WithheldOnlyOverBudget'
  <2>. SUFFICES ASSUME NEW d \in Withheld
                PROVE  Entered(AgentOf[d])' > budget[AgentOf[d]]
    BY DEF WithheldOnlyOverBudget, Entered
  <2>1. Entered(AgentOf[d]) > budget[AgentOf[d]]
    BY DEF WithheldOnlyOverBudget, Entered
  <2>2. d \in Calls /\ Limited(d)
    BY DEF PastTheGate, Withheld, At
  <2>3. budget[AgentOf[d]] \in Nat
    BY <2>2, LimitType
  <2>. QED BY <1>1, <1>2, <1>3, <2>1, <2>3
<1>6. BudgetRespected'
  BY DEF BudgetRespected, Of
<1>. QED BY <1>4, <1>5, <1>6

\* The comparison gives the verdict that consumed stands for.
LEMMA CheckStep ==
  ASSUME BudgetInv, TypeOK', PastTheGate', NEW c \in Calls, Check(c)
  PROVE  BudgetInv'
<1>. USE DEF BudgetInv
<1>. DEFINE a == AgentOf[c]
<1>1. /\ pc[c] = "check"
      /\ Limited(c)
      /\ a \in Agents
      /\ pc' = [pc EXCEPT ![c] = pc'[c]]
      /\ pc'[c] \in IF ~Exceeds(consumed[a], budget[a])
                    THEN {"returned"} ELSE {"exhaustLock", "withheld"}
      /\ UNCHANGED <<build, budget, rows, consumed, loaded>>
  BY DEF Check, Goto, PastTheGate, At, setupVars, TypeOK
<1>2. consumed[a] \in Nat /\ budget[a] \in Nat
  BY <1>1, LimitType DEF TypeOK
<1>3. Added' = Added /\ c \in Added
  BY <1>1, <1>2 DEF Added, At, Withheld, Limited, TypeOK
<1>4. \A b : Entered(b)' = Entered(b)
  BY <1>1, <1>3, EnteredStays
<1>5. Entered(a) \in Nat
  BY EnteredType
<1>6. ConsumedIsEntered'
  BY <1>1, <1>4 DEF ConsumedIsEntered
<1>7. CASE ~Exceeds(consumed[a], budget[a])
  <2>1. Returned' = Returned \cup {c} /\ Withheld' = Withheld
    BY <1>1, <1>7 DEF Returned, Withheld, At, TypeOK
  <2>2. WithheldOnlyOverBudget'
    BY <1>1, <1>4, <2>1 DEF WithheldOnlyOverBudget, Entered
  <2>3. BudgetRespected'
    <3>. SUFFICES ASSUME build = "gil", NEW b \in Agents, budget[b] # NoBudget
                  PROVE  Total(Returned \cap Of(b), rows)' <= budget[b]
      BY <1>1 DEF BudgetRespected
    <3>1. CASE b = a
      <4>1. (Returned \cap Of(a))' \in SUBSET (Added \cap Of(a))
        BY <1>1, <1>3, <2>1 DEF Returned, Added, At, Of, Limited
      <4>2. rows' = rows /\ rows \in [Calls -> Nat]
        BY <1>1 DEF TypeOK
      <4>3. /\ Total((Returned \cap Of(a))', rows) <= Entered(a)
            /\ Total((Returned \cap Of(a))', rows) \in Nat
        <5>. DEFINE T == (Returned \cap Of(a))'
        <5>1. /\ T \in SUBSET (Added \cap Of(a))
              /\ T \in SUBSET Calls
              /\ IsFiniteSet(T)
          BY <4>1, CallSets, FS_Subset
        <5>. HIDE DEF T
        <5>2. Total(T, rows) <= Entered(a)
          BY <4>2, <5>1, CallSets, TotalMonotone DEF Entered
        <5>3. Total(T, rows) \in Nat
          BY <4>2, <5>1, TotalType
        <5>. QED BY <5>2, <5>3 DEF T
      <4>4. consumed[a] = Entered(a)
        BY <1>1 DEF ConsumedIsEntered
      <4>5. Total(Returned \cap Of(a), rows)' <= budget[a]
        BY <1>2, <1>5, <1>7, <4>2, <4>3, <4>4 DEF Exceeds
      <4>. QED BY <1>1, <3>1, <4>5
    <3>2. CASE b # a
      <4>1. (Returned \cap Of(b))' = Returned \cap Of(b)
        BY <2>1, <3>2 DEF Of
      <4>. QED BY <1>1, <4>1 DEF BudgetRespected
    <3>. QED BY <3>1, <3>2
  <2>. QED BY <1>6, <2>2, <2>3
<1>8. CASE Exceeds(consumed[a], budget[a])
  <2>1. Returned' = Returned /\ Withheld' = Withheld \cup {c}
    BY <1>1, <1>8 DEF Returned, Withheld, At, TypeOK
  <2>2. Entered(a) > budget[a]
    BY <1>1, <1>2, <1>5, <1>8 DEF ConsumedIsEntered, Exceeds
  <2>3. WithheldOnlyOverBudget'
    BY <1>1, <1>4, <2>1, <2>2 DEF WithheldOnlyOverBudget, Entered
  <2>4. BudgetRespected'
    BY <1>1, <2>1 DEF BudgetRespected, Of
  <2>. QED BY <1>6, <2>3, <2>4
<1>. QED BY <1>7, <1>8

\* The initial states satisfy the invariant: nothing is entered or returned.
LEMMA InitBudget == Init => BudgetInv
<1>. SUFFICES ASSUME Init
              PROVE  BudgetInv
  OBVIOUS
<1>1. TypeOK
  BY InitType
<1>2. Added = {} /\ Returned = {} /\ Withheld = {}
  BY DEF Init, Added, Returned, Withheld, At
<1>3. PastTheGate
  BY <1>2 DEF Init, PastTheGate, At
<1>4. \A a : Entered(a) = 0
  BY <1>2, TotalEmpty DEF Entered
<1>5. ConsumedIsEntered
  BY <1>4 DEF Init, ConsumedIsEntered
<1>6. WithheldOnlyOverBudget
  BY <1>2 DEF WithheldOnlyOverBudget
<1>7. BudgetRespected
  <2>. SUFFICES ASSUME NEW a \in Agents, budget[a] # NoBudget
                PROVE  Total(Returned \cap Of(a), rows) <= budget[a]
    BY DEF BudgetRespected
  <2>1. Total(Returned \cap Of(a), rows) = 0
    BY <1>2, TotalEmpty
  <2>2. budget[a] \in Nat
    BY <1>1 DEF TypeOK
  <2>. QED BY <2>1, <2>2
<1>. QED BY <1>1, <1>3, <1>5, <1>6, <1>7 DEF BudgetInv

\* Only the steps of the addition and the comparison touch what the
\* invariant is about; all the others are quiet.
LEMMA NextBudget == BudgetInv /\ [Next]_vars => BudgetInv'
<1>. SUFFICES ASSUME BudgetInv, [Next]_vars
              PROVE  BudgetInv'
  OBVIOUS
<1>1. TypeOK /\ TypeOK'
  BY NextType DEF BudgetInv
<1>2. ASSUME NEW c \in Calls, NEW x, Goto(c, pc[c], x), UNCHANGED <<build, budget>>,
             x \in {"addStore", "check", "exhaustLock", "exhaustStore", "withheld"}
               => Limited(c),
             x = "addStore" => build = "free"
      PROVE  PastTheGate'
  BY <1>1, <1>2 DEF BudgetInv, PastTheGate, Goto, At, Withheld, Limited, TypeOK
<1>3. ASSUME NEW c \in Calls, NEW e \in Estimates, CheckEstimate(c, e)
      PROVE  BudgetInv'
  <2>1. /\ Goto(c, "idle", pc'[c])
        /\ pc'[c] \in {"cleared", "blockLock", "blocked"}
        /\ UNCHANGED <<build, budget, rows, consumed, loaded>>
    BY <1>1, <1>3 DEF CheckEstimate, Goto, setupVars, TypeOK
  <2>2. PastTheGate'
    BY <1>2, <2>1 DEF Goto
  <2>3. Added' = Added /\ Withheld' = Withheld /\ Returned' = Returned
    BY <1>1, <2>1 DEF Goto, Added, Withheld, Returned, At, Limited, TypeOK
  <2>. QED BY <1>1, <2>1, <2>2, <2>3, QuietStep DEF Of
<1>4. ASSUME NEW c \in Calls, NEW n \in 0 .. MaxRows, Charge(c, n)
      PROVE  BudgetInv'
  <2>1. /\ Goto(c, pc[c], pc'[c])
        /\ pc[c] \in {"idle", "cleared"}
        /\ pc'[c] \in {"queryLock", "recorded"}
        /\ rows' = [rows EXCEPT ![c] = n]
        /\ UNCHANGED <<build, budget, consumed, loaded>>
    BY <1>1, <1>4 DEF Charge, Goto, setupVars, TypeOK
  <2>2. PastTheGate'
    BY <1>2, <2>1 DEF Goto
  <2>3. /\ Added' = Added /\ Withheld' = Withheld /\ Returned' = Returned
        /\ c \notin Added
    BY <1>1, <2>1 DEF Goto, Added, Withheld, Returned, At, Limited, TypeOK
  <2>4. \A d \in Added : rows'[d] = rows[d]
    BY <1>1, <2>1, <2>3 DEF Added, At, Withheld, TypeOK
  <2>. QED BY <1>1, <2>1, <2>2, <2>3, <2>4, QuietStep DEF Of
<1>5. ASSUME NEW c \in Calls,
             \/ BlockEnter(c) \/ BlockRecord(c)
             \/ QueryEnter(c) \/ QueryRecord(c)
      PROVE  BudgetInv'
  <2>1. /\ Goto(c, pc[c], pc'[c])
        /\ pc[c] \in {"blockLock", "blockStore", "queryLock", "queryStore"}
        /\ pc'[c] \in {"blockStore", "blocked", "queryStore", "recorded"}
        /\ UNCHANGED <<build, budget, rows, consumed, loaded>>
    BY <1>1, <1>5 DEF BlockEnter, BlockRecord, QueryEnter, QueryRecord, Goto,
                      setupVars, TypeOK
  <2>2. PastTheGate'
    BY <1>2, <2>1 DEF Goto
  <2>3. Added' = Added /\ Withheld' = Withheld /\ Returned' = Returned
    BY <1>1, <2>1 DEF Goto, Added, Withheld, Returned, At, Limited, TypeOK
  <2>. QED BY <1>1, <2>1, <2>2, <2>3, QuietStep DEF Of
<1>6. ASSUME NEW c \in Calls, ExhaustEnter(c) \/ ExhaustRecord(c)
      PROVE  BudgetInv'
  <2>1. /\ Goto(c, pc[c], pc'[c])
        /\ pc[c] \in {"exhaustLock", "exhaustStore"}
        /\ pc'[c] \in {"exhaustStore", "withheld"}
        /\ UNCHANGED <<build, budget, rows, consumed, loaded>>
    BY <1>1, <1>6 DEF ExhaustEnter, ExhaustRecord, Goto, setupVars, TypeOK
  <2>2. PastTheGate'
    BY <1>2, <2>1 DEF Goto, BudgetInv, PastTheGate, At, Withheld
  <2>3. Added' = Added /\ Withheld' = Withheld /\ Returned' = Returned
    BY <1>1, <2>1 DEF Goto, Added, Withheld, Returned, At, Limited, TypeOK
  <2>. QED BY <1>1, <2>1, <2>2, <2>3, QuietStep DEF Of
<1>7. ASSUME NEW c \in Calls, ReturnUnlimited(c)
      PROVE  BudgetInv'
  <2>1. /\ Goto(c, "recorded", "returned")
        /\ ~Limited(c)
        /\ UNCHANGED <<build, budget, rows, consumed, loaded>>
    BY <1>7 DEF ReturnUnlimited, setupVars
  <2>2. PastTheGate'
    BY <1>2, <2>1 DEF Goto
  <2>3. Added' = Added /\ Withheld' = Withheld /\ Returned' = Returned \cup {c}
    BY <1>1, <2>1 DEF Goto, Added, Withheld, Returned, At, Limited, TypeOK
  <2>4. \A a \in Agents : budget[a] # NoBudget =>
          (Returned \cap Of(a))' = Returned \cap Of(a)
    BY <2>1, <2>3 DEF Of, Limited
  <2>. QED BY <1>1, <2>1, <2>2, <2>3, <2>4, QuietStep
<1>8. ASSUME NEW c \in Calls, Add(c)
      PROVE  BudgetInv'
  <2>1. /\ Goto(c, "recorded", "check")
        /\ Limited(c) /\ build = "gil" /\ AgentOf[c] \in Agents
        /\ UNCHANGED <<build, budget, rows, loaded>>
        /\ consumed' = [consumed EXCEPT ![AgentOf[c]] = @ + rows[c]]
    BY <1>8 DEF Add, setupVars
  <2>2. PastTheGate'
    BY <1>2, <2>1 DEF Goto
  <2>3. /\ Added' = Added \cup {c} /\ c \notin Added
        /\ Withheld' = Withheld /\ Returned' = Returned
    BY <1>1, <2>1 DEF Goto, Added, Withheld, Returned, At, Limited, TypeOK
  <2>4. /\ consumed[AgentOf[c]] + rows[c] \in Nat
        /\ consumed[AgentOf[c]] = Entered(AgentOf[c])
    BY <1>1, <2>1 DEF TypeOK, BudgetInv, ConsumedIsEntered
  <2>5. \A d \in Calls : loaded'[d] <= loaded[d]
    BY <1>1, <2>1 DEF TypeOK
  <2>6. consumed' = [consumed EXCEPT ![AgentOf[c]] = consumed[AgentOf[c]] + rows[c]]
    BY <2>1
  <2>7. PICK n \in Nat : /\ consumed' = [consumed EXCEPT ![AgentOf[c]] = n]
                         /\ n = Entered(AgentOf[c]) + rows[c]
    BY <2>4, <2>6
  <2>8. n <= Entered(AgentOf[c]) + rows[c]
    BY <2>7
  <2>. QED BY <1>1, <2>1, <2>2, <2>3, <2>5, <2>7, <2>8, AdditionStep
<1>9. ASSUME NEW c \in Calls, AddStore(c)
      PROVE  BudgetInv'
  <2>1. /\ Goto(c, "addStore", "check")
        /\ UNCHANGED <<build, budget, rows>>
        /\ consumed' = [consumed EXCEPT ![AgentOf[c]] = loaded[c] + rows[c]]
        /\ loaded' = [loaded EXCEPT ![c] = 0]
    BY <1>9 DEF AddStore, setupVars
  <2>2. Limited(c) /\ build = "free" /\ AgentOf[c] \in Agents
    BY <2>1 DEF Goto, BudgetInv, PastTheGate, At
  <2>3. PastTheGate'
    BY <1>2, <2>1, <2>2 DEF Goto
  <2>4. /\ Added' = Added \cup {c} /\ c \notin Added
        /\ Withheld' = Withheld /\ Returned' = Returned
    BY <1>1, <2>1, <2>2 DEF Goto, Added, Withheld, Returned, At, Limited, TypeOK
  <2>5. /\ loaded[c] + rows[c] \in Nat
        /\ loaded[c] + rows[c] <= Entered(AgentOf[c]) + rows[c]
    BY <1>1, EnteredType DEF TypeOK, BudgetInv, ConsumedIsEntered
  <2>6. \A d \in Calls : loaded'[d] <= loaded[d]
    BY <1>1, <2>1 DEF TypeOK
  <2>. QED BY <1>1, <2>1, <2>2, <2>3, <2>4, <2>5, <2>6, AdditionStep
<1>10. ASSUME NEW c \in Calls, AddRead(c)
       PROVE  BudgetInv'
  <2>1. /\ Goto(c, "recorded", "addStore")
        /\ Limited(c) /\ build = "free" /\ AgentOf[c] \in Agents
        /\ UNCHANGED <<build, budget, rows, consumed>>
        /\ loaded' = [loaded EXCEPT ![c] = consumed[AgentOf[c]]]
    BY <1>10 DEF AddRead, setupVars
  <2>2. PastTheGate'
    BY <1>2, <2>1 DEF Goto
  <2>3. Added' = Added /\ Withheld' = Withheld /\ Returned' = Returned
    BY <1>1, <2>1 DEF Goto, Added, Withheld, Returned, At, Limited, TypeOK
  <2>4. \A a : Entered(a)' = Entered(a)
    BY <2>1, <2>3, EnteredStays
  <2>5. ConsumedIsEntered'
    BY <1>1, <2>1, <2>4 DEF BudgetInv, ConsumedIsEntered, TypeOK
  <2>6. WithheldOnlyOverBudget'
    BY <2>1, <2>3, <2>4 DEF BudgetInv, WithheldOnlyOverBudget, Entered
  <2>7. BudgetRespected'
    BY <2>1 DEF BudgetRespected
  <2>. QED BY <1>1, <2>2, <2>5, <2>6, <2>7 DEF BudgetInv
<1>11. ASSUME NEW c \in Calls, Check(c)
       PROVE  BudgetInv'
  <2>1. PastTheGate'
    BY <1>1, <1>11 DEF Check, Goto, setupVars, BudgetInv, PastTheGate, At,
                       Withheld, Limited, TypeOK
  <2>. QED BY <1>1, <1>11, <2>1, CheckStep
<1>12. CASE UNCHANGED vars
  <2>1. Added' = Added /\ Withheld' = Withheld /\ Returned' = Returned
    BY <1>12 DEF vars, Added, Withheld, Returned, At, Limited
  <2>2. PastTheGate'
    BY <1>12 DEF vars, BudgetInv, PastTheGate, At, Withheld, Limited
  <2>. QED BY <1>1, <1>12, <2>1, <2>2, QuietStep DEF vars, Of
<1>. QED
  BY <1>3, <1>4, <1>5, <1>6, <1>7, <1>8, <1>9, <1>10, <1>11, <1>12 DEF Next, Step

\* The rows an agent is given never exceed its budget, for any number of
\* concurrent calls, when the addition to consumed is one step.
THEOREM BudgetIsRespected == Spec => []BudgetRespected
<1>1. BudgetInv => BudgetRespected
  BY DEF BudgetInv
<1>. QED BY <1>1, InitBudget, NextBudget, PTL DEF Spec

\* No build withholds a result while the budget still has room for it.
THEOREM NeverTooStrict == Spec => []WithheldOnlyOverBudget
<1>1. BudgetInv => WithheldOnlyOverBudget
  BY DEF BudgetInv
<1>. QED BY <1>1, InitBudget, NextBudget, PTL DEF Spec

-----------------------------------------------------------------------------
(* Exhaustion is final *)

\* Nothing happens to an exhausted agent in one step: what it has consumed
\* does not shrink, and none of its calls returns.
LEMMA StaysExhausted ==
  ASSUME BudgetInv, [Next]_vars, NEW a \in Agents, build = "gil", Exhausted(a)
  PROVE  Exhausted(a)' /\ (Returned \cap Of(a))' = Returned \cap Of(a)
<1>1. TypeOK /\ PastTheGate
  BY DEF BudgetInv
<1>2. consumed[a] \in Nat /\ budget[a] \in Nat /\ consumed[a] > budget[a]
  BY <1>1 DEF TypeOK, Exhausted
<1>. DEFINE Quiet(c, to) ==
       /\ pc' = [pc EXCEPT ![c] = to]
       /\ to # "returned" /\ pc[c] # "returned"
       /\ budget' = budget
       /\ consumed' = consumed
<1>3. ASSUME NEW c \in Calls, NEW to, Quiet(c, to)
      PROVE  Exhausted(a)' /\ (Returned \cap Of(a))' = Returned \cap Of(a)
  BY <1>1, <1>3 DEF TypeOK, Exhausted, Returned, At, Of
<1>4. ASSUME NEW c \in Calls, NEW e \in Estimates, CheckEstimate(c, e)
      PROVE  \E to : Quiet(c, to)
  BY <1>4 DEF CheckEstimate, Goto, setupVars
<1>5. ASSUME NEW c \in Calls, NEW n \in 0 .. MaxRows, Charge(c, n)
      PROVE  \E to : Quiet(c, to)
  BY <1>5 DEF Charge, Goto, setupVars
<1>6. ASSUME NEW c \in Calls,
             BlockEnter(c) \/ BlockRecord(c) \/ QueryEnter(c) \/ QueryRecord(c)
             \/ AddRead(c) \/ ExhaustEnter(c) \/ ExhaustRecord(c)
      PROVE  \E to : Quiet(c, to)
  BY <1>6 DEF BlockEnter, BlockRecord, QueryEnter, QueryRecord, AddRead,
              ExhaustEnter, ExhaustRecord, Goto, setupVars
<1>7. ASSUME NEW c \in Calls, ReturnUnlimited(c)
      PROVE  Exhausted(a)' /\ (Returned \cap Of(a))' = Returned \cap Of(a)
  <2>1. AgentOf[c] # a
    BY <1>7 DEF ReturnUnlimited, Limited, Exhausted
  <2>. QED BY <1>1, <1>7, <2>1 DEF ReturnUnlimited, Goto, setupVars, TypeOK,
                                   Exhausted, Returned, At, Of
<1>8. ASSUME NEW c \in Calls, Add(c)
      PROVE  Exhausted(a)' /\ (Returned \cap Of(a))' = Returned \cap Of(a)
  <2>1. rows[c] \in Nat
    BY <1>1 DEF TypeOK
  <2>2. budget' = budget /\ consumed'[a] \in Nat /\ consumed'[a] >= consumed[a]
    BY <1>1, <1>2, <1>8, <2>1 DEF Add, setupVars, TypeOK
  <2>3. Returned' = Returned
    BY <1>1, <1>8 DEF Add, Goto, Returned, At, TypeOK
  <2>. QED BY <1>2, <2>2, <2>3 DEF Exhausted, Of
<1>9. ASSUME NEW c \in Calls, AddStore(c)
      PROVE  FALSE
  BY <1>1, <1>9 DEF AddStore, Goto, PastTheGate
<1>10. ASSUME NEW c \in Calls, Check(c)
       PROVE  Exhausted(a)' /\ (Returned \cap Of(a))' = Returned \cap Of(a)
  <2>1. CASE AgentOf[c] = a
    <3>1. Exceeds(consumed[AgentOf[c]], budget[AgentOf[c]])
      BY <1>2, <2>1 DEF Exceeds
    <3>2. \E to : Quiet(c, to)
      BY <1>10, <3>1 DEF Check, Goto, setupVars
    <3>. QED BY <1>3, <3>2
  <2>2. CASE AgentOf[c] # a
    BY <1>1, <1>10, <2>2 DEF Check, Goto, setupVars, TypeOK, Exhausted,
                             Returned, At, Of
  <2>. QED BY <2>1, <2>2
<1>11. CASE UNCHANGED vars
  BY <1>11 DEF vars, Exhausted, Returned, At, Of
<1>. QED
  BY <1>3, <1>4, <1>5, <1>6, <1>7, <1>8, <1>9, <1>10, <1>11 DEF Next, Step

\* An agent that has run over its budget gets no more rows, for any number of
\* its calls under way: format_budget_block, "Stop extracting rows".
THEOREM NoRowsAfterExhaustion == Spec => ExhaustionIsFinal
<1>1. BudgetInv /\ [Next]_vars =>
        [\A a \in Agents : (build = "gil" /\ Exhausted(a)) =>
            /\ Exhausted(a)'
            /\ (Returned \cap Of(a))' = Returned \cap Of(a)]_vars
  BY StaysExhausted
<1>2. Spec => []BudgetInv
  BY InitBudget, NextBudget, PTL DEF Spec
<1>. QED BY <1>1, <1>2, PTL DEF Spec, ExhaustionIsFinal

-----------------------------------------------------------------------------
(* The metrics *)

\* The metered calls that were told off, and those that were blocked.
ToldOff == {c \in At({"withheld"}) : Metered(c)}
Blocked == {c \in At({"blocked"}) : Metered(c)}

\* One more call is one more to count.
LEMMA CountOneMore ==
  ASSUME NEW S \in SUBSET Calls, NEW c \in Calls, c \notin S
  PROVE  Cardinality(S) \in Nat /\ Cardinality(S \cup {c}) = Cardinality(S) + 1
BY FS_Subset, FS_CardinalityType, FS_AddElement

\* The lock is held by the call that records, which has read the counters.
LEMMA NextLocks == TypeOK /\ LockInv /\ [Next]_vars => LockInv'
<1>. SUFFICES ASSUME TypeOK, LockInv, [Next]_vars
              PROVE  LockInv'
  OBVIOUS
<1>. USE DEF LockInv, Recording, Waiting, At, Metered, Goto, metricsVars, setupVars
<1>1. pc \in [Calls -> Locations] /\ seen \in [Calls -> Counters]
  BY DEF TypeOK, MetricsTypeOK
<1>2. ASSUME NEW c \in Calls, NEW e \in Estimates, CheckEstimate(c, e)
      PROVE  LockInv'
  BY <1>1, <1>2 DEF CheckEstimate
<1>3. ASSUME NEW c \in Calls, NEW n \in 0 .. MaxRows, Charge(c, n)
      PROVE  LockInv'
  BY <1>1, <1>3 DEF Charge
<1>4. ASSUME NEW c \in Calls, BlockEnter(c) \/ QueryEnter(c) \/ ExhaustEnter(c)
      PROVE  LockInv'
  BY <1>1, <1>4 DEF BlockEnter, QueryEnter, ExhaustEnter, Enter
<1>5. ASSUME NEW c \in Calls, BlockRecord(c) \/ QueryRecord(c) \/ ExhaustRecord(c)
      PROVE  LockInv'
  <2>1. /\ pc[c] \in {"blockStore", "queryStore", "exhaustStore"}
        /\ pc' = [pc EXCEPT ![c] = pc'[c]]
        /\ pc'[c] \in {"blocked", "recorded", "withheld"}
        /\ mlock' = NoCall /\ UNCHANGED setupVars
    BY <1>1, <1>5 DEF BlockRecord, QueryRecord, ExhaustRecord, RecordQuery,
                 RecordBudgetExhausted, RecordEstimateBlocked, Leave
  <2>2. \A d \in Calls \ {c} : d \notin Recording
    BY <2>1
  <2>3. Recording' = {}
    BY <1>1, <2>1, <2>2
  <2>. QED BY <1>1, <2>1, <2>3
<1>6. ASSUME NEW c \in Calls, ReturnUnlimited(c) \/ Add(c) \/ AddRead(c) \/ AddStore(c)
      PROVE  LockInv'
  BY <1>1, <1>6 DEF ReturnUnlimited, Add, AddRead, AddStore
<1>7. ASSUME NEW c \in Calls, Check(c)
      PROVE  LockInv'
  BY <1>1, <1>7 DEF Check
<1>8. CASE UNCHANGED vars
  BY <1>8 DEF vars
<1>. QED
  BY <1>2, <1>3, <1>4, <1>5, <1>6, <1>7, <1>8 DEF Next, Step

\* A step that records nothing leaves nothing to count.
LEMMA QuietMetrics ==
  ASSUME MetricsExact, counters' = counters,
         Recorded' = Recorded, ToldOff' = ToldOff, Blocked' = Blocked,
         \A c \in Recorded : rows'[c] = rows[c]
  PROVE  MetricsExact'
<1>1. Total(Recorded, rows') = Total(Recorded, rows)
  BY TotalAgree
<1>. QED BY <1>1 DEF MetricsExact, ToldOff, Blocked

\* A method that records counts the call it was called by, once.
LEMMA RecordStep ==
  ASSUME MetricsInv, NEW c \in Calls, BlockRecord(c) \/ QueryRecord(c) \/ ExhaustRecord(c)
  PROVE  MetricsExact'
<1>1. /\ pc \in [Calls -> Locations] /\ rows \in [Calls -> Nat]
      /\ counters \in Counters
      /\ seen[c] = counters /\ Metered(c)
      /\ UNCHANGED <<setupVars, rows>>
  <2>1. c \in Recording
    BY DEF BlockRecord, QueryRecord, ExhaustRecord, Goto, Recording, At
  <2>. QED BY <2>1 DEF MetricsInv, LockInv, TypeOK, MetricsTypeOK, BlockRecord,
                       QueryRecord, ExhaustRecord
<1>2. /\ Recorded \in SUBSET Calls /\ IsFiniteSet(Recorded)
      /\ ToldOff \in SUBSET Calls /\ Blocked \in SUBSET Calls
  <2>1. Recorded \in SUBSET Calls /\ ToldOff \in SUBSET Calls /\ Blocked \in SUBSET Calls
    BY DEF Recorded, Withheld, At, ToldOff, Blocked
  <2>. QED BY <2>1, FS_Subset
<1>. USE DEF Goto, setupVars, Metered
<1>3. CASE QueryRecord(c)
  <2>1. c \notin Recorded /\ Recorded' = Recorded \cup {c}
    BY <1>1, <1>3 DEF QueryRecord, Recorded, Withheld, At
  <2>2. ToldOff' = ToldOff /\ Blocked' = Blocked
    BY <1>1, <1>3 DEF QueryRecord, ToldOff, Blocked, At
  <2>3. Cardinality(Recorded') = Cardinality(Recorded) + 1
    BY <1>2, <2>1, CountOneMore
  <2>4. Total(Recorded', rows) = Total(Recorded, rows) + rows[c]
    BY <1>1, <1>2, <2>1, TotalAdd
  <2>5. counters' = [counters EXCEPT !.queries_run = counters.queries_run + 1,
                                     !.rows_returned = counters.rows_returned + rows[c]]
    BY <1>1, <1>3 DEF QueryRecord, RecordQuery
  <2>. QED BY <1>1, <2>2, <2>3, <2>4, <2>5
           DEF MetricsInv, MetricsExact, ToldOff, Blocked, Counters
<1>4. CASE ExhaustRecord(c)
  <2>1. c \notin ToldOff /\ ToldOff' = ToldOff \cup {c}
    BY <1>1, <1>4 DEF ExhaustRecord, ToldOff, At
  <2>2. Recorded' = Recorded /\ Blocked' = Blocked
    BY <1>1, <1>4 DEF ExhaustRecord, Recorded, Withheld, Blocked, At
  <2>3. Cardinality(ToldOff') = Cardinality(ToldOff) + 1
    BY <1>2, <2>1, CountOneMore
  <2>4. counters' = [counters EXCEPT !.budget_exhausted = counters.budget_exhausted + 1]
    BY <1>1, <1>4 DEF ExhaustRecord, RecordBudgetExhausted
  <2>. QED BY <1>1, <2>2, <2>3, <2>4
           DEF MetricsInv, MetricsExact, ToldOff, Blocked, Counters
<1>5. CASE BlockRecord(c)
  <2>1. c \notin Blocked /\ Blocked' = Blocked \cup {c}
    BY <1>1, <1>5 DEF BlockRecord, Blocked, At
  <2>2. Recorded' = Recorded /\ ToldOff' = ToldOff
    BY <1>1, <1>5 DEF BlockRecord, Recorded, Withheld, ToldOff, At
  <2>3. Cardinality(Blocked') = Cardinality(Blocked) + 1
    BY <1>2, <2>1, CountOneMore
  <2>4. counters' = [counters EXCEPT !.estimate_blocked = counters.estimate_blocked + 1]
    BY <1>1, <1>5 DEF BlockRecord, RecordEstimateBlocked
  <2>. QED BY <1>1, <2>2, <2>3, <2>4
           DEF MetricsInv, MetricsExact, ToldOff, Blocked, Counters
<1>. QED BY <1>3, <1>4, <1>5

LEMMA InitMetrics == Init => MetricsInv
<1>. SUFFICES ASSUME Init
              PROVE  MetricsInv
  OBVIOUS
<1>1. TypeOK
  BY InitType
<1>2. LockInv
  BY DEF Init, LockInv, Recording, Waiting, At, MetricsInit
<1>3. Recorded = {} /\ ToldOff = {} /\ Blocked = {}
  BY DEF Init, Recorded, Withheld, ToldOff, Blocked, At
<1>4. MetricsExact
  BY <1>3, TotalEmpty, FS_EmptySet
     DEF Init, MetricsInit, Zero, MetricsExact, ToldOff, Blocked
<1>. QED BY <1>1, <1>2, <1>4 DEF MetricsInv

\* Only the steps that write the counters change what there is to count.
LEMMA NextMetrics == MetricsInv /\ [Next]_vars => MetricsInv'
<1>. SUFFICES ASSUME MetricsInv, [Next]_vars
              PROVE  MetricsInv'
  OBVIOUS
<1>1. TypeOK' /\ LockInv'
  BY NextType, NextLocks DEF MetricsInv
<1>2. SUFFICES MetricsExact'
  BY <1>1 DEF MetricsInv
<1>3. TypeOK /\ MetricsExact /\ pc \in [Calls -> Locations] /\ DOMAIN rows = Calls
  BY DEF MetricsInv, TypeOK
<1>. DEFINE Quiet ==
       /\ counters' = counters
       /\ Recorded' = Recorded /\ ToldOff' = ToldOff /\ Blocked' = Blocked
       /\ \A c \in Recorded : rows'[c] = rows[c]
<1>4. Quiet => MetricsExact'
  BY <1>3, QuietMetrics
<1>. HIDE DEF Quiet
<1>. USE DEF Goto, setupVars, metricsVars, Recorded, ToldOff, Blocked, Withheld, At, Metered
<1>5. ASSUME NEW c \in Calls, NEW e \in Estimates, CheckEstimate(c, e)
      PROVE  Quiet
  BY <1>3, <1>5 DEF CheckEstimate, Quiet
<1>6. ASSUME NEW c \in Calls, NEW n \in 0 .. MaxRows, Charge(c, n)
      PROVE  Quiet
  BY <1>3, <1>6 DEF Charge, Quiet
<1>7. ASSUME NEW c \in Calls, BlockEnter(c) \/ QueryEnter(c) \/ ExhaustEnter(c)
      PROVE  Quiet
  BY <1>3, <1>7 DEF BlockEnter, QueryEnter, ExhaustEnter, Enter, Quiet
<1>8. ASSUME NEW c \in Calls, BlockRecord(c) \/ QueryRecord(c) \/ ExhaustRecord(c)
      PROVE  MetricsExact'
  BY <1>8, RecordStep
<1>9. ASSUME NEW c \in Calls, ReturnUnlimited(c) \/ Add(c) \/ AddRead(c) \/ AddStore(c)
      PROVE  Quiet
  BY <1>3, <1>9 DEF ReturnUnlimited, Add, AddRead, AddStore, Quiet
<1>10. ASSUME NEW c \in Calls, Check(c)
       PROVE  Quiet
  BY <1>3, <1>10 DEF Check, Quiet
<1>11. CASE UNCHANGED vars
  BY <1>4, <1>11 DEF vars, Quiet
<1>. QED
  BY <1>4, <1>5, <1>6, <1>7, <1>8, <1>9, <1>10, <1>11 DEF Next, Step

\* The counters are exact at every step, for any number of agents that share
\* them and of calls that update them (SessionMetrics, "Thread-safe: tool
\* calls may run in parallel").
THEOREM MetricsAreExact == Spec => []MetricsExact
<1>1. MetricsInv => MetricsExact
  BY DEF MetricsInv
<1>. QED BY <1>1, InitMetrics, NextMetrics, PTL DEF Spec

-----------------------------------------------------------------------------
(* Guardrails implements RowBudget *)

\* The ledger of RowBudget is the total of the rows entered.
LEMMA LedgerIsEntered == \A a : RB!Ledger(a) = Entered(a)
<1>. TAKE a
<1>1. {c \in Added : AgentOf[c] = a} = Added \cap Of(a)
  BY DEF Added, Of, At, Withheld
<1>2. RB!Total(Added \cap Of(a), rows) = Total(Added \cap Of(a), rows)
  BY DEF RB!Total, RB!RowsOf, RB!Cardinality, Total, RowsOf, Cardinality
<1>. QED BY <1>1, <1>2 DEF RB!Ledger, Entered

\* A step that enters no rows and gives no verdict is a stutter of the ledger.
LEMMA LedgerStutters ==
  ASSUME UNCHANGED <<build, budget, rows>>,
         Added' = Added, Withheld' = Withheld, Returned' = Returned
  PROVE  UNCHANGED RB!vars
BY DEF RB!vars, Verdict

\* An addition, in one step or in two, enters the rows of its call.
LEMMA LedgerCharges ==
  ASSUME NEW c \in Calls, Limited(c), c \notin Added, Added' = Added \cup {c},
         UNCHANGED <<build, budget, rows>>,
         Withheld' = Withheld, Returned' = Returned
  PROVE  RB!Charge(c)
BY DEF RB!Charge, RB!Limited, Limited, Verdict

\* The comparison returns or withholds the rows as the ledger says.
LEMMA LedgerDecides ==
  ASSUME BudgetInv, NEW c \in Calls, Check(c)
  PROVE  RB!Return(c) \/ RB!Withhold(c)
<1>. DEFINE a == AgentOf[c]
<1>1. TypeOK /\ ConsumedIsEntered /\ PastTheGate
  BY DEF BudgetInv
<1>2. /\ pc[c] = "check"
      /\ Limited(c)
      /\ a \in Agents
      /\ pc' = [pc EXCEPT ![c] = pc'[c]]
      /\ pc'[c] \in IF ~Exceeds(consumed[a], budget[a])
                    THEN {"returned"} ELSE {"exhaustLock", "withheld"}
      /\ UNCHANGED <<build, budget, rows>>
  BY <1>1 DEF Check, Goto, PastTheGate, At, setupVars, TypeOK
<1>3. consumed[a] \in Nat /\ budget[a] \in Nat /\ Entered(a) \in Nat
  BY <1>1, <1>2, LimitType, EnteredType DEF TypeOK
<1>4. Added' = Added /\ c \in Added /\ c \notin Returned \cup Withheld
  BY <1>1, <1>2 DEF Added, At, Returned, Withheld, Limited, TypeOK
<1>5. RB!Limited(c) /\ RB!Overdrawn(a) = (Entered(a) > budget[a])
  BY <1>2, LedgerIsEntered DEF RB!Limited, Limited, RB!Overdrawn
<1>6. CASE ~Exceeds(consumed[a], budget[a])
  <2>1. Returned' = Returned \cup {c} /\ Withheld' = Withheld
    BY <1>1, <1>2, <1>6 DEF Returned, Withheld, At, TypeOK
  <2>2. build = "gil" => ~(Entered(a) > budget[a])
    BY <1>1, <1>2, <1>3, <1>6 DEF ConsumedIsEntered, Exceeds
  <2>3. [d \in Calls |-> Verdict(d)]' =
          [[d \in Calls |-> Verdict(d)] EXCEPT ![c] = "returned"]
    BY <2>1 DEF Verdict
  <2>4. Verdict(c) = "open"
    BY <1>4 DEF Verdict
  <2>. QED BY <1>2, <1>4, <1>5, <2>2, <2>3, <2>4 DEF RB!Return
<1>7. CASE Exceeds(consumed[a], budget[a])
  <2>1. Returned' = Returned /\ Withheld' = Withheld \cup {c}
    BY <1>1, <1>2, <1>7 DEF Returned, Withheld, At, TypeOK
  <2>2. Entered(a) > budget[a]
    BY <1>1, <1>2, <1>3, <1>7 DEF ConsumedIsEntered, Exceeds
  <2>3. [d \in Calls |-> Verdict(d)]' =
          [[d \in Calls |-> Verdict(d)] EXCEPT ![c] = "withheld"]
    BY <1>4, <2>1 DEF Verdict
  <2>4. Verdict(c) = "open"
    BY <1>4 DEF Verdict
  <2>. QED BY <1>2, <1>4, <1>5, <2>2, <2>3, <2>4 DEF RB!Withhold
<1>. QED BY <1>6, <1>7

\* Every step of Guardrails is a step of the ledger, or leaves it as it is.
LEMMA LedgerStep == BudgetInv /\ [Next]_vars => [RB!Next]_RB!vars
<1>. SUFFICES ASSUME BudgetInv, [Next]_vars
              PROVE  [RB!Next]_RB!vars
  OBVIOUS
<1>1. TypeOK /\ PastTheGate
  BY DEF BudgetInv
<1>2. ASSUME NEW c \in Calls, NEW e \in Estimates, CheckEstimate(c, e)
      PROVE  UNCHANGED RB!vars
  <2>1. Added' = Added /\ Withheld' = Withheld /\ Returned' = Returned
    BY <1>1, <1>2 DEF CheckEstimate, Goto, setupVars, Added, Withheld, Returned,
                      At, Limited, TypeOK
  <2>. QED BY <1>2, <2>1, LedgerStutters DEF CheckEstimate, setupVars
<1>3. ASSUME NEW c \in Calls, NEW n \in 0 .. MaxRows, Charge(c, n)
      PROVE  RB!Ask(c, n)
  <2>1. /\ Added' = Added /\ Withheld' = Withheld /\ Returned' = Returned
        /\ c \notin Added
    BY <1>1, <1>3 DEF Charge, Goto, setupVars, Added, Withheld, Returned, At,
                      Limited, TypeOK
  <2>2. [d \in Calls |-> Verdict(d)]' = [d \in Calls |-> Verdict(d)]
    BY <2>1 DEF Verdict
  <2>. QED BY <1>3, <2>1, <2>2 DEF Charge, setupVars, RB!Ask
<1>4. ASSUME NEW c \in Calls,
             \/ BlockEnter(c) \/ BlockRecord(c) \/ QueryEnter(c) \/ QueryRecord(c)
             \/ AddRead(c) \/ ExhaustEnter(c) \/ ExhaustRecord(c)
      PROVE  UNCHANGED RB!vars
  <2>. USE DEF BlockEnter, BlockRecord, QueryEnter, QueryRecord, AddRead,
               ExhaustEnter, ExhaustRecord
  <2>1. Added' = Added /\ Withheld' = Withheld /\ Returned' = Returned
    BY <1>1, <1>4 DEF Goto, setupVars, Added, Withheld, Returned, At, Limited,
                      TypeOK
  <2>. QED BY <1>4, <2>1, LedgerStutters DEF setupVars
<1>5. ASSUME NEW c \in Calls, ReturnUnlimited(c)
      PROVE  RB!Return(c)
  <2>1. /\ Added' = Added /\ Withheld' = Withheld /\ Returned' = Returned \cup {c}
        /\ c \notin Returned \cup Withheld
    BY <1>1, <1>5 DEF ReturnUnlimited, Goto, setupVars, Added, Withheld, Returned,
                      At, Limited, TypeOK
  <2>2. [d \in Calls |-> Verdict(d)]' =
          [[d \in Calls |-> Verdict(d)] EXCEPT ![c] = "returned"]
    BY <2>1 DEF Verdict
  <2>. QED BY <1>5, <2>1, <2>2 DEF ReturnUnlimited, setupVars, RB!Return,
                                   RB!Limited, Limited, Verdict
<1>6. ASSUME NEW c \in Calls, Add(c) \/ AddStore(c)
      PROVE  RB!Charge(c)
  <2>1. /\ Limited(c) /\ c \notin Added /\ Added' = Added \cup {c}
        /\ UNCHANGED <<build, budget, rows>>
        /\ Withheld' = Withheld /\ Returned' = Returned
    BY <1>1, <1>6 DEF Add, AddStore, Goto, PastTheGate, setupVars, Added,
                      Withheld, Returned, At, Limited, TypeOK
  <2>. QED BY <2>1, LedgerCharges
<1>7. ASSUME NEW c \in Calls, Check(c)
      PROVE  RB!Return(c) \/ RB!Withhold(c)
  BY <1>7, LedgerDecides
<1>8. CASE UNCHANGED vars
  BY <1>8, LedgerStutters DEF vars, Added, Withheld, Returned, At, Limited
<1>. QED
  BY <1>2, <1>3, <1>4, <1>5, <1>6, <1>7, <1>8 DEF Next, Step, RB!Next

\* charge keeps the ledger that RowBudget promises, on every build.
THEOREM GuardrailsKeepTheLedger == Spec => Ledger
<1>1. Init => RB!Init
  BY DEF Init, RB!Init, Added, Returned, Withheld, At, Verdict
<1>2. Spec => []BudgetInv
  BY InitBudget, NextBudget, PTL DEF Spec
<1>. QED BY <1>1, <1>2, LedgerStep, PTL DEF Spec, Ledger, RB!Spec

=============================================================================
