--------------------------- MODULE SessionsProofs ---------------------------
(***************************************************************************)
(* The proofs about Sessions, for any agents, orchestrators, conversations,*)
(* limits, page sizes and sizes of the result.  BudgetInv is inductive     *)
(* because a query charges the agent that answers it, and none before the  *)
(* agent is built; PagesInv because a page begins where the one before it  *)
(* ended, if the page size that the agent gives has the same effect.       *)
(***************************************************************************)
EXTENDS Sessions, SequenceTheorems, TLAPS

USE SessionsAssumption

-----------------------------------------------------------------------------
(* Limits and offsets *)

\* clamp_limit gives a positive limit, which it does not change any more.
LEMMA ClampProperties ==
  ASSUME NEW size \in Int
  PROVE  /\ ClampLimit(size) \in Nat \ {0}
         /\ ClampLimit(ClampLimit(size)) = ClampLimit(size)
         /\ ClampLimit(size) \in {size, DefaultRows, HardMaxRows}
BY DEF ClampLimit, Smaller

LEMMA Products ==
  ASSUME NEW m \in Nat, NEW n \in Nat
  PROVE  m * n \in Nat /\ (m + 1) * n = m * n + n /\ 0 * n = 0
OBVIOUS

\* Pages below 0 are page 0, and the limit that was applied is as good as the
\* size that was asked for.
LEMMA OffsetProperties ==
  ASSUME NEW page \in Int, NEW size \in Int
  PROVE  /\ Offset(page, size) \in Nat
         /\ page <= 0 => Offset(page, size) = 0
         /\ Offset(page, ClampLimit(size)) = Offset(page, size)
<1> DEFINE L == ClampLimit(size)
<1>1. L \in Nat /\ ClampLimit(L) = L
  BY ClampProperties
<1>2. Larger(page, 0) \in Nat /\ (page <= 0 => Larger(page, 0) = 0)
  BY DEF Larger
<1>3. Offset(page, size) \in Nat
  BY <1>1, <1>2, Products DEF Offset
<1>4. page <= 0 => Offset(page, size) = 0
  BY <1>1, <1>2, Products DEF Offset
<1>5. Offset(page, L) = Offset(page, size)
  BY <1>1 DEF Offset
<1> QED
  BY <1>3, <1>4, <1>5

\* A page begins where the one before it ended.
LEMMA NextOffset ==
  ASSUME NEW page \in Nat, NEW size \in Int
  PROVE  Offset(page + 1, size) = Offset(page, size) + ClampLimit(size)
<1>1. Larger(page, 0) = page /\ Larger(page + 1, 0) = page + 1
  BY DEF Larger
<1>2. (page + 1) * ClampLimit(size) = page * ClampLimit(size) + ClampLimit(size)
  BY ClampProperties, Products
<1> QED
  BY <1>1, <1>2 DEF Offset

\* A page holds the rows after its offset, as many as the limit allows and the
\* result has.
LEMMA PageProperties ==
  ASSUME NEW page \in Int, NEW size \in Int
  PROVE  LET rows == PageRows(page, size) IN
         /\ rows \in Seq(1 .. TableSize)
         /\ Len(rows) \in Nat
         /\ Len(rows) = Smaller(ClampLimit(size),
                                Larger(TableSize - Offset(page, size), 0))
         /\ \A i \in 1 .. Len(rows) : rows[i] = Offset(page, size) + i
<1> DEFINE L == ClampLimit(size)
           O == Offset(page, size)
           n == Smaller(L, Larger(TableSize - O, 0))
           rows == PageRows(page, size)
<1>1. L \in Nat \ {0} /\ O \in Nat
  BY ClampProperties, OffsetProperties
<1>2. n \in Nat /\ \A i \in 1 .. n : O + i \in 1 .. TableSize
  <2> HIDE DEF L, O
  <2> QED
    BY <1>1 DEF Smaller, Larger
<1>3. rows = [i \in 1 .. n |-> O + i]
  BY DEF PageRows
<1> HIDE DEF n, O, rows
<1>4. rows \in Seq(1 .. TableSize) /\ Len(rows) = n
  BY <1>2, <1>3, IsASeq
<1>5. \A i \in 1 .. n : rows[i] = O + i
  BY <1>3
<1> QED
  BY <1>2, <1>4, <1>5 DEF n, O, rows

-----------------------------------------------------------------------------
(* What a query does *)

\* The rows of the page that reading r is on.
Rows(r) == PageRows(r.page, r.size)

\* The two answers of run_query: the page, or that the budget withholds it.
Withheld(r) == [r EXCEPT !.state = "withheld"]
Answered(r) ==
  [r EXCEPT !.state = IF MorePages(Rows(r), r.size) THEN "more" ELSE "end",
            !.seen = @ \o Rows(r)]

\* The size and the pages of a reading are numbers.
LEMMA ReadingProperties ==
  ASSUME NEW r \in Reading
  PROVE  /\ r.page \in Int /\ r.size \in Int /\ r.first \in Int
         /\ r.seen \in Seq(1 .. TableSize)
<1>1. PageSizes \cup {0, DefaultRows, HardMaxRows} \subseteq Int
      /\ FirstPages \cup {0} \subseteq Int
  OBVIOUS
<1> QED
  BY <1>1 DEF Reading

LEMMA AnswerProperties ==
  ASSUME NEW r \in Reading
  PROVE  /\ r.page \in Int /\ r.size \in Int /\ r.seen \in Seq(1 .. TableSize)
         /\ Rows(r) \in Seq(1 .. TableSize) /\ Len(Rows(r)) \in Nat
         /\ Withheld(r) \in Reading /\ Withheld(r).by = r.by
         /\ Withheld(r).state = "withheld"
         /\ Answered(r) \in Reading /\ Answered(r).by = r.by
         /\ Answered(r).state \in {"more", "end"}
<1>1. r.page \in Int /\ r.size \in Int /\ r.seen \in Seq(1 .. TableSize)
  BY ReadingProperties
<1>2. Rows(r) \in Seq(1 .. TableSize) /\ Len(Rows(r)) \in Nat
  BY <1>1, PageProperties DEF Rows
<1>3. Withheld(r) \in Reading /\ Withheld(r).by = r.by
      /\ Withheld(r).state = "withheld"
  BY DEF Reading, Withheld, States
<1>4. r.seen \o Rows(r) \in Seq(1 .. TableSize)
  BY <1>1, <1>2, ConcatProperties
<1>5. Answered(r) \in Reading /\ Answered(r).by = r.by
      /\ Answered(r).state \in {"more", "end"}
  BY <1>4 DEF Reading, Answered, States
<1> QED
  BY <1>1, <1>2, <1>3, <1>5

\* A query of agent a on reading r of conversation s changes the accounts of a
\* and the reading of s, and nothing else of what it may change.
LEMMA QueryProperties ==
  ASSUME TypeOK, NEW s \in Sessions, NEW a \in Agents, NEW r \in Reading,
         RunQuery(s, a, r)
  PROVE  LET n == Len(Rows(r))
             limited == budget[a] # NoBudget
             over == limited /\ consumed[a] + n > budget[a] IN
         /\ n \in Nat
         /\ consumed' = [consumed EXCEPT ![a] = IF limited THEN @ + n ELSE @]
         /\ fetched' = [fetched EXCEPT ![a] = @ + n]
         /\ shown' = [shown EXCEPT ![a] = IF over THEN @ ELSE @ + n]
         /\ reading' = [reading EXCEPT ![s] = IF over THEN Withheld(r)
                                              ELSE Answered(r)]
<1>1. Len(Rows(r)) \in Nat
  BY AnswerProperties
<1> QED
  BY <1>1 DEF RunQuery, BudgetOf, Rows, Withheld, Answered, TypeOK

\* The readings that FirstPage and NextPage make a query on.
LEMMA FirstReading ==
  ASSUME NEW a \in Agents, NEW size \in PageSizes, NEW first \in FirstPages
  PROVE  [by |-> a, size |-> size, steady |-> TRUE, first |-> first, page |-> first,
          state |-> "more", seen |-> << >>] \in Reading
<1>1. << >> \in Seq(1 .. TableSize)
  BY EmptySeq
<1> QED
  BY <1>1 DEF Reading, States

LEMMA NextReading ==
  ASSUME NEW r \in Reading, NEW size \in {r.size, ClampLimit(r.size), 0}
  PROVE  LET q == TurnPage(r, size) IN
         /\ q \in Reading /\ q.by = r.by
         /\ q.first = r.first /\ q.seen = r.seen
         /\ q.page = r.page + 1 /\ q.size = size
         /\ q.steady => /\ r.steady
                        /\ ClampLimit(size) = ClampLimit(r.size)
                        /\ \A page \in Int : Offset(page, size) = Offset(page, r.size)
<1>1. r.size \in Int /\ r.page + 1 \in Int
  BY ReadingProperties
<1>2. size \in PageSizes \cup {0, DefaultRows, HardMaxRows}
  BY <1>1, ClampProperties DEF Reading
<1> DEFINE q == TurnPage(r, size)
<1>3. /\ q \in Reading /\ q.by = r.by
      /\ q.first = r.first /\ q.seen = r.seen
      /\ q.page = r.page + 1 /\ q.size = size
      /\ q.steady = (r.steady /\ ClampLimit(size) = ClampLimit(r.size))
  BY <1>1, <1>2 DEF Reading, TurnPage
<1>4. ASSUME ClampLimit(size) = ClampLimit(r.size)
      PROVE  \A page \in Int : Offset(page, size) = Offset(page, r.size)
  BY <1>4 DEF Offset
<1> QED
  BY <1>3, <1>4

\* The part of TypeOK that a query can disturb.
QueryTypes ==
  /\ consumed \in [Agents -> Nat]
  /\ fetched \in [Agents -> Nat]
  /\ shown \in [Agents -> Nat]
  /\ reading \in [Sessions -> Reading]
  /\ \A s \in Sessions : reading[s].state = "idle" <=> reading[s].by = Nobody
  /\ \A a \in Agents : shown[a] <= fetched[a]

LEMMA QueryKeepsTypes ==
  ASSUME TypeOK, NEW s \in Sessions, NEW a \in Agents, NEW r \in Reading,
         r.by = a, RunQuery(s, a, r)
  PROVE  QueryTypes'
<1> DEFINE n == Len(Rows(r))
<1>1. n \in Nat
  BY QueryProperties
<1>2. consumed' \in [Agents -> Nat] /\ fetched' \in [Agents -> Nat]
      /\ shown' \in [Agents -> Nat] /\ \A x \in Agents : shown'[x] <= fetched'[x]
  <2> HIDE DEF n
  <2>1. /\ consumed' \in [Agents -> Nat]
        /\ fetched' = [fetched EXCEPT ![a] = @ + n]
        /\ \/ shown' = shown
           \/ shown' = [shown EXCEPT ![a] = @ + n]
    BY <1>1, QueryProperties DEF TypeOK, n
  <2> QED
    BY <1>1, <2>1 DEF TypeOK
<1>3. PICK q \in {Withheld(r), Answered(r)} : reading' = [reading EXCEPT ![s] = q]
  BY QueryProperties
<1>4. reading' \in [Sessions -> Reading]
      /\ \A x \in Sessions : reading'[x].state = "idle" <=> reading'[x].by = Nobody
  <2>1. q \in Reading /\ q.by = a /\ q.state # "idle"
    BY AnswerProperties
  <2>2. a # Nobody
    OBVIOUS
  <2> QED
    BY <1>3, <2>1, <2>2 DEF TypeOK
<1> QED
  BY <1>2, <1>4 DEF QueryTypes

-----------------------------------------------------------------------------
(* Types *)

LEMMA InitType == Init => TypeOK
<1>1. << >> \in Seq(1 .. TableSize)
  BY EmptySeq
<1>2. Idle \in Reading /\ Idle.state = "idle" /\ Idle.by = Nobody
  BY <1>1 DEF Idle, Reading, States
<1> HIDE DEF Idle
<1> QED
  BY <1>2 DEF Init, TypeOK

LEMMA NextType == TypeOK /\ [Next]_vars => TypeOK'
<1> SUFFICES ASSUME TypeOK, [Next]_vars PROVE TypeOK'
  OBVIOUS
<1>1. ASSUME NEW a \in Agents, CreateAgent(a) PROVE TypeOK'
  BY <1>1 DEF CreateAgent, TypeOK
<1>2. ASSUME NEW a \in Agents, CreateAgentRaises(a) PROVE TypeOK'
  BY <1>2 DEF CreateAgentRaises, TypeOK
<1>3. ASSUME NEW o \in Orchestrators, NEW entries \in SUBSET Entries,
             CreateTeam(o, entries)
      PROVE  TypeOK'
  <2>1. entries \subseteq Agents \/ NotAnAgent \in entries
    BY DEF Entries
  <2> QED
    BY <1>3, <2>1 DEF CreateTeam, TypeOK
<1>4. ASSUME NEW s \in Sessions, NEW x \in Agents \cup Orchestrators,
             StartSession(s, x)
      PROVE  TypeOK'
  BY <1>4 DEF StartSession, TypeOK
<1>5. ASSUME NEW s \in Sessions, NEW a \in Agents, NEW size \in PageSizes,
             NEW first \in FirstPages, FirstPage(s, a, size, first)
      PROVE  TypeOK'
  <2> DEFINE r == [by |-> a, size |-> size, steady |-> TRUE, first |-> first, page |-> first,
                   state |-> "more", seen |-> << >>]
  <2>1. r \in Reading /\ r.by = a
    BY FirstReading
  <2>2. RunQuery(s, a, r)
    BY <1>5 DEF FirstPage
  <2>3. QueryTypes'
    BY <2>1, <2>2, QueryKeepsTypes
  <2>4. readings' \in [Sessions -> 0 .. MaxReadings]
    BY <1>5 DEF FirstPage, TypeOK
  <2> QED
    BY <1>5, <2>3, <2>4 DEF FirstPage, QueryTypes, TypeOK
<1>6. ASSUME NEW s \in Sessions, NextPage(s) PROVE TypeOK'
  <2>1. reading[s] \in Reading /\ reading[s].by \in Agents
    BY <1>6 DEF NextPage, TypeOK, Reading
  <2>2. PICK size \in {reading[s].size, ClampLimit(reading[s].size), 0} :
          RunQuery(s, reading[s].by, TurnPage(reading[s], size))
    BY <1>6 DEF NextPage
  <2>3. TurnPage(reading[s], size) \in Reading
    BY <2>1, NextReading
  <2>4. TurnPage(reading[s], size).by = reading[s].by
    BY <2>1 DEF TurnPage, Reading
  <2>5. QueryTypes'
    BY <2>1, <2>2, <2>3, <2>4, QueryKeepsTypes
  <2>6. UNCHANGED <<factory, budget, team, entry, readings>>
    BY <1>6 DEF NextPage
  <2> QED
    BY <2>5, <2>6 DEF QueryTypes, TypeOK
<1>7. CASE UNCHANGED vars
  BY <1>7 DEF vars, TypeOK
<1> QED
  BY <1>1, <1>2, <1>3, <1>4, <1>5, <1>6, <1>7 DEF Next

\* The types are right in every reachable state, and a reading that is on has
\* an agent, and an orchestrator that is built one agent or more.
THEOREM TypesAreRight == Spec => []TypeOK
BY InitType, NextType, PTL DEF Spec

-----------------------------------------------------------------------------
(* The budget *)

LEMMA InitBudget == Init => BudgetInv
<1> SUFFICES ASSUME Init PROVE BudgetInv
  OBVIOUS
<1>1. TypeOK
  BY InitType
<1>2. \A s \in Sessions : reading[s].by = Nobody
  BY DEF Init, Idle
<1>3. BuiltOnly
  BY <1>2 DEF Init, BuiltOnly
<1>4. ChargedIsFetched
  BY DEF Init, ChargedIsFetched
<1>5. \A a \in Agents : shown[a] = 0 /\ (budget[a] # NoBudget => budget[a] \in Nat)
  BY DEF Init
<1>6. BudgetOfTheAgent
  BY <1>2, <1>5 DEF BudgetOfTheAgent
<1> QED
  BY <1>1, <1>3, <1>4, <1>6 DEF BudgetInv

\* A query of an agent that is built, charged to it, leaves every agent within
\* its budget: what is shown has been fetched, and so counted.
LEMMA QueryKeepsBudget ==
  ASSUME BudgetInv, NEW s \in Sessions, NEW a \in Agents, NEW r \in Reading,
         r.by = a, factory[a] = "built", RunQuery(s, a, r),
         UNCHANGED <<factory, budget, team, entry>>
  PROVE  BuiltOnly' /\ ChargedIsFetched' /\ BudgetOfTheAgent'
<1> DEFINE n == Len(Rows(r))
           over == budget[a] # NoBudget /\ consumed[a] + n > budget[a]
           q == IF over THEN Withheld(r) ELSE Answered(r)
<1> USE DEF BudgetInv
<1>1. /\ n \in Nat
      /\ consumed' = [consumed EXCEPT ![a] = IF budget[a] # NoBudget THEN @ + n ELSE @]
      /\ fetched' = [fetched EXCEPT ![a] = @ + n]
      /\ shown' = [shown EXCEPT ![a] = IF over THEN @ ELSE @ + n]
      /\ reading' = [reading EXCEPT ![s] = q]
  BY QueryProperties
<1>2. q.by = a /\ (q.state = "withheld" => over)
  BY AnswerProperties
<1>3. \A x \in Agents : budget[x] # NoBudget => budget[x] \in Nat
  BY DEF TypeOK
<1> HIDE DEF n, q
<1>4. BuiltOnly'
  BY <1>1, <1>2 DEF BuiltOnly, TypeOK
<1>5. ChargedIsFetched'
  BY <1>1 DEF ChargedIsFetched, TypeOK
<1>6. ASSUME NEW x \in Agents, budget[x] # NoBudget PROVE shown'[x] <= budget[x]
  <2>1. CASE x = a
    BY <2>1, <1>1, <1>3, <1>6 DEF ChargedIsFetched, BudgetOfTheAgent, TypeOK
  <2>2. CASE x # a
    BY <2>2, <1>1, <1>6 DEF BudgetOfTheAgent, TypeOK
  <2> QED
    BY <2>1, <2>2
<1>7. ASSUME NEW x \in Agents, budget[x] # NoBudget, NEW t \in Sessions,
             reading'[t].by = x, reading'[t].state = "withheld"
      PROVE  fetched'[x] > budget[x]
  <2>1. CASE t = s
    <3>1. x = a /\ over
      BY <2>1, <1>1, <1>2, <1>7 DEF TypeOK
    <3> QED
      BY <3>1, <1>1, <1>3, <1>7 DEF ChargedIsFetched, TypeOK
  <2>2. CASE t # s
    <3>1. fetched[x] > budget[x]
      BY <2>2, <1>1, <1>7 DEF BudgetOfTheAgent, TypeOK
    <3> QED
      BY <3>1, <1>1, <1>3, <1>7 DEF TypeOK
  <2> QED
    BY <2>1, <2>2
<1> QED
  BY <1>4, <1>5, <1>6, <1>7 DEF BudgetOfTheAgent

LEMMA NextBudget == BudgetInv /\ [Next]_vars => BudgetInv'
<1> SUFFICES ASSUME BudgetInv, [Next]_vars PROVE BudgetInv'
  OBVIOUS
<1> DEFINE Rest == BuiltOnly /\ ChargedIsFetched /\ BudgetOfTheAgent
<1>a. TypeOK /\ TypeOK'
  BY NextType DEF BudgetInv
<1>b. SUFFICES Rest'
  BY <1>a DEF BudgetInv
<1> USE DEF BudgetInv
<1>1. ASSUME NEW a \in Agents, CreateAgent(a) PROVE Rest'
  BY <1>1 DEF CreateAgent, TypeOK, BuiltOnly, ChargedIsFetched, BudgetOfTheAgent
<1>2. ASSUME NEW a \in Agents, CreateAgentRaises(a) PROVE Rest'
  BY <1>2 DEF CreateAgentRaises, TypeOK, BuiltOnly, ChargedIsFetched,
     BudgetOfTheAgent
<1>3. ASSUME NEW o \in Orchestrators, NEW entries \in SUBSET Entries,
             CreateTeam(o, entries)
      PROVE  Rest'
  <2>1. \A x \in entries : x # NotAnAgent => x \in Agents /\ factory[x] = "built"
    BY DEF Entries
  <2>2. \A x \in Agents : factory'[x] = factory[x]
    BY <1>3 DEF CreateTeam, TypeOK
  <2>3. BuiltOnly'
    <3>1. factory[o] = "none" /\ \A p \in Orchestrators \ {o} : factory'[p] = factory[p]
      BY <1>3 DEF CreateTeam, TypeOK
    <3>2. \A p \in Orchestrators : \A x \in team'[p] : factory'[x] = "built"
      <4>1. ASSUME NEW p \in Orchestrators
            PROVE  team'[p] = team[p] \/ (team'[p] = entries /\ NotAnAgent \notin entries)
        BY <1>3 DEF CreateTeam, TypeOK
      <4>2. \A p \in Orchestrators : team[p] \subseteq Agents
        BY DEF TypeOK
      <4> QED
        BY <4>1, <4>2, <2>1, <2>2 DEF BuiltOnly
    <3>3. \A t \in Sessions : entry'[t] # Nobody => factory'[entry'[t]] = "built"
      BY <1>3, <2>2, <3>1 DEF CreateTeam, TypeOK, BuiltOnly
    <3>4. \A t \in Sessions : reading[t].by \in Agents \cup {Nobody}
      BY DEF TypeOK, Reading
    <3>5. \A t \in Sessions : reading'[t].by # Nobody => factory'[reading'[t].by] = "built"
      BY <1>3, <2>2, <3>4 DEF CreateTeam, BuiltOnly
    <3> QED
      BY <3>2, <3>3, <3>5 DEF BuiltOnly
  <2>4. ChargedIsFetched' /\ BudgetOfTheAgent'
    BY <1>3, <2>2 DEF CreateTeam, TypeOK, ChargedIsFetched, BudgetOfTheAgent
  <2> QED
    BY <2>3, <2>4
<1>4. ASSUME NEW s \in Sessions, NEW x \in Agents \cup Orchestrators,
             StartSession(s, x)
      PROVE  Rest'
  BY <1>4 DEF StartSession, TypeOK, BuiltOnly, ChargedIsFetched, BudgetOfTheAgent
<1>5. ASSUME NEW s \in Sessions, NEW a \in Agents, NEW size \in PageSizes,
             NEW first \in FirstPages, FirstPage(s, a, size, first)
      PROVE  Rest'
  <2>1. factory[a] = "built"
    BY <1>5 DEF FirstPage, Team, BuiltOnly, TypeOK
  <2> QED
    BY <1>5, <2>1, FirstReading, QueryKeepsBudget DEF FirstPage
<1>6. ASSUME NEW s \in Sessions, NextPage(s) PROVE Rest'
  <2>1. /\ reading[s] \in Reading
        /\ reading[s].by \in Agents
        /\ factory[reading[s].by] = "built"
    BY <1>6 DEF NextPage, TypeOK, Reading, BuiltOnly
  <2>2. PICK size \in {reading[s].size, ClampLimit(reading[s].size), 0} :
          RunQuery(s, reading[s].by, TurnPage(reading[s], size))
    BY <1>6 DEF NextPage
  <2> DEFINE r == TurnPage(reading[s], size)
  <2>3. r \in Reading
    BY <2>1, NextReading
  <2>4. r.by = reading[s].by
    BY <2>1, NextReading
  <2> QED
    BY <1>6, <2>1, <2>2, <2>3, <2>4, QueryKeepsBudget DEF NextPage
<1>7. CASE UNCHANGED vars
  BY <1>7 DEF vars, BuiltOnly, ChargedIsFetched, BudgetOfTheAgent
<1> QED
  BY <1>1, <1>2, <1>3, <1>4, <1>5, <1>6, <1>7 DEF Next

\* One budget for all conversations with an agent, with and without
\* orchestrators: _build_dialect_parts makes it, and nothing renews it.
THEOREM OneBudgetPerAgent == Spec => []BudgetOfTheAgent
<1>1. BudgetInv => BudgetOfTheAgent
  BY DEF BudgetInv
<1> QED
  BY <1>1, InitBudget, NextBudget, PTL DEF Spec

-----------------------------------------------------------------------------
(* The pages *)

\* Where a steady reading is before its page is fetched: it has seen the rows
\* before the page, and none after it.
Ready(r) == r.steady =>
  /\ r.first = 0 => /\ r.page >= 0
                    /\ r.seen = [i \in 1 .. Len(r.seen) |-> i]
                    /\ Len(r.seen) = Offset(r.page, r.size)
  /\ r.first <= 0 => /\ 1 .. Offset(r.page, r.size) \subseteq Seen(r)
                     /\ Seen(r) \subseteq 1 .. PageEnd(r)

\* The rows of the page come after those that were seen before.
LEMMA AnswerSeen ==
  ASSUME NEW r \in Reading
  PROVE  LET q == Answered(r)
             m == Len(r.seen)
             n == Len(Rows(r))
             O == Offset(r.page, r.size) IN
         /\ m \in Nat /\ n \in Nat
         /\ Len(q.seen) = m + n
         /\ q.seen = [i \in 1 .. m + n |-> IF i <= m THEN r.seen[i] ELSE O + (i - m)]
         /\ Seen(q) = Seen(r) \cup O + 1 .. O + n
<1> DEFINE q == Answered(r)
           rows == Rows(r)
           m == Len(r.seen)
           n == Len(rows)
           O == Offset(r.page, r.size)
<1>1. r.seen \in Seq(1 .. TableSize) /\ rows \in Seq(1 .. TableSize)
  BY AnswerProperties
<1>2. q.seen = r.seen \o rows
  BY DEF Answered, Reading
<1>3. m \in Nat /\ n \in Nat /\ O \in Nat /\ \A i \in 1 .. n : rows[i] = O + i
  <2>1. r.page \in Int /\ r.size \in Int
    BY ReadingProperties
  <2>2. O \in Nat /\ \A i \in 1 .. n : rows[i] = O + i
    BY <2>1, PageProperties, OffsetProperties DEF Rows
  <2>3. m \in Nat /\ n \in Nat
    BY <1>1, LenProperties
  <2> QED
    BY <2>2, <2>3
<1> HIDE DEF q, rows, O
<1>4. /\ q.seen \in Seq(1 .. TableSize)
      /\ Len(q.seen) = m + n
      /\ \A i \in 1 .. m + n : q.seen[i] = IF i <= m THEN r.seen[i] ELSE rows[i - m]
  BY <1>1, <1>2, ConcatProperties
<1>5. \A i \in 1 .. m + n : q.seen[i] = IF i <= m THEN r.seen[i] ELSE O + (i - m)
  <2>1. \A i \in 1 .. m + n : ~(i <= m) => i - m \in 1 .. n
    BY <1>3
  <2> QED
    BY <1>3, <1>4, <2>1
<1>6. DOMAIN q.seen = 1 .. m + n /\ q.seen = [i \in 1 .. m + n |-> q.seen[i]]
      /\ DOMAIN r.seen = 1 .. m
  BY <1>1, <1>4, LenProperties
<1> HIDE DEF m, n
<1>7. q.seen = [i \in 1 .. m + n |-> IF i <= m THEN r.seen[i] ELSE O + (i - m)]
  BY <1>5, <1>6
<1>8. Seen(q) = Seen(r) \cup O + 1 .. O + n
  <2>1. Seen(q) \subseteq Seen(r) \cup O + 1 .. O + n
    <3> SUFFICES ASSUME NEW i \in 1 .. m + n
                 PROVE  q.seen[i] \in Seen(r) \cup O + 1 .. O + n
      BY <1>6 DEF Seen
    <3>1. CASE i <= m
      <4>1. i \in 1 .. m /\ q.seen[i] = r.seen[i]
        BY <1>3, <1>5, <3>1
      <4> QED
        BY <1>6, <4>1 DEF Seen
    <3>2. CASE ~(i <= m)
      <4>1. q.seen[i] = O + (i - m)
        BY <1>5, <3>2
      <4>2. O + (i - m) \in O + 1 .. O + n
        BY <1>3, <3>2
      <4> QED
        BY <4>1, <4>2
    <3> QED
      BY <3>1, <3>2
  <2>2. Seen(r) \subseteq Seen(q)
    <3> SUFFICES ASSUME NEW i \in 1 .. m PROVE r.seen[i] \in Seen(q)
      BY <1>6 DEF Seen
    <3>1. i \in 1 .. m + n /\ q.seen[i] = r.seen[i]
      BY <1>3, <1>5
    <3> QED
      BY <1>6, <3>1 DEF Seen
  <2>3. O + 1 .. O + n \subseteq Seen(q)
    <3> SUFFICES ASSUME NEW k \in O + 1 .. O + n PROVE k \in Seen(q)
      OBVIOUS
    <3> DEFINE i == m + (k - O)
    <3>1. i \in 1 .. m + n /\ ~(i <= m) /\ O + (i - m) = k
      <4>1. m \in Nat /\ n \in Nat /\ O \in Nat
        BY <1>3
      <4> QED
        BY <4>1
    <3> HIDE DEF i
    <3>2. q.seen[i] = k
      BY <1>5, <3>1
    <3> QED
      BY <1>6, <3>1, <3>2 DEF Seen
  <2> QED
    BY <2>1, <2>2, <2>3
<1> QED
  BY <1>3, <1>4, <1>7, <1>8 DEF q, rows, m, n, O

\* A page that is fetched where the reading was leaves it where it should be.
LEMMA AnswerCovers ==
  ASSUME NEW r \in Reading, Ready(r)
  PROVE  Covered(Withheld(r)) /\ Covered(Answered(r))
<1> DEFINE q == Answered(r)
           m == Len(r.seen)
           n == Len(Rows(r))
           O == Offset(r.page, r.size)
           L == ClampLimit(r.size)
<1>1. Withheld(r).first = r.first /\ Withheld(r).seen = r.seen
      /\ Withheld(r).state = "withheld" /\ Withheld(r).steady = r.steady
  BY DEF Withheld, Reading
<1>2. Covered(Withheld(r))
  BY <1>1 DEF Covered, Ready
<1>3. /\ q.first = r.first /\ q.page = r.page /\ q.size = r.size
      /\ q.steady = r.steady
      /\ q.state = IF n = L THEN "more" ELSE "end"
  BY DEF Answered, Reading, MorePages
<1>4. /\ O \in Nat /\ L \in Nat \ {0}
      /\ n = Smaller(L, Larger(TableSize - O, 0))
  BY ReadingProperties, PageProperties, OffsetProperties, ClampProperties DEF Rows
<1>5. /\ m \in Nat /\ n \in Nat
      /\ Len(q.seen) = m + n
      /\ q.seen = [i \in 1 .. m + n |-> IF i <= m THEN r.seen[i] ELSE O + (i - m)]
      /\ Seen(q) = Seen(r) \cup O + 1 .. O + n
  BY AnswerSeen
<1>6. PageEnd(q) = O + L /\ PageEnd(r) = O + L
  BY <1>3 DEF PageEnd
<1>7. Seen(r) \subseteq 1 .. TableSize
  BY ReadingProperties, LenProperties DEF Seen
<1>8. ASSUME q.steady
      PROVE  /\ r.first = 0 => /\ r.page >= 0
                               /\ r.seen = [i \in 1 .. m |-> i]
                               /\ m = O
             /\ r.first <= 0 => 1 .. O \subseteq Seen(r) /\ Seen(r) \subseteq 1 .. O + L
  BY <1>3, <1>6, <1>8 DEF Ready
<1> HIDE DEF q, m, n, O, L
<1>9. ASSUME q.steady
      PROVE  q.first = 0 => q.seen = [i \in 1 .. Len(q.seen) |-> i]
  <2> SUFFICES ASSUME r.first = 0
               PROVE  \A i \in 1 .. m + n :
                        (IF i <= m THEN r.seen[i] ELSE O + (i - m)) = i
    BY <1>3, <1>5
  <2>1. r.seen = [i \in 1 .. m |-> i] /\ m = O
    BY <1>8, <1>9
  <2>2. \A i \in 1 .. m + n : i <= m => r.seen[i] = i
    BY <1>5, <2>1
  <2>3. \A i \in 1 .. m + n : O + (i - m) = i
    BY <1>5, <2>1
  <2> QED
    BY <2>2, <2>3
<1>10. ASSUME q.state = "more" PROVE n = L /\ PageEnd(q) <= TableSize
  <2>1. n = L
    BY <1>3, <1>10
  <2> QED
    BY <1>4, <1>6, <2>1 DEF Smaller, Larger
<1>11. ASSUME q.state = "more", q.steady
       PROVE  /\ q.first = 0 => q.page >= 0 /\ Len(q.seen) = PageEnd(q)
              /\ q.first <= 0 => Seen(q) = 1 .. PageEnd(q)
  <2>1. n = L
    BY <1>10, <1>11
  <2>2. q.first = 0 => q.page >= 0 /\ Len(q.seen) = PageEnd(q)
    BY <1>3, <1>5, <1>6, <1>8, <1>11, <2>1
  <2>3. q.first <= 0 => Seen(q) = 1 .. O + L
    <3>1. 1 .. O \cup O + 1 .. O + L = 1 .. O + L
      BY <1>4
    <3>2. r.first <= 0 => 1 .. O \subseteq Seen(r) /\ Seen(r) \subseteq 1 .. O + L
      BY <1>8, <1>11
    <3> QED
      BY <1>3, <1>5, <2>1, <3>1, <3>2
  <2> QED
    BY <1>6, <2>2, <2>3
<1>12. ASSUME q.steady, q.first <= 0, q.state = "end" PROVE Seen(q) = 1 .. TableSize
  <2>1. 1 .. O \subseteq Seen(r) /\ n # L
    BY <1>3, <1>8, <1>12
  <2>2. O <= TableSize
    <3>1. O = 0 \/ O \in 1 .. TableSize
      BY <1>4, <1>7, <2>1
    <3> QED
      BY <1>4, <3>1
  <2>3. O + n = TableSize
    BY <1>4, <2>1, <2>2 DEF Smaller, Larger
  <2>4. 1 .. O \cup O + 1 .. TableSize = 1 .. TableSize
    BY <1>4, <2>2
  <2> QED
    BY <1>5, <1>7, <2>1, <2>3, <2>4
<1> QED
  BY <1>2, <1>9, <1>10, <1>11, <1>12 DEF Covered, q

LEMMA NothingSeen ==
  /\ << >> = [i \in 1 .. Len(<< >>) |-> i]
  /\ Len(<< >>) = 0
  /\ DOMAIN << >> = {}
<1>1. Len(<< >>) = 0 /\ << >> \in Seq(Nat)
  BY EmptySeq
<1>2. DOMAIN << >> = 1 .. 0
  BY <1>1, LenProperties
<1> QED
  BY <1>1, <1>2

LEMMA InitPages == Init => PagesInv
<1>1. Idle.first = 0 /\ Idle.state = "idle" /\ Idle.seen = << >>
  BY DEF Idle
<1> HIDE DEF Idle
<1>2. Covered(Idle)
  BY <1>1, NothingSeen DEF Covered
<1> QED
  BY <1>2 DEF Init, PagesInv

\* A query on a reading that is ready leaves every reading covered.
LEMMA QueryKeepsPages ==
  ASSUME TypeOK, PagesInv, NEW s \in Sessions, NEW a \in Agents,
         NEW r \in Reading, Ready(r), RunQuery(s, a, r)
  PROVE  PagesInv'
<1>1. PICK q \in {Withheld(r), Answered(r)} : reading' = [reading EXCEPT ![s] = q]
  BY QueryProperties
<1>2. Covered(q)
  BY AnswerCovers
<1>3. \A t \in Sessions : reading'[t] = q \/ reading'[t] = reading[t]
  BY <1>1 DEF TypeOK
<1> QED
  BY <1>2, <1>3 DEF PagesInv

LEMMA FirstIsReady ==
  ASSUME NEW a \in Agents, NEW size \in PageSizes, NEW first \in FirstPages
  PROVE  Ready([by |-> a, size |-> size, steady |-> TRUE, first |-> first, page |-> first,
                state |-> "more", seen |-> << >>])
<1> DEFINE r == [by |-> a, size |-> size, steady |-> TRUE, first |-> first, page |-> first,
                 state |-> "more", seen |-> << >>]
<1>1. /\ r.first = first /\ r.page = first /\ r.size = size /\ r.seen = << >>
      /\ first \in Int /\ size \in Int
  OBVIOUS
<1> HIDE DEF r
<1>2. Seen(r) = {}
  BY <1>1, NothingSeen DEF Seen
<1>3. first <= 0 => Offset(r.page, r.size) = 0
  BY <1>1, OffsetProperties
<1>4. Ready(r)
  BY <1>1, <1>2, <1>3, NothingSeen DEF Ready
<1> QED
  BY <1>4 DEF r

\* The page that the reply announces begins at the end of the last one, with
\* any page size to the same effect; after a page before page 0, it is the
\* first page again.
LEMMA NextIsReady ==
  ASSUME NEW r \in Reading, r.state = "more", Covered(r),
         NEW size \in {r.size, ClampLimit(r.size), 0}
  PROVE  Ready(TurnPage(r, size))
<1> DEFINE q == TurnPage(r, size)
           L == ClampLimit(r.size)
<1> SUFFICES ASSUME q.steady
             PROVE  /\ q.first = 0 => /\ q.page >= 0
                                      /\ q.seen = [i \in 1 .. Len(q.seen) |-> i]
                                      /\ Len(q.seen) = Offset(q.page, q.size)
                    /\ q.first <= 0 => /\ 1 .. Offset(q.page, q.size) \subseteq Seen(q)
                                       /\ Seen(q) \subseteq 1 .. PageEnd(q)
  BY DEF Ready
<1>1. /\ q.first = r.first /\ q.page = r.page + 1 /\ q.size = size /\ q.seen = r.seen
      /\ r.steady /\ ClampLimit(size) = L
      /\ \A page \in Int : Offset(page, size) = Offset(page, r.size)
  BY NextReading
<1>2. r.page \in Int /\ r.size \in Int /\ L \in Nat
  BY ReadingProperties, ClampProperties
<1>3. /\ Offset(q.page, q.size) = Offset(r.page + 1, r.size)
      /\ ClampLimit(q.size) = L
  <2>1. r.page + 1 \in Int
    BY <1>2
  <2> HIDE DEF q
  <2> QED
    BY <1>1, <2>1
<1> HIDE DEF q, L
<1>4. /\ Offset(r.page, r.size) \in Nat
      /\ r.page >= 0 => Offset(q.page, q.size) = PageEnd(r)
      /\ r.page < 0 => Offset(q.page, q.size) = 0 /\ PageEnd(r) = L
  <2>1. r.page < 0 => r.page <= 0 /\ r.page + 1 <= 0
    BY <1>2
  <2>2. ASSUME r.page < 0
        PROVE  Offset(r.page + 1, r.size) = 0 /\ Offset(r.page, r.size) = 0
    <3>1. r.page + 1 \in Int
      BY <1>2
    <3>2. Offset(r.page + 1, r.size) = 0
      BY <1>2, <2>1, <2>2, <3>1, OffsetProperties
    <3>3. Offset(r.page, r.size) = 0
      BY <1>2, <2>1, <2>2, OffsetProperties
    <3> QED
      BY <3>2, <3>3
  <2>3. Offset(r.page, r.size) \in Nat
    BY <1>2, OffsetProperties
  <2>4. r.page >= 0 => Offset(r.page + 1, r.size) = Offset(r.page, r.size) + L
    BY <1>2, NextOffset DEF L
  <2>5. PageEnd(r) = Offset(r.page, r.size) + L
    BY DEF PageEnd, L
  <2> QED
    BY <1>2, <1>3, <2>2, <2>3, <2>4, <2>5
<1>5. PageEnd(q) = Offset(q.page, q.size) + L /\ PageEnd(r) = Offset(r.page, r.size) + L
  BY <1>3 DEF PageEnd, L
<1>6. Seen(q) = Seen(r)
  BY <1>1 DEF Seen
<1>7. ASSUME r.first = 0
      PROVE  /\ q.page >= 0
             /\ q.seen = [i \in 1 .. Len(q.seen) |-> i]
             /\ Len(q.seen) = Offset(q.page, q.size)
  BY <1>1, <1>2, <1>4, <1>7 DEF Covered
<1>8. ASSUME r.first <= 0
      PROVE  /\ 1 .. Offset(q.page, q.size) \subseteq Seen(q)
             /\ Seen(q) \subseteq 1 .. PageEnd(q)
  <2>1. Seen(q) = 1 .. PageEnd(r)
    BY <1>1, <1>6, <1>8 DEF Covered
  <2> QED
    BY <1>2, <1>4, <1>5, <2>1
<1> QED
  BY <1>1, <1>7, <1>8

LEMMA NextPages == TypeOK /\ PagesInv /\ [Next]_vars => PagesInv'
<1> SUFFICES ASSUME TypeOK, PagesInv, [Next]_vars PROVE PagesInv'
  OBVIOUS
<1>1. CASE UNCHANGED reading
  BY <1>1 DEF PagesInv
<1>2. ASSUME NEW s \in Sessions, NEW a \in Agents, NEW size \in PageSizes,
             NEW first \in FirstPages, FirstPage(s, a, size, first)
      PROVE  PagesInv'
  BY <1>2, FirstReading, FirstIsReady, QueryKeepsPages DEF FirstPage
<1>3. ASSUME NEW s \in Sessions, NextPage(s) PROVE PagesInv'
  <2>1. /\ reading[s] \in Reading
        /\ reading[s].by \in Agents
        /\ reading[s].state = "more"
        /\ Covered(reading[s])
    BY <1>3 DEF NextPage, TypeOK, Reading, PagesInv
  <2>2. PICK size \in {reading[s].size, ClampLimit(reading[s].size), 0} :
          RunQuery(s, reading[s].by, TurnPage(reading[s], size))
    BY <1>3 DEF NextPage
  <2> DEFINE r == TurnPage(reading[s], size)
  <2>3. r \in Reading /\ Ready(r)
    BY <2>1, NextReading, NextIsReady
  <2> QED
    BY <2>1, <2>2, <2>3, QueryKeepsPages
<1> QED
  BY <1>1, <1>2, <1>3 DEF Next, vars, CreateAgent, CreateAgentRaises, CreateTeam,
     StartSession

\* Whatever the limits and the sizes are, an agent that follows the replies of
\* run_query from page 0 on, with sizes to the same effect, misses no row and sees none twice, and is not sent
\* past the end of the result by more than one empty page.
THEOREM PagesMissNothing == Spec => []PagesCoverTheResult
<1>1. TypeOK /\ PagesInv => PagesCoverTheResult
  <2> SUFFICES ASSUME TypeOK, PagesInv, NEW s \in Sessions,
                      NEW r, r = reading[s]
               PROVE  /\ r.steady /\ r.first = 0 => r.seen = [i \in 1 .. Len(r.seen) |-> i]
                      /\ r.steady /\ r.first <= 0 /\ r.state = "end" =>
                           Seen(r) = 1 .. TableSize
                      /\ r.state = "more" => Offset(r.page + 1, r.size) <= TableSize
    BY DEF PagesCoverTheResult, Seen
  <2>1. Covered(r) /\ r \in Reading
    BY DEF PagesInv, TypeOK
  <2>2. ASSUME r.state = "more" PROVE Offset(r.page + 1, r.size) <= TableSize
    <3>1. r.page \in Int /\ r.size \in Int /\ PageEnd(r) <= TableSize
      BY <2>1, <2>2, ReadingProperties DEF Covered
    <3>2. r.page >= 0 => Offset(r.page + 1, r.size) = PageEnd(r)
      BY <3>1, NextOffset DEF PageEnd
    <3>3. r.page < 0 => Offset(r.page + 1, r.size) = 0
      <4>1. r.page + 1 \in Int /\ (r.page < 0 => r.page + 1 <= 0)
        BY <3>1
      <4> QED
        BY <3>1, <4>1, OffsetProperties
    <3> QED
      BY <3>1, <3>2, <3>3
  <2> QED
    BY <2>1, <2>2 DEF Covered
<1> QED
  BY <1>1, InitType, NextType, InitPages, NextPages, PTL DEF Spec

=============================================================================
