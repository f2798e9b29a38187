------------------------------ MODULE Sessions ------------------------------
(***************************************************************************)
(* Agents, the orchestrators over them, and their conversations: what lives*)
(* as long as what (factory.py, the budget that build_tools creates, and   *)
(* the pages that run_query hands out, sql_base.py).                       *)
(*                                                                         *)
(* A factory call builds an agent with a budget of its own, or raises.  A  *)
(* conversation is a thread_id on an agent or on an orchestrator, which    *)
(* hands questions to the agents it was built with.  An agent reads a      *)
(* result page by page, as the replies of run_query tell it to.  A call is *)
(* one step here: SqlTools has its steps, Guardrails those of the charge.  *)
(***************************************************************************)
EXTENDS Integers, Sequences, FiniteSets

CONSTANTS
  Agents,         \* the calls of create_deep_db_agents and create_db_agents
  Orchestrators,  \* the calls of create_deep_db_multi_agents
  Sessions,       \* the conversations
  Nobody,         \* no agent, no orchestrator
  NotAnAgent,     \* an entry of db_agents that is not one
  Budgets,        \* the row budgets that agents can be configured with
  NoBudget,       \* None
  DefaultRows,    \* default_rows
  HardMaxRows,    \* hard_max_rows
  PageSizes,      \* the page sizes an agent asks for, None being 0
  FirstPages,     \* the pages it starts at
  TableSize,      \* the number of rows of the result, which does not change
  MaxReadings     \* bound on the results that a conversation reads

ASSUME SessionsAssumption ==
  /\ Agents \cap Orchestrators = {}
  /\ {Nobody, NotAnAgent} \cap (Agents \cup Orchestrators) = {}
  /\ NoBudget \notin Nat
  /\ Budgets \subseteq Nat \cup {NoBudget}
  /\ DefaultRows \in Nat \ {0}
  /\ HardMaxRows \in Nat \ {0}
  /\ PageSizes \subseteq Int
  /\ FirstPages \subseteq Int
  /\ TableSize \in Nat
  /\ MaxReadings \in Nat

VARIABLES
  factory,   \* factory[a]: how the call of the factory for a or team a ended
  budget,    \* budget[a]: the row_budget of the guardrails of agent a
  consumed,  \* consumed[a]: SessionBudget.consumed of the tools of a
  team,      \* team[o]: the agents that orchestrator o was built with
  entry,     \* entry[s]: the agent or orchestrator that conversation s is on
  reading,   \* reading[s]: the result that is being read in s
  readings,  \* readings[s]: the number of results read in s so far
  fetched,   \* history: fetched[a] rows have come from the database for a
  shown      \* history: shown[a] of them were in replies

vars == <<factory, budget, consumed, team, entry, reading, readings, fetched,
          shown>>

\* A reading: by which agent, with which page size, whether its pages all had
\* the same limit, from which page on; the page of the last reply, whether it
\* offers another one, the rows so far.
Idle == [by |-> Nobody, size |-> 0, steady |-> TRUE, first |-> 0, page |-> 0,
         state |-> "idle", seen |-> << >>]

States == {"idle", "more", "end", "withheld"}

Reading == [by : Agents \cup {Nobody},
            size : PageSizes \cup {0, DefaultRows, HardMaxRows},
            steady : BOOLEAN, first : FirstPages \cup {0}, page : Int, state : States,
            seen : Seq(1 .. TableSize)]

TypeOK ==
  /\ factory \in [Agents \cup Orchestrators -> {"none", "built", "raised"}]
  /\ budget \in [Agents -> Budgets]
  /\ consumed \in [Agents -> Nat]
  /\ team \in [Orchestrators -> SUBSET Agents]
  /\ entry \in [Sessions -> Agents \cup Orchestrators \cup {Nobody}]
  /\ reading \in [Sessions -> Reading]
  /\ readings \in [Sessions -> 0 .. MaxReadings]
  /\ fetched \in [Agents -> Nat]
  /\ shown \in [Agents -> Nat]
  /\ \A s \in Sessions : reading[s].state = "idle" <=> reading[s].by = Nobody
  /\ \A a \in Agents : shown[a] <= fetched[a]
  /\ \A o \in Orchestrators : team[o] # {} <=> factory[o] = "built"

Init ==
  /\ factory = [x \in Agents \cup Orchestrators |-> "none"]
  /\ budget \in [Agents -> Budgets]
  /\ consumed = [a \in Agents |-> 0]
  /\ team = [o \in Orchestrators |-> {}]
  /\ entry = [s \in Sessions |-> Nobody]
  /\ reading = [s \in Sessions |-> Idle]
  /\ readings = [s \in Sessions |-> 0]
  /\ fetched = [a \in Agents |-> 0]
  /\ shown = [a \in Agents |-> 0]

\* A definition Name_Fault is what a plausible bug would make of Name.  No
\* action uses it: each shows that some property notices the bug.

-----------------------------------------------------------------------------
(* The factories *)

\* _build_dialect_parts: the tools of an agent, and with them its budget.  A
\* plain agent differs in the materialize tools, which read no pages.
CreateAgent(a) ==
  /\ factory[a] = "none"
  /\ factory' = [factory EXCEPT ![a] = "built"]
  /\ consumed' = [consumed EXCEPT ![a] = 0]
  /\ UNCHANGED <<budget, team, entry, reading, readings, fetched, shown>>

\* parse_db_url or registry.resolve raises, or build_tools of a stub.
CreateAgentRaises(a) ==
  /\ factory[a] = "none"
  /\ factory' = [factory EXCEPT ![a] = "raised"]
  /\ UNCHANGED <<budget, consumed, team, entry, reading, readings, fetched, shown>>

\* What a caller can pass: the agents that exist, or something else.  One
\* agent may be in several teams, and be asked directly as well.
Entries == {a \in Agents : factory[a] = "built"} \cup {NotAnAgent}

CreateTeam_SkipInvalid(o, entries) ==
  /\ factory[o] = "none"
  /\ factory' = [factory EXCEPT ![o] = "built"]
  /\ team' = [team EXCEPT ![o] = entries \ {NotAnAgent}]
  /\ UNCHANGED <<budget, consumed, entry, reading, readings, fetched, shown>>

\* create_deep_db_multi_agents: InvalidMultiAgentConfigError when there are no
\* entries, or when one of them is not a compiled agent.
CreateTeam(o, entries) ==
  /\ factory[o] = "none"
  /\ IF entries = {} \/ NotAnAgent \in entries
     THEN /\ factory' = [factory EXCEPT ![o] = "raised"]
          /\ UNCHANGED team
     ELSE /\ factory' = [factory EXCEPT ![o] = "built"]
          /\ team' = [team EXCEPT ![o] = entries]
  /\ UNCHANGED <<budget, consumed, entry, reading, readings, fetched, shown>>

Team(x) == IF x \in Agents THEN {x} ELSE team[x]

StartSession_ResetBudget(s, x) ==
  /\ entry[s] = Nobody
  /\ factory[x] = "built"
  /\ entry' = [entry EXCEPT ![s] = x]
  /\ consumed' = [a \in Agents |-> IF a \in Team(x) THEN 0 ELSE consumed[a]]
  /\ UNCHANGED <<factory, budget, team, reading, readings, fetched, shown>>

\* invoke with a new thread_id: the tools, and their budget, are the same.
StartSession(s, x) ==
  /\ entry[s] = Nobody
  /\ factory[x] = "built"
  /\ entry' = [entry EXCEPT ![s] = x]
  /\ UNCHANGED <<factory, budget, consumed, team, reading, readings, fetched, shown>>

-----------------------------------------------------------------------------
(* run_query *)

Smaller(m, n) == IF m < n THEN m ELSE n
Larger(m, n) == IF m < n THEN n ELSE m

\* clamp_limit: a size that is not positive is as good as none.
ClampLimit(size) ==
  Smaller(IF size <= 0 THEN DefaultRows ELSE size, HardMaxRows)

Offset_Asked(page, size) == Larger(page, 0) * (IF size <= 0 THEN DefaultRows ELSE size)

\* OFFSET, in rows of the limit that is applied, not of the one asked for.
Offset(page, size) == Larger(page, 0) * ClampLimit(size)

\* LIMIT and OFFSET of a result that is always in the same order.
PageRows(page, size) ==
  [i \in 1 .. Smaller(ClampLimit(size), Larger(TableSize - Offset(page, size), 0))
     |-> Offset(page, size) + i]

MorePages_Over(rows, size) == Len(rows) > ClampLimit(size)

\* "More rows available: ask for page" one more.
MorePages(rows, size) == Len(rows) = ClampLimit(size)

BudgetOf_Team(s, a) == CHOOSE b \in Team(entry[s]) : TRUE

\* The agent whose budget a call of agent a in conversation s is charged to.
BudgetOf(s, a) == a

\* charge: a page that is more than the budget has left is counted, but not
\* shown; without a budget nothing is counted.
RunQuery(s, a, r) ==
  LET rows == PageRows(r.page, r.size)
      b == BudgetOf(s, a)
      limited == budget[b] # NoBudget
      used == consumed[b] + Len(rows)
      over == limited /\ used > budget[b]
  IN  /\ consumed' = [consumed EXCEPT ![b] = IF limited THEN used ELSE @]
      /\ fetched' = [fetched EXCEPT ![a] = @ + Len(rows)]
      /\ shown' = [shown EXCEPT ![a] = IF over THEN @ ELSE @ + Len(rows)]
      /\ reading' = [reading EXCEPT ![s] =
           IF over THEN [r EXCEPT !.state = "withheld"]
           ELSE [r EXCEPT !.state = IF MorePages(rows, r.size) THEN "more" ELSE "end",
                          !.seen = @ \o rows]]

\* Agent a is asked for a result: it reads its first page.
FirstPage(s, a, size, first) ==
  /\ entry[s] # Nobody
  /\ a \in Team(entry[s])
  /\ readings[s] < MaxReadings
  /\ readings' = [readings EXCEPT ![s] = @ + 1]
  /\ RunQuery(s, a, [by |-> a, size |-> size, steady |-> TRUE, first |-> first,
                     page |-> first, state |-> "more", seen |-> << >>])
  /\ UNCHANGED <<factory, budget, team, entry>>

\* Reading r on its way to the next page, with a page size for it.
TurnPage(r, size) ==
  [r EXCEPT !.page = @ + 1, !.size = size,
            !.steady = @ /\ ClampLimit(size) = ClampLimit(r.size)]

\* It asks for the page it was told of: with the page size it asked for before,
\* with the one that the reply states, or with none, as the hint does not name
\* a size.
NextPage(s) ==
  /\ reading[s].state = "more"
  /\ LET r == reading[s] IN
       \E size \in {r.size, ClampLimit(r.size), 0} : RunQuery(s, r.by, TurnPage(r, size))
  /\ UNCHANGED <<factory, budget, team, entry, readings>>

-----------------------------------------------------------------------------

Next ==
  \/ \E a \in Agents : CreateAgent(a) \/ CreateAgentRaises(a)
  \/ \E o \in Orchestrators, entries \in SUBSET Entries : CreateTeam(o, entries)
  \/ \E s \in Sessions :
       \/ \E x \in Agents \cup Orchestrators : StartSession(s, x)
       \/ \E a \in Agents, size \in PageSizes, first \in FirstPages :
            FirstPage(s, a, size, first)
       \/ NextPage(s)

Spec == Init /\ [][Next]_vars

-----------------------------------------------------------------------------
(* Properties *)

\* An agent has one budget for as long as it lives, and none but its own
\* (_build_dialect_parts makes it with the tools): the replies to all
\* conversations with it, direct or through any orchestrator, show no more
\* rows, and a page is withheld only when the rows fetched for this very agent
\* are more.  The texts for the agent have it otherwise: NewSessionResetsBudget.
BudgetOfTheAgent ==
  \A a \in Agents : budget[a] # NoBudget =>
    /\ shown[a] <= budget[a]
    /\ (\E s \in Sessions : reading[s].by = a /\ reading[s].state = "withheld")
         => fetched[a] > budget[a]

\* As the agent is told when its budget is exhausted: "start a new session to
\* reset the budget" (format_budget_block).  Once a conversation has been told
\* so, the first query of another one is withheld only if the rows of that very
\* query are more than the budget.
NewSessionResetsBudget ==
  [][\A s, t \in Sessions :
       LET a == reading'[s].by IN
       /\ reading[t].by = a /\ reading[t].state = "withheld"
       /\ readings[s] = 0 /\ reading'[s].state = "withheld"
       => fetched'[a] - fetched[a] > budget[a]]_vars

\* An agent that follows the replies of run_query from page 0 on, with a page
\* size to the same effect each time, sees the rows of the result in order, each
\* of them once, and when no more are announced, all of them, whatever size that
\* is ("forced LIMIT and pagination").  From a negative page on it sees all rows
\* too, but those of the first page again.  It comes to an end: of the pages
\* announced one at most has no rows.  (An agent that leaves the page size out
\* on its way skips rows or sees them twice: the reply states the size that was
\* applied, but its hint names the page alone.)
PagesCoverTheResult ==
  \A s \in Sessions :
    LET r == reading[s] IN
    /\ r.steady /\ r.first = 0 => r.seen = [i \in 1 .. Len(r.seen) |-> i]
    /\ r.steady /\ r.first <= 0 /\ r.state = "end" =>
         {r.seen[i] : i \in DOMAIN r.seen} = 1 .. TableSize
    /\ r.state = "more" => Offset(r.page + 1, r.size) <= TableSize

-----------------------------------------------------------------------------
(* The inductive invariants *)

\* Only agents that exist are in teams, in conversations, and read results.
BuiltOnly ==
  /\ \A o \in Orchestrators : \A a \in team[o] : factory[a] = "built"
  /\ \A s \in Sessions :
       /\ entry[s] # Nobody => factory[entry[s]] = "built"
       /\ reading[s].by # Nobody => factory[reading[s].by] = "built"

\* What the budget of an agent counts is what was fetched for it: the reset of
\* CreateAgent comes before its first query.
ChargedIsFetched == \A a \in Agents :
  /\ factory[a] = "none" => fetched[a] = 0
  /\ budget[a] # NoBudget => consumed[a] = fetched[a]

BudgetInv == TypeOK /\ BuiltOnly /\ ChargedIsFetched /\ BudgetOfTheAgent

\* The end of the last page of reading r.
PageEnd(r) == Offset(r.page, r.size) + ClampLimit(r.size)

Seen(r) == {r.seen[i] : i \in DOMAIN r.seen}

\* Where a reading is: while more are announced its last page was full, and if
\* it is steady, all rows up to the end of that page have been seen, from page 0
\* on in order.
Covered(r) ==
  /\ r.state = "more" => PageEnd(r) <= TableSize
  /\ r.steady =>
       /\ r.first = 0 => r.seen = [i \in 1 .. Len(r.seen) |-> i]
       /\ r.state = "more" =>
            /\ r.first = 0 => r.page >= 0 /\ Len(r.seen) = PageEnd(r)
            /\ r.first <= 0 => Seen(r) = 1 .. PageEnd(r)
       /\ r.first <= 0 /\ r.state = "end" => Seen(r) = 1 .. TableSize

PagesInv == \A s \in Sessions : Covered(reading[s])

=============================================================================
