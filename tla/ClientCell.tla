----------------------------- MODULE ClientCell -----------------------------
(***************************************************************************)
(* What LazyClient (pooling.py) promises its callers, whatever the locking:*)
(* a cell that holds at most one client.  A client is opened only when the *)
(* cell is empty, each one is taken out of the cell by one call and closed *)
(* by that call, and a call is answered with what is in the cell at one    *)
(* moment.  A client is named by the call that opened it.                  *)
(***************************************************************************)

CONSTANTS Calls, NoCall

VARIABLES
  cell,     \* the client in the cell, or NoCall
  open,     \* the clients that are open
  taken,    \* taken[c]: the client that call c took out and has to close
  answer    \* answer[c]: what call c was answered, NoCall before that

vars == <<cell, open, taken, answer>>

Init ==
  /\ cell = NoCall
  /\ open = {}
  /\ taken = [c \in Calls |-> NoCall]
  /\ answer = [c \in Calls |-> NoCall]

Open(c) ==
  /\ cell = NoCall
  /\ c \notin open
  /\ cell' = c
  /\ open' = open \cup {c}
  /\ UNCHANGED <<taken, answer>>

Take(c) ==
  /\ cell # NoCall
  /\ taken[c] = NoCall
  /\ taken' = [taken EXCEPT ![c] = cell]
  /\ cell' = NoCall
  /\ UNCHANGED <<open, answer>>

Close(c) ==
  /\ taken[c] \in open
  /\ open' = open \ {taken[c]}
  /\ taken' = [taken EXCEPT ![c] = NoCall]
  /\ UNCHANGED <<cell, answer>>

Answer(c) ==
  /\ answer' = [answer EXCEPT ![c] = cell]
  /\ UNCHANGED <<cell, open, taken>>

Next == \E c \in Calls : Open(c) \/ Take(c) \/ Close(c) \/ Answer(c)

Spec == Init /\ [][Next]_vars

=============================================================================
