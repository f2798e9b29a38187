----------------------------- MODULE MCSqlTools -----------------------------
(***************************************************************************)
(* SqlTools for TLC: two parallel calls of one agent.                      *)
(***************************************************************************)
EXTENDS SqlTools

CONSTANTS c1, c2, a1

MCAgentOf == [c \in Calls |-> a1]

=============================================================================
