--------------------------- MODULE MCClientTools ---------------------------
(***************************************************************************)
(* ClientTools for TLC: two parallel calls of one agent and a close.       *)
(***************************************************************************)
EXTENDS ClientTools

CONSTANTS c1, c2, a1

MCAgentOf == [c \in Calls |-> a1]

=============================================================================
