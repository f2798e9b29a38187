----------------------------- MODULE MCSessions -----------------------------
(* Sessions for TLC: two agents, an orchestrator, two conversations, and a   *)
(* result of four rows in pages of two at most.                              *)
EXTENDS Sessions

CONSTANTS a1, a2, o1, s1, s2

MCFirstPages == {-1, 0, 1}

=============================================================================
