---------------------------- MODULE MCGuardrails ----------------------------
(***************************************************************************)
(* Guardrails for TLC: two calls of one agent race for its budget, and the *)
(* call of a second agent races with them for the shared metrics.          *)
(***************************************************************************)
EXTENDS Guardrails, TLC

CONSTANTS c1, c2, c3, a1, a2

MCAgentOf == (c1 :> a1) @@ (c2 :> a1) @@ (c3 :> a2)

=============================================================================
