---------------------------- MODULE MCLazyClient ----------------------------
(* LazyClient for TLC: every mix of gets and closes among four calls. *)
EXTENDS LazyClient

CONSTANTS c1, c2, c3, c4

=============================================================================
