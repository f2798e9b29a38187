----------------------------- MODULE MCWatchdog -----------------------------
(* Watchdog for TLC: two parallel calls with a timeout of two ticks. *)
EXTENDS Watchdog

CONSTANTS c1, c2

=============================================================================
