--------------------------- MODULE MCKISRecovery ----------------------------
(* Two health checks, the retry loops of two processes, two alert ids.      *)
EXTENDS KISRecovery

CONSTANTS h1, h2, l1, l2, a1, a2

=============================================================================
