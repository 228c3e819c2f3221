--------------------------- MODULE MCRealtimeFeed ---------------------------
(* Three tickers where two may be subscribed.                               *)
EXTENDS RealtimeFeed

CONSTANTS t1, t2, t3
=============================================================================
