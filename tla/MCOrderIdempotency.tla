------------------------ MODULE MCOrderIdempotency -------------------------
(* Requests with one key: a, its retries b and c, and d with another body.  *)
EXTENDS OrderIdempotency

CONSTANTS a, b, c, d, key

MCKey == [r \in Requests |-> key]
MCFingerprint == [r \in Requests |-> IF r = d THEN "other" ELSE "same"]
=============================================================================
