--------------------------- MODULE MCRebalancing ---------------------------
(* t1 is to be sold, t2 to be bought; d1 is a split order for t1, d2 a limit *)
(* order for t2.                                                            *)
EXTENDS Rebalancing

CONSTANTS t1, t2, r1, r2, d1, d2, Kind, Side, Want

MCHeld == [t \in Tickers |-> IF t = t1 THEN 2 ELSE 0]
MCTarget == [t \in Tickers |-> 50]
MCPrice == [t \in Tickers |-> 100]
MCDirectOrder ==
    [k \in Direct |-> IF k = d1 THEN [ticker |-> t1, side |-> Side, want |-> Want, kind |-> Kind]
                      ELSE [ticker |-> t2, side |-> 1, want |-> 3, kind |-> "LIMIT"]]
MCVolumeProfile == [i \in 1..NumIntervals |-> IF i = NumIntervals THEN 50 ELSE IF i = 1 THEN 20 ELSE 30]
MCSell == -1
=============================================================================
