------------------------- MODULE MCOrderSettlement -------------------------
(* Orders o1 and o2, o1 for Big shares and o2 for one, on the same ticker  *)
(* or on different ones.                                                   *)
EXTENDS OrderSettlement

CONSTANTS o1, o2, Big

SameTicker == [o \in Orders |-> "005930"]
OwnTicker == [o \in Orders |-> o]
MCQty == [o \in Orders |-> IF o = o1 THEN Big ELSE 1]
=============================================================================
