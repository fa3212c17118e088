---------------------------- MODULE MCOrderBook ----------------------------
(***************************************************************************)
(* A small order book: four slots per side, the last of which two prices   *)
(* share (one of them negative), one in the first and two no price uses.   *)
(***************************************************************************)
EXTENDS OrderBook

MCPrices == {-1, 0, 3}
MCNullPrice == -2
MCQtyDeltas == {-2, -1, 1}
MCOrderDeltas == {0, 1}
============================================================================
