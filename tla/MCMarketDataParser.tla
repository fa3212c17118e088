------------------------- MODULE MCMarketDataParser -------------------------
(***************************************************************************)
(* A frame of five bytes; an ADD fills it, the other lengths are in the    *)
(* order of the real ones (30, 23, 21, 17).                                *)
(***************************************************************************)
EXTENDS MarketDataParser

MCLen == [t \in Chars |-> CASE t = "A" -> 5 [] t = "E" -> 3 [] t = "D" -> 2 [] OTHER -> 1]
=============================================================================
