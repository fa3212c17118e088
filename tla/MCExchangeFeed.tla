--------------------------- MODULE MCExchangeFeed ---------------------------
(***************************************************************************)
(* A small exchange: a window of two prices, references that are only      *)
(* compared for equality.                                                  *)
(***************************************************************************)
EXTENDS ExchangeFeed, TLC

WindowPrices == {1, 2}
MCNullPrice == 0
MCCounts == -4..4
RefSymmetry == Permutations(Refs)
=============================================================================
