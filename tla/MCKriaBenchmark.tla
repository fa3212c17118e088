-------------------------- MODULE MCKriaBenchmark --------------------------
(***************************************************************************)
(* The cycles of the generator are short and coprime where those of the    *)
(* code are, and the histogram holds fewer samples than can be measured.   *)
(***************************************************************************)
EXTENDS KriaBenchmark

MCRefs == 1..4
MCPrices == 5..8
MCQtys == 1..2
MCNullPrice == 0
MCCounts == 0..8
MCCallbacks == {}
=============================================================================
