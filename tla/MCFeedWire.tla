----------------------------- MODULE MCFeedWire -----------------------------
(***************************************************************************)
(* A byte has eight values: the seven characters of the protocol and one   *)
(* that is none.  References, timestamps and prices use the first and the  *)
(* last bytes of their fields; of three prices two share a slot and one is *)
(* negative.                                                               *)
(***************************************************************************)
EXTENDS FeedWire

MCChar == [A |-> 1, U |-> 2, D |-> 3, E |-> 4, P |-> 5, B |-> 6, S |-> 7]
MCPrices == {-1, 1, 2}
MCNullPrice == -5
MCRefs == {1, 8^7}
MCTimestamps == {8, 2 * 8^7}
=============================================================================
