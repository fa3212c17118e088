-------------------------- MODULE AxiReadChannel ---------------------------
(***************************************************************************)
(* The read channel of tob_axi_lite.v: one read is answered at a time, and *)
(* the answer stays until the bus accepts it.  TobRegisters and TobStatus  *)
(* put their registers behind it.                                          *)
(***************************************************************************)
VARIABLE rvalid   \* s_axi_rvalid: a read is answered and not yet accepted

\* A read is answered on this edge, by the values before the edge.
Answered == ~rvalid /\ rvalid' = TRUE

\* No read is answered; an answer may be accepted.
NotAnswered == rvalid' \in {rvalid, FALSE}
============================================================================
