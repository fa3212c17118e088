----------------------------- MODULE TobStatus -----------------------------
(***************************************************************************)
(* The half of the register file that TobRegisters leaves out: the write   *)
(* channel of tob_axi_lite.v, the parse-error bit it clears, and the way of *)
(* parse errors and of the message count from the parser to the registers  *)
(* (kr260_top.v).  An operator is what one rising edge of the clock does to *)
(* its registers; the signals of the bus are its parameters.               *)
(***************************************************************************)
EXTENDS Naturals, Sequences, AxiReadChannel

CONSTANTS
    Half,      \* values of one half of the count (2^32 in the code)
    MaxCount   \* bound: messages counted

ASSUME CountAssumption == Half \in Nat \ {0} /\ MaxCount \in Nat

STATUS == "STATUS"
Registers == {STATUS, "other"}

VARIABLES
    parsed,              \* parser outputs: "none", "ok" (out_valid), "bad" (and out_error)
    err_s1, err_axi,     \* parse_error_axi_s1, parse_error_axi
    err_latch,           \* parse_error_latch: bit 2 of STATUS
    count_dp, count_axi, \* msg_count_dp, msg_count_axi
    awready, aw_active, wr_addr, wready, bvalid    \* write channel

pathVars == <<parsed, err_s1, err_axi, count_dp, count_axi>>
writeVars == <<awready, aw_active, wr_addr, wready, bvalid>>
statusVars == <<pathVars, err_latch, writeVars, rvalid>>

StatusTypeOK ==
    /\ parsed \in {"none", "ok", "bad"}
    /\ {err_s1, err_axi, err_latch} \subseteq BOOLEAN
    /\ count_dp \in 0..MaxCount /\ count_axi \in 0..MaxCount
    /\ {awready, aw_active, wready, bvalid, rvalid} \subseteq BOOLEAN
    /\ wr_addr \in Registers

StatusInit ==
    /\ parsed = "none" /\ err_s1 = FALSE /\ err_axi = FALSE /\ err_latch = FALSE
    /\ count_dp = 0 /\ count_axi = 0
    /\ awready = FALSE /\ aw_active = FALSE /\ wr_addr = STATUS
    /\ wready = FALSE /\ bvalid = FALSE /\ rvalid = FALSE

-----------------------------------------------------------------------------
(* One clock edge *)

\* The parser: any message may come out on any clock, until the bound.
Parser ==
    \/ parsed' = "none"
    \/ parsed' \in {"ok", "bad"} /\ count_dp + 1 < MaxCount

\* The message counter, and its copy for the registers, which nothing gates.
MessageCounter ==
    /\ count_dp' = IF parsed = "none" THEN count_dp ELSE count_dp + 1
    /\ count_axi' = count_dp

\* The synchroniser of parse_error.
ErrorSynchroniser == err_s1' = (parsed = "bad") /\ err_axi' = err_s1

\* write_clear_parse, for the data w on the bus.
write_clear_parse(wvalid, w) ==
    wvalid /\ aw_active /\ ~wready /\ wr_addr = STATUS /\ w.bit2

\* Mutant of ErrorLatch: any write to STATUS clears.
ErrorLatchAnyWrite(wvalid, w) ==
    err_latch' = IF wvalid /\ aw_active /\ ~wready /\ wr_addr = STATUS
                 THEN FALSE ELSE err_latch \/ err_axi

\* Clearing wins over setting.
ErrorLatch(wvalid, w) ==
    err_latch' = IF write_clear_parse(wvalid, w) THEN FALSE ELSE err_latch \/ err_axi

\* Mutant of WriteChannel: data is taken only while its address is on the bus.
WriteChannelTogether(awvalid, addr, wvalid, bready) ==
    /\ awready' = (awvalid /\ ~aw_active)
    /\ wr_addr' = IF awvalid /\ ~aw_active THEN addr ELSE wr_addr
    /\ aw_active' = (~(bvalid /\ bready) /\ (aw_active \/ awvalid))
    /\ wready' = (wvalid /\ awvalid /\ ~wready)
    /\ bvalid' = (~(bvalid /\ bready) /\ (bvalid \/ wready))

\* The write channel: take an address, then data, then answer; the address is
\* held until the answer is accepted.
WriteChannel(awvalid, addr, wvalid, bready) ==
    /\ awready' = (awvalid /\ ~aw_active)
    /\ wr_addr' = IF awvalid /\ ~aw_active THEN addr ELSE wr_addr
    /\ aw_active' = (~(bvalid /\ bready) /\ (aw_active \/ awvalid))
    /\ wready' = (wvalid /\ aw_active /\ ~wready)
    /\ bvalid' = (~(bvalid /\ bready) /\ (bvalid \/ wready))

\* The value of a register before the edge; of STATUS only bit 2 is kept.
ReadData(reg) ==
    CASE reg = STATUS       -> err_latch
      [] reg = "MSG_CNT_LO" -> count_axi % Half
      [] reg = "MSG_CNT_HI" -> count_axi \div Half
=============================================================================
