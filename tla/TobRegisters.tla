---------------------------- MODULE TobRegisters ----------------------------
(***************************************************************************)
(* The way of the best prices from the level store of order_book_engine.v  *)
(* to the AXI registers: the engine's pipeline and change detection, the   *)
(* synchronisers and capture registers of kr260_top.v, and TOB_CHANGED in  *)
(* tob_axi_lite.v.  create_kr260_project.tcl drives every clock pin from   *)
(* pl_clk0, so one action is one rising edge of it, and every register     *)
(* takes the value the others had before the edge.                         *)
(*                                                                         *)
(* A top is the pair of best prices that the comparison trees compute.     *)
(* What a message does to it is left open here, and so is when it comes:   *)
(* known types are at least 17 clocks apart (MessagesApart), but a byte of *)
(* unknown type is a message of one clock.  The modelled time starts a few *)
(* clocks after reset, before the parser can have delivered anything.      *)
(***************************************************************************)
EXTENDS Naturals, AxiReadChannel

CONSTANTS
    Tops,        \* pairs of best prices
    EmptyTop,    \* those of an empty book: 0 and all ones
    Undefined    \* a register that has no reset and was never written

ASSUME TopsAssumption == EmptyTop \in Tops /\ Undefined \notin Tops

VARIABLES
    book,        \* best_bid_combo, best_ask_combo
    best_r,      \* best_bid_r, best_ask_r
    prev_best,   \* prev_best_bid, prev_best_ask
    best_out,    \* best_bid_price, best_ask_price: the engine's outputs
    changed,     \* tob_changed, the engine's pulse
    changed_s1, changed_axi,   \* its two synchroniser stages
    captured,    \* best_*_price_axi: what the price registers show
    latch,       \* tob_changed_latch: what TOB_CHANGED shows
    crowded      \* history: see Crowds

engineVars == <<book, best_r, prev_best, best_out, changed, crowded>>
regVars == <<engineVars, changed_s1, changed_axi, captured, latch, rvalid>>

RegTypeOK ==
    /\ book \in Tops /\ best_r \in Tops /\ prev_best \in Tops /\ best_out \in Tops
    /\ changed \in BOOLEAN /\ changed_s1 \in BOOLEAN /\ changed_axi \in BOOLEAN
    /\ captured \in Tops \cup {Undefined}
    /\ latch \in BOOLEAN
    /\ rvalid \in BOOLEAN
    /\ crowded \in BOOLEAN

RegInit ==
    /\ book = EmptyTop /\ best_r = EmptyTop
    /\ prev_best = EmptyTop /\ best_out = EmptyTop
    /\ changed = FALSE /\ changed_s1 = FALSE /\ changed_axi = FALSE
    /\ captured = Undefined
    /\ latch = FALSE
    /\ rvalid = FALSE
    /\ crowded = FALSE

-----------------------------------------------------------------------------
(* One clock edge *)

\* History: the best prices have changed on two consecutive clocks, so that the
\* comparison missed those in between, and no message has found a change since.
Crowds == crowded' = \/ best_r # book /\ book' # book
                     \/ crowded /\ best_r = prev_best

\* in_valid: the book changes, and the best prices of the previous clock are
\* compared with those that were current when the last message came.
Message ==
    /\ book' \in Tops
    /\ changed' = (best_r # prev_best)
    /\ prev_best' = best_r
    /\ Crowds

\* Mutant of NoMessage: the comparison register follows on every clock.
NoMessageFollows ==
    /\ changed' = FALSE
    /\ prev_best' = best_r
    /\ UNCHANGED <<book, crowded>>

NoMessage ==
    /\ changed' = FALSE
    /\ UNCHANGED <<book, prev_best, crowded>>

\* The registers that load on every clock, and the capture they enable.
Shift ==
    /\ best_r' = book
    /\ best_out' = best_r
    /\ changed_s1' = changed
    /\ changed_axi' = changed_s1
    /\ captured' = IF changed_axi THEN best_out ELSE captured

\* Mutant of Latch: a read of any register clears it.
LatchAnyRead(reads, flag) == latch' = (~reads /\ (latch \/ changed_axi))

\* reads: a read is answered on this edge; flag: it is one of TOB_CHANGED.
\* Clearing wins over setting.
Latch(reads, flag) == latch' = (~(reads /\ flag) /\ (latch \/ changed_axi))

Fabric == (Message \/ NoMessage) /\ Shift

\* The slave answers a read, with the values before the edge.
Answer(flag) ==
    /\ Answered
    /\ Latch(TRUE, flag)

\* No read is answered; an answer may be accepted.
NoAnswer ==
    /\ NotAnswered
    /\ Latch(FALSE, FALSE)

-----------------------------------------------------------------------------
(* Properties *)

\* Nothing is under way between the book and the registers.
Settled ==
    /\ best_r = book /\ best_out = book
    /\ ~changed /\ ~changed_s1 /\ ~changed_axi

\* What the price registers show; before the first capture, nothing.
Shown == IF captured = Undefined THEN EmptyTop ELSE captured

\* The registers lag by at most the last message: at rest they show the best
\* prices of the book, or those from before the last message, which the pulse
\* of the next message will replace.  No change is lost for longer, except the
\* first of two on consecutive clocks, and that until a later one is found.
LagsOneMessage == Settled /\ ~crowded => Shown \in {book, prev_best}

\* The inductive strengthening: what the price registers show once the pulses
\* under way have arrived, if no message comes.
WillShow ==
    CASE changed     -> book
      [] ~changed /\ changed_s1 -> best_r
      [] ~changed /\ ~changed_s1 /\ changed_axi -> best_out
      [] OTHER       -> Shown

PulseInv ==
    ~crowded =>
        /\ best_r # book => best_r = prev_best
        /\ WillShow \in {book, prev_best}
=============================================================================
