--------------------------- MODULE OrderBookEngine ---------------------------
(***************************************************************************)
(* The level store of fpga/rtl/order_book_engine.v: eight levels per side, *)
(* found by slot numbers that the analysis stage registers one clock before *)
(* the update stage uses them.  One action is one clock edge.  What becomes *)
(* of the best prices afterwards is the matter of TobRegisters.            *)
(*                                                                         *)
(* The price bus is never still: between messages the parser drives it with *)
(* whatever its shift register holds, so any price may be on it.  Messages *)
(* of known type come at least 17 clocks apart (MessagesApart), but a byte *)
(* of unknown type is a message of one clock (msg_framer.v), which the     *)
(* parser may decode as any type: a message may come on any clock.         *)
(***************************************************************************)
EXTENDS Naturals

CONSTANTS
    Prices,      \* prices that appear on the bus
    Quantities,  \* quantities that appear on the bus
    MaxPrice,    \* all ones in a price register: 2^PRICE_W - 1
    MaxQty,      \* all ones in a quantity register: 2^QTY_W - 1
    FedSides     \* the sides that messages name; the two share no state

ASSUME WidthAssumption ==
    /\ MaxPrice \in Nat /\ MaxQty \in Nat
    /\ Prices \subseteq 0..MaxPrice
    /\ Quantities \subseteq 0..MaxQty

Bid == "bid"
Ask == "ask"

ASSUME FedSidesAssumption == FedSides \subseteq {Bid, Ask}

N_LEVELS == 8
Slots == 0..(N_LEVELS - 1)

\* A level in use, and a slot whose valid bit is off: what its price and its
\* quantity were is never read again.
Level == [price : Prices, qty : 0..MaxQty]
Free == [price |-> MaxPrice + 1, qty |-> 0]

VARIABLES
    levels,            \* bid_valid, bid_price, bid_qty; ask_valid, ...
    match_r, empty_r,  \* the slot numbers registered by stage 1; N_LEVELS: none
    gap                \* history: clocks since the last message or reset; 2: more

vars == <<levels, match_r, empty_r, gap>>

Valid(s, i) == levels[s][i] # Free

TypeOK ==
    /\ levels \in [FedSides -> [Slots -> Level \cup {Free}]]
    /\ match_r \in [FedSides -> 0..N_LEVELS]
    /\ empty_r \in [FedSides -> 0..N_LEVELS]
    /\ gap \in 1..2

\* Reset.
Init ==
    /\ levels = [s \in FedSides |-> [i \in Slots |-> Free]]
    /\ match_r = [s \in FedSides |-> N_LEVELS]
    /\ empty_r = [s \in FedSides |-> N_LEVELS]
    /\ gap = 1

-----------------------------------------------------------------------------
(* Stages 0 and 1 *)

Matching(s, price) == {i \in Slots : levels[s][i] # Free /\ levels[s][i].price = price}

\* Mutant of Empty: the scan stops before slot 0.
EmptyButFirst(s) == {i \in Slots \ {0} : levels[s][i] = Free}

Empty(s) == {i \in Slots : levels[s][i] = Free}

\* The last assignment in the scan wins.
IsLast(i, S) == IF S = {} THEN i = N_LEVELS ELSE i \in S /\ \A j \in S : j <= i

Last(S) == CHOOSE i \in 0..N_LEVELS : IsLast(i, S)

\* Mutant of Analyse: the empty slot is registered only while none is known.
AnalyseOnce(price) ==
    /\ match_r' = [s \in FedSides |-> Last(Matching(s, price))]
    /\ empty_r' = [s \in FedSides |->
                     IF empty_r[s] = N_LEVELS THEN Last(Empty(s)) ELSE empty_r[s]]

\* The slot numbers for the price on the bus and the levels before the edge.
Analyse(price) ==
    /\ match_r' = [s \in FedSides |-> Last(Matching(s, price))]
    /\ empty_r' = [s \in FedSides |-> Last(Empty(s))]

-----------------------------------------------------------------------------
(* Stage 2: with the slot numbers of the clock before *)

Put(s, i, lv) == levels' = [levels EXCEPT ![s][i] = lv]

\* The quantity of a slot whose valid bit is off changes too, and is never read.
PutQty(s, i, qty) ==
    IF Valid(s, i) THEN Put(s, i, [levels[s][i] EXCEPT !.qty = qty]) ELSE UNCHANGED levels

Add(s, price, qty) ==
    LET m == match_r[s]  e == empty_r[s]
    IN  IF m < N_LEVELS
        THEN PutQty(s, m, (levels[s][m].qty + qty) % (MaxQty + 1))
        ELSE IF e < N_LEVELS THEN Put(s, e, [price |-> price, qty |-> qty])
        ELSE UNCHANGED levels

\* Mutant of Execute: no test for an exhausted level.
ExecuteUntested(s, qty) ==
    LET m == match_r[s]
    IN  IF m = N_LEVELS THEN UNCHANGED levels
        ELSE PutQty(s, m, levels[s][m].qty - qty)

\* UPDATE and EXEC alike.
Execute(s, qty) ==
    LET m == match_r[s]
    IN  IF m = N_LEVELS THEN UNCHANGED levels
        ELSE IF levels[s][m].qty <= qty THEN Put(s, m, Free)
        ELSE PutQty(s, m, levels[s][m].qty - qty)

Delete(s) ==
    LET m == match_r[s]
    IN  IF m = N_LEVELS THEN UNCHANGED levels ELSE Put(s, m, Free)

\* in_valid, with one of the types; TRADE and unknown types change no level.
Message(s, price, qty) ==
    /\ gap' = 1
    /\ Analyse(price)
    /\ Add(s, price, qty) \/ Execute(s, qty) \/ Delete(s) \/ UNCHANGED levels

NoMessage(price) ==
    /\ gap' = 2
    /\ Analyse(price)
    /\ UNCHANGED levels

Next ==
    \/ \E s \in FedSides, price \in Prices, qty \in Quantities : Message(s, price, qty)
    \/ \E price \in Prices : NoMessage(price)

Spec == Init /\ [][Next]_vars

-----------------------------------------------------------------------------
(* The comparison trees *)

\* b0..b7 and a0..a7: a free slot counts as 0, or as all ones.
Key(s, i) ==
    IF Valid(s, i) THEN levels[s][i].price
    ELSE IF s = Bid THEN 0 ELSE MaxPrice

Before(s, p, q) == IF s = Bid THEN p > q ELSE p < q

\* b0>b1?b0:b1 > b2?b2:b3, as the language groups it.
Four(s, i) ==
    IF Before(s, Key(s, i), Key(s, i + 1)) THEN Key(s, i)
    ELSE IF Before(s, Key(s, i + 1), Key(s, i + 2)) THEN Key(s, i + 2)
    ELSE Key(s, i + 3)

best_combo(s) ==
    IF Before(s, Four(s, 0), Four(s, 4)) THEN Four(s, 0) ELSE Four(s, 4)

-----------------------------------------------------------------------------
(* Properties *)

\* A level in use keeps its price until it is freed: the slot number an ADD takes
\* for empty is a clock old, and still it is never that of a level in use, unless
\* the message before, on the previous clock, has just put it there.
NoLevelOverwritten ==
    [][gap >= 2 => \A s \in FedSides, i \in Slots :
          Valid(s, i) /\ Valid(s, i)' => levels'[s][i].price = levels[s][i].price]_vars

\* An ADD that does not come on the clock after another message is dropped, for
\* want of a match and of an empty slot, only when all eight levels are in use.
DroppedOnlyWhenFull ==
    \A s \in FedSides :
        gap >= 2 /\ match_r[s] = N_LEVELS /\ empty_r[s] = N_LEVELS
            => \A i \in Slots : Valid(s, i)

\* tb_top.sv, "Better bid not detected": the best price is the best of the levels.
BestIsBest ==
    \A s \in FedSides, i \in Slots : Valid(s, i) => ~Before(s, levels[s][i].price, best_combo(s))

\* The inductive strengthening: a clock after the last change of the levels the
\* slot numbers are those of the levels as they are.
SlotsFresh ==
    gap >= 2 =>
        \A s \in FedSides :
            /\ match_r[s] < N_LEVELS => Valid(s, match_r[s])
            /\ IsLast(empty_r[s], Empty(s))

IInv == TypeOK /\ SlotsFresh
=============================================================================
