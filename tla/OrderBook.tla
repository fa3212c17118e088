----------------------------- MODULE OrderBook -----------------------------
(***************************************************************************)
(* hft::OrderBook (cpp/include/order_book.hpp), the write path: one thread *)
(* calls update_level(), remove_level() and reset(); the first two rescan  *)
(* the side in refresh_top(), one slot per action here, and publish what   *)
(* they found.  The publication is one step: TobSeqlock shows that the     *)
(* seqlock makes it one for every reader.                                  *)
(***************************************************************************)
EXTENDS PriceLevels

CONSTANTS
    QtyDeltas,    \* quantity changes a caller asks for
    OrderDeltas,  \* order-count changes a caller asks for
    MaxQty,       \* bound: quantity of a level
    MaxOrders     \* bound: order count of a level, either way

ASSUME DeltasAssumption ==
    /\ QtyDeltas \subseteq Int /\ OrderDeltas \subseteq Int
    /\ MaxQty \in Nat /\ MaxOrders \in Nat

VARIABLES
    levels,   \* bids_ and asks_
    tob,      \* tob_, as readers see it
    pc,       \* "idle", or "scan" inside refresh_top()
    side,     \* the side being refreshed
    i, best,  \* the locals of refresh_top()
    published \* history: the levels of which tob is the top, for Atomic below

vars == <<levels, tob, pc, side, i, best, published>>

TypeOK ==
    /\ levels \in [Sides -> [Slots -> PriceLevel]]
    /\ tob \in [Sides -> PriceLevel]
    /\ pc \in {"idle", "scan"}
    /\ side \in Sides
    /\ i \in 0..Capacity
    /\ best \in PriceLevel
    /\ published \in [Sides -> [Slots -> PriceLevel]]

\* The constructor calls reset().
Init ==
    /\ levels = [s \in Sides |-> [k \in Slots |-> EmptyLevel]]
    /\ tob = [s \in Sides |-> EmptyLevel]
    /\ pc = "idle"
    /\ side = Bid
    /\ i = 0 /\ best = EmptyLevel
    /\ published = levels

\* The slot of the price becomes lv and refresh_top() starts.
Change(s, price, lv) ==
    /\ levels' = [levels EXCEPT ![s][SlotOf(price)] = lv]
    /\ pc' = "scan" /\ side' = s /\ i' = 0 /\ best' = EmptyLevel
    /\ UNCHANGED <<tob, published>>

update_level(s, price, dq, do) ==
    LET lv == Updated(levels[s][SlotOf(price)], price, dq, do)
    IN  /\ pc = "idle"
        /\ lv.quantity <= MaxQty /\ lv.orders \in -MaxOrders..MaxOrders
        /\ Change(s, price, lv)

\* Mutant of remove_level: the early return forgets refresh_top().
remove_levelUnpublished(s, price) ==
    /\ pc = "idle"
    /\ levels' = [levels EXCEPT ![s][SlotOf(price)] = Removed(@, price)]
    /\ published' = levels'
    /\ UNCHANGED <<tob, pc, side, i, best>>

remove_level(s, price) ==
    /\ pc = "idle"
    /\ Change(s, price, Removed(levels[s][SlotOf(price)], price))

reset ==
    /\ pc = "idle"
    /\ levels' = [s \in Sides |-> [k \in Slots |-> EmptyLevel]]
    /\ tob' = [s \in Sides |-> EmptyLevel]
    /\ published' = levels'
    /\ UNCHANGED <<pc, side, i, best>>

\* Mutant of ScanSlot: the seqlock section is inside the loop.
ScanSlotPublishing ==
    /\ pc = "scan" /\ i < Capacity
    /\ best' = IF Beats(side, levels[side][i], best) THEN levels[side][i] ELSE best
    /\ tob' = [tob EXCEPT ![side] = best']
    /\ i' = i + 1
    /\ UNCHANGED <<levels, pc, side, published>>

\* One iteration of the loop of refresh_top().
ScanSlot ==
    /\ pc = "scan" /\ i < Capacity
    /\ best' = IF Beats(side, levels[side][i], best) THEN levels[side][i] ELSE best
    /\ i' = i + 1
    /\ UNCHANGED <<levels, tob, pc, side, published>>

\* The seqlock section at the end of refresh_top().
Publish ==
    /\ pc = "scan" /\ i = Capacity
    /\ tob' = [tob EXCEPT ![side] = best]
    /\ pc' = "idle"
    /\ published' = levels
    /\ UNCHANGED <<levels, side, i, best>>

Next ==
    \/ \E s \in Sides, price \in Prices, dq \in QtyDeltas, do \in OrderDeltas :
          update_level(s, price, dq, do)
    \/ \E s \in Sides, price \in Prices : remove_level(s, price)
    \/ reset
    \/ ScanSlot
    \/ Publish

Spec == Init /\ [][Next]_vars

-----------------------------------------------------------------------------
(* Properties *)

\* Slots never hold a leftover: a slot is PriceLevel{} or a positive quantity at
\* a price of that slot, whatever deltas, collisions and removals came before.
\* So two slots never hold one price, and refresh_top() meets no tie.
SlotDiscipline ==
    \A s \in Sides : \A k \in Slots : WellPlaced(levels[s][k], k)

\* Between two calls the published top of both sides is the best level of the
\* book: the loop of refresh_top() finds it, and refreshing only the side that
\* changed is enough.
TobIsBest ==
    \A s \in Sides :
        pc = "idle" \/ s # side => IsBestOf(s, tob[s], levels[s], Slots)

\* The inductive strengthening: the loop invariant of refresh_top().
ScanInv == pc = "scan" => IsBestOf(side, best, levels[side], 0..(i - 1))

\* Between two calls the levels are those published; during one they differ from
\* them by what that call makes of one slot of the side it scans.
PublishedInv ==
    /\ pc = "idle" => levels = published
    /\ pc = "scan" => \E price \in Prices :
          LET old == published[side][SlotOf(price)]
              Slot(lv) == [published EXCEPT ![side][SlotOf(price)] = lv]
          IN  \/ \E dq \in QtyDeltas, do \in OrderDeltas :
                    levels = Slot(Updated(old, price, dq, do))
              \/ levels = Slot(Removed(old, price))

IInv == TypeOK /\ SlotDiscipline /\ TobIsBest /\ ScanInv /\ PublishedInv

-----------------------------------------------------------------------------
\* The readers' view of a book whose calls take many steps, a scan of every slot
\* and a publication, is that of a book whose calls are atomic: the top they see
\* is never that of a half-scanned side, nor of levels no sequence of calls built.
Atomic == INSTANCE AtomicBook WITH book <- published, top <- tob
ImplementsAtomicBook == Atomic!Spec
============================================================================
