----------------------------- MODULE AtomicBook -----------------------------
(***************************************************************************)
(* What an order book promises its readers: every call changes the book    *)
(* and the published top in one step, the top of the side it touched is    *)
(* then the best level of that side, and the other top stays as it was.    *)
(* OrderBook scans and publishes in several steps and implements this;     *)
(* FeedHandler uses its book through these calls only.                     *)
(***************************************************************************)
EXTENDS PriceLevels

CONSTANTS
    QtyDeltas,    \* quantity changes a caller asks for
    OrderDeltas   \* order-count changes a caller asks for

VARIABLES
    book,   \* the price levels of both sides
    top     \* the published top of both sides

vars == <<book, top>>

EmptyBook == [s \in Sides |-> [k \in Slots |-> EmptyLevel]]
EmptyTop == [s \in Sides |-> EmptyLevel]

Init == book = EmptyBook /\ top = EmptyTop

\* The slot of the price becomes lv and the best level of its side is published.
Call(s, price, lv) ==
    /\ book' = [book EXCEPT ![s][SlotOf(price)] = lv]
    /\ \E best \in {EmptyLevel} \cup {book'[s][k] : k \in Slots} :
          /\ IsBestOf(s, best, book'[s], Slots)
          /\ top' = [top EXCEPT ![s] = best]

Update(s, price, dq, do) ==
    Call(s, price, Updated(book[s][SlotOf(price)], price, dq, do))

Remove(s, price) == Call(s, price, Removed(book[s][SlotOf(price)], price))

Reset == book' = EmptyBook /\ top' = EmptyTop

Next ==
    \/ \E s \in Sides, price \in Prices :
          \/ \E dq \in QtyDeltas, do \in OrderDeltas : Update(s, price, dq, do)
          \/ Remove(s, price)
    \/ Reset

Spec == Init /\ [][Next]_vars
============================================================================
