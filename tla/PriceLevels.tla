---------------------------- MODULE PriceLevels ----------------------------
(***************************************************************************)
(* Price levels of one side of the book (cpp/include/order_book.hpp): what *)
(* OrderBook and FeedHandler compute with.                                 *)
(***************************************************************************)
EXTENDS Integers

CONSTANTS
    Capacity,   \* slots per side, a power of two
    Prices,     \* prices on the wire, in ticks
    NullPrice   \* NULL_PRICE, the least int64

ASSUME CapacityAssumption ==
    /\ Capacity \in Nat \ {0}
    /\ \E k \in 0..Capacity : Capacity = 2^k

\* NULL_PRICE is below every price, and no message carries it.
ASSUME PricesAssumption ==
    /\ NullPrice \in Int
    /\ Prices \subseteq Int
    /\ \A p \in Prices : NullPrice < p

Bid == "bid"
Ask == "ask"
Sides == {Bid, Ask}
Slots == 0..(Capacity - 1)

PriceLevel == [price : Prices \cup {NullPrice}, quantity : Nat, orders : Int]

EmptyLevel == [price |-> NullPrice, quantity |-> 0, orders |-> 0]

IsEmpty(lv) == lv.quantity <= 0

\* price & MASK; two's complement, so negative prices wrap upwards.
SlotOf(price) == price % Capacity

\* Mutants of Updated: an exhausted level stays; it stays at quantity zero.
UpdatedUnwiped(lv, price, qty_delta, order_delta) ==
    IF lv.price \notin {NullPrice, price} THEN lv
    ELSE [price    |-> price,
          quantity |-> lv.quantity + qty_delta,
          orders   |-> lv.orders + order_delta]

UpdatedKeepsZero(lv, price, qty_delta, order_delta) ==
    IF lv.quantity + qty_delta < 0 THEN EmptyLevel
    ELSE UpdatedUnwiped(lv, price, qty_delta, order_delta)

\* update_level() on the slot of the price: another price's slot is left alone.
Updated(lv, price, qty_delta, order_delta) ==
    IF lv.price \notin {NullPrice, price} THEN lv
    ELSE IF lv.quantity + qty_delta <= 0 THEN EmptyLevel
    ELSE [price    |-> price,
          quantity |-> lv.quantity + qty_delta,
          orders   |-> lv.orders + order_delta]

\* remove_level() on the slot of the price.
Removed(lv, price) == IF lv.price = price THEN EmptyLevel ELSE lv

Better(side, p, q) == IF side = Bid THEN p > q ELSE p < q

\* The condition under which refresh_top() takes lv over the best so far.
Beats(side, lv, best) ==
    /\ ~IsEmpty(lv)
    /\ best.price = NullPrice \/ Better(side, lv.price, best.price)

\* lv is the best of the levels in the slots I: the one with the best price
\* among those with a quantity, or PriceLevel{} when there is none.
IsBestOf(side, lv, levels, I) ==
    \/ lv = EmptyLevel /\ \A i \in I : IsEmpty(levels[i])
    \/ /\ ~IsEmpty(lv)
       /\ \E i \in I : lv = levels[i]
       /\ \A i \in I : ~IsEmpty(levels[i]) => ~Better(side, levels[i].price, lv.price)

\* A slot is PriceLevel{} or holds a quantity at a price that maps to it.
WellPlaced(lv, i) ==
    \/ lv = EmptyLevel
    \/ ~IsEmpty(lv) /\ lv.price \in Prices /\ SlotOf(lv.price) = i
============================================================================
