---------------------------- MODULE FeedHandler ----------------------------
(***************************************************************************)
(* hft::FeedHandler (cpp/include/feed_handler.hpp) on top of an OrderBook: *)
(* process() decodes one message, keeps orders_, changes one level of the  *)
(* book and hands the new top of book to the strategy.  One message is one *)
(* action, on its decoded fields; FeedWire adds the bytes they come from,  *)
(* timestamps and trades, ExchangeFeed the order in which an exchange sends *)
(* messages.  Any messages may come here.  The statistics counters, which  *)
(* nothing reads back, are left out.                                       *)
(***************************************************************************)
EXTENDS PriceLevels, FiniteSetsExt

CONSTANTS
    Refs,      \* order references
    WireQtys,  \* quantities on the wire (uint32)
    MaxLevel,  \* bound: quantity of a level
    Counts,    \* bound: order counts of a level, negative ones included
    Callbacks, \* those the strategy registered: "top", "trade"
    NoTop      \* no callback was made

ASSUME QtysAssumption == WireQtys \subseteq Nat /\ MaxLevel \in Nat

VARIABLES
    levels,     \* bids_ and asks_ of the book
    tob,        \* its tob_
    orders,     \* orders_: a function on the references of the resting orders
    returned,   \* what the last process() returned
    delivered   \* the snapshot tob_cb_ got during it, or NoTop

bookVars == <<levels, tob>>
vars == <<bookVars, orders, returned, delivered>>

RestingOrder == [price : Prices, quantity : Int, side : Sides]

EmptyBook == [s \in Sides |-> [i \in Slots |-> EmptyLevel]]
EmptyTop == [s \in Sides |-> EmptyLevel]

TypeOK ==
    /\ levels \in [Sides -> [Slots -> PriceLevel]]
    /\ tob \in [Sides -> PriceLevel]
    /\ DOMAIN orders \subseteq Refs
    /\ \A r \in DOMAIN orders : orders[r] \in RestingOrder
    /\ returned \in BOOLEAN
    /\ delivered \in [Sides -> PriceLevel] \cup {NoTop}

Init ==
    /\ levels = EmptyBook
    /\ tob = EmptyTop
    /\ orders = << >>
    /\ returned = FALSE
    /\ delivered = NoTop

-----------------------------------------------------------------------------
(* The calls the handlers make *)

\* refresh_top(): OrderBook shows that its loop finds the best level.
refresh_top(s) ==
    \E best \in {EmptyLevel} \cup {levels'[s][i] : i \in Slots} :
        /\ IsBestOf(s, best, levels'[s], Slots)
        /\ tob' = [tob EXCEPT ![s] = best]

\* The level at a price becomes lv, and refresh_top() publishes the side.
SetLevel(s, price, lv) ==
    /\ lv.quantity <= MaxLevel /\ lv.orders \in Counts
    /\ levels' = [levels EXCEPT ![s][SlotOf(price)] = lv]
    /\ refresh_top(s)

update_level(s, price, dq, do) ==
    SetLevel(s, price, Updated(levels[s][SlotOf(price)], price, dq, do))

remove_level(s, price) ==
    SetLevel(s, price, Removed(levels[s][SlotOf(price)], price))

\* orders_.erase(it), orders_[ref] = o.
Without(ref) == [r \in DOMAIN orders \ {ref} |-> orders[r]]
With(ref, o) == [r \in DOMAIN orders \cup {ref} |-> IF r = ref THEN o ELSE orders[r]]

\* The end of process(): a handler that returns true makes the callback.
ReturnTrue ==
    /\ returned' = TRUE
    /\ delivered' = IF "top" \in Callbacks THEN tob' ELSE NoTop

ReturnFalse == returned' = FALSE /\ delivered' = NoTop

\* A message that changes neither the book nor orders_.
Ignored == ReturnFalse /\ UNCHANGED <<bookVars, orders>>

-----------------------------------------------------------------------------
(* process(), by message type *)

\* Mutant of handle_add: the order is not counted.
handle_addUncounted(ref, s, qty, price) ==
    /\ orders' = With(ref, [price |-> price, quantity |-> qty, side |-> s])
    /\ update_level(s, price, qty, 0)
    /\ ReturnTrue

\* 'A'.  An order reference that is already known is overwritten.
handle_add(ref, s, qty, price) ==
    /\ orders' = With(ref, [price |-> price, quantity |-> qty, side |-> s])
    /\ update_level(s, price, qty, 1)
    /\ ReturnTrue

\* The common end of 'U' and 'E': the order's quantity becomes left.
Reduce(ref, left, dq) ==
    LET o == orders[ref]
    IN  IF left <= 0
        THEN /\ orders' = Without(ref)
             /\ remove_level(o.side, o.price)
             /\ ReturnTrue
        ELSE /\ orders' = With(ref, [o EXCEPT !.quantity = left])
             /\ update_level(o.side, o.price, dq, 0)
             /\ ReturnTrue

\* Mutant of handle_update: the delta is computed after the order was updated.
handle_updateLate(ref, new_qty) ==
    /\ ref \in DOMAIN orders
    /\ Reduce(ref, new_qty, new_qty - new_qty)

\* 'U'
handle_update(ref, new_qty) ==
    /\ ref \in DOMAIN orders
    /\ Reduce(ref, new_qty, new_qty - orders[ref].quantity)

\* Mutants of handle_delete: it reports no change; it leaves the book alone.
handle_deleteSilent(ref) ==
    /\ ref \in DOMAIN orders
    /\ LET o == orders[ref]
       IN  /\ orders' = Without(ref)
           /\ update_level(o.side, o.price, -o.quantity, -1)
    /\ ReturnFalse

handle_deleteOrderOnly(ref) ==
    /\ ref \in DOMAIN orders
    /\ orders' = Without(ref)
    /\ UNCHANGED bookVars
    /\ ReturnTrue

\* 'D'
handle_delete(ref) ==
    /\ ref \in DOMAIN orders
    /\ LET o == orders[ref]
       IN  /\ orders' = Without(ref)
           /\ update_level(o.side, o.price, -o.quantity, -1)
    /\ ReturnTrue

\* 'E'
handle_execute(ref, exec_qty) ==
    /\ ref \in DOMAIN orders
    /\ Reduce(ref, orders[ref].quantity - exec_qty, -exec_qty)

\* 'U', 'D' or 'E' for a reference that is not resting.
UnknownRef(ref) == ref \notin DOMAIN orders /\ Ignored

\* 'P', an unknown type, an empty buffer, or one shorter than its type says.
NoBookMessage == Ignored

\* Mutant of ResetBook: one side is forgotten.
ResetBookOneSide ==
    /\ levels' = [levels EXCEPT ![Bid] = EmptyBook[Bid]]
    /\ tob' = EmptyTop
    /\ UNCHANGED <<orders, returned, delivered>>

\* The owner of the book calls reset(); the handler keeps its orders.
ResetBook ==
    /\ levels' = EmptyBook
    /\ tob' = EmptyTop
    /\ UNCHANGED <<orders, returned, delivered>>

Next ==
    \/ \E ref \in Refs, s \in Sides, qty \in WireQtys, price \in Prices :
          handle_add(ref, s, qty, price)
    \/ \E ref \in Refs, qty \in WireQtys : handle_update(ref, qty)
    \/ \E ref \in Refs : handle_delete(ref)
    \/ \E ref \in Refs, qty \in WireQtys : handle_execute(ref, qty)
    \/ \E ref \in Refs : UnknownRef(ref)
    \/ NoBookMessage
    \/ ResetBook

Spec == Init /\ [][Next]_vars

-----------------------------------------------------------------------------
(* What the book should show *)

\* The orders of os that rest at a price of a side, and their total quantity: the
\* number of their units, one of which is an order and a number up to its quantity.
RestingAt(os, s, p) == {r \in DOMAIN os : os[r].side = s /\ os[r].price = p}
Units(os, s, p) == UNION {{r} \X (1..os[r].quantity) : r \in RestingAt(os, s, p)}
RestingQty(os, s, p) == Cardinality(Units(os, s, p))

\* No two prices share a slot, which update_level() asks of its caller.
Window == \A p, q \in Prices : SlotOf(p) = SlotOf(q) => p = q

\* The level a side shows at a price.
LevelAt(s, p) ==
    LET lv == levels[s][SlotOf(p)] IN IF lv.price = p THEN lv ELSE EmptyLevel

-----------------------------------------------------------------------------
(* Properties *)

\* A slot is PriceLevel{} or a positive quantity at a price of that slot.
SlotDiscipline ==
    \A s \in Sides : \A i \in Slots : WellPlaced(levels[s][i], i)

\* After every message the published top of both sides is the best level.
TobIsBest ==
    \A s \in Sides : IsBestOf(s, tob[s], levels[s], Slots)

\* The strategy misses no change: when a message changes the top of book,
\* process() returns true and the callback of that very message gets the new one.
NoMissedChange ==
    [][tob' # tob =>
         \/ returned' /\ ("top" \in Callbacks => delivered' = tob')
         \/ ResetBook]_vars

=============================================================================
