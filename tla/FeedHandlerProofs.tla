------------------------- MODULE FeedHandlerProofs -------------------------
(***************************************************************************)
(* Proofs about FeedHandler, for every capacity, every set of references,  *)
(* quantities and prices, and any messages at all; about ExchangeFeed, for *)
(* every window of prices and every legal feed; about FeedWire, for all    *)
(* values that fit the fields of a message; and about KriaBenchmark, for   *)
(* all its numbers and durations.                                          *)
(***************************************************************************)
EXTENDS ExchangeFeed, FeedWire, KriaBenchmark, PriceLevelsProofs, FiniteSetTheorems

\* The values the constants may take.
LEMMA Typing ==
    /\ WireQtys \subseteq Int
    /\ Prices \subseteq Int
    /\ \A p \in Prices : SlotOf(p) \in Slots
BY QtysAssumption, PricesAssumption, SlotOfType

\* What the proofs keep of the book: types, and well-placed slots.
BookOK ==
    /\ levels \in [Sides -> [Slots -> PriceLevel]]
    /\ tob \in [Sides -> PriceLevel]
    /\ SlotDiscipline
    /\ TobIsBest

\* The same of orders_.
OrdersOK == DOMAIN orders \subseteq Refs /\ \A r \in DOMAIN orders : orders[r] \in RestingOrder

\* Putting a well-placed level in its slot keeps the book in order, and the top
\* of the other side is still the best one there.
LEMMA SetLevelOK ==
    ASSUME BookOK, NEW s \in Sides, NEW price \in Prices, NEW lv \in PriceLevel,
           WellPlaced(lv, SlotOf(price)), SetLevel(s, price, lv)
    PROVE  BookOK'
<1>1. SlotOf(price) \in Slots
  BY Typing
<1>2. levels' = [levels EXCEPT ![s][SlotOf(price)] = lv]
  BY DEF SetLevel
<1>3. levels' \in [Sides -> [Slots -> PriceLevel]]
  BY <1>1, <1>2 DEF BookOK
<1>4. SlotDiscipline'
  BY <1>1, <1>2 DEF BookOK, SlotDiscipline
<1>5. PICK best \in {EmptyLevel} \cup {levels'[s][j] : j \in Slots} :
         IsBestOf(s, best, levels'[s], Slots) /\ tob' = [tob EXCEPT ![s] = best]
  BY DEF SetLevel, refresh_top
<1>6. best \in PriceLevel
  BY <1>3, EmptyLevelFacts
<1>7. tob' \in [Sides -> PriceLevel]
  BY <1>5, <1>6 DEF BookOK
<1>8. ASSUME NEW q \in Sides PROVE IsBestOf(q, tob'[q], levels'[q], Slots)
  <2>1. CASE q = s
    BY <1>5, <2>1 DEF BookOK
  <2>2. CASE q # s
    BY <1>2, <1>5, <2>2 DEF BookOK, TobIsBest
  <2>3. QED
    BY <2>1, <2>2
<1>9. QED
  BY <1>3, <1>4, <1>7, <1>8 DEF BookOK, TobIsBest

\* Both ways the handlers change the book keep it in order.
LEMMA BookCalls ==
    ASSUME BookOK, NEW s \in Sides, NEW price \in Prices, NEW dq \in Int, NEW do \in Int,
           update_level(s, price, dq, do) \/ remove_level(s, price)
    PROVE  BookOK'
<1>1. SlotOf(price) \in Slots
  BY Typing
<1>2. levels[s][SlotOf(price)] \in PriceLevel
  BY <1>1 DEF BookOK
<1>3. WellPlaced(levels[s][SlotOf(price)], SlotOf(price))
  BY <1>1 DEF BookOK, SlotDiscipline
<1>4. CASE update_level(s, price, dq, do)
  BY <1>2, <1>3, <1>4, UpdatedWellPlaced, SetLevelOK DEF update_level
<1>5. CASE remove_level(s, price)
  BY <1>2, <1>3, <1>5, RemovedWellPlaced, SetLevelOK DEF remove_level
<1>6. QED
  BY <1>4, <1>5

\* Entering, replacing and erasing an order keep orders_ in order.
LEMMA OrdersChange ==
    ASSUME OrdersOK, NEW r \in Refs
    PROVE  /\ orders' = Without(r) => OrdersOK'
           /\ \A o \in RestingOrder : orders' = With(r, o) => OrdersOK'
BY DEF OrdersOK, With, Without

\* The callback's snapshot has its type.
LEMMA Outcome ==
    ASSUME BookOK', TypeOK, ReturnTrue \/ ReturnFalse \/ UNCHANGED <<returned, delivered>>
    PROVE  /\ returned' \in BOOLEAN
           /\ delivered' \in [Sides -> PriceLevel] \cup {NoTop}
BY DEF ReturnTrue, ReturnFalse, BookOK, TypeOK

-----------------------------------------------------------------------------
IInv == TypeOK /\ SlotDiscipline /\ TobIsBest

\* The empty book of the constructor is in order.
LEMMA InvInit == Init => IInv
<1> SUFFICES ASSUME Init PROVE IInv
  OBVIOUS
<1>1. SlotDiscipline /\ TobIsBest
  BY EmptyLevelFacts DEF Init, EmptyBook, EmptyTop, SlotDiscipline, TobIsBest, IsBestOf
<1>2. DOMAIN orders = {}
  BY DEF Init
<1>3. TypeOK
  BY <1>2, EmptyLevelFacts DEF Init, TypeOK, EmptyBook, EmptyTop
<1>4. QED
  BY <1>1, <1>3 DEF IInv

\* 'U' and 'E' share their end.
LEMMA ReduceOK ==
    ASSUME BookOK, OrdersOK,
           NEW r \in DOMAIN orders, NEW left \in Int, NEW dq \in Int, Reduce(r, left, dq)
    PROVE  BookOK' /\ OrdersOK' /\ ReturnTrue
<1> DEFINE o == orders[r]
<1>1. o \in RestingOrder /\ r \in Refs /\ o.side \in Sides /\ o.price \in Prices
  BY DEF OrdersOK, RestingOrder
<1>2. CASE left <= 0
  <2>1. /\ orders' = Without(r) /\ remove_level(o.side, o.price)
        /\ ReturnTrue
    BY <1>2 DEF Reduce
  <2>2. BookOK'
    BY <1>1, <2>1, BookCalls
  <2>3. OrdersOK'
    BY <1>1, <2>1, OrdersChange
  <2>4. QED
    BY <2>1, <2>2, <2>3
<1>3. CASE ~(left <= 0)
  <2>1. /\ orders' = With(r, [o EXCEPT !.quantity = left])
        /\ update_level(o.side, o.price, dq, 0) /\ ReturnTrue
    BY <1>3 DEF Reduce
  <2>2. BookOK'
    BY <1>1, <2>1, BookCalls
  <2>3. [o EXCEPT !.quantity = left] \in RestingOrder
    BY <1>1 DEF RestingOrder
  <2>4. OrdersOK'
    BY <1>1, <2>1, <2>3, OrdersChange
  <2>5. QED
    BY <2>1, <2>2, <2>4
<1>4. QED
  BY <1>2, <1>3

\* Every message, and the owner's reset(), keeps the book in order.
LEMMA InvStep == IInv /\ [Next]_vars => IInv'
<1> SUFFICES ASSUME IInv, [Next]_vars PROVE IInv'
  OBVIOUS
<1>0. BookOK /\ OrdersOK
  BY DEF IInv, TypeOK, BookOK, OrdersOK
<1>1. SUFFICES \/ UNCHANGED vars
               \/ /\ BookOK' /\ OrdersOK'
                  /\ ReturnTrue \/ ReturnFalse \/ UNCHANGED <<returned, delivered>>
  <2>1. CASE UNCHANGED vars
    BY <2>1 DEF vars, bookVars, IInv, TypeOK, SlotDiscipline, TobIsBest
  <2>2. CASE /\ BookOK' /\ OrdersOK'
             /\ ReturnTrue \/ ReturnFalse \/ UNCHANGED <<returned, delivered>>
    BY <2>2, Outcome DEF IInv, TypeOK, BookOK, OrdersOK
  <2>3. QED
    BY <1>1, <2>1, <2>2
<1>2. ASSUME NEW r \in Refs, NEW s \in Sides, NEW qty \in WireQtys, NEW price \in Prices,
             handle_add(r, s, qty, price)
      PROVE  BookOK' /\ OrdersOK' /\ ReturnTrue
  <2>1. [price |-> price, quantity |-> qty, side |-> s] \in RestingOrder /\ qty \in Int
    BY Typing DEF RestingOrder
  <2>2. BookOK'
    BY <1>0, <1>2, <2>1, BookCalls DEF handle_add
  <2>3. OrdersOK'
    BY <1>0, <1>2, <2>1, OrdersChange DEF handle_add
  <2>4. ReturnTrue
    BY <1>2 DEF handle_add
  <2>5. QED
    BY <2>2, <2>3, <2>4
<1>q. \A r \in DOMAIN orders : orders[r].quantity \in Int
  BY <1>0 DEF OrdersOK, RestingOrder
<1>3. ASSUME NEW r \in Refs, NEW qty \in WireQtys, handle_update(r, qty)
      PROVE  BookOK' /\ OrdersOK' /\ ReturnTrue
  <2>1. r \in DOMAIN orders /\ qty \in Int /\ qty - orders[r].quantity \in Int
    BY <1>3, <1>q, Typing DEF handle_update
  <2>2. QED
    BY <1>0, <1>3, <2>1, ReduceOK DEF handle_update
<1>4. ASSUME NEW r \in Refs, handle_delete(r)
      PROVE  BookOK' /\ OrdersOK' /\ ReturnTrue
  <2>1. /\ orders[r].side \in Sides /\ orders[r].price \in Prices
        /\ -orders[r].quantity \in Int
    BY <1>0, <1>4 DEF handle_delete, OrdersOK, RestingOrder
  <2>2. BookOK'
    BY <1>0, <1>4, <2>1, BookCalls DEF handle_delete
  <2>3. OrdersOK'
    BY <1>0, <1>4, OrdersChange DEF handle_delete
  <2>4. ReturnTrue
    BY <1>4 DEF handle_delete
  <2>5. QED
    BY <2>2, <2>3, <2>4
<1>5. ASSUME NEW r \in Refs, NEW qty \in WireQtys, handle_execute(r, qty)
      PROVE  BookOK' /\ OrdersOK' /\ ReturnTrue
  <2>1. r \in DOMAIN orders /\ -qty \in Int /\ orders[r].quantity - qty \in Int
    BY <1>5, <1>q, Typing DEF handle_execute
  <2>2. QED
    BY <1>0, <1>5, <2>1, ReduceOK DEF handle_execute
<1>6. ASSUME Ignored
      PROVE  BookOK' /\ OrdersOK' /\ ReturnFalse
  BY <1>0, <1>6 DEF Ignored, bookVars, BookOK, OrdersOK, SlotDiscipline, TobIsBest
<1>7. ASSUME ResetBook
      PROVE  BookOK' /\ OrdersOK' /\ UNCHANGED <<returned, delivered>>
  <2>1. BookOK'
    BY <1>7, EmptyLevelFacts
       DEF ResetBook, EmptyBook, EmptyTop, BookOK, SlotDiscipline, TobIsBest, IsBestOf
  <2>2. OrdersOK'
    BY <1>0, <1>7 DEF ResetBook, OrdersOK
  <2>3. UNCHANGED <<returned, delivered>>
    BY <1>7 DEF ResetBook
  <2>4. QED
    BY <2>1, <2>2, <2>3
<1>8. QED
  BY <1>2, <1>3, <1>4, <1>5, <1>6, <1>7 DEF Next, UnknownRef, NoBookMessage

\* Whatever the messages, the book, orders_ and the snapshots handed to the
\* callback keep their types: no level has a negative quantity.
THEOREM TypeCorrect == Spec => []TypeOK
<1>1. IInv => TypeOK
  BY DEF IInv
<1>2. QED
  BY InvInit, InvStep, <1>1, PTL DEF Spec

\* Whatever the messages, with reused references, over-executions, colliding
\* prices and resets, the handler leaves no leftovers in the slots of the book.
THEOREM SlotsStayDisciplined == Spec => []SlotDiscipline
<1>1. IInv => SlotDiscipline
  BY DEF IInv
<1>2. QED
  BY InvInit, InvStep, <1>1, PTL DEF Spec

\* Whatever the messages, the published top of the book behind the handler is
\* its best level on both sides after every message.
THEOREM BookStaysInOrder == Spec => []TobIsBest
<1>1. IInv => TobIsBest
  BY DEF IInv
<1>2. QED
  BY InvInit, InvStep, <1>1, PTL DEF Spec

\* No message changes the top of book behind the strategy's back.
THEOREM StrategyMissesNoChange == Spec => NoMissedChange
<1>1. [Next]_vars => [tob' # tob =>
                         \/ returned' /\ ("top" \in Callbacks => delivered' = tob')
                         \/ ResetBook]_vars
  BY DEF Next, handle_add, handle_update, handle_delete, handle_execute, Reduce,
         UnknownRef, NoBookMessage, Ignored, bookVars, ReturnTrue
<1>2. QED
  BY <1>1, PTL DEF Spec, NoMissedChange

-----------------------------------------------------------------------------
(* Refinement: the handlers change the book through its calls only *)

\* The book a caller may rely on, whatever changes it asks for.
Book == INSTANCE AtomicBook
        WITH book <- levels, top <- tob, QtyDeltas <- Int, OrderDeltas <- Int

\* It computes with the same levels, and finds the same ones best.
LEMMA SameLevels ==
    /\ Book!Sides = Sides /\ Book!Slots = Slots /\ Book!EmptyLevel = EmptyLevel
    /\ \A price : Book!SlotOf(price) = SlotOf(price)
    /\ \A lv, price, dq, do : Book!Updated(lv, price, dq, do) = Updated(lv, price, dq, do)
    /\ \A lv, price : Book!Removed(lv, price) = Removed(lv, price)
BY DEF Book!Sides, Sides, Book!Bid, Bid, Book!Ask, Ask, Book!Slots, Slots,
       Book!EmptyLevel, EmptyLevel, Book!SlotOf, SlotOf, Book!Updated, Updated,
       Book!Removed, Removed

LEMMA SameBest ==
    ASSUME NEW s, NEW lv, NEW lvs, NEW I
    PROVE  Book!IsBestOf(s, lv, lvs, I) <=> IsBestOf(s, lv, lvs, I)
BY SameLevels DEF Book!IsBestOf, IsBestOf, Book!IsEmpty, IsEmpty,
       Book!Better, Better, Book!Bid, Bid

\* Both books start empty, and reset() empties both.
LEMMA SameEmpty == Book!EmptyBook = EmptyBook /\ Book!EmptyTop = EmptyTop
BY SameLevels DEF Book!EmptyBook, EmptyBook, Book!EmptyTop, EmptyTop

\* What the handlers do to a slot is a call of the book.
LEMMA SetLevelIsCall ==
    ASSUME NEW s, NEW price, NEW lv, SetLevel(s, price, lv)
    PROVE  Book!Call(s, price, lv)
<1>1. levels' = [levels EXCEPT ![s][Book!SlotOf(price)] = lv]
  BY SameLevels DEF SetLevel
<1>2. PICK best \in {EmptyLevel} \cup {levels'[s][k] : k \in Slots} :
         IsBestOf(s, best, levels'[s], Slots) /\ tob' = [tob EXCEPT ![s] = best]
  BY DEF SetLevel, refresh_top
<1>3. Book!IsBestOf(s, best, levels'[s], Book!Slots)
  BY <1>2, SameLevels, SameBest
<1>4. best \in {Book!EmptyLevel} \cup {levels'[s][k] : k \in Book!Slots}
  BY <1>2, SameLevels
<1>5. QED
  BY <1>1, <1>2, <1>3, <1>4 DEF Book!Call

LEMMA CallsAreCalls ==
    ASSUME NEW s \in Sides, NEW price \in Prices
    PROVE  /\ \A dq, do \in Int : update_level(s, price, dq, do) => Book!Next
           /\ remove_level(s, price) => Book!Next
<1>1. ASSUME NEW dq \in Int, NEW do \in Int, update_level(s, price, dq, do)
      PROVE  Book!Next
  <2>1. Book!Update(s, price, dq, do)
    BY <1>1, SetLevelIsCall, SameLevels DEF update_level, Book!Update
  <2>2. QED
    BY <2>1, SameLevels DEF Book!Next
<1>2. ASSUME remove_level(s, price) PROVE Book!Next
  <2>1. Book!Remove(s, price)
    BY <1>2, SetLevelIsCall, SameLevels DEF remove_level, Book!Remove
  <2>2. QED
    BY <2>1, SameLevels DEF Book!Next
<1>3. QED
  BY <1>1, <1>2

\* A message makes one call of the book or leaves it alone.
LEMMA BookStep == IInv /\ [Next]_vars => [Book!Next]_(Book!vars)
<1> SUFFICES ASSUME IInv, [Next]_vars PROVE Book!Next \/ UNCHANGED <<levels, tob>>
  BY DEF Book!vars
<1>o. OrdersOK
  BY DEF IInv, TypeOK, OrdersOK
<1>q. \A r \in DOMAIN orders : /\ orders[r].side \in Sides /\ orders[r].price \in Prices
                               /\ orders[r].quantity \in Int
  BY <1>o DEF OrdersOK, RestingOrder
\* 'U' and 'E' share their end.
<1>r. ASSUME NEW r \in DOMAIN orders, NEW left \in Int, NEW dq \in Int, Reduce(r, left, dq)
      PROVE  Book!Next
  <2>1. \/ remove_level(orders[r].side, orders[r].price)
        \/ update_level(orders[r].side, orders[r].price, dq, 0)
    BY <1>r DEF Reduce
  <2>2. QED
    BY <2>1, <1>q, CallsAreCalls
<1>1. ASSUME NEW r \in Refs, NEW s \in Sides, NEW qty \in WireQtys, NEW price \in Prices,
             handle_add(r, s, qty, price)
      PROVE  Book!Next
  BY <1>1, Typing, CallsAreCalls DEF handle_add
<1>2. ASSUME NEW r \in Refs, NEW qty \in WireQtys, handle_update(r, qty)
      PROVE  Book!Next
  <2>1. r \in DOMAIN orders /\ qty \in Int /\ qty - orders[r].quantity \in Int
    BY <1>2, <1>q, Typing DEF handle_update
  <2>2. QED
    BY <1>2, <1>r, <2>1 DEF handle_update
<1>3. ASSUME NEW r \in Refs, handle_delete(r)
      PROVE  Book!Next
  <2>1. /\ orders[r].side \in Sides /\ orders[r].price \in Prices
        /\ -orders[r].quantity \in Int
    BY <1>3, <1>q DEF handle_delete
  <2>2. QED
    BY <1>3, <2>1, CallsAreCalls DEF handle_delete
<1>4. ASSUME NEW r \in Refs, NEW qty \in WireQtys, handle_execute(r, qty)
      PROVE  Book!Next
  <2>1. r \in DOMAIN orders /\ -qty \in Int /\ orders[r].quantity - qty \in Int
    BY <1>4, <1>q, Typing DEF handle_execute
  <2>2. QED
    BY <1>4, <1>r, <2>1 DEF handle_execute
<1>5. CASE Ignored
  BY <1>5 DEF Ignored, bookVars
<1>6. CASE ResetBook
  <2>1. Book!Reset
    BY <1>6, SameEmpty DEF ResetBook, Book!Reset
  <2>2. QED
    BY <2>1 DEF Book!Next
<1>7. CASE UNCHANGED vars
  BY <1>7 DEF vars, bookVars
<1>8. QED
  BY <1>1, <1>2, <1>3, <1>4, <1>5, <1>6, <1>7 DEF Next, UnknownRef, NoBookMessage

\* Whatever the messages, the handler moves the book only by whole calls of the
\* book that OrderBook implements: one level and the top of its side at a time.
\* So taking refresh_top() as one step here loses nothing its readers could see.
THEOREM HandlersUseAtomicBook == Spec => Book!Spec
<1>1. Init => Book!Init
  BY SameEmpty DEF Init, Book!Init
<1>2. QED
  BY InvInit, InvStep, BookStep, <1>1, PTL DEF Spec, Book!Spec

-----------------------------------------------------------------------------
(* A legal feed: counting the orders at a price *)

\* What the proofs keep of an order table: it is finite, every order has a
\* positive quantity, and so the units at a price can be counted.
Countable(os) ==
    /\ IsFiniteSet(DOMAIN os)
    /\ \A r \in DOMAIN os : os[r].quantity \in Nat \ {0}
    /\ \A s \in Sides, p \in Prices : IsFiniteSet(Units(os, s, p))

\* os2 is os with one more order.
OneMore(os, r, o, os2) ==
    /\ r \notin DOMAIN os
    /\ DOMAIN os2 = DOMAIN os \cup {r}
    /\ os2[r] = o
    /\ \A x \in DOMAIN os : os2[x] = os[x]

\* An order of quantity n has n units.
LEMMA UnitsOfOne ==
    ASSUME NEW r, NEW n \in Nat
    PROVE  IsFiniteSet({r} \X (1..n)) /\ Cardinality({r} \X (1..n)) = n
<1>1. IsFiniteSet({r}) /\ Cardinality({r}) = 1
  BY FS_Singleton
<1>2. IsFiniteSet(1..n) /\ Cardinality(1..n) = n
  BY FS_Interval
<1> DEFINE One == {r}  Numbers == 1..n
<1> HIDE DEF One, Numbers
<1>3. IsFiniteSet(One) /\ IsFiniteSet(Numbers)
  BY <1>1, <1>2 DEF One, Numbers
<1>4. /\ IsFiniteSet(One \X Numbers)
      /\ Cardinality(One \X Numbers) = Cardinality(One) * Cardinality(Numbers)
  BY <1>3, FS_Product
<1>5. Cardinality(One) = 1 /\ Cardinality(Numbers) = n
  BY <1>1, <1>2 DEF One, Numbers
<1>6. Cardinality(One \X Numbers) = n
  BY <1>4, <1>5
<1>7. QED
  BY <1>4, <1>6 DEF One, Numbers

\* One more order adds its quantity and itself at its own price, and nothing
\* anywhere else.
LEMMA OneMoreCounted ==
    ASSUME NEW os, NEW os2, NEW r, NEW o, o.quantity \in Nat \ {0},
           Countable(os), OneMore(os, r, o, os2)
    PROVE  /\ Countable(os2)
           /\ \A s \in Sides, p \in Prices :
                 LET k == IF o.side = s /\ o.price = p THEN 1 ELSE 0
                 IN  /\ RestingQty(os2, s, p) = RestingQty(os, s, p) + k * o.quantity
                     /\ Cardinality(RestingAt(os2, s, p)) = Cardinality(RestingAt(os, s, p)) + k
<1> DEFINE New == {r} \X (1..o.quantity)
<1>n. IsFiniteSet(New) /\ Cardinality(New) = o.quantity
  BY UnitsOfOne
<1>1. IsFiniteSet(DOMAIN os2)
  BY FS_AddElement DEF Countable, OneMore
<1>2. \A x \in DOMAIN os2 : os2[x].quantity \in Nat \ {0}
  BY DEF Countable, OneMore
<1>3. ASSUME NEW s \in Sides, NEW p \in Prices
      PROVE  LET k == IF o.side = s /\ o.price = p THEN 1 ELSE 0
             IN  /\ IsFiniteSet(Units(os2, s, p))
                 /\ RestingQty(os2, s, p) = RestingQty(os, s, p) + k * o.quantity
                 /\ Cardinality(RestingAt(os2, s, p)) = Cardinality(RestingAt(os, s, p)) + k
  <2>0. /\ IsFiniteSet(Units(os, s, p)) /\ RestingQty(os, s, p) \in Nat
        /\ IsFiniteSet(RestingAt(os, s, p)) /\ Cardinality(RestingAt(os, s, p)) \in Nat
    <3>1. IsFiniteSet(Units(os, s, p))
      BY DEF Countable
    <3>2. IsFiniteSet(RestingAt(os, s, p))
      BY FS_Subset DEF Countable, RestingAt
    <3>3. QED
      BY <3>1, <3>2, FS_CardinalityType DEF RestingQty
  <2>1. CASE o.side = s /\ o.price = p
    <3>1. RestingAt(os2, s, p) = RestingAt(os, s, p) \cup {r}
      BY <2>1 DEF OneMore, RestingAt
    <3>2. Cardinality(RestingAt(os2, s, p)) = Cardinality(RestingAt(os, s, p)) + 1
      <4>1. r \notin RestingAt(os, s, p)
        BY DEF OneMore, RestingAt
      <4>2. QED
        BY <2>0, <3>1, <4>1, FS_AddElement
    <3>3. Units(os2, s, p) = Units(os, s, p) \cup New
      <4>1. \A x \in RestingAt(os, s, p) : os2[x] = os[x]
        BY DEF OneMore, RestingAt
      <4>2. os2[r] = o
        BY DEF OneMore
      <4>3. ASSUME NEW u
            PROVE  u \in Units(os2, s, p) <=> u \in Units(os, s, p) \cup New
        <5>1. u \in Units(os2, s, p)
                <=> \E x \in RestingAt(os, s, p) \cup {r} : u \in {x} \X (1..os2[x].quantity)
          BY <3>1 DEF Units
        <5>2. u \in Units(os, s, p)
                <=> \E x \in RestingAt(os, s, p) : u \in {x} \X (1..os[x].quantity)
          BY DEF Units
        <5>3. QED
          BY <4>1, <4>2, <5>1, <5>2
      <4>4. \A u : u \in Units(os2, s, p) <=> u \in Units(os, s, p) \cup New
        BY <4>3
      <4> HIDE DEF New
      <4>5. QED
        BY <4>4
    <3>4. Units(os, s, p) \cap New = {}
      BY DEF Units, RestingAt, OneMore
    <3>5. /\ IsFiniteSet(Units(os2, s, p))
          /\ RestingQty(os2, s, p) = RestingQty(os, s, p) + o.quantity
      <4> HIDE DEF New
      <4>1. /\ IsFiniteSet(Units(os, s, p) \cup New)
            /\ Cardinality(Units(os, s, p) \cup New)
                 = Cardinality(Units(os, s, p)) + Cardinality(New)
                     - Cardinality(Units(os, s, p) \cap New)
        BY <1>n, <2>0, FS_Union
      <4>2. Cardinality(Units(os, s, p) \cap New) = 0
        BY <3>4, FS_EmptySet
      <4>3. QED
        BY <1>n, <2>0, <3>3, <4>1, <4>2 DEF RestingQty
    <3>6. QED
      BY <2>1, <3>2, <3>5
  <2>2. CASE ~(o.side = s /\ o.price = p)
    <3>1. RestingAt(os2, s, p) = RestingAt(os, s, p)
      BY <2>2 DEF OneMore, RestingAt
    <3>2. \A x \in RestingAt(os, s, p) : os2[x] = os[x]
      BY DEF OneMore, RestingAt
    <3>3. Units(os2, s, p) = Units(os, s, p)
      BY <3>1, <3>2 DEF Units
    <3>4. QED
      BY <2>0, <2>2, <3>1, <3>3 DEF RestingQty
  <2>3. QED
    BY <2>1, <2>2
<1>4. QED
  BY <1>1, <1>2, <1>3 DEF Countable

\* Erasing an order undoes its entry.
LEMMA OneLessCounted ==
    ASSUME Countable(orders), NEW r \in DOMAIN orders
    PROVE  /\ OneMore(Without(r), r, orders[r], orders)
           /\ Countable(Without(r))
           /\ \A s \in Sides, p \in Prices :
                /\ RestingQty(Without(r), s, p) \in Nat
                /\ Cardinality(RestingAt(Without(r), s, p)) \in Nat
<1>1. OneMore(Without(r), r, orders[r], orders)
  BY DEF OneMore, Without
<1>2. IsFiniteSet(DOMAIN Without(r))
  BY FS_Subset DEF Countable, Without
<1>3. ASSUME NEW s \in Sides, NEW p \in Prices
      PROVE  IsFiniteSet(Units(Without(r), s, p))
  <2>1. Units(Without(r), s, p) \subseteq Units(orders, s, p)
    BY DEF Units, RestingAt, Without
  <2>2. QED
    BY <2>1, FS_Subset DEF Countable
<1>4. Countable(Without(r))
  BY <1>2, <1>3 DEF Countable, Without
<1>5. ASSUME NEW s \in Sides, NEW p \in Prices
      PROVE  /\ RestingQty(Without(r), s, p) \in Nat
             /\ Cardinality(RestingAt(Without(r), s, p)) \in Nat
  <2>1. IsFiniteSet(RestingAt(Without(r), s, p))
    BY <1>2, FS_Subset DEF RestingAt
  <2>2. QED
    BY <1>3, <2>1, FS_CardinalityType DEF RestingQty
<1>6. QED
  BY <1>1, <1>4, <1>5

\* No order rests at a price exactly when no quantity does.
LEMMA NothingResting ==
    ASSUME NEW os, Countable(os), NEW s \in Sides, NEW p \in Prices
    PROVE  /\ RestingQty(os, s, p) \in Nat
           /\ Cardinality(RestingAt(os, s, p)) \in Nat
           /\ RestingAt(os, s, p) = {} => Cardinality(RestingAt(os, s, p)) = 0
           /\ RestingAt(os, s, p) = {} <=> RestingQty(os, s, p) = 0
<1>1. IsFiniteSet(Units(os, s, p)) /\ IsFiniteSet(RestingAt(os, s, p))
  BY FS_Subset DEF Countable, RestingAt
<1>2. RestingAt(os, s, p) = {} <=> Units(os, s, p) = {}
  <2>1. ASSUME NEW r \in RestingAt(os, s, p) PROVE <<r, 1>> \in Units(os, s, p)
    <3>1. 1 \in 1..os[r].quantity
      BY DEF Countable, RestingAt
    <3>2. QED
      BY <3>1 DEF Units
  <2>2. RestingAt(os, s, p) = {} => Units(os, s, p) = {}
    BY DEF Units
  <2>3. QED
    BY <2>1, <2>2
<1>3. QED
  BY <1>1, <1>2, FS_CardinalityType, FS_EmptySet DEF RestingQty

\* What a side shows at a price is a level, and PriceLevel{} if it has no quantity.
LEMMA ShownLevel ==
    ASSUME NEW lv \in PriceLevel, NEW k, WellPlaced(lv, k), NEW p
    PROVE  LET at == IF lv.price = p THEN lv ELSE EmptyLevel
           IN  at \in PriceLevel /\ (at.quantity <= 0 => at = EmptyLevel)
BY EmptyLevelFacts DEF WellPlaced, IsEmpty

\* In a window update_level() finds the level of its own price, and changes it alone.
LEMMA LevelUpdated ==
    ASSUME Window, BookOK, NEW s \in Sides, NEW price \in Prices, NEW dq \in Int, NEW do \in Int,
           update_level(s, price, dq, do), NEW t \in Sides, NEW p \in Prices
    PROVE  LevelAt(t, p)' =
             IF t = s /\ p = price
             THEN IF LevelAt(t, p).quantity + dq <= 0 THEN EmptyLevel
                  ELSE [price |-> p, quantity |-> LevelAt(t, p).quantity + dq,
                        orders |-> LevelAt(t, p).orders + do]
             ELSE LevelAt(t, p)
<1> DEFINE slot == levels[s][SlotOf(price)]
<1>1. SlotOf(price) \in Slots /\ SlotOf(p) \in Slots
  BY Typing
<1>2. levels' = [levels EXCEPT ![s][SlotOf(price)] = Updated(slot, price, dq, do)]
  BY DEF update_level, SetLevel
<1>3. slot \in PriceLevel /\ WellPlaced(slot, SlotOf(price))
  BY <1>1 DEF BookOK, SlotDiscipline
<1>4. slot.price = price \/ (slot = EmptyLevel /\ slot.price # price)
  BY <1>3, PricesAssumption, EmptyLevelFacts DEF WellPlaced, Window
<1>5. CASE t = s /\ p = price
  <2>1. LevelAt(t, p) = slot
    BY <1>4, <1>5 DEF LevelAt
  <2>2. levels'[t][SlotOf(p)] = Updated(slot, price, dq, do)
    BY <1>1, <1>2, <1>5 DEF BookOK
  <2>3. slot.price \in {NullPrice, price}
    BY <1>4, EmptyLevelFacts
  <2>4. CASE slot.quantity + dq <= 0
    BY <1>5, <2>1, <2>2, <2>3, <2>4 DEF Updated, LevelAt
  <2>5. CASE ~(slot.quantity + dq <= 0)
    BY <1>5, <2>1, <2>2, <2>3, <2>5 DEF Updated, LevelAt
  <2>6. QED
    BY <1>5, <2>1, <2>4, <2>5
<1>6. CASE ~(t = s /\ p = price)
  <2>1. t # s \/ SlotOf(p) # SlotOf(price)
    BY <1>6 DEF Window
  <2>2. levels'[t][SlotOf(p)] = levels[t][SlotOf(p)]
    BY <1>1, <1>2, <2>1 DEF BookOK
  <2>3. QED
    BY <1>6, <2>2 DEF LevelAt
<1>7. QED
  BY <1>5, <1>6

\* In a window remove_level() empties the level of its own price alone.
LEMMA LevelRemoved ==
    ASSUME Window, BookOK, NEW s \in Sides, NEW price \in Prices,
           remove_level(s, price), NEW t \in Sides, NEW p \in Prices
    PROVE  LevelAt(t, p)' = IF t = s /\ p = price THEN EmptyLevel ELSE LevelAt(t, p)
<1> DEFINE slot == levels[s][SlotOf(price)]
<1>1. SlotOf(price) \in Slots /\ SlotOf(p) \in Slots
  BY Typing
<1>2. levels' = [levels EXCEPT ![s][SlotOf(price)] = Removed(slot, price)]
  BY DEF remove_level, SetLevel
<1>3. CASE t = s /\ p = price
  <2>1. levels'[t][SlotOf(p)] = Removed(slot, price)
    BY <1>1, <1>2, <1>3 DEF BookOK
  <2>2. QED
    BY <1>3, <2>1 DEF Removed, LevelAt
<1>4. CASE ~(t = s /\ p = price)
  <2>1. t # s \/ SlotOf(p) # SlotOf(price)
    BY <1>4 DEF Window
  <2>2. levels'[t][SlotOf(p)] = levels[t][SlotOf(p)]
    BY <1>1, <1>2, <2>1 DEF BookOK
  <2>3. QED
    BY <1>4, <2>2 DEF LevelAt
<1>5. QED
  BY <1>3, <1>4

-----------------------------------------------------------------------------
Accounts == Countable(orders) /\ NeverOverstates /\ ExactUnlessWiped

\* When a message changes the quantity and the number of orders at a price by as
\* much as it asks update_level() to, the book is as good an account as before.
\* A price that becomes clean because its last order went has an empty level,
\* since the level never overstates.
LEMMA UpdateAccounts ==
    ASSUME Window, BookOK, BookOK', Accounts, NEW s \in Sides, NEW price \in Prices,
           NEW dq \in Int, NEW dn \in Int, NEW W,
           update_level(s, price, dq, dn), Wipe(W), Countable(orders'),
           \A t \in Sides, p \in Prices :
              LET k == IF t = s /\ p = price THEN 1 ELSE 0
              IN  /\ RestingQty(orders', t, p) = RestingQty(orders, t, p) + k * dq
                  /\ Cardinality(RestingAt(orders', t, p))
                       = Cardinality(RestingAt(orders, t, p)) + k * dn
    PROVE  Accounts'
<1> SUFFICES ASSUME NEW t \in Sides, NEW p \in Prices
             PROVE  /\ LevelAt(t, p)'.quantity <= RestingQty(orders', t, p)
                    /\ <<t, p>> \notin wiped' =>
                         /\ LevelAt(t, p)'.quantity = RestingQty(orders', t, p)
                         /\ LevelAt(t, p)'.orders = Cardinality(RestingAt(orders', t, p))
  BY DEF Accounts, NeverOverstates, ExactUnlessWiped
<1> DEFINE lv == LevelAt(t, p)
           lv1 == LevelAt(t, p)'
           rest == RestingQty(orders, t, p)
           rest1 == RestingQty(orders', t, p)
<1>1. /\ rest \in Nat /\ rest1 \in Nat
      /\ Cardinality(RestingAt(orders, t, p)) \in Nat
      /\ RestingAt(orders', t, p) = {} => Cardinality(RestingAt(orders', t, p)) = 0
      /\ RestingAt(orders', t, p) = {} <=> rest1 = 0
  BY NothingResting DEF Accounts
<1>2. SlotOf(p) \in Slots
  BY Typing
<1>3. lv \in PriceLevel /\ (lv.quantity <= 0 => lv = EmptyLevel)
  BY <1>2, ShownLevel DEF LevelAt, BookOK, SlotDiscipline
<1>4. lv1 \in PriceLevel /\ (lv1.quantity <= 0 => lv1 = EmptyLevel)
  BY <1>2, ShownLevel DEF LevelAt, BookOK, SlotDiscipline
<1>5. /\ lv.quantity <= rest
      /\ <<t, p>> \notin wiped => /\ lv.quantity = rest
                                  /\ lv.orders = Cardinality(RestingAt(orders, t, p))
  BY DEF Accounts, NeverOverstates, ExactUnlessWiped
<1>6. <<t, p>> \notin wiped' => <<t, p>> \notin wiped \/ RestingAt(orders', t, p) = {}
  BY DEF Wipe
<1>7. lv1 = IF t = s /\ p = price
            THEN IF lv.quantity + dq <= 0 THEN EmptyLevel
                 ELSE [price |-> p, quantity |-> lv.quantity + dq, orders |-> lv.orders + dn]
            ELSE lv
  BY LevelUpdated
<1>8. /\ t = s /\ p = price =>
           /\ rest1 = rest + dq
           /\ Cardinality(RestingAt(orders', t, p)) = Cardinality(RestingAt(orders, t, p)) + dn
      /\ ~(t = s /\ p = price) =>
           /\ rest1 = rest
           /\ Cardinality(RestingAt(orders', t, p)) = Cardinality(RestingAt(orders, t, p))
  BY <1>1
<1>q. lv.quantity \in Nat /\ lv.orders \in Int
  BY <1>3 DEF PriceLevel
<1>e. EmptyLevel.quantity = 0 /\ EmptyLevel.orders = 0
  BY DEF EmptyLevel
<1> HIDE DEF lv, lv1, rest, rest1
<1>9. lv1.quantity <= rest1
  <2>1. CASE t = s /\ p = price
    BY <2>1, <1>1, <1>5, <1>7, <1>8, <1>q, <1>e
  <2>2. CASE ~(t = s /\ p = price)
    BY <2>2, <1>5, <1>7, <1>8
  <2>3. QED
    BY <2>1, <2>2
<1>10. RestingAt(orders', t, p) = {} =>
         lv1.quantity = rest1 /\ lv1.orders = Cardinality(RestingAt(orders', t, p))
  BY <1>1, <1>4, <1>9, <1>e
<1>11. ASSUME <<t, p>> \notin wiped, RestingAt(orders', t, p) # {}
       PROVE  lv1.quantity = rest1 /\ lv1.orders = Cardinality(RestingAt(orders', t, p))
  <2>1. lv.quantity = rest /\ lv.orders = Cardinality(RestingAt(orders, t, p))
    BY <1>5, <1>11
  <2>2. rest1 > 0
    BY <1>1, <1>11
  <2>3. CASE t = s /\ p = price
    <3>1. ~(lv.quantity + dq <= 0)
      BY <2>1, <2>2, <2>3, <1>1, <1>8, <1>q
    <3>2. lv1 = [price |-> p, quantity |-> lv.quantity + dq, orders |-> lv.orders + dn]
      BY <2>3, <3>1, <1>7
    <3>3. QED
      BY <2>1, <2>3, <3>2, <1>8
  <2>4. CASE ~(t = s /\ p = price)
    BY <2>1, <2>4, <1>7, <1>8
  <2>5. QED
    BY <2>3, <2>4
<1>12. QED
  BY <1>6, <1>9, <1>10, <1>11 DEF lv1, rest1

\* A whole-level removal, noted as such, leaves nothing overstated either.
LEMMA RemoveAccounts ==
    ASSUME Window, BookOK, BookOK', Accounts, NEW s \in Sides, NEW price \in Prices,
           remove_level(s, price), Wipe({<<s, price>>}), Countable(orders'),
           \A t \in Sides, p \in Prices :
              ~(t = s /\ p = price) =>
                 /\ RestingQty(orders', t, p) = RestingQty(orders, t, p)
                 /\ Cardinality(RestingAt(orders', t, p)) = Cardinality(RestingAt(orders, t, p))
    PROVE  Accounts'
<1> SUFFICES ASSUME NEW t \in Sides, NEW p \in Prices
             PROVE  /\ LevelAt(t, p)'.quantity <= RestingQty(orders', t, p)
                    /\ <<t, p>> \notin wiped' =>
                         /\ LevelAt(t, p)'.quantity = RestingQty(orders', t, p)
                         /\ LevelAt(t, p)'.orders = Cardinality(RestingAt(orders', t, p))
  BY DEF Accounts, NeverOverstates, ExactUnlessWiped
<1>1. /\ RestingQty(orders', t, p) \in Nat
      /\ RestingAt(orders', t, p) = {} => Cardinality(RestingAt(orders', t, p)) = 0
      /\ RestingAt(orders', t, p) = {} <=> RestingQty(orders', t, p) = 0
  BY NothingResting
<1>2. LevelAt(t, p)' = IF t = s /\ p = price THEN EmptyLevel ELSE LevelAt(t, p)
  BY LevelRemoved
<1>3. EmptyLevel.quantity = 0 /\ EmptyLevel.orders = 0
  BY DEF EmptyLevel
<1>4. CASE t = s /\ p = price
  <2>1. <<t, p>> \notin wiped' => RestingAt(orders', t, p) = {}
    BY <1>4 DEF Wipe
  <2>2. QED
    BY <1>1, <1>2, <1>3, <1>4, <2>1
<1>5. CASE ~(t = s /\ p = price)
  <2>1. LevelAt(t, p).quantity <= RestingQty(orders, t, p)
    BY DEF Accounts, NeverOverstates
  <2>2. LevelAt(t, p)'.quantity <= RestingQty(orders', t, p)
    BY <1>2, <1>5, <2>1
  <2>3. CASE RestingAt(orders', t, p) = {}
    <3>1. SlotOf(p) \in Slots
      BY Typing
    <3>2. LevelAt(t, p)'.quantity <= 0 => LevelAt(t, p)' = EmptyLevel
      BY <3>1, ShownLevel DEF LevelAt, BookOK, SlotDiscipline
    <3>3. QED
      BY <1>1, <1>3, <2>2, <2>3, <3>2
  <2>4. CASE RestingAt(orders', t, p) # {} /\ <<t, p>> \notin wiped'
    <3>1. <<t, p>> \notin wiped
      BY <2>4 DEF Wipe
    <3>2. QED
      BY <1>2, <1>5, <2>2, <3>1 DEF Accounts, ExactUnlessWiped
  <2>5. QED
    BY <2>2, <2>3, <2>4
<1>6. QED
  BY <1>4, <1>5

-----------------------------------------------------------------------------
FeedInv == IInv /\ Window /\ Accounts

\* Entering an order that does not rest yet.
LEMMA EntryCounted ==
    ASSUME NEW r, r \notin DOMAIN orders, NEW o, orders' = With(r, o)
    PROVE  OneMore(orders, r, o, orders')
BY DEF OneMore, With

\* A changed order, after the others: the old table and the new one are one more
\* than the same rest.
LEMMA ChangeCounted ==
    ASSUME Countable(orders), NEW r \in DOMAIN orders, NEW left \in Nat \ {0},
           orders' = With(r, [orders[r] EXCEPT !.quantity = left]),
           orders[r] \in RestingOrder
    PROVE  /\ Countable(orders')
           /\ \A s \in Sides, p \in Prices :
                 LET k == IF s = orders[r].side /\ p = orders[r].price THEN 1 ELSE 0
                 IN  /\ RestingQty(orders', s, p)
                          = RestingQty(orders, s, p) + k * (left - orders[r].quantity)
                     /\ Cardinality(RestingAt(orders', s, p))
                          = Cardinality(RestingAt(orders, s, p)) + k * 0
<1> DEFINE old == orders[r]
           new == [old EXCEPT !.quantity = left]
           os == Without(r)
<1>1. /\ OneMore(os, r, old, orders) /\ Countable(os)
      /\ \A s \in Sides, p \in Prices :
            /\ RestingQty(os, s, p) \in Nat
            /\ Cardinality(RestingAt(os, s, p)) \in Nat
  BY OneLessCounted
<1>2. OneMore(os, r, new, orders')
  BY DEF OneMore, Without, With
<1>3. /\ new.quantity = left /\ new.side = old.side /\ new.price = old.price
      /\ old.quantity \in Nat \ {0}
  BY DEF RestingOrder, Countable
<1> HIDE DEF old, new, os
<1>4. Countable(orders')
  BY <1>1, <1>2, <1>3, OneMoreCounted
<1>5. ASSUME NEW s \in Sides, NEW p \in Prices
      PROVE  LET k == IF s = old.side /\ p = old.price THEN 1 ELSE 0
             IN  /\ RestingQty(orders', s, p)
                      = RestingQty(orders, s, p) + k * (left - old.quantity)
                 /\ Cardinality(RestingAt(orders', s, p))
                      = Cardinality(RestingAt(orders, s, p)) + k * 0
  <2> DEFINE j == IF old.side = s /\ old.price = p THEN 1 ELSE 0
  <2>1. /\ RestingQty(orders, s, p) = RestingQty(os, s, p) + j * old.quantity
        /\ Cardinality(RestingAt(orders, s, p)) = Cardinality(RestingAt(os, s, p)) + j
    BY <1>1, <1>3, OneMoreCounted
  <2>2. /\ RestingQty(orders', s, p) = RestingQty(os, s, p) + j * left
        /\ Cardinality(RestingAt(orders', s, p)) = Cardinality(RestingAt(os, s, p)) + j
    BY <1>1, <1>2, <1>3, OneMoreCounted
  <2>3. QED
    BY <1>1, <1>3, <2>1, <2>2
<1>6. QED
  BY <1>4, <1>5 DEF old

\* An erased order takes its quantity and itself with it.
LEMMA ErasureCounted ==
    ASSUME Countable(orders), NEW r \in DOMAIN orders, orders' = Without(r)
    PROVE  /\ Countable(orders')
           /\ \A s \in Sides, p \in Prices :
                 LET k == IF s = orders[r].side /\ p = orders[r].price THEN 1 ELSE 0
                 IN  /\ RestingQty(orders', s, p)
                          = RestingQty(orders, s, p) + k * (-orders[r].quantity)
                     /\ Cardinality(RestingAt(orders', s, p))
                          = Cardinality(RestingAt(orders, s, p)) + k * (-1)
<1> DEFINE old == orders[r]
<1>1. /\ OneMore(orders', r, old, orders) /\ Countable(orders')
      /\ \A s \in Sides, p \in Prices :
            /\ RestingQty(orders', s, p) \in Nat
            /\ Cardinality(RestingAt(orders', s, p)) \in Nat
  BY OneLessCounted
<1>2. old.quantity \in Nat \ {0}
  BY DEF Countable
<1> HIDE DEF old
<1>3. ASSUME NEW s \in Sides, NEW p \in Prices
      PROVE  LET k == IF s = old.side /\ p = old.price THEN 1 ELSE 0
             IN  /\ RestingQty(orders', s, p)
                      = RestingQty(orders, s, p) + k * (-old.quantity)
                 /\ Cardinality(RestingAt(orders', s, p))
                      = Cardinality(RestingAt(orders, s, p)) + k * (-1)
  <2> DEFINE j == IF old.side = s /\ old.price = p THEN 1 ELSE 0
  <2>1. /\ RestingQty(orders, s, p) = RestingQty(orders', s, p) + j * old.quantity
        /\ Cardinality(RestingAt(orders, s, p)) = Cardinality(RestingAt(orders', s, p)) + j
    BY <1>1, <1>2, OneMoreCounted
  <2>2. QED
    BY <1>1, <1>2, <2>1
<1>4. QED
  BY <1>1, <1>3 DEF old

\* An exchange sends messages that any feed may contain.
LEMMA LegalIsNext == OrdersOK /\ [FeedNext]_feedVars => [Next]_vars
<1> SUFFICES ASSUME OrdersOK, [FeedNext]_feedVars PROVE [Next]_vars
  OBVIOUS
<1>1. CASE LegalMessage
  BY <1>1 DEF LegalMessage, Next, OrdersOK
<1>2. CASE ResetBook /\ Wipe(Sides \X Prices)
  BY <1>2 DEF Next
<1>3. CASE UNCHANGED feedVars
  BY <1>3 DEF feedVars
<1>4. QED
  BY <1>1, <1>2, <1>3 DEF FeedNext

\* 'U' and 'E' of a legal feed keep the accounts.
LEMMA ReduceAccounts ==
    ASSUME Window, BookOK, BookOK', Accounts, OrdersOK,
           NEW r \in DOMAIN orders, NEW left \in Nat, NEW dq \in Int,
           dq = left - orders[r].quantity, Reduce(r, left, dq), Wipe(Exhausts(r, left))
    PROVE  Accounts'
<1>1. /\ orders[r] \in RestingOrder
      /\ orders[r].side \in Sides /\ orders[r].price \in Prices
      /\ Countable(orders)
  BY DEF OrdersOK, RestingOrder, Accounts
<1>2. CASE left = 0
  <2>1. /\ orders' = Without(r)
        /\ remove_level(orders[r].side, orders[r].price)
        /\ Wipe({<<orders[r].side, orders[r].price>>})
    BY <1>2 DEF Reduce, Exhausts
  <2>2. /\ Countable(orders')
        /\ \A s \in Sides, p \in Prices :
              ~(s = orders[r].side /\ p = orders[r].price) =>
                 /\ RestingQty(orders', s, p) = RestingQty(orders, s, p)
                 /\ Cardinality(RestingAt(orders', s, p)) = Cardinality(RestingAt(orders, s, p))
    BY <1>1, <2>1, ErasureCounted, NothingResting DEF Countable
  <2>3. QED
    BY <1>1, <2>1, <2>2, RemoveAccounts
<1>3. CASE left # 0
  <2>1. /\ left \in Nat \ {0}
        /\ orders' = With(r, [orders[r] EXCEPT !.quantity = left])
        /\ update_level(orders[r].side, orders[r].price, dq, 0)
    BY <1>3 DEF Reduce
  <2>2. /\ Countable(orders')
        /\ \A s \in Sides, p \in Prices :
              LET k == IF s = orders[r].side /\ p = orders[r].price THEN 1 ELSE 0
              IN  /\ RestingQty(orders', s, p) = RestingQty(orders, s, p) + k * dq
                  /\ Cardinality(RestingAt(orders', s, p))
                       = Cardinality(RestingAt(orders, s, p)) + k * 0
    BY <1>1, <2>1, ChangeCounted
  <2>3. QED
    BY <1>1, <2>1, <2>2, UpdateAccounts
<1>4. QED
  BY <1>2, <1>3

\* Every message of a legal feed, and every reset() in between, keeps the accounts.
LEMMA FeedStep == FeedInv /\ [FeedNext]_feedVars => FeedInv'
<1> SUFFICES ASSUME FeedInv, [FeedNext]_feedVars PROVE Accounts'
  BY LegalIsNext, InvStep DEF FeedInv, Window, IInv, TypeOK, OrdersOK
<1>0. BookOK /\ OrdersOK /\ Window /\ Accounts
  BY DEF FeedInv, IInv, TypeOK, BookOK, OrdersOK
<1>1. BookOK'
  <2>1. IInv'
    BY <1>0, LegalIsNext, InvStep DEF FeedInv
  <2>2. QED
    BY <2>1 DEF IInv, TypeOK, BookOK
<1>q. \A r \in DOMAIN orders : orders[r].quantity \in Nat
  BY <1>0 DEF Accounts, Countable
<1>2. ASSUME NEW r \in Refs \ DOMAIN orders, NEW s \in Sides, NEW qty \in WireQtys \ {0},
             NEW price \in Prices, handle_add(r, s, qty, price), Wipe({})
      PROVE  Accounts'
  <2> DEFINE o == [price |-> price, quantity |-> qty, side |-> s]
  <2>1. qty \in Nat \ {0} /\ o.quantity = qty /\ o.side = s /\ o.price = price
    BY QtysAssumption
  <2>2. OneMore(orders, r, o, orders')
    BY <1>2, EntryCounted DEF handle_add
  <2>3. Countable(orders')
        /\ \A t \in Sides, p \in Prices :
              LET k == IF o.side = t /\ o.price = p THEN 1 ELSE 0
              IN  /\ RestingQty(orders', t, p) = RestingQty(orders, t, p) + k * o.quantity
                  /\ Cardinality(RestingAt(orders', t, p))
                       = Cardinality(RestingAt(orders, t, p)) + k
    <3> HIDE DEF o
    <3>1. QED
      BY <1>0, <2>1, <2>2, OneMoreCounted DEF Accounts
  <2>4. \A t \in Sides, p \in Prices :
           LET k == IF t = s /\ p = price THEN 1 ELSE 0
           IN  /\ RestingQty(orders', t, p) = RestingQty(orders, t, p) + k * qty
               /\ Cardinality(RestingAt(orders', t, p))
                    = Cardinality(RestingAt(orders, t, p)) + k * 1
    BY <2>1, <2>3
  <2>5. update_level(s, price, qty, 1)
    BY <1>2 DEF handle_add
  <2>6. QED
    BY <1>0, <1>1, <1>2, <2>1, <2>3, <2>4, <2>5, UpdateAccounts
<1>3. ASSUME NEW r \in DOMAIN orders, NEW qty \in WireQtys, handle_update(r, qty),
             Wipe(Exhausts(r, qty))
      PROVE  Accounts'
  <2>1. qty \in Nat /\ qty - orders[r].quantity \in Int
    BY <1>q, QtysAssumption
  <2>2. QED
    BY <1>0, <1>1, <1>3, <2>1, ReduceAccounts DEF handle_update
<1>4. ASSUME NEW r \in DOMAIN orders, handle_delete(r), Wipe({})
      PROVE  Accounts'
  <2>1. /\ orders[r].side \in Sides /\ orders[r].price \in Prices
        /\ -orders[r].quantity \in Int
    BY <1>0, <1>q DEF OrdersOK, RestingOrder
  <2>2. orders' = Without(r)
        /\ update_level(orders[r].side, orders[r].price, -orders[r].quantity, -1)
    BY <1>4 DEF handle_delete
  <2>3. QED
    BY <1>0, <1>1, <1>4, <2>1, <2>2, ErasureCounted, UpdateAccounts DEF Accounts
<1>5. ASSUME NEW r \in DOMAIN orders, NEW qty \in WireQtys \ {0}, qty <= orders[r].quantity,
             handle_execute(r, qty), Wipe(Exhausts(r, orders[r].quantity - qty))
      PROVE  Accounts'
  <2>0. qty \in Nat /\ orders[r].quantity \in Nat
    BY <1>q, QtysAssumption
  <2>1. /\ orders[r].quantity - qty \in Nat /\ -qty \in Int
        /\ -qty = (orders[r].quantity - qty) - orders[r].quantity
    BY <1>5, <2>0
  <2>2. QED
    BY <1>0, <1>1, <1>5, <2>1, ReduceAccounts DEF handle_execute
<1>6. ASSUME Ignored, Wipe({}) PROVE Accounts'
  <2>1. UNCHANGED <<levels, orders>> /\ wiped' \subseteq wiped
        /\ \A x \in wiped \ wiped' : RestingAt(orders, x[1], x[2]) = {}
    BY <1>6 DEF Ignored, bookVars, Wipe
  <2>2. \A t \in Sides, p \in Prices : LevelAt(t, p)' = LevelAt(t, p)
    BY <2>1 DEF LevelAt
  <2>3. Countable(orders') /\ NeverOverstates'
    BY <1>0, <2>1, <2>2 DEF Accounts, NeverOverstates
  <2>4. ASSUME NEW t \in Sides, NEW p \in Prices, <<t, p>> \notin wiped'
        PROVE  /\ LevelAt(t, p)'.quantity = RestingQty(orders', t, p)
               /\ LevelAt(t, p)'.orders = Cardinality(RestingAt(orders', t, p))
    <3>1. CASE <<t, p>> \notin wiped
      BY <1>0, <2>1, <2>2, <3>1 DEF Accounts, ExactUnlessWiped
    <3>2. CASE RestingAt(orders, t, p) = {}
      <4>1. /\ RestingQty(orders, t, p) = 0 /\ Cardinality(RestingAt(orders, t, p)) = 0
            /\ LevelAt(t, p).quantity <= RestingQty(orders, t, p)
        BY <1>0, <3>2, NothingResting DEF Accounts, NeverOverstates
      <4>2. LevelAt(t, p).quantity <= 0 => LevelAt(t, p) = EmptyLevel
        BY <1>0, Typing, ShownLevel DEF LevelAt, BookOK, SlotDiscipline
      <4>3. QED
        BY <2>1, <2>2, <4>1, <4>2 DEF EmptyLevel
    <3>3. QED
      BY <2>1, <2>4, <3>1, <3>2
  <2>5. QED
    BY <2>3, <2>4 DEF Accounts, ExactUnlessWiped
<1>7. ASSUME ResetBook, Wipe(Sides \X Prices) PROVE Accounts'
  <2>1. \A t \in Sides, p \in Prices : LevelAt(t, p)' = EmptyLevel
    BY <1>7, Typing, EmptyLevelFacts DEF ResetBook, EmptyBook, LevelAt
  <2>2. orders' = orders
    BY <1>7 DEF ResetBook
  <2>3. \A t \in Sides, p \in Prices : <<t, p>> \notin wiped' => RestingAt(orders', t, p) = {}
    BY <1>7 DEF Wipe
  <2>4. EmptyLevel.quantity = 0 /\ EmptyLevel.orders = 0
    BY DEF EmptyLevel
  <2>5. QED
    BY <1>0, <2>1, <2>2, <2>3, <2>4, NothingResting DEF Accounts, NeverOverstates, ExactUnlessWiped
<1>8. CASE UNCHANGED feedVars
  BY <1>0, <1>8 DEF feedVars, vars, bookVars, Accounts, NeverOverstates, ExactUnlessWiped, LevelAt
<1>9. QED
  BY <1>2, <1>3, <1>4, <1>5, <1>6, <1>7, <1>8
     DEF FeedNext, LegalMessage, UnknownRef, NoBookMessage

\* Nothing rests and nothing is shown at first.
LEMMA FeedStart == FeedInit => FeedInv
<1> SUFFICES ASSUME FeedInit PROVE Accounts
  BY InvInit DEF FeedInit, FeedInv
<1>1. Init /\ DOMAIN orders = {}
  BY DEF FeedInit, Init
<1>2. \A t \in Sides, p \in Prices : LevelAt(t, p) = EmptyLevel
  BY <1>1, Typing, EmptyLevelFacts DEF Init, EmptyBook, LevelAt
<1>3. \A t \in Sides, p \in Prices :
         RestingAt(orders, t, p) = {} /\ Units(orders, t, p) = {}
  BY <1>1 DEF RestingAt, Units
<1>4. IsFiniteSet({}) /\ Cardinality({}) = 0
  BY FS_EmptySet
<1>5. \A t \in Sides, p \in Prices :
         /\ LevelAt(t, p).quantity = 0 /\ LevelAt(t, p).orders = 0
         /\ RestingQty(orders, t, p) = 0 /\ Cardinality(RestingAt(orders, t, p)) = 0
  BY <1>2, <1>3, <1>4 DEF RestingQty, EmptyLevel
<1>6. Countable(orders)
  BY <1>1, <1>3, <1>4 DEF Countable
<1>7. QED
  BY <1>5, <1>6 DEF Accounts, NeverOverstates, ExactUnlessWiped

\* The invariant of a legal feed.
LEMMA FeedInvariance == FeedSpec => []FeedInv
BY FeedStart, FeedStep, PTL DEF FeedSpec

\* The feed of an exchange is one of the feeds that Spec allows, so whatever is
\* proved of any messages holds of it.
THEOREM FeedIsAnyFeed == FeedSpec => Spec
<1>1. FeedInit => Init
  BY DEF FeedInit
<1>2. FeedInv => OrdersOK
  BY DEF FeedInv, IInv, TypeOK, OrdersOK
<1>3. QED
  BY <1>1, <1>2, FeedInvariance, LegalIsNext, PTL DEF FeedSpec, Spec

\* Under a legal feed no level ever shows more than the orders resting at its
\* price add up to, in spite of whole-level removals and resets.
THEOREM BookNeverOverstates == FeedSpec => []NeverOverstates
<1>1. FeedInv => NeverOverstates
  BY DEF FeedInv, Accounts
<1>2. QED
  BY FeedInvariance, <1>1, PTL

\* Under a legal feed a level that was not wiped under its orders is exactly
\* their sum and their number.
THEOREM LevelsExactUnlessWiped == FeedSpec => []ExactUnlessWiped
<1>1. FeedInv => ExactUnlessWiped
  BY DEF FeedInv, Accounts
<1>2. QED
  BY FeedInvariance, <1>1, PTL

\* Under a legal feed the best price shown is always one that an order rests at.
THEOREM TopIsBackedByAnOrder == FeedSpec => []TopIsBacked
<1>1. FeedInv => TopIsBacked
  <2> SUFFICES ASSUME FeedInv, NEW s \in Sides, tob[s] # EmptyLevel
               PROVE  RestingAt(orders, s, tob[s].price) # {}
    BY DEF TopIsBacked
  <2>1. ~IsEmpty(tob[s]) /\ \E j \in Slots : tob[s] = levels[s][j]
    BY DEF FeedInv, IInv, TobIsBest, IsBestOf
  <2>2. PICK j \in Slots : tob[s] = levels[s][j]
    BY <2>1
  <2>3. tob[s].price \in Prices /\ SlotOf(tob[s].price) = j
    BY <2>1, <2>2, EmptyLevelFacts DEF FeedInv, IInv, SlotDiscipline, WellPlaced
  <2>4. LevelAt(s, tob[s].price) = tob[s]
    BY <2>2, <2>3 DEF LevelAt
  <2>5. /\ tob[s].quantity <= RestingQty(orders, s, tob[s].price)
        /\ tob[s].quantity \in Nat /\ tob[s].quantity > 0
        /\ RestingQty(orders, s, tob[s].price) \in Nat
    BY <2>1, <2>3, <2>4, NothingResting
       DEF FeedInv, Accounts, NeverOverstates, IInv, TypeOK, IsEmpty, PriceLevel
  <2>6. QED
    BY <2>3, <2>5, NothingResting DEF FeedInv, Accounts
<1>2. QED
  BY FeedInvariance, <1>1, PTL

-----------------------------------------------------------------------------
(* The bytes of a message: FeedWire *)

\* Quotient and remainder put a number together again.
LEMMA DivMod ==
    ASSUME NEW v \in Int, NEW d \in Nat \ {0}
    PROVE  v \div d \in Int /\ v % d \in 0..(d - 1) /\ v = (v \div d) * d + (v % d)
OBVIOUS

\* A number of two parts is put together from them, and each fits its place.
LEMMA Parts ==
    ASSUME NEW d \in Nat \ {0}, NEW v \in 0..(d * d - 1)
    PROVE  /\ v \div d \in 0..(d - 1) /\ v % d \in 0..(d - 1)
           /\ v = (v \div d) * d + (v % d)
<1> DEFINE q == v \div d
           r == v % d
<1>1. q \in Int /\ r \in 0..(d - 1) /\ v = q * d + r /\ v \in Int /\ d * d \in Int
  BY DivMod
<1> HIDE DEF q, r
<1>2. ASSUME q < 0 PROVE FALSE
  <2>1. q * d <= (-1) * d
    BY <1>1, <1>2
  <2>2. QED
    BY <1>1, <2>1
<1>3. ASSUME q >= d PROVE FALSE
  <2>1. d * d <= q * d
    BY <1>1, <1>3
  <2>2. QED
    BY <1>1, <2>1
<1>4. QED
  BY <1>1, <1>2, <1>3 DEF q, r

\* The widths are positive.
LEMMA Widths ==
    /\ Base \in Nat \ {0} /\ Word \in Nat \ {0} /\ Half \in Nat \ {0} /\ Full \in Nat \ {0}
    /\ Word = Base * Base /\ Half = Word * Word /\ Full = Half * Half
BY WireAssumption DEF Word, Half, Full

\* The two bytes at at are those of v, and so on.
Holds16(m, at, v) == m[at] = write_be16(v, 0) /\ m[at + 1] = write_be16(v, 1)
Holds32(m, at, v) == \A k \in at..(at + 3) : m[k] = write_be32(v, k - at)
Holds64(m, at, v) == \A k \in at..(at + 7) : m[k] = write_be64(v, k - at)

\* What was written in two bytes is read from them.
LEMMA Read16 ==
    ASSUME NEW m, NEW at \in Nat, NEW v \in 0..(Word - 1), Holds16(m, at, v)
    PROVE  be16(m, at) = v
<1>1. v = (v \div Base) * Base + (v % Base)
  BY Widths, DivMod
<1>2. QED
  BY <1>1 DEF Holds16, write_be16, be16

\* In four.
LEMMA Read32 ==
    ASSUME NEW m, NEW at \in Nat, NEW v \in 0..(Half - 1), Holds32(m, at, v)
    PROVE  be32(m, at) = v
<1>1. v \div Word \in 0..(Word - 1) /\ v % Word \in 0..(Word - 1)
      /\ v = (v \div Word) * Word + (v % Word)
  <2>1. v \in 0..(Word * Word - 1)
    BY Widths
  <2>2. QED
    BY <2>1, Widths, Parts
<1>2. Holds16(m, at, v \div Word)
  BY DEF Holds32, Holds16, write_be32
<1>3. Holds16(m, at + 2, v % Word)
  BY DEF Holds32, Holds16, write_be32
<1>4. QED
  BY <1>1, <1>2, <1>3, Read16 DEF be32

\* In eight.
LEMMA Read64 ==
    ASSUME NEW m, NEW at \in Nat, NEW v \in 0..(Full - 1), Holds64(m, at, v)
    PROVE  be64(m, at) = v
<1>1. v \div Half \in 0..(Half - 1) /\ v % Half \in 0..(Half - 1)
      /\ v = (v \div Half) * Half + (v % Half)
  <2>1. v \in 0..(Half * Half - 1)
    BY Widths
  <2>2. QED
    BY <2>1, Widths, Parts
<1>2. Holds32(m, at, v \div Half)
  BY DEF Holds64, Holds32, write_be64
<1>3. Holds32(m, at + 4, v % Half)
  BY DEF Holds64, Holds32, write_be64
<1>4. QED
  BY <1>1, <1>2, <1>3, Read32 DEF be64

\* A signed number survives the way through an unsigned one.
LEMMA SignedUnsigned ==
    ASSUME NEW v \in Int, -Full <= 2 * v, 2 * v < Full
    PROVE  Unsigned(v) \in 0..(Full - 1) /\ Signed(Unsigned(v)) = v
<1>1. Full \in Nat \ {0}
  BY Widths
<1>2. CASE v >= 0
  <2>1. v % Full = v
    BY <1>1, <1>2
  <2>2. QED
    BY <1>1, <1>2, <2>1 DEF Unsigned, Signed
<1>3. CASE v < 0
  <2>1. v % Full = v + Full
    BY <1>1, <1>3
  <2>2. QED
    BY <1>1, <1>3, <2>1 DEF Unsigned, Signed
<1>4. QED
  BY <1>2, <1>3

-----------------------------------------------------------------------------
(* Messages *)

\* What the handler of a type reads.
FieldsOf(t, m) ==
    CASE t = "A" -> AddFields(m)
      [] t = "U" -> UpdateFields(m)
      [] t = "D" -> DeleteFields(m)
      [] t = "E" -> ExecuteFields(m)
      [] t = "P" -> TradeFields(m)

\* The switch goes by the first byte, and its handler by the length.
LEMMA Switch ==
    ASSUME NEW t \in DOMAIN SizeOf, NEW m, NEW len \in 0..31, len >= 1 => m[0] = Char[t]
    PROVE  Read(m, len) = IF len >= SizeOf[t] THEN FieldsOf(t, m) ELSE Nothing
<1>1. DOMAIN SizeOf = {"A", "U", "D", "E", "P"} /\ \A u \in DOMAIN SizeOf : SizeOf[u] >= 1
  BY DEF SizeOf
<1>2. \A u \in DOMAIN SizeOf : Char[u] = Char[t] => u = t
  BY <1>1, WireAssumption
<1>3. ASSUME NEW u \in DOMAIN SizeOf, u # t, len >= 1 PROVE m[0] # Char[u]
  BY <1>2, <1>3
<1>4. SizeOf[t] >= 1
  BY <1>1
<1>5. CASE len >= SizeOf[t]
  <2>1. len >= 1
    <3>1. SizeOf[t] \in Nat
      BY DEF SizeOf
    <3>2. QED
      BY <1>4, <1>5, <3>1
  <2>2. QED
    BY <1>1, <1>2, <1>5, <2>1 DEF Read, FieldsOf
<1>6. CASE ~(len >= SizeOf[t])
  BY <1>1, <1>3, <1>6 DEF Read
<1>7. QED
  BY <1>5, <1>6

\* The side is told by its character.
LEMMA SideRead ==
    ASSUME NEW s \in Sides, NEW m, NEW at, m[at] = SideChar(s)
    PROVE  SideAt(m, at) = s
BY WireAssumption DEF SideAt, SideChar, Sides, Bid, Ask

\* Timestamp, reference and quantity are read as they were written.
LEMMA FieldsRead ==
    ASSUME FieldsFit
    PROVE  /\ \A ts \in Timestamps : ts \in 0..(Full - 1)
           /\ \A ref \in Refs : ref \in 0..(Full - 1)
           /\ \A qty \in WireQtys : qty \in 0..(Half - 1)
           /\ \A price \in Prices : /\ Unsigned(price) \in 0..(Full - 1)
                                    /\ Signed(Unsigned(price)) = price
<1>1. \A price \in Prices : price \in Int /\ -Full <= 2 * price /\ 2 * price < Full
  BY PricesAssumption DEF FieldsFit
<1>2. QED
  BY <1>1, SignedUnsigned, WireAssumption DEF FieldsFit

\* The fields of a buffer are those of its first len bytes, if they are among them.
LEMMA FirstHolds ==
    ASSUME NEW b, NEW len \in 0..31, NEW at \in Nat
    PROVE  /\ at < len => First(b, len)[at] = b[at]
           /\ \A v : at + 3 < len /\ Holds32(b, at, v) => Holds32(First(b, len), at, v)
           /\ \A v : at + 7 < len /\ Holds64(b, at, v) => Holds64(First(b, len), at, v)
<1>1. ASSUME NEW k \in Nat, k < len PROVE First(b, len)[k] = b[k]
  BY <1>1 DEF First
<1>2. ASSUME NEW v, at + 3 < len, Holds32(b, at, v) PROVE Holds32(First(b, len), at, v)
  BY <1>1, <1>2 DEF Holds32
<1>3. ASSUME NEW v, at + 7 < len, Holds64(b, at, v) PROVE Holds64(First(b, len), at, v)
  BY <1>1, <1>3 DEF Holds64
<1>4. QED
  BY <1>1, <1>2, <1>3

\* The type byte is there unless the buffer is empty.
LEMMA FirstByte ==
    ASSUME NEW b, NEW len \in 0..31, len >= 1
    PROVE  First(b, len)[0] = b[0]
BY DEF First

\* Where the builders put the fields.
LEMMA LayoutOfAdd ==
    ASSUME NEW g
    PROVE  LET b == build_add(g)
           IN  /\ b[0] = Char["A"] /\ Holds64(b, 1, g.ts) /\ Holds64(b, 9, g.ref)
               /\ b[17] = SideChar(g.side) /\ Holds32(b, 18, g.qty)
               /\ Holds64(b, 22, Unsigned(g.price))
BY DEF Offsets, Holds32, Holds64, build_add

LEMMA LayoutOfDelete ==
    ASSUME NEW g
    PROVE  LET b == build_delete(g)
           IN  b[0] = Char["D"] /\ Holds64(b, 1, g.ts) /\ Holds64(b, 9, g.ref)
BY DEF Offsets, Holds32, Holds64, build_delete

LEMMA LayoutWithQty ==
    ASSUME NEW g, NEW t
    PROVE  LET b == WithQty(t, g)
           IN  /\ b[0] = Char[t] /\ Holds64(b, 1, g.ts) /\ Holds64(b, 9, g.ref)
               /\ Holds32(b, 17, g.qty)
BY DEF Offsets, Holds32, Holds64, WithQty

LEMMA LayoutOfTrade ==
    ASSUME NEW g
    PROVE  LET b == MsgTrade(g)
           IN  /\ b[0] = Char["P"] /\ Holds64(b, 1, g.ts) /\ b[9] = SideChar(g.side)
               /\ Holds32(b, 10, g.qty) /\ Holds64(b, 14, Unsigned(g.price))
BY DEF Offsets, Holds32, Holds64, MsgTrade

-----------------------------------------------------------------------------
(* A message is read as it was built, with any bytes after it, and not at all *)
(* when it was cut short                                                      *)

\* An add.
LEMMA AddRead ==
    ASSUME FieldsFit, NEW g \in Adds, NEW len \in 0..31
    PROVE  Read(First(build_add(g), len), len) = IF len >= SizeOf["A"] THEN g ELSE Nothing
<1> DEFINE b == build_add(g)
           m == First(b, len)
<1>1. /\ g.ts \in Timestamps /\ g.ref \in Refs /\ g.side \in Sides
      /\ g.qty \in WireQtys /\ g.price \in Prices
  BY DEF Adds
<1>2. /\ b[0] = Char["A"] /\ Holds64(b, 1, g.ts) /\ Holds64(b, 9, g.ref)
      /\ Holds64(b, 22, Unsigned(g.price)) /\ Holds32(b, 18, g.qty)
      /\ b[17] = SideChar(g.side)
  BY LayoutOfAdd
<1> HIDE DEF b
<1>3. len >= 1 => m[0] = Char["A"]
  BY <1>2, FirstByte
<1>4. ASSUME len >= 30 PROVE AddFields(m) = g
  <2>1. /\ Holds64(m, 1, g.ts) /\ Holds64(m, 9, g.ref)
        /\ Holds64(m, 22, Unsigned(g.price)) /\ Holds32(m, 18, g.qty)
        /\ m[17] = SideChar(g.side)
    <3>1. Holds64(m, 1, g.ts) /\ Holds64(m, 9, g.ref)
      BY <1>2, <1>4, FirstHolds
    <3>2. Holds64(m, 22, Unsigned(g.price))
      BY <1>2, <1>4, FirstHolds
    <3>3. Holds32(m, 18, g.qty)
      BY <1>2, <1>4, FirstHolds
    <3>4. m[17] = SideChar(g.side)
      BY <1>2, <1>4, FirstHolds
    <3>5. QED
      BY <3>1, <3>2, <3>3, <3>4
  <2> HIDE DEF m
  <2>2. /\ be64(m, 1) = g.ts /\ be64(m, 9) = g.ref
        /\ be64(m, 22) = Unsigned(g.price)
    BY <1>1, <2>1, FieldsRead, Read64
  <2>3. be32(m, 18) = g.qty
    BY <1>1, <2>1, FieldsRead, Read32
  <2>4. SideAt(m, 17) = g.side /\ Signed(Unsigned(g.price)) = g.price
    BY <1>1, <2>1, SideRead, FieldsRead
  <2>5. QED
    BY <2>2, <2>3, <2>4 DEF AddFields, Adds
<1>5. SizeOf["A"] = 30 /\ "A" \in DOMAIN SizeOf /\ FieldsOf("A", m) = AddFields(m)
  BY DEF SizeOf, FieldsOf
<1> HIDE DEF m
<1>6. Read(m, len) = IF len >= 30 THEN AddFields(m) ELSE Nothing
  BY <1>3, <1>5, Switch
<1>7. QED
  BY <1>4, <1>5, <1>6 DEF b, m

\* An update.
LEMMA UpdateRead ==
    ASSUME FieldsFit, NEW g \in Sized("U"), NEW len \in 0..31
    PROVE  Read(First(MsgOrderUpdate(g), len), len) = IF len >= SizeOf["U"] THEN g ELSE Nothing
<1> DEFINE b == MsgOrderUpdate(g)
           m == First(b, len)
<1>1. g.ts \in Timestamps /\ g.ref \in Refs /\ g.qty \in WireQtys
  BY DEF Sized
<1>2. /\ b[0] = Char["U"] /\ Holds64(b, 1, g.ts) /\ Holds64(b, 9, g.ref)
      /\ Holds32(b, 17, g.qty)
  BY LayoutWithQty DEF MsgOrderUpdate
<1> HIDE DEF b
<1>3. len >= 1 => m[0] = Char["U"]
  BY <1>2, FirstByte
<1>4. ASSUME len >= 21 PROVE UpdateFields(m) = g
  <2>1. Holds64(m, 1, g.ts) /\ Holds64(m, 9, g.ref) /\ Holds32(m, 17, g.qty)
    <3>1. Holds64(m, 1, g.ts) /\ Holds64(m, 9, g.ref)
      BY <1>2, <1>4, FirstHolds
    <3>2. Holds32(m, 17, g.qty)
      BY <1>2, <1>4, FirstHolds
    <3>3. QED
      BY <3>1, <3>2
  <2> HIDE DEF m
  <2>2. be64(m, 1) = g.ts /\ be64(m, 9) = g.ref
    BY <1>1, <2>1, FieldsRead, Read64
  <2>3. be32(m, 17) = g.qty
    BY <1>1, <2>1, FieldsRead, Read32
  <2>4. QED
    BY <2>2, <2>3 DEF UpdateFields, Sized
<1>5. SizeOf["U"] = 21 /\ "U" \in DOMAIN SizeOf /\ FieldsOf("U", m) = UpdateFields(m)
  BY DEF SizeOf, FieldsOf
<1> HIDE DEF m
<1>6. Read(m, len) = IF len >= 21 THEN UpdateFields(m) ELSE Nothing
  BY <1>3, <1>5, Switch
<1>7. QED
  BY <1>4, <1>5, <1>6 DEF b, m

\* A delete.
LEMMA DeleteRead ==
    ASSUME FieldsFit, NEW g \in Orders("D"), NEW len \in 0..31
    PROVE  Read(First(build_delete(g), len), len) = IF len >= SizeOf["D"] THEN g ELSE Nothing
<1> DEFINE b == build_delete(g)
           m == First(b, len)
<1>1. g.ts \in Timestamps /\ g.ref \in Refs
  BY DEF Orders
<1>2. b[0] = Char["D"] /\ Holds64(b, 1, g.ts) /\ Holds64(b, 9, g.ref)
  BY LayoutOfDelete
<1> HIDE DEF b
<1>3. len >= 1 => m[0] = Char["D"]
  BY <1>2, FirstByte
<1>4. ASSUME len >= 17 PROVE DeleteFields(m) = g
  <2>1. Holds64(m, 1, g.ts) /\ Holds64(m, 9, g.ref)
    BY <1>2, <1>4, FirstHolds
  <2> HIDE DEF m
  <2>2. be64(m, 1) = g.ts /\ be64(m, 9) = g.ref
    BY <1>1, <2>1, FieldsRead, Read64
  <2>3. QED
    BY <2>2 DEF DeleteFields, Orders
<1>5. SizeOf["D"] = 17 /\ "D" \in DOMAIN SizeOf /\ FieldsOf("D", m) = DeleteFields(m)
  BY DEF SizeOf, FieldsOf
<1> HIDE DEF m
<1>6. Read(m, len) = IF len >= 17 THEN DeleteFields(m) ELSE Nothing
  BY <1>3, <1>5, Switch
<1>7. QED
  BY <1>4, <1>5, <1>6 DEF b, m

\* An execution.
LEMMA ExecuteRead ==
    ASSUME FieldsFit, NEW g \in Sized("E"), NEW len \in 0..31
    PROVE  Read(First(build_execute(g), len), len) = IF len >= SizeOf["E"] THEN g ELSE Nothing
<1> DEFINE b == build_execute(g)
           m == First(b, len)
<1>1. g.ts \in Timestamps /\ g.ref \in Refs /\ g.qty \in WireQtys
  BY DEF Sized
<1>2. /\ b[0] = Char["E"] /\ Holds64(b, 1, g.ts) /\ Holds64(b, 9, g.ref)
      /\ Holds32(b, 17, g.qty)
  BY LayoutWithQty DEF build_execute
<1> HIDE DEF b
<1>3. len >= 1 => m[0] = Char["E"]
  BY <1>2, FirstByte
<1>4. ASSUME len >= 21 PROVE ExecuteFields(m) = g
  <2>1. Holds64(m, 1, g.ts) /\ Holds64(m, 9, g.ref) /\ Holds32(m, 17, g.qty)
    <3>1. Holds64(m, 1, g.ts) /\ Holds64(m, 9, g.ref)
      BY <1>2, <1>4, FirstHolds
    <3>2. Holds32(m, 17, g.qty)
      BY <1>2, <1>4, FirstHolds
    <3>3. QED
      BY <3>1, <3>2
  <2> HIDE DEF m
  <2>2. be64(m, 1) = g.ts /\ be64(m, 9) = g.ref
    BY <1>1, <2>1, FieldsRead, Read64
  <2>3. be32(m, 17) = g.qty
    BY <1>1, <2>1, FieldsRead, Read32
  <2>4. QED
    BY <2>2, <2>3 DEF ExecuteFields, Sized
<1>5. SizeOf["E"] = 21 /\ "E" \in DOMAIN SizeOf /\ FieldsOf("E", m) = ExecuteFields(m)
  BY DEF SizeOf, FieldsOf
<1> HIDE DEF m
<1>6. Read(m, len) = IF len >= 21 THEN ExecuteFields(m) ELSE Nothing
  BY <1>3, <1>5, Switch
<1>7. QED
  BY <1>4, <1>5, <1>6 DEF b, m

\* A trade.
LEMMA TradeRead ==
    ASSUME FieldsFit, NEW g \in Trades, NEW len \in 0..31
    PROVE  Read(First(MsgTrade(g), len), len) = IF len >= SizeOf["P"] THEN g ELSE Nothing
<1> DEFINE b == MsgTrade(g)
           m == First(b, len)
<1>1. /\ g.ts \in Timestamps /\ g.side \in Sides /\ g.qty \in WireQtys
      /\ g.price \in Prices
  BY DEF Trades
<1>2. /\ b[0] = Char["P"] /\ Holds64(b, 1, g.ts)
      /\ Holds64(b, 14, Unsigned(g.price)) /\ Holds32(b, 10, g.qty)
      /\ b[9] = SideChar(g.side)
  BY LayoutOfTrade
<1> HIDE DEF b
<1>3. len >= 1 => m[0] = Char["P"]
  BY <1>2, FirstByte
<1>4. ASSUME len >= 22 PROVE TradeFields(m) = g
  <2>1. /\ Holds64(m, 1, g.ts) /\ Holds64(m, 14, Unsigned(g.price))
        /\ Holds32(m, 10, g.qty) /\ m[9] = SideChar(g.side)
    <3>1. Holds64(m, 1, g.ts)
      BY <1>2, <1>4, FirstHolds
    <3>2. Holds64(m, 14, Unsigned(g.price))
      BY <1>2, <1>4, FirstHolds
    <3>3. Holds32(m, 10, g.qty)
      BY <1>2, <1>4, FirstHolds
    <3>4. m[9] = SideChar(g.side)
      BY <1>2, <1>4, FirstHolds
    <3>5. QED
      BY <3>1, <3>2, <3>3, <3>4
  <2> HIDE DEF m
  <2>2. be64(m, 1) = g.ts /\ be64(m, 14) = Unsigned(g.price)
    BY <1>1, <2>1, FieldsRead, Read64
  <2>3. be32(m, 10) = g.qty
    BY <1>1, <2>1, FieldsRead, Read32
  <2>4. SideAt(m, 9) = g.side /\ Signed(Unsigned(g.price)) = g.price
    BY <1>1, <2>1, SideRead, FieldsRead
  <2>5. QED
    BY <2>2, <2>3, <2>4 DEF TradeFields, Trades
<1>5. SizeOf["P"] = 22 /\ "P" \in DOMAIN SizeOf /\ FieldsOf("P", m) = TradeFields(m)
  BY DEF SizeOf, FieldsOf
<1> HIDE DEF m
<1>6. Read(m, len) = IF len >= 22 THEN TradeFields(m) ELSE Nothing
  BY <1>3, <1>5, Switch
<1>7. QED
  BY <1>4, <1>5, <1>6 DEF b, m

-----------------------------------------------------------------------------
(* process() gets what was sent *)

\* A buffer of no known type is not read.
LEMMA UnknownRead ==
    ASSUME NEW c \in UnknownTypes
    PROVE  Read(Unknown(c), 31) = Nothing
<1>1. Unknown(c)[0] = c
  BY DEF Unknown, Offsets
<1>2. \A t \in {"A", "U", "D", "E", "P"} : c # Char[t]
  BY DEF UnknownTypes, SizeOf
<1>3. QED
  BY <1>1, <1>2 DEF Read

\* The messages of the venue.
Sendable == Adds \cup Sized("U") \cup Orders("D") \cup Sized("E") \cup Trades

\* Whatever of a message process() gets, it reads the message as it was sent or
\* does not handle it.
LEMMA WhateverIsReceived ==
    ASSUME FieldsFit, NEW x \in Received
    PROVE  x.got = x.sent /\ x.sent \in Sendable \cup {Nothing}
<1>1. ASSUME NEW pair \in Messages, NEW len \in 0..31
      PROVE  /\ Read(First(pair[2], len), len) =
                  IF len >= SizeOf[pair[1].type] THEN pair[1] ELSE Nothing
             /\ pair[1] \in Sendable
  <2>1. CASE \E g \in Adds : pair = <<g, build_add(g)>>
    <3>1. PICK g \in Adds : pair = <<g, build_add(g)>>
      BY <2>1
    <3>2. g.type = "A"
      BY DEF Adds
    <3>3. QED
      BY <3>1, <3>2, AddRead DEF Sendable
  <2>2. CASE \E g \in Sized("U") : pair = <<g, MsgOrderUpdate(g)>>
    <3>1. PICK g \in Sized("U") : pair = <<g, MsgOrderUpdate(g)>>
      BY <2>2
    <3>2. g.type = "U"
      BY DEF Sized
    <3>3. QED
      BY <3>1, <3>2, UpdateRead DEF Sendable
  <2>3. CASE \E g \in Orders("D") : pair = <<g, build_delete(g)>>
    <3>1. PICK g \in Orders("D") : pair = <<g, build_delete(g)>>
      BY <2>3
    <3>2. g.type = "D"
      BY DEF Orders
    <3>3. QED
      BY <3>1, <3>2, DeleteRead DEF Sendable
  <2>4. CASE \E g \in Sized("E") : pair = <<g, build_execute(g)>>
    <3>1. PICK g \in Sized("E") : pair = <<g, build_execute(g)>>
      BY <2>4
    <3>2. g.type = "E"
      BY DEF Sized
    <3>3. QED
      BY <3>1, <3>2, ExecuteRead DEF Sendable
  <2>5. CASE \E g \in Trades : pair = <<g, MsgTrade(g)>>
    <3>1. PICK g \in Trades : pair = <<g, MsgTrade(g)>>
      BY <2>5
    <3>2. g.type = "P"
      BY DEF Trades
    <3>3. QED
      BY <3>1, <3>2, TradeRead DEF Sendable
  <2>6. QED
    BY <2>1, <2>2, <2>3, <2>4, <2>5 DEF Messages
<1>2. ASSUME NEW pair \in Messages, NEW len \in 0..31, x = OfMessage(pair, len)
      PROVE  x.got = x.sent /\ x.sent \in Sendable \cup {Nothing}
  <2>1. /\ x.sent = IF len >= SizeOf[pair[1].type] THEN pair[1] ELSE Nothing
        /\ x.got = Read(First(pair[2], len), len)
    BY <1>2 DEF OfMessage
  <2>2. x.got = x.sent
    BY <1>1, <2>1
  <2>3. pair[1] \in Sendable
    BY <1>1
  <2>4. QED
    BY <2>1, <2>2, <2>3
<1>3. ASSUME NEW c \in UnknownTypes, x = OfUnknown(c)
      PROVE  x.got = x.sent /\ x.sent \in Sendable \cup {Nothing}
  <2>1. x.sent = Nothing /\ x.got = Read(Unknown(c), 31)
    BY <1>3 DEF OfUnknown
  <2>2. QED
    BY <2>1, UnknownRead
<1>4. \/ \E pair \in Messages, len \in 0..31 : x = OfMessage(pair, len)
      \/ \E c \in UnknownTypes : x = OfUnknown(c)
  BY DEF Received
<1>5. QED
  BY <1>2, <1>3, <1>4

\* The inductive invariant of the reading.
WireInv == FieldsFit /\ as_sent = TRUE /\ callback_ts = sent_ts

\* The types of the messages, and Nothing is none of them.
LEMMA SendableTypes ==
    ASSUME NEW g \in Sendable
    PROVE  g.type \in {"A", "U", "D", "E", "P"} /\ g # Nothing
BY DEF Sendable, Adds, Sized, Orders, Trades, Nothing

\* A message that is not handled makes no callback.
LEMMA NothingIsSilent ==
    ASSUME Handle(Nothing)
    PROVE  NoBookMessage /\ callback_ts' = 0
<1>1. Nothing.type = "none"
  BY DEF Nothing
<1>2. NoBookMessage
  BY <1>1 DEF Handle
<1>3. delivered' = NoTop
  BY <1>2 DEF NoBookMessage, Ignored, ReturnFalse
<1>4. QED
  BY <1>1, <1>2, <1>3 DEF Handle, Callback

\* What a handler does with a message is a step of FeedHandler.
LEMMA HandleIsNext ==
    ASSUME NEW g \in Sendable \cup {Nothing}, Handle(g)
    PROVE  Next
<1>1. CASE g = Nothing
  BY <1>1, NothingIsSilent DEF Next
<1>2. CASE g \in Adds
  <2>1. g.type = "A" /\ g.ref \in Refs /\ g.side \in Sides /\ g.qty \in WireQtys /\ g.price \in Prices
    BY <1>2 DEF Adds
  <2>2. handle_add(g.ref, g.side, g.qty, g.price)
    BY <2>1 DEF Handle
  <2>3. QED
    BY <2>1, <2>2 DEF Next
<1>3. CASE g \in Sized("U")
  <2>1. g.type = "U" /\ g.ref \in Refs /\ g.qty \in WireQtys
    BY <1>3 DEF Sized
  <2>2. handle_update(g.ref, g.qty) \/ UnknownRef(g.ref)
    BY <2>1 DEF Handle
  <2>3. QED
    BY <2>1, <2>2 DEF Next
<1>4. CASE g \in Orders("D")
  <2>1. g.type = "D" /\ g.ref \in Refs
    BY <1>4 DEF Orders
  <2>2. handle_delete(g.ref) \/ UnknownRef(g.ref)
    BY <2>1 DEF Handle
  <2>3. QED
    BY <2>1, <2>2 DEF Next
<1>5. CASE g \in Sized("E")
  <2>1. g.type = "E" /\ g.ref \in Refs /\ g.qty \in WireQtys
    BY <1>5 DEF Sized
  <2>2. handle_execute(g.ref, g.qty) \/ UnknownRef(g.ref)
    BY <2>1 DEF Handle
  <2>3. QED
    BY <2>1, <2>2 DEF Next
<1>6. CASE g \in Trades
  <2>1. g.type = "P"
    BY <1>6 DEF Trades
  <2>2. NoBookMessage
    BY <2>1 DEF Handle
  <2>3. QED
    BY <2>2 DEF Next
<1>7. QED
  BY <1>1, <1>2, <1>3, <1>4, <1>5, <1>6 DEF Sendable

\* A call of process() keeps the invariant and is a step of FeedHandler.
LEMMA ProcessStep ==
    ASSUME WireInv, process
    PROVE  WireInv' /\ Next
<1>1. PICK x \in Received :
        /\ Handle(x.got)
        /\ sent_ts' = IF x.sent = Nothing \/ callback_ts' = 0 THEN 0 ELSE x.sent.ts
        /\ as_sent' = (x.got = x.sent)
  BY DEF process
<1>2. x.got = x.sent /\ x.sent \in Sendable \cup {Nothing}
  BY WhateverIsReceived DEF WireInv
<1>3. as_sent' = TRUE
  BY <1>1, <1>2
<1>4. callback_ts' = sent_ts'
  <2>1. CASE x.sent = Nothing
    BY <1>1, <1>2, <2>1, NothingIsSilent
  <2>2. CASE x.sent # Nothing
    BY <1>1, <1>2, <2>2 DEF Handle, Stamp, Callback
  <2>3. QED
    BY <2>1, <2>2
<1>5. FieldsFit'
  BY DEF WireInv, FieldsFit
<1>6. QED
  BY <1>1, <1>2, <1>3, <1>4, <1>5, HandleIsNext DEF WireInv

\* Every step keeps the invariant, and is one of FeedHandler or changes none of
\* its state.
LEMMA WireStep ==
    ASSUME WireInv, [WireNext]_wireVars
    PROVE  WireInv' /\ [Next]_vars
<1>1. CASE process
  BY <1>1, ProcessStep
<1>2. CASE WireReset
  <2>1. Next
    BY <1>2 DEF WireReset, Next
  <2>2. WireInv'
    BY <1>2 DEF WireReset, WireInv, FieldsFit
  <2>3. QED
    BY <2>1, <2>2
<1>3. CASE UNCHANGED wireVars
  BY <1>3 DEF wireVars, WireInv, FieldsFit
<1>4. QED
  BY <1>1, <1>2, <1>3 DEF WireNext

\* The invariant holds in every state.
LEMMA WireInvariance == WireSpec => []WireInv
<1>1. WireInit => WireInv
  BY DEF WireInit, WireInv
<1>2. WireInv /\ [WireNext]_wireVars => WireInv'
  BY WireStep
<1>3. QED
  BY <1>1, <1>2, PTL DEF WireSpec

\* Every handler works with the fields the sender put into the message, for all
\* values that fit the fields; a message cut short is not handled, and bytes after
\* it change nothing.
THEOREM ReadAsSent == WireSpec => []ReadsWhatWasSent
<1>1. WireInv => ReadsWhatWasSent
  BY DEF WireInv, ReadsWhatWasSent
<1>2. QED
  BY <1>1, WireInvariance, PTL

\* A callback gets the timestamp of the message that caused it.
THEOREM CallbackTimestamps == WireSpec => []TimestampIsOwn
<1>1. WireInv => TimestampIsOwn
  BY DEF WireInv, TimestampIsOwn
<1>2. QED
  BY <1>1, WireInvariance, PTL

\* With the bytes in front of it the handler does nothing but what FeedHandler
\* allows: its theorems hold of the bytes, too.
THEOREM WireIsAnyFeed == WireSpec => Spec
<1>1. WireInit => Init
  BY DEF WireInit
<1>2. WireInv /\ [WireNext]_wireVars => [Next]_vars
  BY WireStep
<1>3. QED
  BY <1>1, <1>2, WireInvariance, PTL DEF WireSpec, Spec

-----------------------------------------------------------------------------
(* The benchmark, KriaBenchmark: its messages *)

\* No two prices of the generator share a slot.
LEMMA PricesFitTheBook == BenchSetting => Window
<1> SUFFICES ASSUME BenchSetting, NEW p \in Prices, NEW q \in Prices, SlotOf(p) = SlotOf(q)
             PROVE  p = q
  BY DEF Window
<1>1. /\ Capacity \in Nat \ {0} /\ PriceCycle \in Nat /\ PriceCycle <= Capacity
      /\ BasePrice \in Int
  BY CapacityPositive, BenchAssumption
<1>2. /\ p \in Int /\ q \in Int
      /\ p - q < Capacity /\ q - p < Capacity
  BY <1>1 DEF BenchSetting
<1> DEFINE a == p \div Capacity
           b == q \div Capacity
           r == p % Capacity
<1>3. a \in Int /\ b \in Int /\ r \in Int /\ p = a * Capacity + r /\ q = b * Capacity + r
  BY <1>1, <1>2, DivMod DEF SlotOf
<1> HIDE DEF a, b, r
<1>4. (a - b) * Capacity < Capacity /\ (b - a) * Capacity < Capacity
  BY <1>1, <1>2, <1>3
<1>5. ASSUME a - b >= 1 PROVE FALSE
  <2>1. (a - b) * Capacity >= 1 * Capacity
    BY <1>1, <1>3, <1>5
  <2>2. QED
    BY <1>1, <1>3, <1>4, <2>1
<1>6. ASSUME b - a >= 1 PROVE FALSE
  <2>1. (b - a) * Capacity >= 1 * Capacity
    BY <1>1, <1>3, <1>6
  <2>2. QED
    BY <1>1, <1>3, <1>4, <2>1
<1>7. a = b
  BY <1>3, <1>5, <1>6
<1>8. QED
  BY <1>3, <1>7

\* Every message of the generator is one that may be sent.
LEMMA Generated ==
    ASSUME BenchSetting, NEW k \in Nat
    PROVE  /\ Msg(k).ref \in Refs /\ Msg(k).side \in Sides /\ Msg(k).price \in Prices
           /\ Msg(k).qty \in WireQtys /\ Msg(k).qty \in Nat \ {0}
<1>1. /\ RefCycle \in Nat \ {0} /\ PriceCycle \in Nat \ {0} /\ QtyCycle \in Nat \ {0}
      /\ BaseQty \in Nat \ {0} /\ BasePrice \in Int
  BY BenchAssumption
<1>2. /\ k % RefCycle \in 0..(RefCycle - 1) /\ k % PriceCycle \in 0..(PriceCycle - 1)
      /\ k % QtyCycle \in 0..(QtyCycle - 1)
  BY <1>1, DivMod
<1>3. /\ (k % RefCycle) + 1 \in 1..RefCycle
      /\ BasePrice + (k % PriceCycle) \in BasePrice..(BasePrice + PriceCycle - 1)
      /\ BaseQty + (k % QtyCycle) \in BaseQty..(BaseQty + QtyCycle - 1)
      /\ BaseQty + (k % QtyCycle) \in Nat \ {0}
  BY <1>1, <1>2
<1>4. (IF k % 3 # 0 THEN Bid ELSE Ask) \in Sides
  BY DEF Sides
<1>5. QED
  BY <1>3, <1>4 DEF Msg, BenchSetting

\* The constants stay as they are.
LEMMA SettingStays == BenchSetting => BenchSetting'
BY DEF BenchSetting

\* Every step of the benchmark is one that FeedHandler may take, or none.
LEMMA BenchIsNext ==
    ASSUME BenchSetting, iter \in Nat, [BenchNext]_benchVars
    PROVE  [Next]_vars
<1>1. ASSUME ProcessMessage(iter) PROVE Next
  BY <1>1, Generated DEF ProcessMessage, Next
<1>2. CASE bench_software_feed
  BY <1>1, <1>2 DEF bench_software_feed, WarmUp, Reset, Measure, ReportFeed, Compute,
                    ComputeNothing, Next
<1>3. CASE bench_axi_read
  BY <1>3 DEF bench_axi_read, Open, Map, Sample, ReportLoop, Compute, NextHistogram, Destroy
<1>4. CASE pin_thread_to_core \/ lock_memory \/ set_realtime_priority \/ NoAxi
  BY <1>4 DEF pin_thread_to_core, lock_memory, set_realtime_priority, NoAxi
<1>5. CASE UNCHANGED benchVars
  BY <1>5 DEF benchVars
<1>6. QED
  BY <1>2, <1>3, <1>4, <1>5 DEF BenchNext

-----------------------------------------------------------------------------
(* The book that is measured *)

\* The measured messages so far, as the book shows them.
Measured(n) ==
    /\ Countable(Batch(n))
    /\ \A s \in Sides, p \in Prices :
          /\ LevelAt(s, p).quantity = RestingQty(Batch(n), s, p)
          /\ LevelAt(s, p).orders = Cardinality(RestingAt(Batch(n), s, p))

\* The next message is one more order.
LEMMA NextOfBatch ==
    ASSUME NEW n \in Nat
    PROVE  /\ OneMore(Batch(n), n, Batch(n + 1)[n], Batch(n + 1))
           /\ Batch(n + 1)[n] =
                [price |-> Msg(n).price, quantity |-> Msg(n).qty, side |-> Msg(n).side]
<1>1. 0..((n + 1) - 1) = (0..(n - 1)) \cup {n} /\ n \notin 0..(n - 1)
  OBVIOUS
<1>2. DOMAIN Batch(n) = 0..(n - 1) /\ DOMAIN Batch(n + 1) = (0..(n - 1)) \cup {n}
  BY <1>1 DEF Batch
<1>3. \A k \in 0..((n + 1) - 1) : Batch(n + 1)[k] =
         [price |-> Msg(k).price, quantity |-> Msg(k).qty, side |-> Msg(k).side]
  BY Zenon DEF Batch
<1>4. \A k \in 0..(n - 1) : Batch(n)[k] =
         [price |-> Msg(k).price, quantity |-> Msg(k).qty, side |-> Msg(k).side]
  BY Zenon DEF Batch
<1>5. QED
  BY <1>1, <1>2, <1>3, <1>4, Zenon DEF OneMore

\* A message that is measured is added to its level and to nothing else.
LEMMA MessageCounted ==
    ASSUME BenchSetting, Window, BookOK, NEW n \in Nat, Measured(n), ProcessMessage(n)
    PROVE  Measured(n + 1)'
<1> DEFINE o == Batch(n + 1)[n]
           m == Msg(n)
<1>1. /\ m.ref \in Refs /\ m.side \in Sides /\ m.price \in Prices /\ m.qty \in Nat \ {0}
  BY Generated
<1>2. o.price = m.price /\ o.quantity = m.qty /\ o.side = m.side
  <2>1. o = [price |-> m.price, quantity |-> m.qty, side |-> m.side]
    BY NextOfBatch, Zenon
  <2> HIDE DEF o, m
  <2>2. QED
    BY <2>1
<1>3. OneMore(Batch(n), n, o, Batch(n + 1))
  BY NextOfBatch
<1>4. update_level(m.side, m.price, m.qty, 1)
  BY DEF ProcessMessage, handle_add
<1> HIDE DEF o, m
<1>5. /\ Countable(Batch(n + 1))
      /\ \A s \in Sides, p \in Prices :
            LET k == IF o.side = s /\ o.price = p THEN 1 ELSE 0
            IN  /\ RestingQty(Batch(n + 1), s, p) = RestingQty(Batch(n), s, p) + k * o.quantity
                /\ Cardinality(RestingAt(Batch(n + 1), s, p))
                     = Cardinality(RestingAt(Batch(n), s, p)) + k
  BY <1>1, <1>2, <1>3, OneMoreCounted DEF Measured
<1>6. ASSUME NEW s \in Sides, NEW p \in Prices
      PROVE  /\ LevelAt(s, p)'.quantity = RestingQty(Batch(n + 1), s, p)
             /\ LevelAt(s, p)'.orders = Cardinality(RestingAt(Batch(n + 1), s, p))
  <2>1. /\ LevelAt(s, p).quantity = RestingQty(Batch(n), s, p)
        /\ LevelAt(s, p).orders = Cardinality(RestingAt(Batch(n), s, p))
        /\ RestingQty(Batch(n), s, p) \in Nat
        /\ Cardinality(RestingAt(Batch(n), s, p)) \in Nat
    BY NothingResting DEF Measured
  <2>2. LevelAt(s, p)' =
          IF s = m.side /\ p = m.price
          THEN IF LevelAt(s, p).quantity + m.qty <= 0 THEN EmptyLevel
               ELSE [price |-> p, quantity |-> LevelAt(s, p).quantity + m.qty,
                     orders |-> LevelAt(s, p).orders + 1]
          ELSE LevelAt(s, p)
    BY <1>1, <1>4, LevelUpdated
  <2>3. CASE s = m.side /\ p = m.price
    <3>1. ~(LevelAt(s, p).quantity + m.qty <= 0)
      BY <1>1, <2>1
    <3>2. LevelAt(s, p)' = [price |-> p, quantity |-> LevelAt(s, p).quantity + m.qty,
                            orders |-> LevelAt(s, p).orders + 1]
      BY <2>2, <2>3, <3>1
    <3>3. /\ LevelAt(s, p)'.quantity = LevelAt(s, p).quantity + m.qty
          /\ LevelAt(s, p)'.orders = LevelAt(s, p).orders + 1
      BY <3>2
    <3>4. /\ RestingQty(Batch(n + 1), s, p) = RestingQty(Batch(n), s, p) + m.qty
          /\ Cardinality(RestingAt(Batch(n + 1), s, p))
               = Cardinality(RestingAt(Batch(n), s, p)) + 1
      BY <1>1, <1>2, <1>5, <2>3
    <3>5. QED
      BY <2>1, <3>3, <3>4
  <2>4. CASE ~(s = m.side /\ p = m.price)
    <3>1. LevelAt(s, p)' = LevelAt(s, p)
      BY <2>2, <2>4
    <3>2. /\ RestingQty(Batch(n + 1), s, p) = RestingQty(Batch(n), s, p)
          /\ Cardinality(RestingAt(Batch(n + 1), s, p)) = Cardinality(RestingAt(Batch(n), s, p))
      BY <1>1, <1>2, <1>5, <2>1, <2>4
    <3>3. QED
      BY <2>1, <3>1, <3>2
  <2>5. QED
    BY <2>3, <2>4
<1>7. Batch(n + 1)' = Batch(n + 1)
  BY DEF Batch, Msg
<1>8. QED
  BY <1>5, <1>6, <1>7 DEF Measured, Countable

\* After reset() nothing is shown, and nothing was measured.
LEMMA NothingMeasured ==
    ASSUME ResetBook
    PROVE  Measured(0)'
<1>1. DOMAIN Batch(0) = {}
  BY DEF Batch
<1>2. \A s \in Sides, p \in Prices :
         RestingAt(Batch(0), s, p) = {} /\ Units(Batch(0), s, p) = {}
  BY <1>1 DEF RestingAt, Units
<1>3. IsFiniteSet({}) /\ Cardinality({}) = 0
  BY FS_EmptySet
<1>4. \A s \in Sides, p \in Prices : LevelAt(s, p)' = EmptyLevel
  BY Typing, EmptyLevelFacts DEF ResetBook, EmptyBook, LevelAt
<1>5. \A s \in Sides, p \in Prices :
         /\ LevelAt(s, p)'.quantity = 0 /\ LevelAt(s, p)'.orders = 0
         /\ RestingQty(Batch(0), s, p) = 0 /\ Cardinality(RestingAt(Batch(0), s, p)) = 0
  BY <1>2, <1>3, <1>4 DEF RestingQty, EmptyLevel
<1>6. Countable(Batch(0))
  BY <1>1, <1>2, <1>3 DEF Countable
<1>7. Batch(0)' = Batch(0)
  BY DEF Batch, Msg
<1>8. QED
  BY <1>5, <1>6, <1>7 DEF Measured, Countable

-----------------------------------------------------------------------------
(* LatencyHistogram: sorting rearranges *)

\* As many of s, at the places in I, as places.
LEMMA ImageCounted ==
    ASSUME NEW n \in Nat, NEW f \in Bijection(1..n, 1..n), NEW k \in 0..n
    PROVE  LET I == {f[j] : j \in 1..k}
           IN  I \subseteq 1..n /\ IsFiniteSet(I) /\ Cardinality(I) = k
<1> DEFINE I == {f[j] : j \in 1..k}
           g == [j \in 1..k |-> f[j]]
<1>1. f \in [1..n -> 1..n] /\ \A a, b \in 1..n : f[a] = f[b] => a = b
  BY DEF Bijection, Injection, IsInjective
<1>2. 1..k \subseteq 1..n
  OBVIOUS
<1>3. I \subseteq 1..n
  BY <1>1, <1>2
<1>4. g \in Bijection(1..k, I)
  <2>1. g \in [1..k -> I]
    OBVIOUS
  <2>2. \A a, b \in 1..k : g[a] = g[b] => a = b
    BY <1>1, <1>2
  <2>3. \A v \in I : \E a \in 1..k : g[a] = v
    OBVIOUS
  <2>4. DOMAIN g = 1..k
    OBVIOUS
  <2> HIDE DEF g, I
  <2>5. g \in Injection(1..k, I)
    BY <2>1, <2>2, <2>4 DEF Injection, IsInjective
  <2>6. g \in Surjection(1..k, I)
    BY <2>1, <2>3 DEF Surjection
  <2>7. QED
    BY <2>5, <2>6 DEF Bijection
<1>5. IsFiniteSet(1..k) /\ Cardinality(1..k) = k
  BY FS_Interval
<1> HIDE DEF g, I
<1>6. ExistsBijection(1..k, I)
  BY <1>4 DEF ExistsBijection
<1>7. IsFiniteSet(I) /\ Cardinality(I) = k
  BY <1>5, <1>6, FS_Bijection
<1>8. QED
  BY <1>3, <1>7 DEF I

\* t is m in ascending order: its k-th has rank k - 1 in m.
LEMMA RankOfSorted ==
    ASSUME NEW m, NEW t, NEW n \in Nat, NEW f \in Bijection(1..n, 1..n), NEW k \in 1..n,
           \A j \in 1..n : t[j] \in Nat /\ t[j] = m[f[j]],
           Ascending(t, n)
    PROVE  HasRank(m, n, t[k], k - 1)
<1> DEFINE Less == {j \in 1..n : m[j] < t[k]}
           Most == {j \in 1..n : m[j] <= t[k]}
           I(a) == {f[j] : j \in 1..a}
<1>1. /\ f \in [1..n -> 1..n]
      /\ \A v \in 1..n : \E j \in 1..n : f[j] = v
  BY DEF Bijection, Surjection
<1>2. Less \subseteq I(k - 1)
  <2> SUFFICES ASSUME NEW v \in 1..n, m[v] < t[k] PROVE v \in I(k - 1)
    OBVIOUS
  <2>1. PICK j \in 1..n : f[j] = v
    BY <1>1
  <2>2. t[j] < t[k] /\ t[j] \in Nat /\ t[k] \in Nat
    BY <2>1
  <2>3. ~(k <= j)
    BY <2>2 DEF Ascending
  <2>4. j \in 1..(k - 1)
    BY <2>3
  <2>5. QED
    BY <2>1, <2>4
<1>3. I(k) \subseteq Most
  <2> SUFFICES ASSUME NEW j \in 1..k PROVE f[j] \in Most
    OBVIOUS
  <2>1. j \in 1..n /\ j <= k
    OBVIOUS
  <2>2. t[j] <= t[k]
    BY <2>1 DEF Ascending
  <2>3. QED
    BY <1>1, <2>1, <2>2
<1>4. IsFiniteSet(I(k - 1)) /\ Cardinality(I(k - 1)) = k - 1
  <2>1. k - 1 \in 0..n
    OBVIOUS
  <2>2. QED
    BY <2>1, ImageCounted
<1>5. Cardinality(I(k)) = k
  <2>1. k \in 0..n
    OBVIOUS
  <2>2. QED
    BY <2>1, ImageCounted
<1>6. IsFiniteSet(Most) /\ Most \subseteq 1..n
  <2>1. IsFiniteSet(1..n)
    BY FS_Interval
  <2>2. QED
    BY <2>1, FS_Subset
<1> HIDE DEF I
<1>7. Cardinality(Less) <= k - 1
  BY <1>2, <1>4, FS_Subset
<1>8. k <= Cardinality(Most) /\ Cardinality(Most) \in Nat
  BY <1>3, <1>5, <1>6, FS_Subset, FS_CardinalityType
<1>9. QED
  BY <1>7, <1>8 DEF HasRank

\* The samples counted one by one.
Ones(s, n) == UNION {{k} \X (1..s[k]) : k \in 1..n}

LEMMA OnesFinite ==
    ASSUME NEW n \in Nat, NEW s, \A k \in 1..n : s[k] \in Nat
    PROVE  IsFiniteSet(Ones(s, n))
<1> DEFINE S == {{k} \X (1..s[k]) : k \in 1..n}
           g == [k \in 1..n |-> {k} \X (1..s[k])]
<1>1. ASSUME NEW T \in S PROVE IsFiniteSet(T)
  <2>1. PICK k \in 1..n : T = {k} \X (1..s[k])
    OBVIOUS
  <2>2. s[k] \in Nat
    OBVIOUS
  <2>3. QED
    BY <2>1, <2>2, UnitsOfOne
<1>2. g \in Surjection(1..n, S)
  BY DEF Surjection
<1>3. IsFiniteSet(1..n)
  BY FS_Interval
<1> HIDE DEF g
<1>4. IsFiniteSet(S)
  BY <1>2, <1>3, FS_Surjection
<1> HIDE DEF S
<1>5. IsFiniteSet(UNION S)
  BY <1>1, <1>4, FS_UNION
<1>6. QED
  BY <1>5 DEF S, Ones

\* Sorting does not change the sum.
LEMMA TotalOfSorted ==
    ASSUME NEW m, NEW t, NEW n \in Nat, NEW f \in Bijection(1..n, 1..n),
           \A j \in 1..n : t[j] \in Nat /\ t[j] = m[f[j]]
    PROVE  Total(t, n) = Total(m, n)
<1> DEFINE T == Ones(t, n)
           M == Ones(m, n)
           g == [u \in T |-> <<f[u[1]], u[2]>>]
<1>1. /\ f \in [1..n -> 1..n]
      /\ \A a, b \in 1..n : f[a] = f[b] => a = b
      /\ \A v \in 1..n : \E j \in 1..n : f[j] = v
  BY DEF Bijection, Injection, IsInjective, Surjection
<1>2. \A s, u : u \in Ones(s, n) <=> \E k \in 1..n : \E x \in 1..s[k] : u = <<k, x>>
  BY DEF Ones
<1>3. g \in [T -> M]
  <2> SUFFICES ASSUME NEW u \in T PROVE <<f[u[1]], u[2]>> \in M
    OBVIOUS
  <2>0. PICK k \in 1..n : \E x \in 1..t[k] : u = <<k, x>>
    BY <1>2
  <2>1. PICK x \in 1..t[k] : u = <<k, x>>
    BY <2>0
  <2>2. f[k] \in 1..n /\ x \in 1..m[f[k]]
    BY <1>1
  <2>3. <<f[k], x>> \in M
    BY <1>2, <2>2
  <2>4. QED
    BY <2>1, <2>3
<1>4. \A u, w \in T : g[u] = g[w] => u = w
  <2> SUFFICES ASSUME NEW u \in T, NEW w \in T, g[u] = g[w] PROVE u = w
    OBVIOUS
  <2>0. PICK k \in 1..n : \E x \in 1..t[k] : u = <<k, x>>
    BY <1>2
  <2>1. PICK x \in 1..t[k] : u = <<k, x>>
    BY <2>0
  <2>1b. PICK l \in 1..n : \E y \in 1..t[l] : w = <<l, y>>
    BY <1>2
  <2>2. PICK y \in 1..t[l] : w = <<l, y>>
    BY <2>1b
  <2>3. f[k] = f[l] /\ x = y
    BY <2>1, <2>2
  <2>4. QED
    BY <1>1, <2>1, <2>2, <2>3
<1>5. \A w \in M : \E u \in T : g[u] = w
  <2> SUFFICES ASSUME NEW w \in M PROVE \E u \in T : g[u] = w
    OBVIOUS
  <2>0. PICK l \in 1..n : \E y \in 1..m[l] : w = <<l, y>>
    BY <1>2
  <2>1. PICK y \in 1..m[l] : w = <<l, y>>
    BY <2>0
  <2>2. PICK k \in 1..n : f[k] = l
    BY <1>1
  <2>3. y \in 1..t[k]
    BY <2>2
  <2>4. <<k, y>> \in T
    BY <1>2, <2>3
  <2>5. g[<<k, y>>] = w
    BY <2>1, <2>2, <2>4
  <2>6. QED
    BY <2>4, <2>5
<1>6. DOMAIN g = T
  OBVIOUS
<1>7. IsFiniteSet(T)
  BY OnesFinite
<1> HIDE DEF g, T, M
<1>8. g \in Bijection(T, M)
  BY <1>3, <1>4, <1>5, <1>6 DEF Bijection, Injection, IsInjective, Surjection
<1>9. ExistsBijection(T, M)
  BY <1>8 DEF ExistsBijection
<1>10. Cardinality(M) = Cardinality(T)
  BY <1>7, <1>9, FS_Bijection
<1>11. QED
  BY <1>10 DEF T, M, Ones, Total

-----------------------------------------------------------------------------
(* What a run of the benchmark keeps *)

\* The histogram in scope: it holds the first of the durations.
HistOK ==
    /\ samples \in [1..HistCapacity -> Ticks \cup {0}]
    /\ measured \in Seq(Ticks)
    /\ count = Kept
    /\ ReportIsOfTheSamples

\* As long as it is not evaluated it holds them in the order they came in.
InOrder == stats = NoStats /\ \A k \in 1..count : samples[k] = measured[k]

\* Where main() has not evaluated the histogram in scope.
Recording == {"pin", "lock", "realtime", "warmup", "measure", "single", "tob"}

HistInv == HistOK /\ (pc \in Recording => InOrder)

\* How many durations it holds.
LEMMA KeptFacts ==
    ASSUME HistOK
    PROVE  /\ HistCapacity \in Nat \ {0} /\ Len(measured) \in Nat
           /\ count \in 0..HistCapacity /\ count <= Len(measured)
           /\ \A k \in 1..Len(measured) : measured[k] \in Ticks
BY BenchAssumption DEF HistOK, Kept

\* A histogram is empty.
LEMMA FreshHistogram ==
    ASSUME NewHistogram
    PROVE  HistOK' /\ InOrder'
<1>1. HistCapacity \in Nat \ {0}
  BY BenchAssumption
<1>2. Len(<< >>) = 0 /\ << >> \in Seq(Ticks)
  OBVIOUS
<1>3. QED
  BY <1>1, <1>2 DEF NewHistogram, HistOK, InOrder, Kept, ReportIsOfTheSamples

\* A duration is added at the end, or dropped when the histogram is full.
LEMMA Recorded ==
    ASSUME HistOK, InOrder, NEW ticks \in Ticks, record(ticks)
    PROVE  HistOK' /\ InOrder'
<1>1. /\ measured \in Seq(Ticks) /\ measured' = Append(measured, ticks)
      /\ samples \in [1..HistCapacity -> Ticks \cup {0}]
      /\ count = Kept /\ stats' = NoStats
  BY DEF HistOK, InOrder, record
<1>2. /\ measured' \in Seq(Ticks) /\ Len(measured') = Len(measured) + 1
      /\ \A k \in 1..Len(measured) : measured'[k] = measured[k]
      /\ measured'[Len(measured) + 1] = ticks
  BY <1>1
<1>3. /\ HistCapacity \in Nat \ {0} /\ Len(measured) \in Nat
      /\ count \in 0..HistCapacity /\ count <= Len(measured)
  BY KeptFacts
<1>4. ReportIsOfTheSamples'
  BY <1>1 DEF ReportIsOfTheSamples, NoStats
<1>5. CASE count < HistCapacity
  <2>1. count = Len(measured)
    BY <1>1, <1>3, <1>5 DEF Kept
  <2>2. samples' = [samples EXCEPT ![count + 1] = ticks] /\ count' = count + 1
    BY <1>5 DEF record
  <2>3. count + 1 \in 1..HistCapacity
    BY <1>3, <1>5
  <2>4. samples' \in [1..HistCapacity -> Ticks \cup {0}]
    BY <1>1, <2>2, <2>3
  <2>5. count' = Kept'
    BY <1>2, <1>3, <1>5, <2>1, <2>2 DEF Kept
  <2>6. ASSUME NEW k \in 1..(count + 1) PROVE samples'[k] = measured'[k]
    <3>1. CASE k = count + 1
      BY <1>1, <1>2, <2>1, <2>2, <2>3, <3>1
    <3>2. CASE k # count + 1
      <4>1. k \in 1..count /\ k \in 1..HistCapacity
        BY <1>3, <3>2
      <4>2. samples'[k] = samples[k]
        BY <1>1, <2>2, <3>2, <4>1
      <4>3. QED
        BY <1>2, <2>1, <4>1, <4>2 DEF InOrder
    <3>3. QED
      BY <3>1, <3>2
  <2>7. QED
    BY <1>1, <1>2, <1>4, <2>2, <2>4, <2>5, <2>6 DEF HistOK, InOrder
<1>6. CASE ~(count < HistCapacity)
  <2>1. UNCHANGED <<samples, count>> /\ count = HistCapacity
    BY <1>3, <1>6 DEF record
  <2>2. count' = Kept'
    BY <1>2, <1>3, <2>1 DEF Kept
  <2>3. \A k \in 1..count : samples[k] = measured'[k]
    BY <1>2, <1>3 DEF InOrder
  <2>4. QED
    BY <1>1, <1>2, <1>4, <2>1, <2>2, <2>3 DEF HistOK, InOrder
<1>7. QED
  BY <1>5, <1>6

\* What compute() returns is about the durations.
LEMMA Computed ==
    ASSUME HistOK, InOrder, compute
    PROVE  HistOK'
<1>1. PICK s \in Sorted(samples, count) :
        /\ count > 0
        /\ samples' = s
        /\ stats' = [min |-> s[1], max |-> s[count], sample_count |-> count,
                     pcts |-> [p \in Permilles |-> pct(s, count, p)],
                     sum |-> Total(s, count)]
        /\ UNCHANGED <<count, measured>>
  BY DEF compute
<1>2. /\ samples \in [1..HistCapacity -> Ticks \cup {0}]
      /\ measured \in Seq(Ticks) /\ count = Kept
  BY DEF HistOK
<1>3. PICK f \in Bijection(1..count, 1..count) :
        s = [k \in DOMAIN samples |-> samples[IF k \in 1..count THEN f[k] ELSE k]]
  BY <1>1 DEF Sorted, Arrangements
<1>4. /\ HistCapacity \in Nat \ {0} /\ count \in 1..HistCapacity /\ count <= Len(measured)
      /\ count \in Nat /\ 1..count \subseteq 1..HistCapacity
      /\ \A k \in 1..count : measured[k] \in Ticks /\ measured[k] \in Nat
  <2>1. Ticks \subseteq Nat
    BY BenchAssumption
  <2>2. /\ HistCapacity \in Nat \ {0} /\ count \in 0..HistCapacity
        /\ count <= Len(measured) /\ Len(measured) \in Nat
        /\ \A k \in 1..Len(measured) : measured[k] \in Ticks
    BY KeptFacts
  <2>3. count > 0
    BY <1>1
  <2>4. /\ count \in 1..HistCapacity /\ 1..count \subseteq 1..HistCapacity
        /\ 1..count \subseteq 1..Len(measured)
    BY <2>2, <2>3
  <2>5. \A k \in 1..count : measured[k] \in Ticks
    BY <2>2, <2>4
  <2>6. count \in Nat
    BY <2>2
  <2>7. QED
    BY <2>1, <2>2, <2>4, <2>5, <2>6, Zenon
<1>5. f \in [1..count -> 1..count]
  BY DEF Bijection, Injection
<1>6. s \in [1..HistCapacity -> Ticks \cup {0}]
  BY <1>2, <1>3, <1>4, <1>5
<1>7. \A k \in 1..count : s[k] \in Nat /\ s[k] = measured[f[k]]
  BY <1>2, <1>3, <1>4, <1>5 DEF InOrder
<1>8. Ascending(s, count)
  BY <1>1 DEF Sorted
<1>9. \A k \in 1..count : HasRank(measured, count, s[k], k - 1)
  BY <1>4, <1>7, <1>8, RankOfSorted
<1>10. Total(s, count) = Total(measured, count)
  BY <1>4, <1>7, TotalOfSorted
<1>11. ASSUME NEW p \in Permilles
       PROVE  HasRank(measured, count, pct(s, count, p), (p * (count - 1)) \div 1000)
  <2> DEFINE r == (p * (count - 1)) \div 1000
  <2>1. p \in 0..1000
    BY DEF Permilles
  <2>2. r \in 0..(count - 1)
    BY <1>4, <2>1 DEF Permilles
  <2> HIDE DEF r
  <2>3. r + 1 \in 1..count /\ (r + 1) - 1 = r
    BY <1>4, <2>2
  <2>4. HasRank(measured, count, s[r + 1], r)
    BY <1>9, <2>3
  <2>5. QED
    BY <2>4 DEF r, pct
<1>12. 1 \in 1..count /\ count \in 1..count /\ 1 - 1 = 0
  BY <1>4
<1>13. HasRank(measured, count, s[1], 0) /\ HasRank(measured, count, s[count], count - 1)
  BY <1>9, <1>12
<1>14. /\ stats'.min = s[1] /\ stats'.max = s[count] /\ stats'.sample_count = count
       /\ stats'.sum = Total(s, count)
       /\ \A p \in Permilles : stats'.pcts[p] = pct(s, count, p)
  BY <1>1
<1>15. Kept' = count
  BY <1>1, <1>2 DEF Kept
<1>16. measured' = measured
  BY <1>1
<1>17. ReportIsOfTheSamples'
  <2>1. /\ stats'.sample_count = Kept'
        /\ HasRank(measured', Kept', stats'.min, 0)
        /\ HasRank(measured', Kept', stats'.max, Kept' - 1)
        /\ \A p \in Permilles :
              HasRank(measured', Kept', stats'.pcts[p], (p * (Kept' - 1)) \div 1000)
        /\ stats'.sum = Total(measured', Kept')
    BY <1>10, <1>11, <1>13, <1>14, <1>15, <1>16
  <2>2. QED
    BY <2>1 DEF ReportIsOfTheSamples
<1>18. QED
  BY <1>1, <1>2, <1>6, <1>15, <1>17 DEF HistOK

\* What every state of the benchmark has: the book of FeedHandler in order, the
\* histogram the first durations, and while messages are measured the book theirs.
BenchInv ==
    /\ BenchSetting /\ IInv
    /\ cfg \in Config /\ iter \in Nat
    /\ {fd, map} \subseteq {"none", "open", "closed"}
    /\ HistInv
    /\ pc = "measure" => Measured(iter)

\* It holds at first.
LEMMA BenchStart == BenchInit => BenchInv
<1> SUFFICES ASSUME BenchInit PROVE BenchInv
  OBVIOUS
<1>1. IInv /\ BenchSetting
  BY InvInit DEF BenchInit
<1>2. HistCapacity \in Nat \ {0}
  BY BenchAssumption
<1>3. Len(<< >>) = 0 /\ << >> \in Seq(Ticks)
  OBVIOUS
<1>4. HistInv
  BY <1>2, <1>3 DEF BenchInit, HistInv, HistOK, InOrder, Kept, ReportIsOfTheSamples
<1>5. QED
  BY <1>1, <1>4 DEF BenchInit, BenchInv

\* Every step keeps the histogram.
LEMMA HistStep ==
    ASSUME HistInv, [BenchNext]_benchVars
    PROVE  HistInv'
<1>0. HistOK /\ (pc \in Recording => InOrder)
  BY DEF HistInv
<1>u. ASSUME UNCHANGED histVars, pc' \in Recording => pc \in Recording PROVE HistInv'
  <2>1. HistOK'
    <3>1. UNCHANGED <<samples, count, measured, stats>>
      BY <1>u DEF histVars
    <3>2. Kept' = Kept
      BY <3>1 DEF Kept
    <3>3. ReportIsOfTheSamples'
      BY <1>0, <3>1, <3>2 DEF HistOK, ReportIsOfTheSamples
    <3>4. QED
      BY <1>0, <3>1, <3>2, <3>3 DEF HistOK
  <2>2. InOrder => InOrder'
    BY <1>u DEF histVars, InOrder
  <2>3. QED
    BY <1>0, <1>u, <2>1, <2>2 DEF HistInv
<1>1. CASE pin_thread_to_core \/ lock_memory \/ set_realtime_priority \/ WarmUp \/ Reset
           \/ ComputeNothing \/ NoAxi \/ Open \/ Destroy
  BY <1>1, <1>u DEF pin_thread_to_core, lock_memory, set_realtime_priority, WarmUp, Reset,
                    ComputeNothing, NoAxi, Open, Destroy, Goto, Recording
<1>2. ASSUME NEW ticks \in Ticks, record(ticks), pc \in Recording PROVE HistInv'
  BY <1>0, <1>2, Recorded DEF HistInv
<1>3. CASE Measure
  BY <1>2, <1>3 DEF Measure, Goto, Recording
<1>4. CASE Sample("single") \/ Sample("tob")
  BY <1>2, <1>4 DEF Sample, Goto, Recording
<1>5. ASSUME compute, pc \in Recording, pc' \notin Recording PROVE HistInv'
  BY <1>0, <1>5, Computed DEF HistInv
<1>6. CASE ReportFeed
  BY <1>1, <1>5, <1>6 DEF ReportFeed, Compute, Goto, Recording
<1>7. CASE ReportLoop("single", "reported") \/ ReportLoop("tob", "destroy")
  BY <1>5, <1>7 DEF ReportLoop, Compute, Goto, Recording
<1>8. ASSUME NewHistogram PROVE HistInv'
  BY <1>8, FreshHistogram DEF HistInv
<1>9. CASE NextHistogram
  BY <1>8, <1>9 DEF NextHistogram
<1>10. CASE Map
  <2>1. CASE NewHistogram
    BY <1>8, <2>1
  <2>2. CASE Goto("map", "done") /\ UNCHANGED <<histVars, map>>
    BY <1>u, <2>2 DEF Goto, Recording
  <2>3. QED
    BY <1>10, <2>1, <2>2 DEF Map
<1>11. CASE UNCHANGED benchVars
  BY <1>u, <1>11 DEF benchVars
<1>12. QED
  BY <1>1, <1>3, <1>4, <1>6, <1>7, <1>9, <1>10, <1>11
     DEF BenchNext, bench_software_feed, bench_axi_read

\* Every step keeps the rest.
LEMMA BenchStep == BenchInv /\ [BenchNext]_benchVars => BenchInv'
<1> SUFFICES ASSUME BenchInv, [BenchNext]_benchVars PROVE BenchInv'
  OBVIOUS
<1>1. /\ BenchSetting /\ IInv /\ HistInv /\ iter \in Nat /\ cfg \in Config
      /\ {fd, map} \subseteq {"none", "open", "closed"}
      /\ pc = "measure" => Measured(iter)
  BY DEF BenchInv
<1>2. BenchSetting' /\ IInv' /\ HistInv'
  BY <1>1, SettingStays, BenchIsNext, InvStep, HistStep
<1>3. cfg' \in Config /\ iter' \in Nat /\ {fd', map'} \subseteq {"none", "open", "closed"}
  <2>1. CASE BenchNext
    BY <1>1, <2>1
       DEF BenchNext, pin_thread_to_core, lock_memory, set_realtime_priority,
           bench_software_feed, WarmUp, Reset, Measure, ReportFeed, Compute, ComputeNothing,
           NoAxi, bench_axi_read, Open, Map, Sample, ReportLoop, NextHistogram, Destroy,
           Goto, drvVars, Config
  <2>2. CASE UNCHANGED benchVars
    BY <1>1, <2>2 DEF benchVars, drvVars
  <2>3. QED
    BY <2>1, <2>2
<1>4. pc' = "measure" => Measured(iter)'
  <2>1. BookOK /\ Window
    BY <1>1, PricesFitTheBook DEF IInv, TypeOK, BookOK
  <2>2. CASE Reset
    <3>1. iter' = 0 /\ Measured(0)'
      BY <2>2, NothingMeasured DEF Reset
    <3>2. QED
      BY <3>1 DEF Measured, Batch
  <2>3. CASE Measure
    <3>1. ProcessMessage(iter) /\ iter' = iter + 1 /\ pc = "measure"
      BY <2>3 DEF Measure, Goto
    <3>2. Measured(iter)
      BY <1>1, <3>1
    <3>3. PICK n \in Nat : n = iter
      BY <1>1
    <3>4. Measured(n + 1)'
      BY <1>1, <2>1, <3>1, <3>2, <3>3, MessageCounted
    <3>5. iter' = n + 1
      BY <3>1, <3>3
    <3>6. QED
      BY <3>4, <3>5 DEF Measured, Batch
  <2>4. CASE UNCHANGED benchVars
    <3>1. UNCHANGED <<levels, pc, iter>>
      BY <2>4 DEF benchVars, vars, bookVars
    <3>2. \A s \in Sides, p \in Prices : LevelAt(s, p)' = LevelAt(s, p)
      BY <3>1 DEF LevelAt
    <3>3. Batch(iter)' = Batch(iter)
      BY <3>1 DEF Batch
    <3>4. QED
      BY <1>1, <3>1, <3>2, <3>3 DEF Measured
  <2>5. ASSUME BenchNext, ~Reset, ~Measure PROVE pc' # "measure"
    BY <2>5
       DEF BenchNext, pin_thread_to_core, lock_memory, set_realtime_priority,
           bench_software_feed, WarmUp, ReportFeed, Compute, ComputeNothing,
           NoAxi, bench_axi_read, Open, Map, Sample, ReportLoop, NextHistogram, Destroy, Goto
  <2>6. QED
    BY <2>2, <2>3, <2>4, <2>5
<1>5. QED
  BY <1>2, <1>3, <1>4 DEF BenchInv

\* The invariant of the benchmark.
LEMMA BenchInvariance == BenchSpec => []BenchInv
BY BenchStart, BenchStep, PTL DEF BenchSpec

\* The benchmark is one of the feeds a FeedHandler may get.
THEOREM BenchIsAnyFeed == BenchSpec => Spec
<1>1. BenchInit => Init
  BY DEF BenchInit
<1>2. BenchInv /\ [BenchNext]_benchVars => [Next]_vars
  BY BenchIsNext DEF BenchInv
<1>3. QED
  BY <1>1, <1>2, BenchInvariance, PTL DEF BenchSpec, Spec

\* The benchmark keeps its types: the histogram holds at most as many samples as
\* it has room for, and only ticks.
THEOREM BenchTypeCorrect == BenchSpec => []BenchTypeOK
<1>1. BenchInv => BenchTypeOK
  BY KeptFacts DEF BenchInv, IInv, HistInv, HistOK, BenchTypeOK
<1>2. QED
  BY <1>1, BenchInvariance, PTL

\* What the benchmark prints has the ranks and the sum of the durations it measured,
\* for every number of messages, size of the histogram and length of a tick.
THEOREM ReportIsTrue == BenchSpec => []ReportIsOfTheSamples
<1>1. BenchInv => ReportIsOfTheSamples
  BY DEF BenchInv, HistInv, HistOK
<1>2. QED
  BY <1>1, BenchInvariance, PTL

\* The measured book is that of the measured messages, whatever the cycles of the
\* generator: the warm-up leaves nothing in it.
THEOREM MeasuredBookIsTheirs == BenchSpec => []BookCountsMeasured
<1>1. BenchInv => BookCountsMeasured
  BY DEF BenchInv, Measured, BookCountsMeasured
<1>2. QED
  BY <1>1, BenchInvariance, PTL

-----------------------------------------------------------------------------
(* How the benchmark ends *)

EndInv == Held /\ NoneMeasured /\ NoOtherEnd

\* Nothing is held and nothing measured at first.
LEMMA EndStart == BenchInit => EndInv
BY DEF BenchInit, EndInv, Held, NoneMeasured, NoOtherEnd, Ended

\* A recorded sample is one, even in a full histogram.
LEMMA SampleCounts ==
    ASSUME BenchInv, NEW ticks, record(ticks) PROVE count' # 0
<1>1. count \in 0..HistCapacity /\ HistCapacity \in Nat \ {0}
  BY BenchAssumption, KeptFacts DEF BenchInv, HistInv, HistOK
<1>2. QED
  BY <1>1 DEF record

\* Every step of main() leaves the driver holding what the next place expects.
LEMMA HeldStep == Held /\ [BenchNext]_benchVars => Held'
<1> SUFFICES ASSUME Held, [BenchNext]_benchVars PROVE Held'
  OBVIOUS
<1>1. CASE pin_thread_to_core \/ lock_memory \/ set_realtime_priority \/ bench_software_feed
  BY <1>1 DEF Held, pin_thread_to_core, lock_memory, set_realtime_priority,
              bench_software_feed, WarmUp, Reset, Measure, ReportFeed, Compute,
              ComputeNothing, Goto, drvVars
<1>2. CASE NoAxi \/ Open \/ Map \/ Destroy
  BY <1>2 DEF Held, NoAxi, Open, Map, Destroy, Goto, drvVars
<1>3. CASE \/ Sample("single") \/ ReportLoop("single", "reported") \/ NextHistogram
           \/ Sample("tob") \/ ReportLoop("tob", "destroy")
  BY <1>3 DEF Held, Sample, ReportLoop, Compute, NextHistogram, Goto, drvVars
<1>4. CASE UNCHANGED benchVars
  BY <1>4 DEF Held, benchVars, drvVars
<1>5. QED
  BY <1>1, <1>2, <1>3, <1>4 DEF BenchNext, bench_axi_read

\* Only a measured message moves on the loop that measures.
LEMMA NoneMeasuredStep == BenchInv /\ NoneMeasured /\ [BenchNext]_benchVars => NoneMeasured'
<1> SUFFICES ASSUME BenchInv, NoneMeasured, [BenchNext]_benchVars PROVE NoneMeasured'
  OBVIOUS
<1>1. CASE pin_thread_to_core \/ lock_memory \/ set_realtime_priority \/ WarmUp \/ Reset
  BY <1>1 DEF NoneMeasured, pin_thread_to_core, lock_memory, set_realtime_priority,
              WarmUp, Reset, Goto, histVars
<1>2. CASE Measure
  BY <1>2, SampleCounts DEF Measure, NoneMeasured, Goto
<1>3. CASE ReportFeed
  BY <1>3 DEF ReportFeed, Compute, ComputeNothing, NoneMeasured, Goto
<1>4. CASE NoAxi \/ bench_axi_read
  BY <1>4 DEF NoneMeasured, NoAxi, bench_axi_read, Open, Map, Sample, ReportLoop, Compute,
              NextHistogram, Destroy, Goto
<1>5. CASE UNCHANGED benchVars
  BY <1>5 DEF NoneMeasured, benchVars, histVars
<1>6. QED
  BY <1>1, <1>2, <1>3, <1>4, <1>5 DEF BenchNext, bench_software_feed

\* Every step that ends the program, and every one that reaches the register reads.
LEMMA EndStep == BenchInv /\ EndInv /\ [BenchNext]_benchVars => EndInv'
<1> SUFFICES ASSUME BenchInv, EndInv, [BenchNext]_benchVars PROVE EndInv'
  OBVIOUS
<1>1. Held /\ Held' /\ NoneMeasured /\ NoneMeasured' /\ NoOtherEnd
  BY HeldStep, NoneMeasuredStep DEF EndInv
<1>2. Ended' => CleanEnd'
  <2>1. CASE pin_thread_to_core
    BY <2>1 DEF pin_thread_to_core, Goto, Ended, CleanEnd
  <2>2. CASE ComputeNothing /\ iter = cfg.n_messages
    BY <1>1, <2>2 DEF ComputeNothing, Goto, Ended, CleanEnd, NoneMeasured
  <2>3. CASE NoAxi \/ Open \/ Map \/ Destroy
    BY <1>1, <2>3 DEF Held, NoAxi, Open, Map, Destroy, Goto, drvVars, Ended, CleanEnd
  <2>4. CASE \/ lock_memory \/ set_realtime_priority \/ WarmUp \/ Reset \/ Measure
             \/ Compute("measure", "axi") \/ NextHistogram
             \/ Sample("single") \/ ReportLoop("single", "reported")
             \/ Sample("tob") \/ ReportLoop("tob", "destroy")
    BY <2>4 DEF lock_memory, set_realtime_priority, WarmUp, Reset, Measure, Compute,
                NextHistogram, Sample, ReportLoop, Goto, Ended
  <2>5. CASE UNCHANGED benchVars
    BY <1>1, <2>5 DEF NoOtherEnd, Ended, CleanEnd, benchVars, drvVars
  <2>6. QED
    BY <2>1, <2>2, <2>3, <2>4, <2>5 DEF BenchNext, bench_software_feed, ReportFeed, bench_axi_read
<1>3. QED
  BY <1>1, <1>2 DEF EndInv, NoOtherEnd, Held

\* However the calls of the benchmark fail, where it ends the device is closed and
\* unmapped, unless the thread could not be pinned or there was nothing to measure;
\* and no register is read but through an open mapping.
THEOREM NoOtherEnds == BenchSpec => []NoOtherEnd
<1>1. EndInv => NoOtherEnd
  BY DEF EndInv
<1>2. QED
  BY EndStart, EndStep, BenchInvariance, <1>1, PTL DEF BenchSpec
=============================================================================
