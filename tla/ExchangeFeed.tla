---------------------------- MODULE ExchangeFeed ----------------------------
(***************************************************************************)
(* What a FeedHandler makes of the feed of an exchange: an order reference *)
(* is not reused while its order rests, executions do not exceed the order, *)
(* and prices stay in a window in which no two share a slot, which         *)
(* update_level() asks of its caller.  The owner of the book may reset() it *)
(* between messages, as the benchmark does after its warm-up.              *)
(***************************************************************************)
EXTENDS FeedHandler

VARIABLE
    wiped   \* history: the prices of a side whose level was emptied by
            \* remove_level() or reset() while other orders rested there

feedVars == <<vars, wiped>>

FeedInit == Init /\ Window /\ wiped = {}

\* W was emptied; a price at which no order rests is clean.
Wipe(W) == wiped' = {x \in wiped \cup W : RestingAt(orders', x[1], x[2]) # {}}

\* The level an order rests at, if the message takes the order to zero.
Exhausts(ref, left) == IF left = 0 THEN {<<orders[ref].side, orders[ref].price>>} ELSE {}

LegalMessage ==
    \/ \E ref \in Refs \ DOMAIN orders, s \in Sides, qty \in WireQtys \ {0}, price \in Prices :
          handle_add(ref, s, qty, price) /\ Wipe({})
    \/ \E ref \in DOMAIN orders, qty \in WireQtys :
          handle_update(ref, qty) /\ Wipe(Exhausts(ref, qty))
    \/ \E ref \in DOMAIN orders : handle_delete(ref) /\ Wipe({})
    \/ \E ref \in DOMAIN orders, qty \in WireQtys \ {0} :
          /\ qty <= orders[ref].quantity
          /\ handle_execute(ref, qty)
          /\ Wipe(Exhausts(ref, orders[ref].quantity - qty))
    \/ \E ref \in Refs : UnknownRef(ref) /\ Wipe({})
    \/ NoBookMessage /\ Wipe({})

FeedNext == LegalMessage \/ (ResetBook /\ Wipe(Sides \X Prices))

FeedSpec == FeedInit /\ [][FeedNext]_feedVars

-----------------------------------------------------------------------------
(* Properties *)

\* The book shows no quantity that is not there: a level holds at most what the
\* orders resting at its price add up to, even after whole-level removals and
\* resets that the handler's orders outlive.
NeverOverstates ==
    \A s \in Sides, p \in Prices : LevelAt(s, p).quantity <= RestingQty(orders, s, p)

\* The published best price is the price of a resting order, and the book is
\* empty once no order rests.
TopIsBacked ==
    \A s \in Sides : tob[s] # EmptyLevel => RestingAt(orders, s, tob[s].price) # {}

\* Whole-level removal (of an order that was not the last of its level) and
\* reset() are the only ways the book loses count: everywhere else a level is
\* exactly the sum, and the number, of the orders resting at its price.
ExactUnlessWiped ==
    \A s \in Sides, p \in Prices :
        <<s, p>> \notin wiped =>
            /\ LevelAt(s, p).quantity = RestingQty(orders, s, p)
            /\ LevelAt(s, p).orders = Cardinality(RestingAt(orders, s, p))
=============================================================================
