---------------------------- MODULE BoundedFifo ----------------------------
(***************************************************************************)
(* What RingBuffer promises its two callers: a FIFO queue of at most       *)
(* Bound items.  A call takes effect at one instant between its invocation *)
(* and its return; the verdicts "full" and "empty" are exact at that       *)
(* instant, not guesses.                                                   *)
(***************************************************************************)
EXTENDS Naturals, Sequences

CONSTANTS
    Bound,    \* largest number of items the queue holds
    Items,    \* the payloads
    NoItem    \* "no payload"

VARIABLES
    queue,    \* the items pushed and not yet popped, oldest first
    offer,    \* the item of the push in progress, or NoItem
    taking,   \* whether a pop is in progress
    pushRet,  \* what the last push returned
    popRet    \* what the last pop returned; NoItem stands for nullopt

vars == <<queue, offer, taking, pushRet, popRet>>

Init ==
    /\ queue = << >>
    /\ offer = NoItem
    /\ taking = FALSE
    /\ pushRet = FALSE
    /\ popRet = NoItem

CallPush(x) ==
    /\ offer = NoItem
    /\ offer' = x
    /\ UNCHANGED <<queue, taking, pushRet, popRet>>

PushOk ==
    /\ offer # NoItem
    /\ Len(queue) < Bound
    /\ queue' = Append(queue, offer)
    /\ offer' = NoItem
    /\ pushRet' = TRUE
    /\ UNCHANGED <<taking, popRet>>

PushFull ==
    /\ offer # NoItem
    /\ Len(queue) = Bound
    /\ offer' = NoItem
    /\ pushRet' = FALSE
    /\ UNCHANGED <<queue, taking, popRet>>

CallPop ==
    /\ ~taking
    /\ taking' = TRUE
    /\ UNCHANGED <<queue, offer, pushRet, popRet>>

PopOk ==
    /\ taking
    /\ queue # << >>
    /\ popRet' = Head(queue)
    /\ queue' = Tail(queue)
    /\ taking' = FALSE
    /\ UNCHANGED <<offer, pushRet>>

PopEmpty ==
    /\ taking
    /\ queue = << >>
    /\ popRet' = NoItem
    /\ taking' = FALSE
    /\ UNCHANGED <<queue, offer, pushRet>>

Next ==
    \/ \E x \in Items : CallPush(x)
    \/ PushOk
    \/ PushFull
    \/ CallPop
    \/ PopOk
    \/ PopEmpty

Spec == Init /\ [][Next]_vars
============================================================================
