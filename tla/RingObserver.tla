---------------------------- MODULE RingObserver ----------------------------
(***************************************************************************)
(* size_approx() and empty() of hft::RingBuffer, called by the two threads *)
(* that push and pop.  Each owns one index and loads the other one, and    *)
(* acts on what it saw later on.  Both loads are relaxed, so the one of the *)
(* other index may be done as early as right after the last acquire load of *)
(* the same thread: a call after push() may look before push() has stored  *)
(* its item.                                                               *)
(***************************************************************************)
EXTENDS RingBuffer

VARIABLES
    ptail,  \* the tail_ the producer looked at since its last full check
    chead   \* the head_ the consumer looked at since its last empty check

obsVars == <<vars, ptail, chead>>

Unknown == -1

\* Mutant of size_approx: the operands swapped.
size_approxSwapped(h, t) == Dist(h, t)

\* (h - t) & MASK
size_approx(h, t) == Dist(t, h)

empty(h, t) == h = t

ObsInit == Init /\ ptail = Unknown /\ chead = Unknown

-----------------------------------------------------------------------------
\* The load of tail_ in the producer's size_approx() or empty().
PeekTail ==
    /\ ppc # "loadTail"
    /\ ptail' = tail
    /\ UNCHANGED <<vars, chead>>

\* The load of head_ in the consumer's.
PeekHead ==
    /\ cpc # "loadHead"
    /\ chead' = head
    /\ UNCHANGED <<vars, ptail>>

\* A full check, or an empty check, makes what was seen before it useless.
ObsPushStep ==
    /\ PushStep
    /\ ptail' = IF ppc = "loadTail" THEN Unknown ELSE ptail
    /\ UNCHANGED chead

ObsPopStep ==
    /\ PopStep
    /\ chead' = IF cpc = "loadHead" THEN Unknown ELSE chead
    /\ UNCHANGED ptail

ObsNext ==
    \/ \E x \in Items : PushCall(x) /\ UNCHANGED <<ptail, chead>>
    \/ ObsPushStep
    \/ PopCall /\ UNCHANGED <<ptail, chead>>
    \/ ObsPopStep
    \/ PeekTail
    \/ PeekHead

ObsSpec ==
    /\ ObsInit /\ [][ObsNext]_obsVars
    /\ WF_obsVars(ObsPushStep) /\ WF_obsVars(ObsPopStep)

-----------------------------------------------------------------------------
(* Properties *)

\* The inductive strengthening of what follows: a view errs on its owner's safe
\* side, and a thread that is past its check has seen no ring that would have
\* failed the check.
ViewsErrSafely ==
    /\ {ptail, chead} \subseteq Slots \cup {Unknown}
    /\ ptail # Unknown =>
          /\ Size <= Dist(ptail, head)
          /\ ppc \in {"write", "publish"} => Wrap(head + 1) # ptail
    /\ chead # Unknown =>
          /\ Dist(tail, chead) <= Size
          /\ cpc \in {"read", "consume"} => tail # chead

\* However old its view of the other index has become, the producer's size is
\* never below the true one and the consumer's never above it; each of them may
\* rely on the room, or the items, it saw.
OwnSizeIsBound ==
    /\ ppc = "idle" /\ ptail # Unknown => size_approx(head, ptail) >= Size
    /\ cpc = "idle" /\ chead # Unknown => size_approx(chead, tail) <= Size

\* Looking before calling works: a producer that saw room does not have its push
\* refused, and a consumer that saw an item does not come back empty-handed.
LookThenCall ==
    [][/\ ptail # Unknown /\ size_approx(head, ptail) < Capacity - 1 => ~PushFull
       /\ chead # Unknown /\ ~empty(chead, tail) => ~PopEmpty]_obsVars
=============================================================================
