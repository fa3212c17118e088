----------------------------- MODULE AtomicTob -----------------------------
(***************************************************************************)
(* What the seqlock of OrderBook promises: a top of book that one writer   *)
(* replaces, one side at a time or both at once, and that any reader       *)
(* copies at a single instant of its call, although it spans several       *)
(* machine words.                                                          *)
(***************************************************************************)
CONSTANTS
    Sides,      \* bid and ask
    Fields,     \* the machine words of a PriceLevel
    Levels,     \* values a side can take
    NullLevel,  \* PriceLevel{}
    Readers     \* threads that take snapshots

Words == Sides \X Fields

VARIABLES
    top,        \* the published top of book, word by word
    reading,    \* whether a reader is inside top_of_book_snapshot()
    result      \* what its last call returned

vars == <<top, reading, result>>

Blank == [w \in Words |-> NullLevel]

Init ==
    /\ top = Blank
    /\ reading = [r \in Readers |-> FALSE]
    /\ result = [r \in Readers |-> Blank]

Publish(s, l) ==
    /\ top' = [w \in Words |-> IF w[1] = s THEN l ELSE top[w]]
    /\ UNCHANGED <<reading, result>>

Clear ==
    /\ top' = Blank
    /\ UNCHANGED <<reading, result>>

Call(r) ==
    /\ ~reading[r]
    /\ reading' = [reading EXCEPT ![r] = TRUE]
    /\ UNCHANGED <<top, result>>

Return(r) ==
    /\ reading[r]
    /\ result' = [result EXCEPT ![r] = top]
    /\ reading' = [reading EXCEPT ![r] = FALSE]
    /\ UNCHANGED top

Next ==
    \/ \E s \in Sides, l \in Levels : Publish(s, l)
    \/ Clear
    \/ \E r \in Readers : Call(r) \/ Return(r)

Spec == Init /\ [][Next]_vars
=============================================================================
