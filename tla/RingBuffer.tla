----------------------------- MODULE RingBuffer -----------------------------
(***************************************************************************)
(* hft::RingBuffer (cpp/include/ring_buffer.hpp): the single-producer,     *)
(* single-consumer queue.  The producer runs push(), the consumer pop();   *)
(* they share head_, tail_ and buf_, and every load and store of a shared  *)
(* variable is an action of its own.                                       *)
(*                                                                         *)
(* Memory model.  The build target is AArch64, where a store-release and a *)
(* load-acquire are never reordered with each other and every store        *)
(* reaches all cores at once, so an interleaving of the accesses in        *)
(* program order is exact.                                                 *)
(***************************************************************************)
EXTENDS Integers, Sequences

CONSTANTS
    Capacity,   \* the template parameter
    Items,      \* the payloads the producer may push
    NoItem      \* the value-initialised T{}, and std::nullopt

\* The static_assert of the class: a power of two.
ASSUME CapacityAssumption ==
    /\ Capacity \in Nat \ {0}
    /\ \E k \in 0..Capacity : Capacity = 2^k

ASSUME ItemsAssumption == NoItem \notin Items

Slots == 0..(Capacity - 1)

\* Mutant of Wrap: the mask forgotten.
WrapUnmasked(x) == x

\* x & MASK for an index that is at most one lap too large.
Wrap(x) == IF x >= Capacity THEN x - Capacity ELSE x

\* (b - a) & MASK: how far b is ahead of a on the ring.
Dist(a, b) == IF a <= b THEN b - a ELSE b - a + Capacity

VARIABLES
    head, tail, buf,     \* the shared memory
    ppc, item, ph,       \* producer: control point, argument, register h
    pushRet,             \* what the last push returned
    cpc, ct, got,        \* consumer: control point, register t, item copied
    popRet               \* what the last pop returned

prodVars == <<ppc, item, ph, pushRet>>
consVars == <<cpc, ct, got, popRet>>
vars == <<head, tail, buf, prodVars, consVars>>

Size == Dist(tail, head)

TypeOK ==
    /\ head \in Slots /\ tail \in Slots
    /\ buf \in [Slots -> Items \cup {NoItem}]
    /\ ppc \in {"idle", "loadTail", "write", "publish"}
    /\ item \in Items \cup {NoItem}
    /\ item \in Items <=> ppc # "idle"
    /\ ph \in Slots
    /\ pushRet \in BOOLEAN
    /\ cpc \in {"idle", "loadHead", "read", "consume"}
    /\ ct \in Slots
    /\ got \in Items \cup {NoItem}
    /\ popRet \in Items \cup {NoItem}

Init ==
    /\ head = 0 /\ tail = 0
    /\ buf = [s \in Slots |-> NoItem]
    /\ ppc = "idle" /\ item = NoItem /\ ph = 0 /\ pushRet = FALSE
    /\ cpc = "idle" /\ ct = 0 /\ got = NoItem /\ popRet = NoItem

-----------------------------------------------------------------------------
(* push() *)

PushCall(x) ==
    /\ ppc = "idle"
    /\ item' = x
    /\ ph' = head
    /\ ppc' = "loadTail"
    /\ UNCHANGED <<head, tail, buf, pushRet, consVars>>

\* Mutant of PushFull: push() spins until there is room.
PushFullSpins ==
    /\ ppc = "loadTail"
    /\ Wrap(ph + 1) = tail
    /\ UNCHANGED vars

\* Mutant of PushFull: a second slot is kept free.
PushFullEarly ==
    /\ ppc = "loadTail"
    /\ tail \in {Wrap(ph + 1), Wrap(Wrap(ph + 1) + 1)}
    /\ pushRet' = FALSE
    /\ ppc' = "idle" /\ item' = NoItem
    /\ UNCHANGED <<head, tail, buf, ph, consVars>>

PushFull ==
    /\ ppc = "loadTail"
    /\ Wrap(ph + 1) = tail
    /\ pushRet' = FALSE
    /\ ppc' = "idle" /\ item' = NoItem
    /\ UNCHANGED <<head, tail, buf, ph, consVars>>

\* Mutant of PushSpace: no full check.
PushSpaceUnchecked ==
    /\ ppc = "loadTail"
    /\ ppc' = "write"
    /\ UNCHANGED <<head, tail, buf, item, ph, pushRet, consVars>>

PushSpace ==
    /\ ppc = "loadTail"
    /\ Wrap(ph + 1) # tail
    /\ ppc' = "write"
    /\ UNCHANGED <<head, tail, buf, item, ph, pushRet, consVars>>

PushWrite ==
    /\ ppc = "write"
    /\ buf' = [buf EXCEPT ![ph] = item]
    /\ ppc' = "publish"
    /\ UNCHANGED <<head, tail, item, ph, pushRet, consVars>>

PushPublish ==
    /\ ppc = "publish"
    /\ head' = Wrap(ph + 1)
    /\ pushRet' = TRUE
    /\ ppc' = "idle" /\ item' = NoItem
    /\ UNCHANGED <<tail, buf, ph, consVars>>

-----------------------------------------------------------------------------
(* pop() *)

PopCall ==
    /\ cpc = "idle"
    /\ ct' = tail
    /\ cpc' = "loadHead"
    /\ UNCHANGED <<head, tail, buf, prodVars, got, popRet>>

PopEmpty ==
    /\ cpc = "loadHead"
    /\ ct = head
    /\ popRet' = NoItem
    /\ cpc' = "idle"
    /\ UNCHANGED <<head, tail, buf, prodVars, ct, got>>

PopAvailable ==
    /\ cpc = "loadHead"
    /\ ct # head
    /\ cpc' = "read"
    /\ UNCHANGED <<head, tail, buf, prodVars, ct, got, popRet>>

\* Mutant of PopRead: the slot is handed back before it is copied.
PopReadLate ==
    /\ cpc = "read"
    /\ tail' = Wrap(ct + 1)
    /\ got' = buf[tail']
    /\ cpc' = "consume"
    /\ UNCHANGED <<head, buf, prodVars, ct, popRet>>

PopRead ==
    /\ cpc = "read"
    /\ got' = buf[ct]
    /\ cpc' = "consume"
    /\ UNCHANGED <<head, tail, buf, prodVars, ct, popRet>>

PopConsume ==
    /\ cpc = "consume"
    /\ tail' = Wrap(ct + 1)
    /\ popRet' = got
    /\ cpc' = "idle" /\ got' = NoItem
    /\ UNCHANGED <<head, buf, prodVars, ct>>

-----------------------------------------------------------------------------
PushStep == PushFull \/ PushSpace \/ PushWrite \/ PushPublish
PopStep  == PopEmpty \/ PopAvailable \/ PopRead \/ PopConsume

Next ==
    \/ \E x \in Items : PushCall(x)
    \/ PushStep
    \/ PopCall
    \/ PopStep

\* A thread inside push() or pop() keeps running; nothing makes a thread call.
Fairness == WF_vars(PushStep) /\ WF_vars(PopStep)

Spec == Init /\ [][Next]_vars

FairSpec == Spec /\ Fairness

-----------------------------------------------------------------------------
(* Properties *)

\* The consumer never copies a slot while the producer is filling it
\* (buf_[h] = item against T item = buf_[t]): the plain accesses to a slot do
\* not overlap, although nothing but the two indices orders them.
NoSlotRace == ~(ppc = "write" /\ cpc = "read" /\ ph = ct)

\* The inductive strengthening behind it.  A register still holds the index it
\* was loaded from (one thread writes each index); a thread past its check owns
\* the slot it checked for; the item in transit is the one in the slot.
Registers ==
    /\ ppc # "idle" => ph = head
    /\ cpc # "idle" => ct = tail

SlotOwned ==
    /\ ppc \in {"write", "publish"} => Wrap(head + 1) # tail
    /\ cpc \in {"read", "consume"} => tail # head

InTransit ==
    /\ ppc = "publish" => buf[head] = item
    /\ cpc = "consume" => got = buf[tail]

IInv == TypeOK /\ Registers /\ SlotOwned /\ InTransit

\* The abstract queue: what lies between the indices, oldest first.
Queue == [i \in 1..Size |-> buf[Wrap(tail + i - 1)]]

Fifo == INSTANCE BoundedFifo WITH
            Bound   <- Capacity - 1,
            queue   <- Queue,
            offer   <- item,
            taking  <- (cpc # "idle")

\* push() and pop() are the operations of a FIFO queue of Capacity - 1 items:
\* nothing is lost, duplicated, reordered or returned before it was written,
\* and "full" and "empty" are exact when they are decided.
ImplementsFifo == Fifo!Spec

\* Neither call waits for the other thread: each returns although the other
\* thread may never call again.
CallsReturn ==
    /\ (ppc # "idle") ~> (ppc = "idle")
    /\ (cpc # "idle") ~> (cpc = "idle")

=============================================================================
