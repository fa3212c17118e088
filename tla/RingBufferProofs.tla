-------------------------- MODULE RingBufferProofs --------------------------
(***************************************************************************)
(* Proofs about RingBuffer and RingObserver, for every capacity and every  *)
(* set of items.                                                           *)
(***************************************************************************)
EXTENDS RingObserver, SequenceTheorems, TLAPS

\* All the proofs need of the power of two: there is a slot.
LEMMA CapacityPositive == Capacity \in Nat /\ Capacity >= 1
BY CapacityAssumption

USE CapacityPositive DEF Slots

-----------------------------------------------------------------------------
(* The index arithmetic. *)

\* An index incremented and masked is an index.
LEMMA WrapType ==
    ASSUME NEW a \in Slots
    PROVE  Wrap(a + 1) \in Slots
BY DEF Wrap

\* The distance between two indices is at most Capacity - 1.
LEMMA DistType ==
    ASSUME NEW a \in Slots, NEW b \in Slots
    PROVE  Dist(a, b) \in Slots
BY DEF Dist

\* Equal indices mean an empty ring, adjacent ones a full ring.
LEMMA DistExtremes ==
    ASSUME NEW a \in Slots, NEW b \in Slots
    PROVE  /\ (Dist(a, b) = 0) <=> (a = b)
           /\ (Dist(a, b) = Capacity - 1) <=> (Wrap(b + 1) = a)
BY DEF Dist, Wrap

\* Publishing makes the ring one longer.
LEMMA DistPush ==
    ASSUME NEW a \in Slots, NEW b \in Slots, Wrap(b + 1) # a
    PROVE  Dist(a, Wrap(b + 1)) = Dist(a, b) + 1
BY DEF Dist, Wrap

\* Consuming makes it one shorter.
LEMMA DistPop ==
    ASSUME NEW a \in Slots, NEW b \in Slots, a # b
    PROVE  Dist(Wrap(a + 1), b) = Dist(a, b) - 1
BY DEF Dist, Wrap

-----------------------------------------------------------------------------
\* Every variable keeps its type: the initial states, then every step.
LEMMA TypeInit == Init => TypeOK
<1> SUFFICES ASSUME Init PROVE TypeOK
  OBVIOUS
<1>1. buf \in [Slots -> Items \cup {NoItem}]
  BY DEF Init
<1>2. head \in Slots /\ tail \in Slots /\ ph \in Slots /\ ct \in Slots
  BY DEF Init
<1>3. item \in Items <=> ppc # "idle"
  BY ItemsAssumption DEF Init
<1>4. pushRet \in BOOLEAN
  BY DEF Init
<1>5. QED
  BY <1>1, <1>2, <1>3, <1>4 DEF Init, TypeOK

\* No step of push() or pop() leaves the types.
LEMMA TypeStep == TypeOK /\ [Next]_vars => TypeOK'
<1> SUFFICES ASSUME TypeOK, [Next]_vars PROVE TypeOK'
  OBVIOUS
<1> USE ItemsAssumption DEF TypeOK
<1>1. ASSUME NEW x \in Items, PushCall(x) PROVE TypeOK'
  BY <1>1 DEF PushCall, consVars
<1>2. CASE PushFull
  BY <1>2 DEF PushFull, consVars
<1>3. CASE PushSpace
  BY <1>3 DEF PushSpace, consVars
<1>4. CASE PushWrite
  BY <1>4 DEF PushWrite, consVars
<1>5. CASE PushPublish
  BY <1>5, WrapType DEF PushPublish, consVars
<1>6. CASE PopCall
  BY <1>6 DEF PopCall, prodVars
<1>7. CASE PopEmpty
  BY <1>7 DEF PopEmpty, prodVars
<1>8. CASE PopAvailable
  BY <1>8 DEF PopAvailable, prodVars
<1>9. CASE PopRead
  BY <1>9 DEF PopRead, prodVars
<1>10. CASE PopConsume
  BY <1>10, WrapType DEF PopConsume, prodVars
<1>11. CASE UNCHANGED vars
  BY <1>11 DEF vars, prodVars, consVars
<1>12. QED
  BY <1>1, <1>2, <1>3, <1>4, <1>5, <1>6, <1>7, <1>8, <1>9, <1>10, <1>11
     DEF Next, PushStep, PopStep

\* Type correctness of the ring buffer.
THEOREM TypeCorrect == Spec => []TypeOK
BY TypeInit, TypeStep, PTL DEF Spec

-----------------------------------------------------------------------------
(* The inductive invariant *)

\* Both threads are idle and the ring is empty.
LEMMA InvInit == Init => IInv
BY TypeInit DEF Init, IInv, Registers, SlotOwned, InTransit

\* Each thread's steps keep what the other thread relies on: only the producer
\* moves head and fills slots, only the consumer moves tail, and neither index
\* overtakes the other.
LEMMA InvStep == IInv /\ [Next]_vars => IInv'
<1> SUFFICES ASSUME IInv, [Next]_vars PROVE IInv'
  OBVIOUS
<1> USE DEF IInv
<1>t. TypeOK /\ TypeOK'
  BY TypeStep
<1> USE DEF Registers, SlotOwned, InTransit
<1>1. ASSUME NEW x \in Items, PushCall(x) PROVE IInv'
  BY <1>1, <1>t DEF PushCall, consVars
<1>2. CASE PushFull
  BY <1>2, <1>t DEF PushFull, consVars
<1>3. CASE PushSpace
  BY <1>3, <1>t DEF PushSpace, consVars
<1>4. CASE PushWrite
  <2>1. buf' = [buf EXCEPT ![head] = item]
    BY <1>4 DEF PushWrite
  <2>2. buf'[head] = item
    BY <2>1, <1>t DEF TypeOK
  <2>3. tail # head => buf'[tail] = buf[tail]
    BY <2>1, <1>t DEF TypeOK
  <2>4. QED
    BY <1>4, <1>t, <2>2, <2>3 DEF PushWrite, consVars
<1>5. CASE PushPublish
  BY <1>5, <1>t DEF PushPublish, consVars
<1>6. CASE PopCall
  BY <1>6, <1>t DEF PopCall, prodVars
<1>7. CASE PopEmpty
  BY <1>7, <1>t DEF PopEmpty, prodVars
<1>8. CASE PopAvailable
  BY <1>8, <1>t DEF PopAvailable, prodVars
<1>9. CASE PopRead
  BY <1>9, <1>t DEF PopRead, prodVars
<1>10. CASE PopConsume
  <2>1. Wrap(head + 1) # tail => Wrap(head + 1) # tail'
    BY <1>10, <1>t DEF PopConsume, Wrap, TypeOK
  <2>2. QED
    BY <1>10, <1>t, <2>1 DEF PopConsume, prodVars
<1>11. CASE UNCHANGED vars
  BY <1>11, <1>t DEF vars, prodVars, consVars
<1>12. QED
  BY <1>1, <1>2, <1>3, <1>4, <1>5, <1>6, <1>7, <1>8, <1>9, <1>10, <1>11
     DEF Next, PushStep, PopStep

\* The indices alone keep the two threads out of each other's slot.
THEOREM NoSlotRaceHolds == Spec => []NoSlotRace
<1>1. IInv => NoSlotRace
  BY DEF IInv, TypeOK, Registers, SlotOwned, NoSlotRace
<1>2. QED
  BY InvInit, InvStep, <1>1, PTL DEF Spec

-----------------------------------------------------------------------------
(* Refinement: each store of an index is a step of the FIFO, the rest stutter *)

\* The abstract queue is a sequence of items, as long as the ring is full.
LEMMA QueueType ==
    ASSUME TypeOK
    PROVE  /\ Queue \in Seq(Items \cup {NoItem})
           /\ Len(Queue) = Size
           /\ Size \in Slots
<1>1. Size \in Slots
  BY DistType DEF TypeOK, Size
<1>2. \A i \in 1..Size : buf[Wrap(tail + i - 1)] \in Items \cup {NoItem}
  BY <1>1 DEF TypeOK, Wrap
<1>3. QED
  BY <1>1, <1>2 DEF Queue

\* A step that keeps both indices and the occupied slots keeps the queue.
LEMMA QueueUnchanged ==
    ASSUME TypeOK, UNCHANGED <<head, tail>>,
           \A i \in 1..Size : buf'[Wrap(tail + i - 1)] = buf[Wrap(tail + i - 1)]
    PROVE  Queue' = Queue
<1>1. Size' = Size
  BY DEF Size, Dist
<1>2. QED
  BY <1>1 DEF Queue

\* Publishing a filled slot appends its item.
LEMMA QueuePush ==
    ASSUME TypeOK, Wrap(head + 1) # tail, head' = Wrap(head + 1),
           UNCHANGED <<tail, buf>>
    PROVE  Queue' = Append(Queue, buf[head])
<1>1. Size' = Size + 1
  BY DistPush DEF Size, TypeOK
<1>2. Size \in Slots /\ Len(Queue) = Size
  BY QueueType
<1>3. Wrap(tail + Size) = head
  BY <1>2 DEF Wrap, Size, Dist, TypeOK
<1>4. Queue' = [i \in 1..(Size + 1) |-> buf[Wrap(tail + i - 1)]]
  BY <1>1 DEF Queue
<1>5. Append(Queue, buf[head])
        = [i \in 1..(Size + 1) |-> IF i \in 1..Size THEN Queue[i] ELSE buf[head]]
  BY <1>2, QueueType
<1>6. ASSUME NEW i \in 1..(Size + 1)
      PROVE  buf[Wrap(tail + i - 1)] = IF i \in 1..Size THEN Queue[i] ELSE buf[head]
  <2>1. CASE i \in 1..Size
    BY <2>1 DEF Queue
  <2>2. CASE i = Size + 1
    BY <2>2, <1>2, <1>3 DEF TypeOK
  <2>3. QED
    BY <2>1, <2>2, <1>2
<1>7. QED
  BY <1>4, <1>5, <1>6

\* Consuming a slot removes the oldest item.
LEMMA QueuePop ==
    ASSUME TypeOK, tail # head, tail' = Wrap(tail + 1), UNCHANGED <<head, buf>>
    PROVE  Queue # << >> /\ Head(Queue) = buf[tail] /\ Queue' = Tail(Queue)
<1>1. Size' = Size - 1
  BY DistPop DEF Size, TypeOK
<1>2. Size \in Slots /\ Size # 0 /\ Len(Queue) = Size
  BY QueueType, DistExtremes DEF Size, TypeOK
<1>3. Head(Queue) = buf[tail]
  BY <1>2 DEF Queue, Wrap, TypeOK
<1>4. Queue' = [i \in 1..(Size - 1) |-> buf[Wrap(tail' + i - 1)]]
  BY <1>1 DEF Queue
<1>5. /\ Tail(Queue) \in Seq(Items \cup {NoItem})
      /\ Len(Tail(Queue)) = Size - 1
      /\ \A i \in 1..(Size - 1) : Tail(Queue)[i] = Queue[i + 1]
  BY <1>2, QueueType, HeadTailProperties
<1>6. ASSUME NEW i \in 1..(Size - 1)
      PROVE  /\ buf[Wrap(tail' + i - 1)] = Queue[i + 1]
             /\ buf[Wrap(tail' + i - 1)] \in Items \cup {NoItem}
  <2>1. Wrap(tail' + i - 1) = Wrap(tail + (i + 1) - 1)
    BY <1>2 DEF Wrap, TypeOK
  <2>2. Wrap(tail' + i - 1) \in Slots
    BY <1>2 DEF Wrap, TypeOK
  <2>3. QED
    BY <2>1, <2>2, <1>2 DEF Queue, TypeOK
<1>7. Queue' \in Seq(Items \cup {NoItem}) /\ Len(Queue') = Size - 1
  BY <1>2, <1>4, <1>6
<1>8. Queue' = Tail(Queue)
  BY <1>4, <1>5, <1>6, <1>7, SeqEqual
<1>9. QED
  BY <1>2, <1>3, <1>8

\* Every step of push() and pop() is a step of the FIFO or invisible to it.
LEMMA FifoStep == IInv /\ IInv' /\ [Next]_vars => [Fifo!Next]_(Fifo!vars)
<1> SUFFICES ASSUME IInv, IInv', [Next]_vars PROVE [Fifo!Next]_(Fifo!vars)
  OBVIOUS
<1>t. TypeOK
  BY DEF IInv
<1>q. Len(Queue) = Size /\ Size \in Slots /\ Queue \in Seq(Items \cup {NoItem})
  BY <1>t, QueueType
<1>1. ASSUME NEW x \in Items, PushCall(x) PROVE Fifo!CallPush(x)
  <2>1. Queue' = Queue
    BY <1>1, <1>t, QueueUnchanged DEF PushCall
  <2>2. item = NoItem
    BY <1>1, <1>t DEF PushCall, TypeOK
  <2>3. QED
    BY <1>1, <2>1, <2>2 DEF PushCall, consVars, Fifo!CallPush
<1>2. ASSUME PushFull PROVE Fifo!PushFull
  <2>1. Queue' = Queue
    BY <1>2, <1>t, QueueUnchanged DEF PushFull
  <2>2. item # NoItem
    BY <1>2, <1>t, ItemsAssumption DEF PushFull, TypeOK
  <2>3. Size = Capacity - 1
    BY <1>2, <1>t, DistExtremes DEF PushFull, TypeOK, Size, IInv, Registers
  <2>4. QED
    BY <1>2, <2>1, <2>2, <2>3, <1>q DEF PushFull, consVars, Fifo!PushFull
<1>3. ASSUME PushSpace PROVE UNCHANGED Fifo!vars
  BY <1>3, <1>t, QueueUnchanged DEF PushSpace, consVars, Fifo!vars
<1>4. ASSUME PushWrite PROVE UNCHANGED Fifo!vars
  <2>1. \A i \in 1..Size : Wrap(tail + i - 1) # ph /\ Wrap(tail + i - 1) \in Slots
    BY <1>4, <1>t DEF PushWrite, IInv, Registers, TypeOK, Size, Dist, Wrap
  <2>2. \A i \in 1..Size : buf'[Wrap(tail + i - 1)] = buf[Wrap(tail + i - 1)]
    BY <1>4, <2>1, <1>t DEF PushWrite, TypeOK
  <2>3. Queue' = Queue
    BY <1>4, <1>t, <2>2, QueueUnchanged DEF PushWrite
  <2>4. QED
    BY <1>4, <2>3 DEF PushWrite, consVars, Fifo!vars
<1>5. ASSUME PushPublish PROVE Fifo!PushOk
  <2>1. Wrap(head + 1) # tail /\ buf[head] = item /\ ph = head
    BY <1>5 DEF PushPublish, IInv, Registers, SlotOwned, InTransit
  <2>2. Queue' = Append(Queue, item)
    BY <1>5, <1>t, <2>1, QueuePush DEF PushPublish
  <2>3. item # NoItem
    BY <1>5, <1>t, ItemsAssumption DEF PushPublish, TypeOK
  <2>4. Size < Capacity - 1
    <3>1. Size # Capacity - 1
      BY <2>1, <1>t, DistExtremes DEF Size, TypeOK
    <3>2. QED
      BY <3>1, <1>q
  <2>5. QED
    BY <1>5, <2>2, <2>3, <2>4, <1>q DEF PushPublish, consVars, Fifo!PushOk
<1>6. ASSUME PopCall PROVE Fifo!CallPop
  <2>1. Queue' = Queue
    BY <1>6, <1>t, QueueUnchanged DEF PopCall
  <2>2. QED
    BY <1>6, <2>1 DEF PopCall, prodVars, Fifo!CallPop
<1>7. ASSUME PopEmpty PROVE Fifo!PopEmpty
  <2>1. Queue' = Queue
    BY <1>7, <1>t, QueueUnchanged DEF PopEmpty
  <2>2. Size = 0
    BY <1>7, <1>t, DistExtremes DEF PopEmpty, TypeOK, Size, IInv, Registers
  <2>3. QED
    BY <1>7, <2>1, <2>2, <1>q DEF PopEmpty, prodVars, Fifo!PopEmpty
<1>8. ASSUME PopAvailable PROVE UNCHANGED Fifo!vars
  BY <1>8, <1>t, QueueUnchanged DEF PopAvailable, prodVars, Fifo!vars
<1>9. ASSUME PopRead PROVE UNCHANGED Fifo!vars
  BY <1>9, <1>t, QueueUnchanged DEF PopRead, prodVars, Fifo!vars
<1>10. ASSUME PopConsume PROVE Fifo!PopOk
  <2>1. tail # head /\ got = buf[tail] /\ ct = tail
    BY <1>10 DEF PopConsume, IInv, Registers, SlotOwned, InTransit
  <2>2. Queue # << >> /\ Head(Queue) = got /\ Queue' = Tail(Queue)
    BY <1>10, <1>t, <2>1, QueuePop DEF PopConsume
  <2>3. QED
    BY <1>10, <2>2 DEF PopConsume, prodVars, Fifo!PopOk
<1>11. ASSUME UNCHANGED vars PROVE UNCHANGED Fifo!vars
  BY <1>11, <1>t, QueueUnchanged DEF vars, prodVars, consVars, Fifo!vars
<1>12. QED
  BY <1>1, <1>2, <1>3, <1>4, <1>5, <1>6, <1>7, <1>8, <1>9, <1>10, <1>11
     DEF Next, PushStep, PopStep, Fifo!Next

\* push() and pop() implement a FIFO queue of Capacity - 1 items, whatever the
\* capacity and the payloads.
THEOREM RingImplementsFifo == Spec => ImplementsFifo
<1>1. Init => Fifo!Init
  <2> SUFFICES ASSUME Init PROVE Fifo!Init
    OBVIOUS
  <2>1. Size = 0
    BY DEF Init, Size, Dist
  <2>2. Queue = << >>
    BY <2>1 DEF Queue
  <2>3. QED
    BY <2>2 DEF Init, Fifo!Init
<1>2. QED
  BY <1>1, InvInit, InvStep, FifoStep, PTL DEF Spec, ImplementsFifo, Fifo!Spec

-----------------------------------------------------------------------------
(* The observers: looking changes nothing, and what was seen stays safe *)

\* Looking is no step of the ring.
LEMMA ObsStepIsStep == [ObsNext]_obsVars => [Next]_vars
BY DEF ObsNext, ObsPushStep, ObsPopStep, PeekTail, PeekHead, Next, obsVars

LEMMA ViewsInit == ObsInit => ViewsErrSafely
BY DEF ObsInit, ViewsErrSafely

\* Only the owner moves an index away from what the other index was seen to be,
\* and it does so only after a check that looks anew.
LEMMA ViewsStep ==
    IInv /\ IInv' /\ ViewsErrSafely /\ [ObsNext]_obsVars => ViewsErrSafely'
<1> SUFFICES ASSUME IInv, IInv', ViewsErrSafely, [ObsNext]_obsVars
             PROVE  ViewsErrSafely'
  OBVIOUS
<1> USE DEF ViewsErrSafely, Unknown
<1>t. /\ head \in Slots /\ tail \in Slots /\ ph \in Slots /\ ct \in Slots
      /\ head' \in Slots /\ tail' \in Slots
  BY DEF IInv, TypeOK
<1>s. Size' = Dist(tail', head') /\ Size = Dist(tail, head)
  BY DEF Size, Dist
<1>1. ASSUME NEW x \in Items, PushCall(x), UNCHANGED <<ptail, chead>>
      PROVE  ViewsErrSafely'
  BY <1>1, <1>s DEF PushCall, consVars, Dist
<1>2. ASSUME PushFull \/ PushSpace, ptail' = Unknown, UNCHANGED chead
      PROVE  ViewsErrSafely'
  BY <1>2, <1>s DEF PushFull, PushSpace, consVars, Dist
<1>3. ASSUME PushWrite, UNCHANGED <<ptail, chead>> PROVE ViewsErrSafely'
  BY <1>3, <1>s DEF PushWrite, consVars, Dist
<1>4. ASSUME PushPublish, UNCHANGED <<ptail, chead>> PROVE ViewsErrSafely'
  <2>1. /\ head' = Wrap(head + 1) /\ Wrap(head + 1) # tail
        /\ UNCHANGED <<tail, cpc>> /\ ppc' = "idle" /\ ppc = "publish"
    BY <1>4 DEF PushPublish, IInv, Registers, SlotOwned, consVars
  <2>2. Size' = Size + 1
    BY <2>1, <1>t, <1>s, DistPush
  <2>3. ptail # Unknown => Dist(ptail, head') = Dist(ptail, head) + 1
    BY <2>1, <1>t, DistPush
  <2>4. Size \in Slots /\ (ptail # Unknown => Dist(ptail, head) \in Slots)
    BY <1>t, <1>s, DistType
  <2>5. chead # Unknown => Dist(tail, chead) \in Slots
    BY <1>t, DistType
  <2>6. ptail' # Unknown => Size' <= Dist(ptail, head)' /\ ppc' = "idle"
    BY <1>4, <2>1, <2>2, <2>3, <2>4 DEF Dist
  <2>7. chead' # Unknown =>
          /\ Dist(tail, chead)' <= Size'
          /\ cpc' \in {"read", "consume"} => tail' # chead'
    BY <1>4, <2>1, <2>2, <2>4, <2>5 DEF Dist
  <2>8. QED
    BY <1>4, <2>6, <2>7
<1>5. ASSUME PopCall, UNCHANGED <<ptail, chead>> PROVE ViewsErrSafely'
  BY <1>5, <1>s DEF PopCall, prodVars, Dist
<1>6. ASSUME PopEmpty \/ PopAvailable, chead' = Unknown, UNCHANGED ptail
      PROVE  ViewsErrSafely'
  BY <1>6, <1>s DEF PopEmpty, PopAvailable, prodVars, Dist
<1>7. ASSUME PopRead, UNCHANGED <<ptail, chead>> PROVE ViewsErrSafely'
  BY <1>7, <1>s DEF PopRead, prodVars, Dist
<1>8. ASSUME PopConsume, UNCHANGED <<ptail, chead>> PROVE ViewsErrSafely'
  <2>1. /\ tail' = Wrap(tail + 1) /\ tail # head
        /\ UNCHANGED <<head, ppc>> /\ cpc' = "idle" /\ cpc = "consume"
    BY <1>8 DEF PopConsume, IInv, Registers, SlotOwned, prodVars
  <2>2. Size' = Size - 1
    BY <2>1, <1>t, <1>s, DistPop
  <2>3. chead # Unknown => Dist(tail', chead) = Dist(tail, chead) - 1
    BY <2>1, <1>t, DistPop
  <2>4. Size \in Slots /\ (ptail # Unknown => Dist(ptail, head) \in Slots)
    BY <1>t, <1>s, DistType
  <2>5. chead # Unknown => Dist(tail, chead) \in Slots
    BY <1>t, DistType
  <2>6. ptail' # Unknown =>
          /\ Size' <= Dist(ptail, head)'
          /\ ppc' \in {"write", "publish"} => Wrap(head + 1)' # ptail'
    BY <1>8, <2>1, <2>2, <2>4 DEF Dist, Wrap
  <2>7. chead' # Unknown => Dist(tail, chead)' <= Size' /\ cpc' = "idle"
    BY <1>8, <2>1, <2>2, <2>3, <2>4, <2>5 DEF Dist
  <2>8. QED
    BY <1>8, <2>6, <2>7
<1>9. CASE PeekTail
  BY <1>9, <1>t, <1>s DEF PeekTail, IInv, SlotOwned, vars, prodVars, consVars, Dist
<1>10. CASE PeekHead
  BY <1>10, <1>t, <1>s DEF PeekHead, IInv, SlotOwned, vars, prodVars, consVars, Dist
<1>11. CASE UNCHANGED obsVars
  BY <1>11, <1>s DEF obsVars, vars, prodVars, consVars, Dist
<1>12. CASE ObsPushStep
  BY <1>12, <1>2, <1>3, <1>4
     DEF ObsPushStep, PushStep, PushFull, PushSpace, PushWrite, PushPublish
<1>13. CASE ObsPopStep
  BY <1>13, <1>6, <1>7, <1>8
     DEF ObsPopStep, PopStep, PopEmpty, PopAvailable, PopRead, PopConsume
<1>14. QED
  BY <1>1, <1>5, <1>9, <1>10, <1>11, <1>12, <1>13 DEF ObsNext

\* A thread's own size_approx() is a bound on the true size, however old the
\* index it loaded has become.
THEOREM OwnSizeBounds == ObsSpec => []OwnSizeIsBound
<1>1. IInv /\ ViewsErrSafely => OwnSizeIsBound
  BY DEF ViewsErrSafely, OwnSizeIsBound, size_approx
<1>2. ObsInit => IInv
  BY InvInit DEF ObsInit
<1>3. QED
  BY <1>1, <1>2, InvStep, ObsStepIsStep, ViewsInit, ViewsStep, PTL DEF ObsSpec

\* A push() is not refused after its producer saw room, and a pop() not empty
\* after its consumer saw an item.
THEOREM LookingWorks == ObsSpec => LookThenCall
<1> DEFINE A ==
      /\ ptail # Unknown /\ size_approx(head, ptail) < Capacity - 1 => ~PushFull
      /\ chead # Unknown /\ ~empty(chead, tail) => ~PopEmpty
<1>1. ASSUME IInv, ViewsErrSafely PROVE A
  <2>t. /\ head \in Slots /\ tail \in Slots
        /\ ptail \in Slots \cup {Unknown} /\ chead \in Slots \cup {Unknown}
    BY <1>1 DEF IInv, TypeOK, ViewsErrSafely
  <2>1. ASSUME PushFull, ptail # Unknown PROVE size_approx(head, ptail) >= Capacity - 1
    <3>1. Wrap(head + 1) = tail
      BY <2>1, <1>1 DEF PushFull, IInv, Registers
    <3>2. Size = Capacity - 1
      BY <3>1, <2>t, DistExtremes DEF Size
    <3>3. Size <= Dist(ptail, head)
      BY <1>1, <2>1 DEF ViewsErrSafely
    <3>4. QED
      BY <3>2, <3>3 DEF size_approx
  <2>2. ASSUME PopEmpty, chead # Unknown PROVE empty(chead, tail)
    <3>1. tail = head
      BY <2>2, <1>1 DEF PopEmpty, IInv, Registers
    <3>2. Size = 0
      BY <3>1, <2>t, DistExtremes DEF Size
    <3>3. Dist(tail, chead) <= Size /\ Dist(tail, chead) \in Slots
      BY <1>1, <2>2, <2>t, DistType DEF ViewsErrSafely
    <3>4. Dist(tail, chead) = 0
      BY <3>2, <3>3
    <3>5. QED
      BY <3>4, <2>2, <2>t, DistExtremes DEF empty
  <2>3. ptail # Unknown => size_approx(head, ptail) \in Slots
    BY <2>t, DistType DEF size_approx
  <2>4. QED
    BY <2>1, <2>2, <2>3
<1>2. ObsInit => IInv
  BY InvInit DEF ObsInit
<1>3. IInv /\ ViewsErrSafely => [A]_obsVars
  BY <1>1
<1>4. QED
  BY <1>2, <1>3, InvStep, ObsStepIsStep, ViewsInit, ViewsStep, PTL
     DEF ObsSpec, LookThenCall
=============================================================================
