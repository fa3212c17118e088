-------------------------- MODULE OrderBookProofs --------------------------
(***************************************************************************)
(* Proofs about OrderBook, for every capacity, price set and deltas.       *)
(***************************************************************************)
EXTENDS OrderBook, PriceLevelsProofs

-----------------------------------------------------------------------------
\* The initial values are of the right types.
LEMMA TypeInit == Init => TypeOK
BY EmptyLevelFacts, CapacityPositive DEF Init, TypeOK, Sides

\* Every variable keeps its type; the slots stay well placed on the way.
LEMMA TypeStep == TypeOK /\ SlotDiscipline /\ [Next]_vars => TypeOK' /\ SlotDiscipline'
<1> SUFFICES ASSUME TypeOK, SlotDiscipline, [Next]_vars
             PROVE  TypeOK' /\ SlotDiscipline'
  OBVIOUS
<1> USE DEF TypeOK, SlotDiscipline
<1>0. ASSUME NEW s \in Sides, NEW price \in Prices, NEW lv \in PriceLevel,
             WellPlaced(lv, SlotOf(price)), Change(s, price, lv)
      PROVE  TypeOK' /\ SlotDiscipline'
  <2>1. SlotOf(price) \in Slots
    BY SlotOfType, PricesAssumption
  <2>2. TypeOK'
    BY <1>0, <2>1, EmptyLevelFacts, CapacityPositive DEF Change
  <2>3. SlotDiscipline'
    BY <1>0, <2>1 DEF Change
  <2>4. QED
    BY <2>2, <2>3
<1>1. ASSUME NEW s \in Sides, NEW price \in Prices, NEW dq \in QtyDeltas,
             NEW do \in OrderDeltas, update_level(s, price, dq, do)
      PROVE  TypeOK' /\ SlotDiscipline'
  <2>1. SlotOf(price) \in Slots /\ dq \in Int /\ do \in Int
    BY SlotOfType, PricesAssumption, DeltasAssumption
  <2>2. levels[s][SlotOf(price)] \in PriceLevel
    BY <2>1
  <2>3. WellPlaced(levels[s][SlotOf(price)], SlotOf(price))
    BY <2>1
  <2>4. QED
    BY <1>0, <1>1, <2>1, <2>2, <2>3, UpdatedWellPlaced DEF update_level
<1>2. ASSUME NEW s \in Sides, NEW price \in Prices, remove_level(s, price)
      PROVE  TypeOK' /\ SlotDiscipline'
  <2>1. SlotOf(price) \in Slots
    BY SlotOfType, PricesAssumption
  <2>2. levels[s][SlotOf(price)] \in PriceLevel
    BY <2>1
  <2>3. WellPlaced(levels[s][SlotOf(price)], SlotOf(price))
    BY <2>1
  <2>4. QED
    BY <1>0, <1>2, <2>1, <2>2, <2>3, RemovedWellPlaced DEF remove_level
<1>3. CASE reset
  BY <1>3, EmptyLevelFacts DEF reset
<1>4. CASE ScanSlot
  BY <1>4, CapacityPositive DEF ScanSlot, Slots
<1>5. CASE Publish
  BY <1>5 DEF Publish
<1>6. CASE UNCHANGED vars
  BY <1>6 DEF vars
<1>7. QED
  BY <1>1, <1>2, <1>3, <1>4, <1>5, <1>6 DEF Next

\* Whatever the callers ask for, no level gets a negative quantity, and the scan
\* stays within the slots.
THEOREM TypeCorrect == Spec => []TypeOK
<1>1. Init => SlotDiscipline
  BY EmptyLevelFacts DEF Init, SlotDiscipline
<1>2. QED
  BY <1>1, TypeInit, TypeStep, PTL DEF Spec

\* The slots hold no leftovers, whatever the callers ask for.
THEOREM SlotsDisciplined == Spec => []SlotDiscipline
<1>1. Init => SlotDiscipline
  BY EmptyLevelFacts DEF Init, SlotDiscipline
<1>2. QED
  BY <1>1, TypeInit, TypeStep, PTL DEF Spec

-----------------------------------------------------------------------------
(* The inductive invariant: TobIsBest needs the loop invariant of the scan *)

\* The constructor's empty book has an empty top.
LEMMA InvInit == Init => IInv
<1>1. Init => SlotDiscipline
  BY EmptyLevelFacts DEF Init, SlotDiscipline
<1>2. Init => TobIsBest
  BY EmptyLevelFacts DEF Init, TobIsBest, IsBestOf
<1>3. Init => PublishedInv
  BY DEF Init, PublishedInv
<1>4. QED
  BY <1>1, <1>2, <1>3, TypeInit DEF Init, IInv, ScanInv

\* A call changes one slot of the levels last published, and nothing else changes
\* them until they are published.
LEMMA PublishedStep == IInv /\ [Next]_vars => PublishedInv'
<1> SUFFICES ASSUME IInv, [Next]_vars PROVE PublishedInv'
  OBVIOUS
<1>p. TypeOK /\ PublishedInv
  BY DEF IInv
<1>1. ASSUME NEW s \in Sides, NEW price \in Prices, NEW dq \in QtyDeltas,
             NEW do \in OrderDeltas, update_level(s, price, dq, do)
      PROVE  PublishedInv'
  <2>1. /\ levels' = [published EXCEPT ![s][SlotOf(price)] =
                         Updated(published[s][SlotOf(price)], price, dq, do)]
        /\ pc' = "scan" /\ side' = s /\ published' = published
    BY <1>1, <1>p DEF update_level, Change, PublishedInv
  <2>2. QED
    BY <2>1 DEF PublishedInv
<1>2. ASSUME NEW s \in Sides, NEW price \in Prices, remove_level(s, price)
      PROVE  PublishedInv'
  <2>1. /\ levels' = [published EXCEPT ![s][SlotOf(price)] =
                         Removed(published[s][SlotOf(price)], price)]
        /\ pc' = "scan" /\ side' = s /\ published' = published
    BY <1>2, <1>p DEF remove_level, Change, PublishedInv
  <2>2. QED
    BY <2>1 DEF PublishedInv
<1>3. CASE reset
  BY <1>3 DEF reset, PublishedInv
<1>4. CASE ScanSlot
  BY <1>4, <1>p DEF ScanSlot, PublishedInv
<1>5. CASE Publish
  BY <1>5 DEF Publish, PublishedInv
<1>6. CASE UNCHANGED vars
  BY <1>6, <1>p DEF vars, PublishedInv
<1>7. QED
  BY <1>1, <1>2, <1>3, <1>4, <1>5, <1>6 DEF Next

\* A call changes one side and rescans it; the scan carries the best level seen
\* so far to the publication, and the other side stays as published.
LEMMA InvStep == IInv /\ [Next]_vars => IInv'
<1> SUFFICES ASSUME IInv, [Next]_vars PROVE TobIsBest' /\ ScanInv'
  BY TypeStep, PublishedStep DEF IInv
<1>t. TypeOK /\ SlotDiscipline /\ TypeOK' /\ SlotDiscipline'
  BY TypeStep DEF IInv
<1>v. TobIsBest /\ ScanInv
  BY DEF IInv
\* A call changes one side and leaves the other one's best alone.
<1>0. ASSUME NEW s \in Sides, NEW price, NEW lv, pc = "idle", Change(s, price, lv)
      PROVE  TobIsBest' /\ ScanInv'
  <2>1. \A q \in Sides : q # s => levels'[q] = levels[q]
    BY <1>0, <1>t DEF Change, TypeOK
  <2>2. side' = s /\ pc' = "scan" /\ i' = 0 /\ best' = EmptyLevel /\ tob' = tob
    BY <1>0 DEF Change
  <2>3. TobIsBest'
    BY <1>0, <1>v, <2>1, <2>2 DEF TobIsBest
  <2>4. ScanInv'
    BY <2>2, ScanStart DEF ScanInv
  <2>5. QED
    BY <2>3, <2>4
<1>1. ASSUME NEW s \in Sides, NEW price \in Prices, NEW dq \in QtyDeltas,
             NEW do \in OrderDeltas, update_level(s, price, dq, do)
      PROVE  TobIsBest' /\ ScanInv'
  BY <1>0, <1>1 DEF update_level
<1>2. ASSUME NEW s \in Sides, NEW price \in Prices, remove_level(s, price)
      PROVE  TobIsBest' /\ ScanInv'
  BY <1>0, <1>2 DEF remove_level
<1>3. CASE reset
  BY <1>3, <1>v, EmptyLevelFacts DEF reset, TobIsBest, ScanInv, IsBestOf
<1>4. CASE ScanSlot
  <2>1. /\ i \in Slots /\ i' = i + 1 /\ UNCHANGED <<levels, tob, pc, side>>
        /\ best' = IF Beats(side, levels[side][i], best) THEN levels[side][i] ELSE best
        /\ pc = "scan"
    BY <1>4, <1>t, CapacityPositive DEF ScanSlot, TypeOK, Slots
  <2>2. IsBestOf(side, best', levels[side], 0..i)
    <3>1. side \in Sides /\ levels[side] \in [Slots -> PriceLevel] /\ best \in PriceLevel
      BY <1>t DEF TypeOK
    <3>2. \A j \in Slots : WellPlaced(levels[side][j], j)
      BY <1>t, <3>1 DEF SlotDiscipline
    <3>3. IsBestOf(side, best, levels[side], 0..(i - 1))
      BY <1>v, <2>1 DEF ScanInv
    <3>4. QED
      BY <2>1, <3>1, <3>2, <3>3, ScanExtends
  <2>3. i' - 1 = i
    BY <2>1 DEF Slots
  <2>4. ScanInv'
    BY <2>1, <2>2, <2>3 DEF ScanInv
  <2>5. TobIsBest'
    BY <2>1, <1>v DEF TobIsBest
  <2>6. QED
    BY <2>4, <2>5
<1>5. CASE Publish
  <2>1. 0..(i - 1) = Slots /\ IsBestOf(side, best, levels[side], 0..(i - 1))
    BY <1>5, <1>v DEF Publish, ScanInv, Slots
  <2>2. tob' = [tob EXCEPT ![side] = best] /\ pc' = "idle" /\ UNCHANGED <<levels, side>>
    BY <1>5 DEF Publish
  <2>3. ASSUME NEW s \in Sides PROVE IsBestOf(s, tob'[s], levels'[s], Slots)
    <3>1. CASE s = side
      BY <2>1, <2>2, <3>1, <1>t DEF TypeOK
    <3>2. CASE s # side
      BY <2>2, <3>2, <1>t, <1>v DEF TypeOK, TobIsBest
    <3>3. QED
      BY <3>1, <3>2
  <2>4. QED
    BY <2>2, <2>3 DEF TobIsBest, ScanInv
<1>6. CASE UNCHANGED vars
  BY <1>6, <1>v DEF vars, TobIsBest, ScanInv
<1>7. QED
  BY <1>1, <1>2, <1>3, <1>4, <1>5, <1>6 DEF Next

\* Whenever no call is in progress, what readers see of either side is the best
\* level of the book, whatever the capacity, the prices and the calls.
THEOREM TopIsBest == Spec => []TobIsBest
<1>1. IInv => TobIsBest
  BY DEF IInv
<1>2. QED
  BY InvInit, InvStep, <1>1, PTL DEF Spec

-----------------------------------------------------------------------------
(* Refinement: to a reader, a call is one step *)

\* The abstract book computes with the same levels, and finds the same ones best.
LEMMA SameLevels ==
    /\ Atomic!Sides = Sides /\ Atomic!Slots = Slots /\ Atomic!EmptyLevel = EmptyLevel
    /\ \A price : Atomic!SlotOf(price) = SlotOf(price)
    /\ \A lv, price, dq, do : Atomic!Updated(lv, price, dq, do) = Updated(lv, price, dq, do)
    /\ \A lv, price : Atomic!Removed(lv, price) = Removed(lv, price)
BY DEF Atomic!Sides, Sides, Atomic!Bid, Bid, Atomic!Ask, Ask, Atomic!Slots, Slots,
       Atomic!EmptyLevel, EmptyLevel, Atomic!SlotOf, SlotOf, Atomic!Updated, Updated,
       Atomic!Removed, Removed

LEMMA SameBest ==
    ASSUME NEW s, NEW lv, NEW lvs, NEW I
    PROVE  Atomic!IsBestOf(s, lv, lvs, I) <=> IsBestOf(s, lv, lvs, I)
BY SameLevels DEF Atomic!IsBestOf, IsBestOf, Atomic!IsEmpty, IsEmpty,
       Atomic!Better, Better, Atomic!Bid, Bid

\* Both books start empty.
LEMMA AtomicInit == Init => Atomic!Init
BY SameLevels DEF Init, Atomic!Init, Atomic!EmptyBook, Atomic!EmptyTop

\* The publication is the step of the abstract book: it publishes the level that
\* the scan found to be the best of the side the call changed.
LEMMA AtomicPublish == IInv /\ Publish => Atomic!Next
<1> SUFFICES ASSUME IInv, Publish PROVE Atomic!Next
  OBVIOUS
<1>t. TypeOK /\ SlotDiscipline /\ ScanInv /\ PublishedInv
  BY DEF IInv
<1>1. pc = "scan" /\ published' = levels /\ tob' = [tob EXCEPT ![side] = best]
  BY DEF Publish
<1>2. IsBestOf(side, best, levels[side], Slots)
  <2>1. 0..(i - 1) = Slots
    BY DEF Publish, Slots
  <2>2. QED
    BY <1>t, <1>1, <2>1 DEF ScanInv
<1>3. best \in {EmptyLevel} \cup {levels[side][k] : k \in Slots}
  BY <1>2 DEF IsBestOf
<1>4. side \in Sides
  BY <1>t DEF TypeOK
<1>5. ASSUME NEW price, NEW lv,
             levels = [published EXCEPT ![side][SlotOf(price)] = lv]
      PROVE  Atomic!Call(side, price, lv)
  BY <1>1, <1>2, <1>3, <1>5, SameLevels, SameBest DEF Atomic!Call
<1>6. PICK price \in Prices :
          \/ \E dq \in QtyDeltas, do \in OrderDeltas :
                levels = [published EXCEPT ![side][SlotOf(price)] =
                            Updated(published[side][SlotOf(price)], price, dq, do)]
          \/ levels = [published EXCEPT ![side][SlotOf(price)] =
                         Removed(published[side][SlotOf(price)], price)]
  BY <1>t, <1>1 DEF PublishedInv
<1>7. ASSUME NEW dq \in QtyDeltas, NEW do \in OrderDeltas,
             levels = [published EXCEPT ![side][SlotOf(price)] =
                         Updated(published[side][SlotOf(price)], price, dq, do)]
      PROVE  Atomic!Next
  <2>1. Atomic!Update(side, price, dq, do)
    BY <1>5, <1>7, SameLevels DEF Atomic!Update
  <2>2. QED
    BY <1>4, <2>1, SameLevels DEF Atomic!Next
<1>8. CASE levels = [published EXCEPT ![side][SlotOf(price)] =
                       Removed(published[side][SlotOf(price)], price)]
  <2>1. Atomic!Remove(side, price)
    BY <1>5, <1>8, SameLevels DEF Atomic!Remove
  <2>2. QED
    BY <1>4, <2>1, SameLevels DEF Atomic!Next
<1>9. QED
  BY <1>6, <1>7, <1>8

\* A publication is a call of the abstract book, reset() its reset; the change of
\* a slot and the scan are invisible.
LEMMA AtomicStep == IInv /\ [Next]_vars => [Atomic!Next]_(Atomic!vars)
<1> SUFFICES ASSUME IInv, [Next]_vars PROVE Atomic!Next \/ UNCHANGED <<published, tob>>
  BY DEF Atomic!vars
<1>1. ASSUME NEW s \in Sides, NEW price \in Prices, NEW dq \in QtyDeltas,
             NEW do \in OrderDeltas, update_level(s, price, dq, do)
      PROVE  UNCHANGED <<published, tob>>
  BY <1>1 DEF update_level, Change
<1>2. ASSUME NEW s \in Sides, NEW price \in Prices, remove_level(s, price)
      PROVE  UNCHANGED <<published, tob>>
  BY <1>2 DEF remove_level, Change
<1>3. CASE reset
  BY <1>3, SameLevels DEF reset, Atomic!Next, Atomic!Reset, Atomic!EmptyBook, Atomic!EmptyTop
<1>4. CASE ScanSlot
  BY <1>4 DEF ScanSlot
<1>5. CASE Publish
  BY <1>5, AtomicPublish
<1>6. CASE UNCHANGED vars
  BY <1>6 DEF vars
<1>7. QED
  BY <1>1, <1>2, <1>3, <1>4, <1>5, <1>6 DEF Next

\* The book implements AtomicBook: although a call changes a slot, scans a side and
\* publishes in many steps, the tops its readers see are those of a book whose
\* calls are atomic, for every capacity, price set and change a caller asks for.
THEOREM BookImplementsAtomicBook == Spec => ImplementsAtomicBook
BY InvInit, InvStep, AtomicInit, AtomicStep, PTL
   DEF Spec, ImplementsAtomicBook, Atomic!Spec
=============================================================================
