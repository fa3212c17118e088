------------------------- MODULE PriceLevelsProofs -------------------------
(***************************************************************************)
(* Lemmas about price levels, which the proofs about OrderBook and         *)
(* FeedHandler rest on.                                                    *)
(***************************************************************************)
EXTENDS PriceLevels, TLAPS

\* All the proofs need of the power of two: there is a slot.
LEMMA CapacityPositive == Capacity \in Nat /\ Capacity >= 1
BY CapacityAssumption

\* Every price has a slot.
LEMMA SlotOfType == ASSUME NEW p \in Int PROVE SlotOf(p) \in Slots
BY CapacityPositive DEF SlotOf, Slots

\* PriceLevel{} is a level without quantity and fits every slot.
LEMMA EmptyLevelFacts ==
    /\ EmptyLevel \in PriceLevel
    /\ IsEmpty(EmptyLevel)
    /\ EmptyLevel.price = NullPrice
    /\ \A k : WellPlaced(EmptyLevel, k)
BY DEF EmptyLevel, PriceLevel, IsEmpty, WellPlaced

\* update_level() leaves a well-placed level.
LEMMA UpdatedWellPlaced ==
    ASSUME NEW lv \in PriceLevel, NEW price \in Prices, NEW dq \in Int, NEW do \in Int,
           WellPlaced(lv, SlotOf(price))
    PROVE  /\ Updated(lv, price, dq, do) \in PriceLevel
           /\ WellPlaced(Updated(lv, price, dq, do), SlotOf(price))
BY EmptyLevelFacts DEF Updated, PriceLevel, WellPlaced, IsEmpty

\* So does remove_level().
LEMMA RemovedWellPlaced ==
    ASSUME NEW lv \in PriceLevel, NEW price \in Prices, WellPlaced(lv, SlotOf(price))
    PROVE  /\ Removed(lv, price) \in PriceLevel
           /\ WellPlaced(Removed(lv, price), SlotOf(price))
BY EmptyLevelFacts DEF Removed

-----------------------------------------------------------------------------
(* The loop of refresh_top() *)

\* Before the first iteration PriceLevel{} is the best of no slot.
LEMMA ScanStart ==
    ASSUME NEW s, NEW lvls PROVE IsBestOf(s, EmptyLevel, lvls, 0..(0 - 1))
BY DEF IsBestOf

\* One iteration extends the best of the slots below k to slot k.
LEMMA ScanExtends ==
    ASSUME NEW s \in Sides, NEW lvls \in [Slots -> PriceLevel], NEW k \in Slots,
           NEW b \in PriceLevel,
           \A j \in Slots : WellPlaced(lvls[j], j),
           IsBestOf(s, b, lvls, 0..(k - 1))
    PROVE  IsBestOf(s, IF Beats(s, lvls[k], b) THEN lvls[k] ELSE b, lvls, 0..k)
<1> DEFINE lv == lvls[k]
<1>k. k \in Nat /\ 0..k = (0..(k - 1)) \cup {k} /\ 0..k \subseteq Slots
  BY CapacityPositive DEF Slots
<1>p. \A j \in Slots : lvls[j].price \in Int
  BY PricesAssumption DEF PriceLevel
<1>b. b = EmptyLevel \/ (~IsEmpty(b) /\ b.price # NullPrice /\ b.price \in Int)
  <2>1. ASSUME NEW j \in 0..(k - 1), ~IsEmpty(b), b = lvls[j]
        PROVE  b.price \in Prices
    BY <2>1, <1>k, EmptyLevelFacts DEF WellPlaced
  <2>2. b = EmptyLevel \/ (~IsEmpty(b) /\ b.price \in Prices)
    BY <2>1 DEF IsBestOf
  <2>3. \A p \in Prices : p # NullPrice /\ p \in Int
    BY PricesAssumption
  <2>4. QED
    BY <2>2, <2>3
<1>1. CASE Beats(s, lv, b)
  <2>1. ~IsEmpty(lv)
    BY <1>1 DEF Beats
  <2>2. ASSUME NEW j \in 0..(k - 1), ~IsEmpty(lvls[j])
        PROVE  ~Better(s, lvls[j].price, lv.price)
    <3>1. b # EmptyLevel /\ ~Better(s, lvls[j].price, b.price)
      BY <2>2, EmptyLevelFacts DEF IsBestOf
    <3>2. Better(s, lv.price, b.price) /\ b.price \in Int
      BY <1>1, <1>b, <3>1 DEF Beats
    <3>3. QED
      BY <3>1, <3>2, <1>p, <1>k, <2>2 DEF Better
  <2>3. ~Better(s, lv.price, lv.price)
    BY <1>p DEF Better
  <2>4. IsBestOf(s, lv, lvls, 0..k)
    BY <2>1, <2>2, <2>3, <1>k DEF IsBestOf
  <2>5. QED
    BY <1>1, <2>4
<1>2. CASE ~Beats(s, lv, b)
  <2>1. IsEmpty(lv) \/ (b # EmptyLevel /\ ~Better(s, lv.price, b.price))
    BY <1>2, <1>b, EmptyLevelFacts DEF Beats
  <2>2. IsBestOf(s, b, lvls, 0..k)
    BY <2>1, <1>k DEF IsBestOf
  <2>3. QED
    BY <1>2, <2>2
<1>3. QED
  BY <1>1, <1>2
============================================================================
