------------------------ MODULE OrderBookEngineProofs ------------------------
(***************************************************************************)
(* Proofs about OrderBookEngine: its invariant is inductive for every set  *)
(* of prices and quantities, every register width and messages on any      *)
(* clocks.  The heart of it is SlotsFresh: the slot numbers that a message *)
(* finds are a clock old, but unless another message came on the clock     *)
(* before, they name a level that is still in use and a slot that is still *)
(* free, because the levels have not changed since.                        *)
(***************************************************************************)
EXTENDS OrderBookEngine, TLAPS

USE DEF Slots, N_LEVELS

-----------------------------------------------------------------------------
(* The scan *)

\* The scan of a set of slots ends with its last slot, or with N_LEVELS.
LEMMA LastIsLast ==
    ASSUME NEW S \in SUBSET Slots
    PROVE  Last(S) \in 0..N_LEVELS /\ IsLast(Last(S), S)
<1>1. \E i \in 0..N_LEVELS : IsLast(i, S)
  <2>1. CASE S = {}
    BY <2>1 DEF IsLast
  <2>2. CASE S # {}
    <3>1. \E i \in S : \A j \in S : j <= i
      <4> SUFFICES ASSUME \A i \in S : \E j \in S : ~(j <= i)
                   PROVE  FALSE
        OBVIOUS
      <4>1. 7 \notin S /\ 6 \notin S
        OBVIOUS
      <4>2. 5 \notin S /\ 4 \notin S
        BY <4>1
      <4>3. 3 \notin S /\ 2 \notin S
        BY <4>1, <4>2
      <4>4. 1 \notin S /\ 0 \notin S
        BY <4>1, <4>2, <4>3
      <4>5. PICK i \in S : TRUE
        BY <2>2, Zenon
      <4>6. i \in 0..7
        OBVIOUS
      <4>7. QED
        BY <4>1, <4>2, <4>3, <4>4, <4>5, <4>6
    <3>2. QED
      BY <2>2, <3>1 DEF IsLast
  <2>3. QED
    BY <2>1, <2>2
<1>2. QED
  BY <1>1 DEF Last

\* A slot number that the scan found is one of the slots it looked for.
LEMMA LastFound ==
    ASSUME NEW S \in SUBSET Slots
    PROVE  Last(S) < N_LEVELS => Last(S) \in S
BY LastIsLast DEF IsLast

\* What the analysis stage registers is in range, whatever is on the bus.
LEMMA AnalyseTyped ==
    ASSUME NEW price, Analyse(price)
    PROVE  /\ match_r' \in [FedSides -> 0..N_LEVELS]
           /\ empty_r' \in [FedSides -> 0..N_LEVELS]
<1>1. ASSUME NEW s \in FedSides
      PROVE  Matching(s, price) \in SUBSET Slots /\ Empty(s) \in SUBSET Slots
  BY DEF Matching, Empty
<1>2. \A s \in FedSides : /\ Last(Matching(s, price)) \in 0..N_LEVELS
                          /\ Last(Empty(s)) \in 0..N_LEVELS
  BY <1>1, LastIsLast
<1>3. QED
  BY <1>2 DEF Analyse

\* While the levels stay as they are, the slot numbers that are registered fit them.
LEMMA AnalyseFresh ==
    ASSUME TypeOK, NEW price, Analyse(price), UNCHANGED levels
    PROVE  \A s \in FedSides :
              /\ match_r'[s] < N_LEVELS => Valid(s, match_r[s])'
              /\ IsLast(empty_r'[s], Empty(s)')
<1> SUFFICES ASSUME NEW s \in FedSides
             PROVE  /\ match_r'[s] < N_LEVELS => Valid(s, match_r[s])'
                    /\ IsLast(empty_r'[s], Empty(s)')
  OBVIOUS
<1>1. Matching(s, price) \in SUBSET Slots /\ Empty(s) \in SUBSET Slots
  BY DEF Matching, Empty
<1>2. match_r'[s] = Last(Matching(s, price)) /\ empty_r'[s] = Last(Empty(s))
  BY DEF Analyse
<1>3. match_r'[s] < N_LEVELS => Valid(s, match_r[s])'
  <2> SUFFICES ASSUME match_r'[s] < N_LEVELS PROVE Valid(s, match_r[s])'
    OBVIOUS
  <2>1. match_r'[s] \in Matching(s, price)
    BY <1>1, <1>2, LastFound
  <2>2. QED
    BY <2>1 DEF Matching, Valid
<1>4. Empty(s)' = Empty(s)
  BY DEF Empty
<1>5. QED
  BY <1>1, <1>2, <1>3, <1>4, LastIsLast

-----------------------------------------------------------------------------
(* One message *)

\* Put() of a level or of nothing in one slot keeps the store well typed.
LEMMA PutTyped ==
    ASSUME levels \in [FedSides -> [Slots -> Level \cup {Free}]],
           NEW s \in FedSides, NEW i \in Slots, NEW lv \in Level \cup {Free},
           Put(s, i, lv)
    PROVE  levels' \in [FedSides -> [Slots -> Level \cup {Free}]]
BY DEF Put

\* A quantity that fits the register keeps the store well typed, in any slot.
LEMMA PutQtyTyped ==
    ASSUME levels \in [FedSides -> [Slots -> Level \cup {Free}]],
           NEW s \in FedSides, NEW i \in Slots, NEW q,
           Valid(s, i) => q \in 0..MaxQty,
           PutQty(s, i, q)
    PROVE  levels' \in [FedSides -> [Slots -> Level \cup {Free}]]
<1>1. CASE Valid(s, i)
  <2>1. [levels[s][i] EXCEPT !.qty = q] \in Level
    BY <1>1 DEF Valid, Level
  <2>2. QED
    BY <1>1, <2>1, PutTyped DEF PutQty
<1>2. CASE ~Valid(s, i)
  BY <1>2 DEF PutQty
<1>3. QED
  BY <1>1, <1>2

\* Each kind of message keeps the store well typed, whatever the slot numbers are
\* that it finds registered.
LEMMA MessageTyped ==
    ASSUME TypeOK, NEW s \in FedSides, NEW price \in Prices,
           NEW qty \in Quantities, Message(s, price, qty)
    PROVE  levels' \in [FedSides -> [Slots -> Level \cup {Free}]]
<1> DEFINE m == match_r[s]
           e == empty_r[s]
<1>1. m \in 0..N_LEVELS /\ e \in 0..N_LEVELS
  BY DEF TypeOK
<1>2. qty \in Nat /\ qty \in 0..MaxQty /\ MaxQty \in Nat
  BY WidthAssumption
<1>3. m < N_LEVELS /\ Valid(s, m) => m \in Slots /\ levels[s][m].qty \in 0..MaxQty
  BY <1>1 DEF TypeOK, Valid, Level
<1>4. levels \in [FedSides -> [Slots -> Level \cup {Free}]]
  BY DEF TypeOK
<1>5. CASE Add(s, price, qty)
  <2>1. CASE m < N_LEVELS
    <3>1. Valid(s, m) => (levels[s][m].qty + qty) % (MaxQty + 1) \in 0..MaxQty
      BY <1>2, <1>3, <2>1
    <3>2. QED
      BY <1>1, <1>4, <1>5, <2>1, <3>1, PutQtyTyped DEF Add
  <2>2. CASE ~(m < N_LEVELS) /\ e < N_LEVELS
    <3>1. [price |-> price, qty |-> qty] \in Level
      BY <1>2 DEF Level
    <3>2. QED
      BY <1>1, <1>4, <1>5, <2>2, <3>1, PutTyped DEF Add
  <2>3. CASE ~(m < N_LEVELS) /\ ~(e < N_LEVELS)
    BY <1>4, <1>5, <2>3 DEF Add
  <2>4. QED
    BY <2>1, <2>2, <2>3
<1>6. CASE Execute(s, qty)
  <2>1. CASE m = N_LEVELS
    BY <1>4, <1>6, <2>1 DEF Execute
  <2>2. CASE m # N_LEVELS /\ levels[s][m].qty <= qty
    BY <1>1, <1>4, <1>6, <2>2, PutTyped DEF Execute
  <2>3. CASE m # N_LEVELS /\ ~(levels[s][m].qty <= qty)
    <3>1. Valid(s, m) => levels[s][m].qty - qty \in 0..MaxQty
      BY <1>1, <1>2, <1>3, <2>3
    <3>2. QED
      BY <1>1, <1>4, <1>6, <2>3, <3>1, PutQtyTyped DEF Execute
  <2>4. QED
    BY <2>1, <2>2, <2>3
<1>7. CASE Delete(s)
  BY <1>1, <1>4, <1>7, PutTyped DEF Delete
<1>8. CASE UNCHANGED levels
  BY <1>4, <1>8
<1>9. QED
  BY <1>5, <1>6, <1>7, <1>8 DEF Message

\* Unless it comes on the clock after another one, no message puts another price
\* into a level that is in use.
LEMMA MessageKeepsPrices ==
    ASSUME TypeOK, SlotsFresh, gap >= 2, NEW s \in FedSides, NEW price \in Prices,
           NEW qty \in Quantities, Message(s, price, qty),
           NEW t \in FedSides, NEW i \in Slots, Valid(t, i), Valid(t, i)'
    PROVE  levels'[t][i].price = levels[t][i].price
<1> DEFINE m == match_r[s]
           e == empty_r[s]
<1>1. /\ m \in 0..N_LEVELS /\ e \in 0..N_LEVELS
      /\ m < N_LEVELS => Valid(s, m)
      /\ e < N_LEVELS => ~Valid(s, e)
  BY DEF TypeOK, SlotsFresh, IsLast, Empty, Valid
<1>2. m < N_LEVELS => m \in Slots /\ levels[s][m] \in Level
  BY <1>1 DEF TypeOK, Valid
<1>3. /\ levels \in [FedSides -> [Slots -> Level \cup {Free}]]
      /\ Valid(t, i) /\ levels'[t][i] # Free
  BY DEF TypeOK, Valid
<1>4. ASSUME NEW j \in Slots, NEW lv, Put(s, j, lv)
      PROVE  levels'[t][i] = IF t = s /\ i = j THEN lv ELSE levels[t][i]
  BY <1>3, <1>4 DEF Put
<1>5. ASSUME NEW q, m < N_LEVELS, PutQty(s, m, q)
      PROVE  levels'[t][i].price = levels[t][i].price
  <2>1. Put(s, m, [levels[s][m] EXCEPT !.qty = q])
    BY <1>1, <1>5 DEF PutQty
  <2>2. [levels[s][m] EXCEPT !.qty = q].price = levels[s][m].price
    BY <1>2, <1>5 DEF Level
  <2>3. QED
    BY <1>2, <1>4, <1>5, <2>1, <2>2
<1>6. CASE Add(s, price, qty)
  <2>1. CASE m < N_LEVELS
    <3>1. PutQty(s, m, (levels[s][m].qty + qty) % (MaxQty + 1))
      BY <1>6, <2>1 DEF Add
    <3>2. QED
      BY <1>2, <1>5, <2>1, <3>1
  <2>2. CASE ~(m < N_LEVELS) /\ e < N_LEVELS
    BY <1>1, <1>3, <1>4, <1>6, <2>2 DEF Add
  <2>3. CASE ~(m < N_LEVELS) /\ ~(e < N_LEVELS)
    BY <1>6, <2>3 DEF Add
  <2>4. QED
    BY <2>1, <2>2, <2>3
<1>7. CASE Execute(s, qty)
  <2>1. CASE m = N_LEVELS
    BY <1>7, <2>1 DEF Execute
  <2>2. CASE m # N_LEVELS /\ levels[s][m].qty <= qty
    BY <1>1, <1>2, <1>3, <1>4, <1>7, <2>2 DEF Execute
  <2>3. CASE m # N_LEVELS /\ ~(levels[s][m].qty <= qty)
    BY <1>1, <1>5, <1>7, <2>3 DEF Execute
  <2>4. QED
    BY <2>1, <2>2, <2>3
<1>8. CASE Delete(s)
  BY <1>1, <1>2, <1>3, <1>4, <1>8 DEF Delete
<1>9. CASE UNCHANGED levels
  BY <1>9
<1>10. QED
  BY <1>6, <1>7, <1>8, <1>9 DEF Message

-----------------------------------------------------------------------------
(* The invariant *)

\* Nothing is in the store after reset, and no slot numbers are registered.
LEMMA InvInit == Init => IInv
<1> SUFFICES ASSUME Init PROVE IInv
  OBVIOUS
<1>1. TypeOK
  BY DEF Init, TypeOK
<1>2. SlotsFresh
  BY DEF Init, SlotsFresh
<1>3. QED
  BY <1>1, <1>2 DEF IInv

\* A clock with a message resets gap; one without leaves the levels alone.
LEMMA InvStep == IInv /\ [Next]_vars => IInv'
<1> SUFFICES ASSUME IInv, [Next]_vars PROVE IInv'
  OBVIOUS
<1> USE DEF IInv
<1>1. ASSUME NEW s \in FedSides, NEW price \in Prices, NEW qty \in Quantities,
             Message(s, price, qty)
      PROVE  IInv'
  <2>1. levels' \in [FedSides -> [Slots -> Level \cup {Free}]]
    BY <1>1, MessageTyped
  <2>2. gap' = 1 /\ gap' \in 1..2
    BY <1>1 DEF Message
  <2>3. TypeOK'
    BY <1>1, <2>1, <2>2, AnalyseTyped DEF Message, TypeOK
  <2>4. SlotsFresh'
    BY <2>2 DEF SlotsFresh
  <2>5. QED
    BY <2>3, <2>4
<1>2. ASSUME NEW price \in Prices, NoMessage(price)
      PROVE  IInv'
  <2>1. gap' \in 1..2
    BY <1>2 DEF NoMessage
  <2>2. TypeOK'
    BY <1>2, <2>1, AnalyseTyped DEF NoMessage, TypeOK
  <2>3. SlotsFresh'
    BY <1>2, AnalyseFresh DEF NoMessage, SlotsFresh
  <2>4. QED
    BY <2>2, <2>3
<1>3. CASE UNCHANGED vars
  BY <1>3 DEF vars, TypeOK, SlotsFresh, Valid, Empty, IsLast
<1>4. QED
  BY <1>1, <1>2, <1>3 DEF Next

-----------------------------------------------------------------------------
(* The theorems *)

\* Slot numbers and quantities stay in range: the subtraction of an execution
\* never underflows, and an addition wraps within the register.
THEOREM TypeCorrect == Spec => []TypeOK
<1>1. IInv => TypeOK
  BY DEF IInv
<1>2. QED
  BY InvInit, InvStep, <1>1, PTL DEF Spec

\* The slot number an ADD takes for empty is a clock old, and still no ADD puts
\* its price into a level in use, unless another message came on the clock before;
\* whatever such messages did, the next that stands apart finds fresh numbers.
THEOREM LevelsKeepTheirPrice == Spec => NoLevelOverwritten
<1>1. IInv /\ [Next]_vars =>
         [gap >= 2 => \A s \in FedSides, i \in Slots :
            Valid(s, i) /\ Valid(s, i)' => levels'[s][i].price = levels[s][i].price]_vars
  <2> SUFFICES ASSUME IInv, Next, gap >= 2, NEW s \in FedSides, NEW i \in Slots,
                      Valid(s, i), Valid(s, i)'
               PROVE  levels'[s][i].price = levels[s][i].price
    OBVIOUS
  <2>1. ASSUME NEW t \in FedSides, NEW price \in Prices, NEW qty \in Quantities,
               Message(t, price, qty)
        PROVE  levels'[s][i].price = levels[s][i].price
    BY <2>1, MessageKeepsPrices DEF IInv
  <2>2. ASSUME NEW price \in Prices, NoMessage(price)
        PROVE  levels'[s][i].price = levels[s][i].price
    BY <2>2 DEF NoMessage
  <2>3. QED
    BY <2>1, <2>2 DEF Next
<1>2. QED
  BY InvInit, InvStep, <1>1, PTL DEF Spec, NoLevelOverwritten

\* To a message that does not come on the clock after another one, no match and no
\* empty slot mean a full side: its order is never dropped while there is room.
THEOREM OnlyAFullSideDrops == Spec => []DroppedOnlyWhenFull
<1>1. IInv => DroppedOnlyWhenFull
  <2> SUFFICES ASSUME IInv, NEW s \in FedSides, gap >= 2, empty_r[s] = N_LEVELS,
                      NEW i \in Slots
               PROVE  Valid(s, i)
    BY DEF DroppedOnlyWhenFull
  <2>1. IsLast(empty_r[s], Empty(s))
    BY DEF IInv, SlotsFresh
  <2>2. Empty(s) = {}
    BY <2>1 DEF IsLast, Empty
  <2>3. QED
    BY <2>2 DEF Empty, Valid
<1>2. QED
  BY InvInit, InvStep, <1>1, PTL DEF Spec
=============================================================================
