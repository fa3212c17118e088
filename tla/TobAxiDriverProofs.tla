------------------------- MODULE TobAxiDriverProofs -------------------------
(***************************************************************************)
(* Proofs about TobAxiDriver and the registers it reads, for every set of  *)
(* prices and every number of words, with messages on any clocks; and      *)
(* about the calls of TobAxiCalls, for every width of the count's halves.  *)
(***************************************************************************)
EXTENDS TobAxiDriver, TobAxiCalls, TLAPS, SequenceTheorems

\* All the proofs need of the constants.
LEMMA Bounds ==
    /\ NWords \in Nat /\ NWords >= 1
    /\ EmptyTop \in Tops
BY NWordsAssumption, TopsAssumption

USE Bounds

-----------------------------------------------------------------------------
(* The registers *)

\* A clock edge keeps the types of the fabric's registers.
LEMMA FabricTypes ==
    ASSUME RegTypeOK, Fabric, rvalid' \in BOOLEAN, latch' \in BOOLEAN
    PROVE  RegTypeOK'
<1> USE DEF RegTypeOK
<1>1. best_r' \in Tops /\ best_out' \in Tops /\ captured' \in Tops \cup {Undefined}
  BY DEF Fabric, Shift
<1>2. changed_s1' \in BOOLEAN /\ changed_axi' \in BOOLEAN
  BY DEF Fabric, Shift
<1>3. book' \in Tops /\ prev_best' \in Tops /\ changed' \in BOOLEAN
  BY DEF Fabric, Message, NoMessage
<1>4. crowded' \in BOOLEAN
  BY DEF Fabric, Message, NoMessage, Crowds
<1>5. QED
  BY <1>1, <1>2, <1>3, <1>4

\* An answer, or none, keeps the flag and the handshake Boolean.
LEMMA AnswerTypes ==
    /\ \A flag \in BOOLEAN : RegTypeOK /\ Answer(flag) => rvalid' \in BOOLEAN /\ latch' \in BOOLEAN
    /\ RegTypeOK /\ NoAnswer => rvalid' \in BOOLEAN /\ latch' \in BOOLEAN
BY DEF Answer, NoAnswer, Answered, NotAnswered, Latch, RegTypeOK

\* A pulse and the prices it stands for travel together: unless the message
\* crowds, what the registers are going to show is at most one message old.
LEMMA PulseStep ==
    ASSUME RegTypeOK, PulseInv, Fabric
    PROVE  PulseInv'
<1> SUFFICES ASSUME ~crowded'
             PROVE  /\ best_r' # book' => best_r' = prev_best'
                    /\ WillShow' \in {book', prev_best'}
  BY DEF PulseInv
<1> USE DEF RegTypeOK, Shift, Shown
<1>1. Shift
  BY DEF Fabric
<1>2. CASE Message
  <2>1. /\ best_r' = book /\ prev_best' = best_r /\ changed' = (best_r # prev_best)
        /\ best_r = book \/ book' = book
    BY <1>1, <1>2 DEF Message, Crowds
  <2>2. CASE best_r # prev_best
    BY <2>1, <2>2 DEF WillShow
  <2>3. CASE best_r = prev_best
    <3>1. WillShow \in {book, prev_best}
      BY <1>2, <2>3 DEF Message, Crowds, PulseInv
    <3>2. WillShow' = WillShow
      BY <1>1, <2>1, <2>3, TopsAssumption DEF WillShow
    <3>3. QED
      BY <2>1, <2>3, <3>1, <3>2
  <2>4. QED
    BY <2>2, <2>3
<1>3. CASE NoMessage
  <2>1. ~changed' /\ book' = book /\ prev_best' = prev_best /\ best_r' = book
    BY <1>1, <1>3 DEF NoMessage
  <2>2. WillShow \in {book, prev_best}
    BY <1>3 DEF NoMessage, PulseInv
  <2>3. WillShow' = WillShow
    BY <1>1, <2>1, TopsAssumption DEF WillShow
  <2>4. QED
    BY <2>1, <2>2, <2>3
<1>4. QED
  BY <1>2, <1>3 DEF Fabric

-----------------------------------------------------------------------------
(* The driver *)

\* The initial registers have captured nothing and nothing is on its way.
LEMMA InvInit == Init => IInv
<1> SUFFICES ASSUME Init PROVE IInv
  OBVIOUS
<1> USE DEF Init, RegInit
<1>1. TypeOK
  <2>1. RegTypeOK
    <3>1. changed \in BOOLEAN /\ changed_s1 \in BOOLEAN /\ changed_axi \in BOOLEAN
      BY Zenon
    <3>2. latch \in BOOLEAN /\ rvalid \in BOOLEAN
      BY Zenon
    <3>3. crowded \in BOOLEAN
      BY Zenon
    <3>4. QED
      BY <3>1, <3>2, <3>3 DEF RegTypeOK
  <2>2. tob \in [1..NWords -> Tops \cup {Undefined}]
    BY DEF Nothing
  <2>3. QED
    BY <2>1, <2>2 DEF TypeOK
<1>2. PulseInv
  BY DEF PulseInv, WillShow, Shown
<1>3. RoundInv
  BY DEF RoundInv, ReadSoFar
<1>4. QED
  BY <1>1, <1>2, <1>3 DEF IInv

\* Every variable of the driver keeps its type.
LEMMA TypeStep == TypeOK /\ [Next]_vars => TypeOK'
<1> SUFFICES ASSUME TypeOK, [Next]_vars PROVE TypeOK'
  OBVIOUS
<1>1. CASE UNCHANGED vars
  BY <1>1 DEF vars, regVars, engineVars, drvVars, TypeOK, RegTypeOK
<1>2. CASE Next
  <2>1. RegTypeOK'
    <3>1. rvalid' \in BOOLEAN /\ latch' \in BOOLEAN
      BY <1>2, AnswerTypes
         DEF Next, NoRead, Call, ReadStep, ClearStale, ReadWord, Retry, Return, TypeOK
    <3>2. QED
      BY <1>2, <3>1, FabricTypes DEF Next, TypeOK
  <2> USE DEF TypeOK
  <2>2. CASE NoRead
    BY <2>1, <2>2 DEF NoRead, drvVars
  <2>3. CASE Call
    BY <2>1, <2>3 DEF Call
  <2>4. CASE ClearStale
    BY <2>1, <2>4 DEF ClearStale, Nothing
  <2>5. CASE ReadWord
    <3>1. captured \in Tops \cup {Undefined}
      BY DEF RegTypeOK
    <3>2. QED
      BY <2>1, <2>5, <3>1 DEF ReadWord
  <2>6. CASE Retry
    BY <2>1, <2>6 DEF Retry
  <2>7. CASE Return
    BY <2>1, <2>7 DEF Return
  <2>8. QED
    BY <1>2, <2>2, <2>3, <2>4, <2>5, <2>6, <2>7 DEF Next, ReadStep
<1>3. QED
  BY <1>1, <1>2

\* While the flag stays clear nothing is captured, so the words already read
\* stay those the registers show; a capture sets the flag, and only the reads
\* before and after the words clear it.
LEMMA RoundStep ==
    ASSUME TypeOK, RoundInv, Next
    PROVE  RoundInv'
<1> USE DEF TypeOK, RoundInv, ReadSoFar
<1>1. ASSUME ~latch', Latch(FALSE, FALSE) \/ Latch(TRUE, FALSE)
      PROVE  ~latch /\ captured' = captured
  BY <1>1 DEF Latch, Next, Fabric, Shift, RegTypeOK
<1>2. CASE NoRead
  BY <1>2, <1>1 DEF NoRead, NoAnswer, drvVars
<1>3. CASE Call
  BY <1>3 DEF Call
<1>4. CASE ClearStale
  BY <1>4 DEF ClearStale
<1>5. CASE ReadWord
  <2> SUFFICES ASSUME ~latch', NEW k \in ReadSoFar' PROVE tob'[k] = captured'
    OBVIOUS
  <2>1. ~latch /\ captured' = captured
    BY <1>5, <1>1 DEF ReadWord, Answer
  <2>2. k \in 1..NWords /\ (k = w \/ k \in 1..(w - 1))
    BY <1>5 DEF ReadWord
  <2>3. \A j \in 1..(w - 1) : tob[j] = captured
    BY <1>5, <2>1 DEF ReadWord
  <2>4. tob' = [tob EXCEPT ![w] = captured]
    BY <1>5 DEF ReadWord
  <2>5. QED
    BY <2>1, <2>2, <2>3, <2>4
<1>6. CASE Retry
  BY <1>6 DEF Retry
<1>7. CASE Return
  BY <1>7 DEF Return
<1>8. QED
  BY <1>2, <1>3, <1>4, <1>5, <1>6, <1>7 DEF Next, ReadStep

\* Every clock edge keeps the invariant.
LEMMA InvStep == IInv /\ [Next]_vars => IInv'
<1> SUFFICES ASSUME IInv, [Next]_vars PROVE IInv'
  OBVIOUS
<1>1. TypeOK'
  BY TypeStep DEF IInv
<1>2. CASE UNCHANGED vars
  BY <1>1, <1>2 DEF IInv, PulseInv, WillShow, Shown, RoundInv, ReadSoFar,
                    vars, regVars, engineVars, drvVars
<1>3. CASE Next
  BY <1>1, <1>3, PulseStep, RoundStep DEF IInv, Next, TypeOK
<1>4. QED
  BY <1>2, <1>3

\* The inductive invariant holds for every number of words and all message traffic.
LEMMA Invariance == Spec => []IInv
BY InvInit, InvStep, PTL DEF Spec

\* Type correctness; in particular read_tob() goes round at most twice.
THEOREM TypeCorrect == Spec => []TypeOK
<1>1. IInv => TypeOK
  BY DEF IInv
<1>2. QED
  BY Invariance, <1>1, PTL

\* A round of read_tob() that finds TOB_CHANGED clear has read one capture, with
\* any number of words and any message traffic.
THEOREM CleanRounds == Spec => []CleanRoundIsWhole
<1>1. IInv => CleanRoundIsWhole
  BY DEF IInv, RoundInv, ReadSoFar, CleanRoundIsWhole
<1>2. QED
  BY Invariance, <1>1, PTL

\* At rest the registers are at most one message behind the book, on whatever
\* clocks the messages come, unless the best prices changed on two consecutive
\* ones and no change has been found since.
THEOREM RegistersLagOneMessage == Spec => []LagsOneMessage
<1>1. IInv => LagsOneMessage
  BY DEF IInv, PulseInv, WillShow, Settled, LagsOneMessage
<1>2. QED
  BY Invariance, <1>1, PTL

-----------------------------------------------------------------------------
(* The other calls: the inductive invariant *)

\* The address of the store that is under way, taken or not.
Address == IF aw_active THEN wr_addr ELSE Head(awq)

\* The address of the store: waiting, being taken, taken.
AddressWaiting == Len(awq) = 1 /\ ~awready /\ ~aw_active
AddressTaking == Len(awq) = 1 /\ awready /\ aw_active /\ awvalid
AddressTaken == awq = << >> /\ ~awvalid /\ ~awready /\ aw_active

\* Its data: waiting, being taken, taken and answered.
DataWaiting == Len(wq) = 1 /\ ~wready /\ ~bvalid
DataTaking == Len(wq) = 1 /\ wready /\ wvalid /\ ~bvalid
DataAnswered == wq = << >> /\ ~wvalid /\ ~wready /\ bvalid

NoStore ==
    /\ awq = << >> /\ ~awvalid /\ ~awready /\ ~aw_active
    /\ wq = << >> /\ ~wvalid /\ ~wready /\ ~bvalid

\* A store that is under way: its data is taken after its address.
UnderWay ==
    \/ AddressWaiting /\ DataWaiting
    \/ AddressTaking /\ DataWaiting
    \/ AddressTaken /\ (DataWaiting \/ DataTaking \/ DataAnswered)

\* There is one store at a time, and while its data waits it is to clear the bit
\* exactly when clear_parse_error() made it.
StoreInv ==
    \/ outstanding = 0 /\ NoStore
    \/ /\ outstanding = 1 /\ access = "dsb"
       /\ UnderWay
       /\ DataWaiting =>
             (Address = STATUS /\ Head(wq) = Clear <=> call = "clear_parse_error")

\* The next access of every call.
AccessOf(c) ==
    CASE c = "none"        -> {"idle"}
      [] c = "parse_error" -> {"status"}
      [] c = "msg_count"   -> {"lo", "hi"}
      [] OTHER             -> {"dsb"}

CallInv == call \in Calls /\ access \in AccessOf(call)

\* An error that is owed is in the latch or on its way there.
OwedInv == owed => parsed = "bad" \/ err_s1 \/ err_axi \/ err_latch

\* What must be cleared is only there while the store that clears it is not taken.
OldInv == old => call = "clear_parse_error" /\ outstanding = 1 /\ DataWaiting

\* The counts grow along their way, and the half that was read is that of a count
\* between the call and now.
CountInv ==
    /\ count_axi <= count_dp
    /\ parsed # "none" => count_dp < MaxCount
    /\ access = "lo" => since <= count_axi
    /\ access = "hi" => \E c \in since..count_axi : lo = c % Half

CallsInv == CallsTypeOK /\ StoreInv /\ CallInv /\ OwedInv /\ OldInv /\ CountInv

-----------------------------------------------------------------------------
(* The stores *)

\* A queue of one and an empty one.
LEMMA Queues ==
    ASSUME NEW S
    PROVE  /\ << >> \in Seq(S) /\ Len(<< >>) = 0 /\ << >> \o << >> = << >>
           /\ \A x \in S : /\ <<x>> \in Seq(S) /\ Len(<<x>>) = 1 /\ Head(<<x>>) = x
                           /\ << >> \o <<x>> = <<x>> /\ <<x>> # << >>
           /\ \A q \in Seq(S) :
                /\ q \o << >> = q
                /\ Len(q) \in Nat /\ (Len(q) = 0 <=> q = << >>)
                /\ Len(q) = 1 => Tail(q) = << >> /\ Head(q) \in S /\ q # << >>
<1>1. << >> \in Seq(S) /\ Len(<< >>) = 0 /\ << >> \o << >> = << >>
  BY EmptySeq, ConcatEmptySeq
<1>2. ASSUME NEW x \in S
      PROVE  /\ <<x>> \in Seq(S) /\ Len(<<x>>) = 1 /\ Head(<<x>>) = x
             /\ << >> \o <<x>> = <<x>> /\ <<x>> # << >>
  <2>1. <<x>> \in Seq(S) /\ Len(<<x>>) = 1 /\ Head(<<x>>) = x
    OBVIOUS
  <2>2. QED
    BY <2>1, <1>1, ConcatEmptySeq
<1>3. ASSUME NEW q \in Seq(S)
      PROVE  /\ q \o << >> = q
             /\ Len(q) \in Nat /\ (Len(q) = 0 <=> q = << >>)
             /\ Len(q) = 1 => Tail(q) = << >> /\ Head(q) \in S /\ q # << >>
  <2>1. q \o << >> = q /\ Len(q) \in Nat
    BY ConcatEmptySeq, LenProperties
  <2>2. Len(q) = 0 <=> q = << >>
    BY EmptySeq
  <2>3. ASSUME Len(q) = 1
        PROVE  Tail(q) = << >> /\ Head(q) \in S /\ q # << >>
    <3>1. q # << >>
      BY <2>3, <2>2
    <3>2. Head(q) \in S /\ Tail(q) \in Seq(S) /\ Len(Tail(q)) = 0
      BY <3>1, <2>3, HeadTailProperties
    <3>3. QED
      BY <3>1, <3>2, EmptySeq
  <2>4. QED
    BY <2>1, <2>2, <2>3
<1>4. QED
  BY <1>1, <1>2, <1>3

\* Between the stores nothing moves; the latch only gathers.
LEMMA NoStoreEdge ==
    ASSUME CallsTypeOK, outstanding = 0, NoStore, NEW bready \in BOOLEAN,
           Bus(bready, << >>, << >>)
    PROVE  outstanding' = 0 /\ NoStore' /\ err_latch' = (err_latch \/ err_axi)
<1>1. awq' = << >> /\ wq' = << >> /\ outstanding' = 0
  <2>1. Channel(awq, awvalid, awready) = << >> /\ Channel(wq, wvalid, wready) = << >>
    BY DEF NoStore, Channel
  <2>2. QED
    BY <2>1, Queues DEF Bus, NoStore
<1>2. ~awvalid' /\ ~wvalid'
  BY <1>1 DEF Bus, Present
<1>3. ~awready' /\ ~aw_active' /\ ~wready' /\ ~bvalid'
  BY DEF Bus, WriteChannel, NoStore
<1>4. err_latch' = (err_latch \/ err_axi)
  BY DEF Bus, ErrorLatch, write_clear_parse, NoStore
<1>5. QED
  BY <1>1, <1>2, <1>3, <1>4 DEF NoStore

\* A store starts: its address and its data wait.
LEMMA StoreEdge ==
    ASSUME CallsTypeOK, outstanding = 0, NoStore, NEW bready \in BOOLEAN,
           NEW reg \in Registers, NEW data \in Data, Bus(bready, <<reg>>, <<data>>)
    PROVE  /\ outstanding' = 1 /\ AddressWaiting' /\ DataWaiting'
           /\ Address' = reg /\ Head(wq') = data
           /\ err_latch' = (err_latch \/ err_axi)
<1>1. awq' = <<reg>> /\ wq' = <<data>> /\ outstanding' = 1
  <2>1. Channel(awq, awvalid, awready) = << >> /\ Channel(wq, wvalid, wready) = << >>
    BY DEF NoStore, Channel
  <2>2. << >> \o <<reg>> = <<reg>> /\ << >> \o <<data>> = <<data>> /\ Len(<<reg>>) = 1
    BY Queues
  <2>3. awq' = <<reg>> /\ wq' = <<data>>
    BY <2>1, <2>2 DEF Bus
  <2>4. outstanding' = 1
    BY <2>2 DEF Bus, NoStore
  <2>5. QED
    BY <2>3, <2>4
<1>2. ~awready' /\ ~aw_active' /\ ~wready' /\ ~bvalid'
  BY DEF Bus, WriteChannel, NoStore
<1>3. err_latch' = (err_latch \/ err_axi)
  BY DEF Bus, ErrorLatch, write_clear_parse, NoStore
<1>4. Len(<<reg>>) = 1 /\ Head(<<reg>>) = reg /\ Len(<<data>>) = 1 /\ Head(<<data>>) = data
  BY Queues
<1>5. QED
  BY <1>1, <1>2, <1>3, <1>4 DEF AddressWaiting, DataWaiting, Address

\* A store moves on, or is answered and over; what it writes, and where, does
\* not change; the latch is cleared on the edge on which its data is taken, if it
\* is to clear it, and on no other edge.
LEMMA UnderWayEdge ==
    ASSUME CallsTypeOK, outstanding = 1, UnderWay, NEW bready \in BOOLEAN,
           Bus(bready, << >>, << >>)
    PROVE  /\ (outstanding' = 1 /\ UnderWay') \/ (outstanding' = 0 /\ NoStore')
           /\ DataWaiting' => /\ outstanding' = 1 /\ DataWaiting
                              /\ Address' = Address /\ Head(wq') = Head(wq)
           /\ err_latch' = (/\ err_latch \/ err_axi
                            /\ ~(/\ DataWaiting /\ ~DataWaiting'
                                 /\ Address = STATUS /\ Head(wq) = Clear))
<1>1. awq' = Channel(awq, awvalid, awready) /\ wq' = Channel(wq, wvalid, wready)
  <2>1. Channel(awq, awvalid, awready) \in Seq(Registers)
    BY HeadTailProperties, Queues DEF Channel, CallsTypeOK
  <2>2. Channel(wq, wvalid, wready) \in Seq(Data)
    BY HeadTailProperties, Queues DEF Channel, CallsTypeOK
  <2>3. QED
    BY <2>1, <2>2, Queues DEF Bus
<1>2. WriteChannel(awvalid, IF awvalid THEN Head(awq) ELSE wr_addr, wvalid, bready)
  BY DEF Bus
<1>3. ErrorLatch(wvalid, IF wvalid THEN Head(wq) ELSE Clear)
  BY DEF Bus
<1>4. outstanding' = outstanding - (IF bvalid /\ bready THEN 1 ELSE 0)
  BY Queues DEF Bus
<1>5. /\ awvalid' \in BOOLEAN /\ (awvalid' => awq' # << >>)
      /\ wvalid' \in BOOLEAN /\ (wvalid' => wq' # << >>)
      /\ (awvalid /\ ~awready => awvalid') /\ (wvalid /\ ~wready => wvalid')
  BY DEF Bus, Present
<1>6. /\ (Len(awq) = 1 => Tail(awq) = << >>) /\ (Len(wq) = 1 => Tail(wq) = << >>)
      /\ Len(<< >>) = 0
  BY Queues DEF CallsTypeOK
<1>7. {awready, aw_active, wready, bvalid, awready', aw_active', wready', bvalid', awvalid',
       wvalid', awvalid, wvalid, err_latch, err_axi, bready} \subseteq BOOLEAN
  BY <1>2, <1>5 DEF CallsTypeOK, StatusTypeOK, WriteChannel
<1>8. Len(wq) = 1 => ((Head(wq)).bit2 = TRUE <=> Head(wq) = Clear) /\ (Head(wq)).bit2 \in BOOLEAN
  <2> SUFFICES ASSUME Len(wq) = 1
               PROVE  ((Head(wq)).bit2 = TRUE <=> Head(wq) = Clear) /\ (Head(wq)).bit2 \in BOOLEAN
    OBVIOUS
  <2>1. Head(wq) \in Data
    BY Queues DEF CallsTypeOK
  <2>2. QED
    BY <2>1 DEF Data, Clear
<1> USE DEF Channel, WriteChannel
<1>9. CASE AddressWaiting /\ DataWaiting
  <2>1. AddressWaiting' \/ AddressTaking'
    BY <1>1, <1>2, <1>5, <1>7, <1>9 DEF AddressWaiting, DataWaiting, AddressTaking
  <2>2. DataWaiting' /\ wq' = wq
    BY <1>1, <1>2, <1>7, <1>9 DEF AddressWaiting, DataWaiting
  <2>3. Address' = Address
    BY <1>1, <1>2, <1>7, <1>9 DEF AddressWaiting, DataWaiting, Address
  <2>4. outstanding' = 1 /\ err_latch' = (err_latch \/ err_axi)
    BY <1>3, <1>4, <1>9 DEF AddressWaiting, DataWaiting, ErrorLatch, write_clear_parse
  <2>5. QED
    BY <2>1, <2>2, <2>3, <2>4, <1>9 DEF UnderWay
<1>10. CASE aw_active /\ DataWaiting /\ (AddressTaking \/ AddressTaken)
  <2>1. AddressTaken'
    BY <1>1, <1>2, <1>5, <1>6, <1>7, <1>10 DEF AddressTaking, AddressTaken, DataWaiting
  <2>2. Address' = Address
    BY <2>1, <1>2, <1>7, <1>10 DEF Address, AddressTaken
  <2>3. outstanding' = 1 /\ wq' = wq
    BY <1>1, <1>4, <1>10 DEF DataWaiting
  <2>4. CASE wvalid
    <3>1. DataTaking'
      BY <1>2, <1>5, <1>7, <1>10, <2>3, <2>4 DEF DataWaiting, DataTaking
    <3>2. err_latch' = ((err_latch \/ err_axi) /\ ~(Address = STATUS /\ Head(wq) = Clear))
      BY <1>3, <1>7, <1>8, <1>10, <2>4
         DEF DataWaiting, ErrorLatch, write_clear_parse, Address
    <3>3. QED
      BY <2>1, <2>3, <3>1, <3>2, <1>10 DEF UnderWay, DataTaking, DataWaiting
  <2>5. CASE ~wvalid
    <3>1. DataWaiting'
      BY <1>2, <1>7, <1>10, <2>3, <2>5 DEF DataWaiting
    <3>2. err_latch' = (err_latch \/ err_axi)
      BY <1>3, <2>5 DEF ErrorLatch, write_clear_parse
    <3>3. QED
      BY <2>1, <2>2, <2>3, <3>1, <3>2, <1>10 DEF UnderWay
  <2>6. QED
    BY <2>4, <2>5
<1>11. CASE AddressTaken /\ DataTaking
  <2>1. AddressTaken' /\ DataAnswered'
    BY <1>1, <1>2, <1>5, <1>6, <1>7, <1>11 DEF AddressTaken, DataTaking, DataAnswered
  <2>2. outstanding' = 1
    BY <1>4, <1>11 DEF DataTaking
  <2>3. err_latch' = (err_latch \/ err_axi)
    BY <1>3, <1>11 DEF ErrorLatch, write_clear_parse, DataTaking
  <2>4. QED
    BY <2>1, <2>2, <2>3, <1>6, <1>11 DEF UnderWay, DataAnswered, DataWaiting, DataTaking
<1>12. CASE AddressTaken /\ DataAnswered
  <2>1. ~DataWaiting /\ ~DataWaiting'
    BY <1>1, <1>6, <1>12 DEF DataAnswered, DataWaiting
  <2>2. err_latch' = (err_latch \/ err_axi)
    BY <1>3, <1>12 DEF ErrorLatch, write_clear_parse, DataAnswered
  <2>3. awq' = << >> /\ wq' = << >> /\ ~awvalid' /\ ~wvalid' /\ ~awready' /\ ~wready'
    BY <1>1, <1>2, <1>5, <1>7, <1>12 DEF AddressTaken, DataAnswered
  <2>4. CASE bready
    <3>1. ~aw_active' /\ ~bvalid' /\ outstanding' = 0
      BY <2>4, <1>2, <1>4, <1>7, <1>12 DEF DataAnswered
    <3>2. QED
      BY <2>1, <2>2, <2>3, <3>1 DEF NoStore
  <2>5. CASE ~bready
    <3>1. aw_active' /\ bvalid'
      BY <2>5, <1>2, <1>7, <1>12 DEF AddressTaken, DataAnswered
    <3>2. outstanding' = 1
      BY <2>5, <1>4
    <3>3. QED
      BY <2>1, <2>2, <2>3, <3>1, <3>2 DEF AddressTaken, DataAnswered, UnderWay
  <2>6. QED
    BY <2>4, <2>5
<1>13. QED
  BY <1>9, <1>10, <1>11, <1>12 DEF UnderWay, AddressTaking, AddressTaken

-----------------------------------------------------------------------------
(* Numbers *)

\* An integer is its quotient and its remainder.
LEMMA DivMod ==
    ASSUME NEW v \in Int, NEW d \in Nat \ {0}
    PROVE  v \div d \in Int /\ v % d \in 0..(d - 1) /\ v = (v \div d) * d + (v % d)
OBVIOUS

\* A number put together from the high half of c and the low half of an earlier
\* b is not below anything up to b, and above c only when the low half wrapped
\* in between, by less than one wrap.
LEMMA Spliced ==
    ASSUME NEW h \in Nat \ {0}, NEW a \in Nat, NEW b \in Nat, NEW c \in Nat, a <= b, b <= c
    PROVE  /\ (c \div h) * h + (b % h) \in 0..(c + h)
           /\ a <= (c \div h) * h + (b % h)
           /\ \/ (c \div h) * h + (b % h) <= c
              \/ a \div h < c \div h /\ (c \div h) * h + (b % h) < c + h
<1> DEFINE qa == a \div h
           qb == b \div h
           qc == c \div h
           rb == b % h
           rc == c % h
<1>1. /\ {qa, qb, qc, rb, rc} \subseteq Int
      /\ a = qa * h + (a % h) /\ a % h \in 0..(h - 1)
      /\ b = qb * h + rb /\ rb \in 0..(h - 1)
      /\ c = qc * h + rc /\ rc \in 0..(h - 1)
  BY DivMod
<1> HIDE DEF qa, qb, qc, rb, rc
<1>2. ASSUME NEW x \in Int, NEW y \in Int, y < x PROVE y * h + h <= x * h
  <2>1. y + 1 <= x
    BY <1>2
  <2>2. (x - y - 1) * h >= 0
    BY <2>1
  <2>3. (x - y - 1) * h = x * h - y * h - h
    OBVIOUS
  <2>4. x * h \in Int /\ y * h \in Int
    OBVIOUS
  <2>5. QED
    BY <2>2, <2>3, <2>4
<1>3. qc * h \in Int /\ qb * h \in Int /\ qa * h \in Int
  BY <1>1
<1>4. qb <= qc
  <2> SUFFICES ASSUME qc < qb PROVE FALSE
    BY <1>1
  <2>1. qc * h + h <= qb * h
    BY <1>1, <1>2
  <2>2. QED
    BY <2>1, <1>1, <1>3
<1>5. qa <= qb
  <2> SUFFICES ASSUME qb < qa PROVE FALSE
    BY <1>1
  <2>1. qb * h + h <= qa * h
    BY <1>1, <1>2
  <2>2. QED
    BY <2>1, <1>1, <1>3
<1>6. qb * h <= qc * h
  BY <1>1, <1>2, <1>3, <1>4
<1>7. qc * h + rb \in 0..(c + h) /\ a <= qc * h + rb /\ qc * h + rb < c + h
  BY <1>1, <1>3, <1>6
<1>8. qc * h + rb <= c \/ qa < qc
  <2>1. CASE qb < qc
    BY <2>1, <1>1, <1>5
  <2>2. CASE qb = qc
    BY <2>2, <1>1, <1>3
  <2>3. QED
    BY <2>1, <2>2, <1>1, <1>4
<1>9. qa = a \div h /\ qc = c \div h /\ rb = b % h
  BY DEF qa, qc, rb
<1>10. QED
  BY <1>7, <1>8, <1>9

-----------------------------------------------------------------------------
(* Every edge *)

\* Nothing is stored, waited for or owed at the start.
LEMMA CallsInitInv == CallsInit => CallsInv
<1> SUFFICES ASSUME CallsInit PROVE CallsInv
  OBVIOUS
<1> USE DEF CallsInit, StatusInit
<1>1. CallsTypeOK
  <2>1. StatusTypeOK
    <3>1. {err_s1, err_axi, err_latch, awready, aw_active, wready, bvalid, rvalid} \subseteq BOOLEAN
      BY Zenon
    <3>2. count_dp \in 0..MaxCount /\ count_axi \in 0..MaxCount
      BY CountAssumption
    <3>3. QED
      BY <3>1, <3>2 DEF StatusTypeOK, Registers
  <2>2. awq \in Seq(Registers) /\ wq \in Seq(Data) /\ Len(awq) = 0 /\ Len(wq) = 0
    BY Queues
  <2>3. {awvalid, wvalid, owed, old} \subseteq BOOLEAN
    BY Zenon
  <2>4. lo \in 0..(Half - 1) /\ result \in 0..(MaxCount + Half) /\ since \in 0..MaxCount
    BY CountAssumption
  <2>5. ~awvalid /\ ~wvalid /\ outstanding = 0 /\ access = "idle" /\ call = "none"
    BY Zenon
  <2>6. QED
    BY <2>1, <2>2, <2>3, <2>4, <2>5 DEF CallsTypeOK, Calls
<1>2. StoreInv
  BY DEF StoreInv, NoStore
<1>3. CallInv /\ OwedInv /\ OldInv /\ CountInv
  BY DEF CallInv, OwedInv, OldInv, CountInv, Calls, AccessOf
<1>4. QED
  BY <1>1, <1>2, <1>3 DEF CallsInv

\* The counts do not pass the bound, and the later one follows the earlier one.
LEMMA CountEdge ==
    ASSUME CallsTypeOK, CountInv, Parser, MessageCounter
    PROVE  /\ count_dp' \in 0..MaxCount /\ count_axi' \in 0..MaxCount
           /\ count_axi <= count_axi' /\ count_axi' <= count_dp'
           /\ parsed' # "none" => count_dp' < MaxCount
           /\ parsed' \in {"none", "ok", "bad"}
<1>1. count_dp \in 0..MaxCount /\ count_axi \in 0..MaxCount /\ MaxCount \in Nat
  BY CountAssumption DEF CallsTypeOK, StatusTypeOK
<1>2. QED
  BY <1>1 DEF CountInv, Parser, MessageCounter

\* The registers of the write channel, and what the bus does to the queues, keep
\* their types.
LEMMA BusTypes ==
    ASSUME CallsTypeOK, NEW bready \in BOOLEAN, NEW addrs \in Seq(Registers), NEW data \in Seq(Data),
           Bus(bready, addrs, data)
    PROVE  /\ awq' \in Seq(Registers) /\ wq' \in Seq(Data)
           /\ awvalid' \in BOOLEAN /\ wvalid' \in BOOLEAN /\ err_latch' \in BOOLEAN
           /\ {awready', aw_active', wready', bvalid'} \subseteq BOOLEAN
           /\ wr_addr' \in Registers
<1>1. Channel(awq, awvalid, awready) \in Seq(Registers) /\ Channel(wq, wvalid, wready) \in Seq(Data)
  BY DEF Channel, CallsTypeOK
<1>2. awq' \in Seq(Registers) /\ wq' \in Seq(Data)
  BY <1>1, ConcatProperties DEF Bus
<1>3. awvalid' \in BOOLEAN /\ wvalid' \in BOOLEAN
  BY DEF Bus
<1>4. err_latch' \in BOOLEAN
  BY DEF Bus, ErrorLatch, CallsTypeOK, StatusTypeOK
<1>5. {awready', aw_active', wready', bvalid'} \subseteq BOOLEAN
  BY DEF Bus, WriteChannel, CallsTypeOK, StatusTypeOK
<1>6. wr_addr' \in Registers
  BY Queues DEF Bus, WriteChannel, CallsTypeOK, StatusTypeOK
<1>7. QED
  BY <1>2, <1>3, <1>4, <1>5, <1>6

\* What an edge is to the stores: one starts, there is none, or one is under way
\* and its call waits for it.
Starts(bready) ==
    /\ outstanding = 0 /\ NoStore
    /\ \E reg \in Registers, data \in Data :
         /\ Bus(bready, <<reg>>, <<data>>)
         /\ call' = "clear_parse_error" <=> reg = STATUS /\ data = Clear
    /\ access' = "dsb" /\ call = "none" /\ call' # "none"

NoneThere(bready) ==
    /\ outstanding = 0 /\ NoStore
    /\ Bus(bready, << >>, << >>)
    /\ call' = call \/ call' # "clear_parse_error"

Waits(bready) ==
    /\ outstanding = 1 /\ UnderWay
    /\ Bus(bready, << >>, << >>)
    /\ access = "dsb" /\ UNCHANGED <<access, call>>

\* There is no other edge.
LEMMA DriverCases ==
    ASSUME StoreInv, CallInv, NEW bready \in BOOLEAN, Driver(bready)
    PROVE  Starts(bready) \/ NoneThere(bready) \/ Waits(bready)
<1>1. access = "idle" => call = "none"
  BY DEF CallInv, AccessOf
<1>2. \/ outstanding = 0 /\ NoStore
      \/ outstanding = 1 /\ access = "dsb" /\ UnderWay
  BY DEF StoreInv
<1>3. CASE Wait(bready)
  BY <1>2, <1>3 DEF Wait, NoneThere, Waits
<1>4. CASE Store(bready, "clear_parse_error", STATUS, Clear)
  <2>1. STATUS \in Registers /\ Clear \in Data
    BY DEF Registers, Clear, Data
  <2>2. QED
    BY <1>1, <1>2, <1>4, <2>1 DEF Store, Starts
<1>5. ASSUME NEW reg \in Registers, NEW data \in Data, <<reg, data>> # <<STATUS, Clear>>,
             Store(bready, "write_reg", reg, data)
      PROVE  Starts(bready)
  <2>1. call' = "write_reg" /\ ~(reg = STATUS /\ data = Clear)
    BY <1>5 DEF Store
  <2>2. QED
    BY <1>1, <1>2, <1>5, <2>1 DEF Store, Starts
<1>6. CASE Dsb(bready)
  BY <1>2, <1>6 DEF Dsb, NoneThere
<1>7. CASE \/ StartRead(bready, "parse_error", "status")
           \/ StartRead(bready, "msg_count", "lo")
  BY <1>2, <1>7 DEF StartRead, NoneThere
<1>8. CASE ReadStatus(bready) \/ ReadLo(bready) \/ ReadHi(bready)
  BY <1>2, <1>8 DEF ReadStatus, ReadLo, ReadHi, NoneThere
<1>9. QED
  BY <1>3, <1>4, <1>5, <1>6, <1>7, <1>8 DEF Driver

\* One store at a time, whose data is taken after its address.
LEMMA StoreStep ==
    ASSUME CallsTypeOK, StoreInv, CallInv, NEW bready \in BOOLEAN, Driver(bready)
    PROVE  StoreInv'
<1>1. CASE Starts(bready)
  <2>1. PICK reg \in Registers, data \in Data :
             /\ Bus(bready, <<reg>>, <<data>>)
             /\ call' = "clear_parse_error" <=> reg = STATUS /\ data = Clear
    BY <1>1 DEF Starts
  <2>2. outstanding' = 1 /\ AddressWaiting' /\ DataWaiting' /\ Address' = reg /\ Head(wq') = data
    BY <1>1, <2>1, StoreEdge DEF Starts
  <2>3. QED
    BY <1>1, <2>1, <2>2 DEF Starts, StoreInv, UnderWay
<1>2. CASE NoneThere(bready)
  BY <1>2, NoStoreEdge DEF NoneThere, StoreInv
<1>3. CASE Waits(bready)
  <2>1. /\ (outstanding' = 1 /\ UnderWay') \/ (outstanding' = 0 /\ NoStore')
        /\ DataWaiting' => DataWaiting /\ Address' = Address /\ Head(wq') = Head(wq)
    BY <1>3, UnderWayEdge DEF Waits
  <2>2. DataWaiting' => (Address' = STATUS /\ Head(wq') = Clear <=> call' = "clear_parse_error")
    BY <1>3, <2>1 DEF Waits, StoreInv
  <2>3. QED
    BY <1>3, <2>1, <2>2 DEF Waits, StoreInv
<1>4. QED
  BY <1>1, <1>2, <1>3, DriverCases

\* The latch gathers errors and is cleared by clear_parse_error() alone, on the
\* edge on which its data is taken.
LEMMA LatchEdge ==
    ASSUME CallsTypeOK, StoreInv, CallInv, NEW bready \in BOOLEAN, Driver(bready)
    PROVE  \/ err_latch' = (err_latch \/ err_axi)
           \/ call' = "clear_parse_error"
<1>1. CASE Starts(bready)
  BY <1>1, StoreEdge DEF Starts
<1>2. CASE NoneThere(bready)
  BY <1>2, NoStoreEdge DEF NoneThere
<1>3. CASE Waits(bready)
  <2>1. err_latch' = (/\ err_latch \/ err_axi
                      /\ ~(/\ DataWaiting /\ ~DataWaiting'
                           /\ Address = STATUS /\ Head(wq) = Clear))
    BY <1>3, UnderWayEdge DEF Waits
  <2>2. DataWaiting /\ Address = STATUS /\ Head(wq) = Clear => call' = "clear_parse_error"
    BY <1>3 DEF Waits, StoreInv
  <2>3. QED
    BY <2>1, <2>2
<1>4. QED
  BY <1>1, <1>2, <1>3, DriverCases

\* An error that is owed stays on its way or in the latch.
LEMMA OwedStep ==
    ASSUME CallsTypeOK, StoreInv, CallInv, OwedInv, NEW bready \in BOOLEAN, Driver(bready),
           ErrorSynchroniser, Histories
    PROVE  OwedInv'
<1> SUFFICES ASSUME owed' PROVE parsed' = "bad" \/ err_s1' \/ err_axi' \/ err_latch'
  BY DEF OwedInv
<1>1. call' # "clear_parse_error" /\ (owed \/ parsed' = "bad")
  BY DEF Histories
<1>2. err_latch' = (err_latch \/ err_axi)
  BY <1>1, LatchEdge
<1>3. err_s1' = (parsed = "bad") /\ err_axi' = err_s1
  BY DEF ErrorSynchroniser
<1>4. QED
  BY <1>1, <1>2, <1>3 DEF OwedInv

\* What clear_parse_error() must clear is gone when the data of its store is taken.
LEMMA OldStep ==
    ASSUME CallsTypeOK, StoreInv, CallInv, OldInv, NEW bready \in BOOLEAN, Driver(bready),
           Histories
    PROVE  OldInv'
<1> SUFFICES ASSUME old' PROVE call' = "clear_parse_error" /\ outstanding' = 1 /\ DataWaiting'
  BY DEF OldInv
<1>1. err_latch' /\ (old \/ (call' = "clear_parse_error" /\ call # call'))
  BY DEF Histories
<1>2. CASE Starts(bready)
  <2>1. outstanding' = 1 /\ DataWaiting'
    BY <1>2, StoreEdge DEF Starts
  <2>2. call' = "clear_parse_error"
    BY <1>1, <1>2 DEF Starts, OldInv
  <2>3. QED
    BY <2>1, <2>2
<1>3. CASE NoneThere(bready)
  BY <1>1, <1>3 DEF NoneThere, OldInv
<1>4. CASE Waits(bready)
  <2>1. call = "clear_parse_error" /\ DataWaiting /\ call' = call
    BY <1>1, <1>4 DEF Waits, OldInv
  <2>2. Address = STATUS /\ Head(wq) = Clear
    BY <1>4, <2>1 DEF Waits, StoreInv
  <2>3. DataWaiting' /\ outstanding' = 1
    BY <1>1, <1>4, <2>1, <2>2, UnderWayEdge DEF Waits
  <2>4. QED
    BY <2>1, <2>3
<1>5. QED
  BY <1>2, <1>3, <1>4, DriverCases

\* Every call goes from one of its accesses to the next.
LEMMA AccessStep ==
    ASSUME CallInv, NEW bready \in BOOLEAN, Driver(bready)
    PROVE  CallInv'
<1> USE DEF CallInv, AccessOf, Calls
<1>1. CASE Wait(bready) \/ Dsb(bready)
  BY <1>1 DEF Wait, Dsb
<1>2. CASE \/ Store(bready, "clear_parse_error", STATUS, Clear)
           \/ \E reg \in Registers, data \in Data : Store(bready, "write_reg", reg, data)
  BY <1>2 DEF Store
<1>3. CASE \/ StartRead(bready, "parse_error", "status")
           \/ StartRead(bready, "msg_count", "lo")
  BY <1>3 DEF StartRead
<1>4. CASE ReadStatus(bready) \/ ReadLo(bready) \/ ReadHi(bready)
  BY <1>4 DEF ReadStatus, ReadLo, ReadHi
<1>5. QED
  BY <1>1, <1>2, <1>3, <1>4 DEF Driver

\* What msg_count() returns is put together from two counts of its time.
LEMMA CountRead ==
    ASSUME CallsTypeOK, CountInv, NEW bready \in BOOLEAN, ReadHi(bready)
    PROVE  /\ result' \in 0..(MaxCount + Half)
           /\ since <= result'
           /\ \/ result' <= count_axi
              \/ since \div Half < count_axi \div Half /\ result' < count_axi + Half
<1>1. count_axi \in 0..MaxCount /\ since \in 0..MaxCount /\ MaxCount \in Nat /\ Half \in Nat \ {0}
  BY CountAssumption DEF CallsTypeOK, StatusTypeOK
<1>2. PICK c \in since..count_axi : lo = c % Half
  BY DEF ReadHi, CountInv
<1>3. result' = (count_axi \div Half) * Half + (c % Half)
  BY <1>2 DEF ReadHi, ReadData, STATUS
<1>4. c \in Nat /\ since <= c /\ c <= count_axi
  BY <1>1, <1>2
<1>5. /\ result' \in 0..(count_axi + Half)
      /\ since <= result'
      /\ \/ result' <= count_axi
         \/ since \div Half < count_axi \div Half /\ result' < count_axi + Half
  <2> DEFINE r == (count_axi \div Half) * Half + (c % Half)
  <2>1. /\ r \in 0..(count_axi + Half)
        /\ since <= r
        /\ r <= count_axi \/ (since \div Half < count_axi \div Half /\ r < count_axi + Half)
    <3>1. since \in Nat /\ count_axi \in Nat
      BY <1>1
    <3>2. QED
      BY <1>1, <1>4, <3>1, Spliced, Zenon
  <2>2. result' = r
    BY <1>3
  <2> HIDE DEF r
  <2>3. QED
    BY <2>1, <2>2
<1>6. QED
  BY <1>1, <1>5

\* The locals of msg_count() keep their types, and the half that was read remains
\* that of a count since the call.
LEMMA CountStep ==
    ASSUME CallsTypeOK, CallInv, CountInv, NEW bready \in BOOLEAN, Driver(bready),
           Parser, MessageCounter
    PROVE  /\ CountInv'
           /\ lo' \in 0..(Half - 1) /\ result' \in 0..(MaxCount + Half) /\ since' \in 0..MaxCount
<1>1. /\ count_axi \in 0..MaxCount /\ since \in 0..MaxCount /\ lo \in 0..(Half - 1)
      /\ MaxCount \in Nat /\ Half \in Nat \ {0}
  BY CountAssumption DEF CallsTypeOK, StatusTypeOK
<1>2. /\ count_axi' \in 0..MaxCount /\ count_axi <= count_axi' /\ count_axi' <= count_dp'
      /\ parsed' # "none" => count_dp' < MaxCount
  BY CountEdge
<1>3. CASE UNCHANGED <<access, lo, since>> /\ result' = 0
  <2>1. access' = "lo" => since' <= count_axi'
    BY <1>1, <1>2, <1>3 DEF CountInv
  <2>2. access' = "hi" => \E c \in since'..count_axi' : lo' = c % Half
    <3> SUFFICES ASSUME access = "hi" PROVE \E c \in since..count_axi' : lo = c % Half
      BY <1>3
    <3>1. PICK c \in since..count_axi : lo = c % Half
      BY DEF CountInv
    <3>2. c \in since..count_axi'
      BY <1>1, <1>2
    <3>3. QED
      BY <3>1, <3>2
  <2>3. QED
    BY <1>1, <1>2, <1>3, <2>1, <2>2 DEF CountInv
<1>4. CASE /\ access' \in {"idle", "dsb", "status"}
           /\ lo' = lo /\ result' \in {0, 1} /\ since' \in {0, since}
  <2>1. result' \in 0..(MaxCount + Half)
    BY <1>1, <1>4
  <2>2. since' \in 0..MaxCount /\ lo' \in 0..(Half - 1)
    BY <1>1, <1>4
  <2>3. CountInv'
    BY <1>2, <1>4 DEF CountInv
  <2>4. QED
    BY <2>1, <2>2, <2>3
<1>5. CASE StartRead(bready, "msg_count", "lo")
  <2>1. access' = "lo" /\ since' = count_axi /\ lo' = lo /\ result' = 0
    BY <1>5 DEF StartRead
  <2>2. QED
    BY <1>1, <1>2, <2>1 DEF CountInv
<1>6. CASE ReadLo(bready)
  <2>1. lo' = count_axi % Half /\ access = "lo" /\ access' = "hi" /\ since' = since /\ result' = 0
    BY <1>6 DEF ReadLo, ReadData, STATUS
  <2>2. count_axi \in since'..count_axi'
    BY <1>1, <1>2, <2>1 DEF CountInv
  <2>3. lo' \in 0..(Half - 1)
    BY <1>1, <2>1, DivMod
  <2>4. CountInv'
    BY <1>2, <2>1, <2>2 DEF CountInv
  <2>5. QED
    BY <1>1, <2>1, <2>3, <2>4
<1>7. CASE ReadHi(bready)
  <2>1. result' \in 0..(MaxCount + Half)
    BY <1>7, CountRead
  <2>2. lo' = 0 /\ since' = 0 /\ access' = "idle"
    BY <1>7 DEF ReadHi
  <2>3. QED
    BY <1>1, <1>2, <2>1, <2>2 DEF CountInv
<1>8. QED
  <2>1. CASE Wait(bready)
    BY <1>3, <2>1 DEF Wait
  <2>2. CASE \/ Store(bready, "clear_parse_error", STATUS, Clear)
             \/ \E reg \in Registers, data \in Data : Store(bready, "write_reg", reg, data)
    BY <1>4, <2>2 DEF Store
  <2>3. CASE Dsb(bready)
    BY <1>4, <2>3 DEF Dsb
  <2>4. CASE StartRead(bready, "parse_error", "status")
    BY <1>4, <2>4 DEF StartRead
  <2>5. CASE ReadStatus(bready)
    BY <1>4, <2>5 DEF ReadStatus
  <2>6. QED
    BY <1>5, <1>6, <1>7, <2>1, <2>2, <2>3, <2>4, <2>5 DEF Driver

\* Every variable keeps its type.
LEMMA CallsTypeStep ==
    ASSUME CallsTypeOK, StoreInv, CallInv, CountInv, NEW bready \in BOOLEAN, Driver(bready),
           Parser, MessageCounter, ErrorSynchroniser, Histories
    PROVE  CallsTypeOK'
<1>1. PICK addrs \in Seq(Registers), data \in Seq(Data) : Bus(bready, addrs, data)
  <2>1. << >> \in Seq(Registers) /\ << >> \in Seq(Data)
    BY Queues
  <2>2. CASE Starts(bready)
    <3>1. PICK reg \in Registers, datum \in Data : Bus(bready, <<reg>>, <<datum>>)
      BY <2>2 DEF Starts
    <3>2. <<reg>> \in Seq(Registers) /\ <<datum>> \in Seq(Data)
      BY Queues
    <3>3. QED
      BY <3>1, <3>2
  <2>3. CASE NoneThere(bready) \/ Waits(bready)
    BY <2>1, <2>3 DEF NoneThere, Waits
  <2>4. QED
    BY <2>2, <2>3, DriverCases
<1>2. /\ awq' \in Seq(Registers) /\ wq' \in Seq(Data)
      /\ awvalid' \in BOOLEAN /\ wvalid' \in BOOLEAN /\ err_latch' \in BOOLEAN
      /\ {awready', aw_active', wready', bvalid'} \subseteq BOOLEAN
      /\ wr_addr' \in Registers
  BY <1>1, BusTypes
<1>3. (awvalid' => awq' # << >>) /\ (wvalid' => wq' # << >>)
  BY <1>1 DEF Bus, Present
<1>4. StoreInv' /\ CallInv'
  BY StoreStep, AccessStep
<1>5. Len(awq') <= outstanding' /\ Len(wq') <= outstanding' /\ outstanding' <= 1
  <2>1. Len(<< >>) = 0
    BY Queues
  <2>2. CASE outstanding' = 0 /\ NoStore'
    BY <2>1, <2>2 DEF NoStore
  <2>3. CASE /\ outstanding' = 1
             /\ Len(awq') = 1 \/ awq' = << >>
             /\ Len(wq') = 1 \/ wq' = << >>
    <3>1. Len(awq') \in {0, 1} /\ Len(wq') \in {0, 1}
      BY <2>1, <2>3, Zenon
    <3>2. \A n \in {0, 1} : n <= 1
      OBVIOUS
    <3>3. QED
      BY <2>3, <3>1, <3>2, Zenon
  <2>4. \/ outstanding' = 0 /\ NoStore'
        \/ /\ outstanding' = 1
           /\ Len(awq') = 1 \/ awq' = << >>
           /\ Len(wq') = 1 \/ wq' = << >>
    BY <1>4 DEF StoreInv, UnderWay, AddressWaiting, AddressTaking, AddressTaken,
                DataWaiting, DataTaking, DataAnswered
  <2>5. QED
    BY <2>2, <2>3, <2>4, Zenon
<1>6. rvalid' \in BOOLEAN
  <2>1. rvalid \in BOOLEAN
    BY DEF CallsTypeOK, StatusTypeOK
  <2>2. Answered \/ NotAnswered
    BY DEF Driver, Wait, Store, Dsb, StartRead, ReadStatus, ReadLo, ReadHi
  <2>3. QED
    BY <2>1, <2>2 DEF Answered, NotAnswered
<1>7. StatusTypeOK'
  <2>1. /\ count_dp' \in 0..MaxCount /\ count_axi' \in 0..MaxCount
        /\ parsed' \in {"none", "ok", "bad"}
    BY CountEdge
  <2>2. err_s1' \in BOOLEAN /\ err_axi' \in BOOLEAN
    BY DEF ErrorSynchroniser, CallsTypeOK, StatusTypeOK
  <2>3. QED
    BY <1>2, <1>6, <2>1, <2>2 DEF StatusTypeOK
<1>8. /\ access' \in {"idle", "dsb", "status", "lo", "hi"}
      /\ call' \in Calls /\ (call' = "none" <=> access' = "idle")
  BY <1>4 DEF CallInv, AccessOf, Calls
<1>9. lo' \in 0..(Half - 1) /\ result' \in 0..(MaxCount + Half) /\ since' \in 0..MaxCount
  BY CountStep
<1>10. owed' \in BOOLEAN /\ old' \in BOOLEAN
  BY <1>2 DEF Histories, CallsTypeOK
<1>11. QED
  BY <1>2, <1>3, <1>5, <1>7, <1>8, <1>9, <1>10 DEF CallsTypeOK

\* Every edge keeps the invariant.
LEMMA CallsInvStep == CallsInv /\ [CallsNext]_callsVars => CallsInv'
<1> SUFFICES ASSUME CallsInv, [CallsNext]_callsVars PROVE CallsInv'
  OBVIOUS
<1> USE DEF CallsInv
<1>1. CASE CallsNext
  <2>1. PICK bready \in BOOLEAN : Driver(bready)
    BY <1>1 DEF CallsNext
  <2>2. Parser /\ MessageCounter /\ ErrorSynchroniser /\ Histories
    BY <1>1 DEF CallsNext
  <2>3. CallsTypeOK'
    BY <2>1, <2>2, CallsTypeStep
  <2>4. StoreInv' /\ CallInv'
    BY <2>1, StoreStep, AccessStep
  <2>5. OwedInv' /\ OldInv'
    BY <2>1, <2>2, OwedStep, OldStep
  <2>6. CountInv'
    BY <2>1, <2>2, CountStep
  <2>7. QED
    BY <2>3, <2>4, <2>5, <2>6
<1>2. CASE UNCHANGED callsVars
  <2> USE <1>2 DEF callsVars, statusVars, pathVars, writeVars, busVars, localVars, ghosts
  <2>1. CallsTypeOK'
    BY DEF CallsTypeOK, StatusTypeOK
  <2>2. StoreInv'
    BY DEF StoreInv, UnderWay, NoStore, AddressWaiting, AddressTaking, AddressTaken,
           DataWaiting, DataTaking, DataAnswered, Address
  <2>3. CallInv' /\ OwedInv' /\ OldInv' /\ CountInv'
    BY DEF CallInv, OwedInv, OldInv, CountInv, DataWaiting
  <2>4. QED
    BY <2>1, <2>2, <2>3
<1>3. QED
  BY <1>1, <1>2

\* The inductive invariant of the other calls.
LEMMA CallsInvariance == CallsSpec => []CallsInv
BY CallsInitInv, CallsInvStep, PTL DEF CallsSpec

\* Type correctness: in particular there is at most one store under way, since
\* the dsb of write_reg() waits for its answer.
THEOREM CallsTypeCorrect == CallsSpec => []CallsTypeOK
<1>1. CallsInv => CallsTypeOK
  BY DEF CallsInv
<1>2. QED
  BY CallsInvariance, <1>1, PTL

\* When clear_parse_error() has returned, no error from before the call is in the
\* latch, in whatever order the bus delivers address and data.
THEOREM ClearDone == CallsSpec => []ClearTakesEffect
<1>1. CallsInv => ClearTakesEffect
  BY DEF CallsInv, OldInv, ClearTakesEffect
<1>2. QED
  BY CallsInvariance, <1>1, PTL

\* parse_error() reports every error that came after the last clear_parse_error()
\* had returned and is through the synchroniser; no other write loses one.
THEOREM NoErrorLost == CallsSpec => ErrorsReported
<1>1. ASSUME CallsInv, [CallsNext]_callsVars
      PROVE  [/\ call = "parse_error" /\ call' = "none"
              /\ owed /\ parsed # "bad" /\ ~err_s1 /\ ~err_axi
              => result' = 1]_callsVars
  <2> SUFFICES ASSUME CallsNext, call = "parse_error", call' = "none",
                      owed, parsed # "bad", ~err_s1, ~err_axi
               PROVE  result' = 1
    BY <1>1
  <2>1. err_latch
    BY <1>1 DEF CallsInv, OwedInv
  <2>2. access = "status"
    BY <1>1 DEF CallsInv, CallInv, AccessOf
  <2>3. PICK bready \in BOOLEAN : ReadStatus(bready)
    BY <2>2 DEF CallsNext, Driver, Wait, Store, Dsb, StartRead, ReadLo, ReadHi
  <2>4. QED
    BY <2>1, <2>3 DEF ReadStatus, ReadData, STATUS
<1>2. QED
  BY CallsInvariance, <1>1, PTL DEF CallsSpec, ErrorsReported

\* msg_count() is never behind the count at the call, and ahead of the count at the
\* return by less than one wrap of the low half, and only when it wrapped.
THEOREM CountStaysNear == CallsSpec => CountIsNear
<1>1. ASSUME CallsInv, [CallsNext]_callsVars
      PROVE  [call = "msg_count" /\ call' = "none" =>
                /\ since <= result'
                /\ \/ result' <= count_axi
                   \/ /\ since \div Half < count_axi \div Half
                      /\ result' < count_axi + Half]_callsVars
  <2> SUFFICES ASSUME CallsNext, call = "msg_count", call' = "none"
               PROVE  /\ since <= result'
                      /\ \/ result' <= count_axi
                         \/ since \div Half < count_axi \div Half /\ result' < count_axi + Half
    BY <1>1
  <2>1. access \in {"lo", "hi"}
    BY <1>1 DEF CallsInv, CallInv, AccessOf
  <2>2. PICK bready \in BOOLEAN : ReadHi(bready)
    BY <2>1 DEF CallsNext, Driver, Wait, Store, Dsb, StartRead, ReadStatus, ReadLo
  <2>3. QED
    BY <1>1, <2>2, CountRead DEF CallsInv
<1>2. QED
  BY CallsInvariance, <1>1, PTL DEF CallsSpec, CountIsNear
=============================================================================
