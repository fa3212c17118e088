-------------------------- MODULE TobSeqlockProofs --------------------------
(***************************************************************************)
(* Proofs about TobSeqlock, for every number of readers, words and writes. *)
(***************************************************************************)
EXTENDS TobSeqlock, TLAPS

USE LevelsAssumption, MaxWritesAssumption

\* An odd number below an even one has room for one more.
LEMMA OddBelowEven ==
    ASSUME NEW n \in Nat, NEW m \in Nat, n <= 2 * m, n % 2 = 1
    PROVE  n + 1 <= 2 * m
OBVIOUS

\* Parities alternate.
LEMMA Parity ==
    ASSUME NEW n \in Nat
    PROVE  (n % 2 = 0 <=> (n + 1) % 2 = 1) /\ (n % 2 = 0 <=> n % 2 # 1)
OBVIOUS

\* The initial values are of the right types.
LEMMA TypeInit == Init => TypeOK
BY DEF Init, TypeOK, Blank

\* Every variable keeps its type.
LEMMA TypeStep == TypeOK /\ [Next]_vars => TypeOK'
<1> SUFFICES ASSUME TypeOK, [Next]_vars PROVE TypeOK'
  OBVIOUS
<1> USE DEF TypeOK
<1>1. ASSUME NEW W \in SUBSET Words, NEW v \in Levels, WriteBegin(W, v) PROVE TypeOK'
  BY <1>1 DEF WriteBegin, readerVars
<1>2. ASSUME NEW w \in Words, StoreWord(w) PROVE TypeOK'
  BY <1>2 DEF StoreWord, readerVars
<1>3. CASE WriteEnd
  <2>1. seq \in Nat /\ seq <= 2 * MaxWrites /\ seq % 2 = 1
    BY <1>3 DEF WriteEnd, Writing
  <2>2. seq + 1 <= 2 * MaxWrites
    BY <2>1, OddBelowEven
  <2>3. QED
    BY <1>3, <2>1, <2>2 DEF WriteEnd, readerVars
<1>4. ASSUME NEW r \in Readers, SnapshotCall(r) PROVE TypeOK'
  BY <1>4 DEF SnapshotCall, writerVars
<1>5. ASSUME NEW r \in Readers, ReadBegin(r) PROVE TypeOK'
  BY <1>5 DEF ReadBegin, writerVars
<1>6. ASSUME NEW r \in Readers, NEW w \in Words, CopyWord(r, w) PROVE TypeOK'
  BY <1>6 DEF CopyWord, writerVars
<1>7. ASSUME NEW r \in Readers, ReadRetry(r) PROVE TypeOK'
  BY <1>7 DEF ReadRetry, writerVars
<1>8. ASSUME NEW r \in Readers, SnapshotReturn(r) PROVE TypeOK'
  BY <1>8 DEF SnapshotReturn, writerVars
<1>9. CASE UNCHANGED vars
  BY <1>9 DEF vars, writerVars, readerVars
<1>10. ASSUME NEW s \in Sides PROVE {s} \X Fields \in SUBSET Words
  BY DEF Words
<1>11. QED
  BY <1>1, <1>2, <1>3, <1>4, <1>5, <1>6, <1>7, <1>8, <1>9, <1>10
     DEF Next, RefreshBegin, ResetBegin, StoreStep, ReadStep

\* Type correctness of the seqlock.
THEOREM TypeCorrect == Spec => []TypeOK
BY TypeInit, TypeStep, PTL DEF Spec

-----------------------------------------------------------------------------
(* The inductive invariant *)

\* Nothing is being written and no reader has copied anything.
LEMMA InvInit == Init => IInv
BY TypeInit DEF Init, IInv, WriterInv, ReaderInv, Writing, Blank

\* A publication in progress has made the number odd, and a finished one has
\* moved it past every number a reader holds: this is what the invariant says.
LEMMA InvStep == IInv /\ [Next]_vars => IInv'
<1> SUFFICES ASSUME IInv, [Next]_vars PROVE IInv'
  OBVIOUS
<1>t. TypeOK /\ TypeOK' /\ WriterInv /\ ReaderInv
  BY TypeStep DEF IInv
<1>1. ASSUME NEW W \in SUBSET Words, NEW v \in Levels, WriteBegin(W, v),
             \/ W = Words /\ v = NullLevel
             \/ \E s \in Sides : W = {s} \X Fields
      PROVE  IInv'
  <2>p. seq \in Nat /\ seq' = seq + 1 /\ seq % 2 # 1
    BY <1>1, <1>t DEF Writing, WriteBegin, TypeOK
  <2>1. Writing' /\ wtodo' = W
    BY <1>1, <2>p, Parity DEF Writing, WriteBegin
  <2>2. \A w \in Words \ W : tob'[w] = wval'[w]
    BY <1>1 DEF WriteBegin
  <2>f. wval' = [w \in Words |-> IF w \in W THEN v ELSE committed[w]]
    BY <1>1, <1>t DEF WriteBegin, WriterInv, Writing
  <2>g. \/ wval' = Blank
        \/ \E s \in Sides, best \in Levels :
              wval' = [w \in Words |-> IF w[1] = s THEN best ELSE committed'[w]]
    <3>0. committed' = committed
      BY <1>1 DEF WriteBegin
    <3>1. CASE W = Words /\ v = NullLevel
      BY <2>f, <3>1 DEF Blank
    <3>2. ASSUME NEW s \in Sides, W = {s} \X Fields
          PROVE  wval' = [w \in Words |-> IF w[1] = s THEN v ELSE committed'[w]]
      <4>1. \A w \in Words : w \in W <=> w[1] = s
        BY <3>2 DEF Words
      <4>2. QED
        BY <2>f, <3>0, <4>1
    <3>3. QED
      BY <1>1, <3>1, <3>2
  <2>3. WriterInv'
    BY <2>1, <2>2, <2>g DEF WriterInv
  <2>4. ReaderInv'
    BY <1>1, <1>t DEF Writing, WriteBegin, ReaderInv, readerVars, TypeOK
  <2>5. QED
    BY <1>t, <2>3, <2>4 DEF IInv
<1>2. ASSUME NEW w \in Words, StoreWord(w) PROVE IInv'
  <2>1. WriterInv'
    <3>1. \A u \in Words : u # w => tob'[u] = tob[u] /\ (u \in wtodo => u \in wtodo')
      BY <1>2, <1>t DEF StoreWord, TypeOK
    <3>2. tob'[w] = wval'[w]
      BY <1>2, <1>t DEF StoreWord, TypeOK
    <3>3. Writing' /\ Writing /\ wval' = wval /\ committed' = committed
      BY <1>2 DEF Writing, StoreWord
    <3>4. QED
      BY <3>1, <3>2, <3>3, <1>t DEF WriterInv
  <2>2. ReaderInv'
    BY <1>2, <1>t DEF Writing, StoreWord, ReaderInv, readerVars, TypeOK
  <2>3. QED
    BY <1>t, <2>1, <2>2 DEF IInv
<1>3. CASE WriteEnd
  <2>1. WriterInv'
    BY <1>3, <1>t DEF Writing, WriteEnd, WriterInv, TypeOK
  <2>2. ReaderInv'
    BY <1>3, <1>t DEF Writing, WriteEnd, ReaderInv, readerVars, TypeOK
  <2>3. QED
    BY <1>t, <2>1, <2>2 DEF IInv
<1>w. UNCHANGED <<seq, writerVars>> => WriterInv'
  BY <1>t DEF Writing, WriterInv, writerVars
<1>4. ASSUME NEW r \in Readers, SnapshotCall(r) PROVE IInv'
  <2>1. \A q \in Readers : rpc'[q] = "copy" => rpc[q] = "copy"
    BY <1>4, <1>t DEF SnapshotCall, TypeOK
  <2>2. ReaderInv'
    BY <1>4, <1>t, <2>1 DEF SnapshotCall, ReaderInv, writerVars
  <2>3. QED
    BY <1>4, <1>t, <1>w, <2>2 DEF SnapshotCall, IInv
<1>5. ASSUME NEW r \in Readers, ReadBegin(r) PROVE IInv'
  <2>1. seq \in Nat /\ seq % 2 = 0
    BY <1>5, <1>t, Parity DEF ReadBegin, Writing, TypeOK
  <2>2. /\ rseq'[r] = seq /\ rtodo'[r] = Words
        /\ \A q \in Readers \ {r} : /\ rseq'[q] = rseq[q] /\ rtodo'[q] = rtodo[q]
                                     /\ rpc'[q] = rpc[q]
        /\ UNCHANGED <<seq, snapshot, committed>>
    BY <1>5, <1>t DEF ReadBegin, writerVars, TypeOK
  <2>3. ReaderInv'
    BY <2>1, <2>2, <1>t DEF ReaderInv
  <2>4. QED
    BY <1>5, <1>t, <1>w, <2>3 DEF ReadBegin, IInv
<1>6. ASSUME NEW r \in Readers, NEW w \in Words, CopyWord(r, w) PROVE IInv'
  <2>1. ReaderInv'
    <3> SUFFICES ASSUME NEW q \in Readers, rpc[q] = "copy", rseq[q] = seq,
                        NEW u \in Words \ rtodo'[q]
                 PROVE  snapshot'[q][u] = committed[u]
      BY <1>6, <1>t DEF CopyWord, ReaderInv, writerVars
    <3>1. tob = committed
      BY <1>t DEF Writing, ReaderInv, WriterInv
    <3>2. CASE q = r /\ u = w
      BY <1>6, <3>1, <3>2, <1>t DEF CopyWord, TypeOK
    <3>3. CASE q = r /\ u # w
      BY <1>6, <3>3, <1>t DEF CopyWord, TypeOK, ReaderInv
    <3>4. CASE q # r
      BY <1>6, <3>4, <1>t DEF CopyWord, TypeOK, ReaderInv
    <3>5. QED
      BY <3>2, <3>3, <3>4
  <2>2. QED
    BY <1>6, <1>t, <1>w, <2>1 DEF CopyWord, IInv
<1>7. ASSUME NEW r \in Readers, ReadRetry(r) PROVE IInv'
  BY <1>7, <1>t, <1>w DEF ReadRetry, ReaderInv, writerVars, TypeOK, IInv
<1>8. ASSUME NEW r \in Readers, SnapshotReturn(r) PROVE IInv'
  BY <1>8, <1>t, <1>w DEF SnapshotReturn, ReaderInv, writerVars, TypeOK, IInv
<1>9. CASE UNCHANGED vars
  BY <1>9, <1>t, <1>w DEF vars, readerVars, writerVars, ReaderInv, IInv
<1>10. ASSUME NEW s \in Sides, NEW best \in Levels, RefreshBegin(s, best) PROVE IInv'
  <2>1. {s} \X Fields \in SUBSET Words
    BY DEF Words
  <2>2. QED
    BY <1>1, <1>10, <2>1 DEF RefreshBegin
<1>11. CASE ResetBegin
  BY <1>1, <1>11 DEF ResetBegin
<1>12. QED
  BY <1>2, <1>3, <1>4, <1>5, <1>6, <1>7, <1>8, <1>9, <1>10, <1>11
     DEF Next, StoreStep, ReadStep

\* What holds in the reachable states: a snapshot is returned whole.
LEMMA Invariance == Spec => []IInv
BY InvInit, InvStep, PTL DEF Spec

-----------------------------------------------------------------------------
(* Refinement: write_end() publishes, a snapshot takes effect at its return *)

\* Every step of the seqlock is a step of AtomicTob or invisible to it.
LEMMA TopStep == IInv /\ [Next]_vars => [Top!Next]_(Top!vars)
<1> SUFFICES ASSUME IInv, [Next]_vars PROVE [Top!Next]_(Top!vars)
  OBVIOUS
<1>t. TypeOK /\ WriterInv /\ ReaderInv
  BY DEF IInv
<1>w. Top!Words = Words /\ Top!Blank = Blank
  BY DEF Top!Words, Words, Top!Blank, Blank
<1> DEFINE reading == [r \in Readers |-> rpc[r] # "idle"]
<1>1. ASSUME NEW W, NEW v, WriteBegin(W, v) PROVE UNCHANGED Top!vars
  BY <1>1 DEF WriteBegin, readerVars, Top!vars
<1>2. ASSUME NEW w \in Words, StoreWord(w) PROVE UNCHANGED Top!vars
  BY <1>2 DEF StoreWord, readerVars, Top!vars
<1>3. CASE WriteEnd
  <2>1. committed' = wval
    <3>1. \A w \in Words : tob[w] = wval[w]
      BY <1>3, <1>t DEF WriteEnd, WriterInv
    <3>2. tob = wval
      BY <3>1, <1>t DEF TypeOK
    <3>3. QED
      BY <1>3, <3>2 DEF WriteEnd
  <2>2. UNCHANGED <<rpc, result>>
    BY <1>3 DEF WriteEnd, readerVars
  <2>3. CASE wval = Blank
    BY <2>1, <2>2, <2>3, <1>w DEF Top!Next, Top!Clear
  <2>4. ASSUME NEW s \in Sides, NEW best \in Levels,
               wval = [w \in Words |-> IF w[1] = s THEN best ELSE committed[w]]
        PROVE  Top!Publish(s, best)
    BY <2>1, <2>2, <2>4, <1>w DEF Top!Publish
  <2>5. QED
    BY <1>3, <1>t, <2>3, <2>4 DEF WriteEnd, WriterInv, Top!Next
<1>4. ASSUME NEW r \in Readers, SnapshotCall(r) PROVE Top!Call(r)
  <2>1. ~reading[r] /\ reading' = [reading EXCEPT ![r] = TRUE]
    BY <1>4, <1>t DEF SnapshotCall, TypeOK
  <2>2. QED
    BY <1>4, <2>1 DEF SnapshotCall, writerVars, Top!Call
<1>5. ASSUME NEW r \in Readers, ReadBegin(r) PROVE UNCHANGED Top!vars
  <2>1. reading' = reading
    BY <1>5, <1>t DEF ReadBegin, TypeOK
  <2>2. QED
    BY <1>5, <2>1 DEF ReadBegin, writerVars, Top!vars
<1>6. ASSUME NEW r \in Readers, NEW w \in Words, CopyWord(r, w) PROVE UNCHANGED Top!vars
  BY <1>6 DEF CopyWord, writerVars, Top!vars
<1>7. ASSUME NEW r \in Readers, ReadRetry(r) PROVE UNCHANGED Top!vars
  <2>1. reading' = reading
    BY <1>7, <1>t DEF ReadRetry, TypeOK
  <2>2. QED
    BY <1>7, <2>1 DEF ReadRetry, writerVars, Top!vars
<1>8. ASSUME NEW r \in Readers, SnapshotReturn(r) PROVE Top!Return(r)
  <2>1. snapshot[r] = committed
    <3>1. \A w \in Words : snapshot[r][w] = committed[w]
      BY <1>8, <1>t DEF SnapshotReturn, ReaderInv
    <3>2. QED
      BY <3>1, <1>t DEF TypeOK
  <2>2. reading[r] /\ reading' = [reading EXCEPT ![r] = FALSE]
    BY <1>8, <1>t DEF SnapshotReturn, TypeOK
  <2>3. QED
    BY <1>8, <2>1, <2>2 DEF SnapshotReturn, writerVars, Top!Return
<1>9. CASE UNCHANGED vars
  BY <1>9 DEF vars, writerVars, readerVars, Top!vars
<1>10. QED
  BY <1>1, <1>2, <1>3, <1>4, <1>5, <1>6, <1>7, <1>8, <1>9
     DEF Next, RefreshBegin, ResetBegin, StoreStep, ReadStep, Top!Next

\* A snapshot is the committed top of book at the instant it returns, however
\* many words, readers and publications there are.
THEOREM SeqlockImplementsAtomicTob == Spec => ImplementsAtomicTob
<1>1. Init => Top!Init
  BY DEF Init, Top!Init, Top!Words, Words, Top!Blank, Blank
<1>2. QED
  BY <1>1, Invariance, TopStep, PTL
     DEF Spec, ImplementsAtomicTob, Top!Spec
=============================================================================
