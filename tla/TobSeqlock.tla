----------------------------- MODULE TobSeqlock -----------------------------
(***************************************************************************)
(* The top of book behind its seqlock (cpp/include/order_book.hpp): the    *)
(* feed thread publishes with write_begin(), stores and write_end(); any   *)
(* other thread copies it in top_of_book_snapshot().                       *)
(*                                                                         *)
(* tob_ is copied with plain loads and stores while it may change, which   *)
(* C++ calls a data race: the compiler may emit the word accesses in any   *)
(* order, so words are stored and copied in every order here.  Each aligned *)
(* word is copied whole.  The two fences of write_begin() and read_retry() *)
(* and the release of write_end() are DMB/STLR on AArch64: they keep the   *)
(* word accesses between the accesses to seq_.                             *)
(*                                                                         *)
(* A word is represented by the level it belongs to, so a snapshot is torn *)
(* when two words of a side show different levels.                         *)
(***************************************************************************)
EXTENDS Integers

CONSTANTS
    Sides,      \* bid and ask
    Fields,     \* the machine words of a PriceLevel
    Levels,     \* values a side can take
    NullLevel,  \* PriceLevel{}
    Readers,    \* threads that take snapshots
    MaxWrites   \* bound: publications in a behaviour

ASSUME LevelsAssumption == NullLevel \in Levels
ASSUME MaxWritesAssumption == MaxWrites \in Nat

Words == Sides \X Fields
Blank == [w \in Words |-> NullLevel]

VARIABLES
    seq,                 \* Seqlock::seq_
    tob,                 \* the words of tob_
    wtodo, wval,         \* writer: words still to store, their values
    rpc, rseq,           \* reader: control point, register s
    rtodo, snapshot,     \* reader: words still to copy, words copied
    result,              \* reader: what its last call returned
    committed            \* history: tob_ at the last write_end()

writerVars == <<tob, wtodo, wval, committed>>
readerVars == <<rpc, rseq, rtodo, snapshot, result>>
vars == <<seq, writerVars, readerVars>>

Writing == seq % 2 = 1

TypeOK ==
    /\ seq \in 0..(2 * MaxWrites)
    /\ tob \in [Words -> Levels]
    /\ wtodo \subseteq Words
    /\ wval \in [Words -> Levels]
    /\ rpc \in [Readers -> {"idle", "begin", "copy"}]
    /\ rseq \in [Readers -> Nat]
    /\ rtodo \in [Readers -> SUBSET Words]
    /\ snapshot \in [Readers -> [Words -> Levels]]
    /\ result \in [Readers -> [Words -> Levels]]
    /\ committed \in [Words -> Levels]

Init ==
    /\ seq = 0
    /\ tob = Blank
    /\ wtodo = {} /\ wval = Blank
    /\ rpc = [r \in Readers |-> "idle"]
    /\ rseq = [r \in Readers |-> 0]
    /\ rtodo = [r \in Readers |-> {}]
    /\ snapshot = [r \in Readers |-> Blank]
    /\ result = [r \in Readers |-> Blank]
    /\ committed = Blank

-----------------------------------------------------------------------------
(* The writer: the last lines of refresh_top() and of reset() *)

\* write_begin(), before the words w \in W get their new values.
WriteBegin(W, value) ==
    /\ ~Writing
    /\ seq + 2 <= 2 * MaxWrites
    /\ seq' = seq + 1
    /\ wtodo' = W
    /\ wval' = [w \in Words |-> IF w \in W THEN value ELSE tob[w]]
    /\ UNCHANGED <<tob, committed, readerVars>>

RefreshBegin(s, best) == WriteBegin({s} \X Fields, best)

ResetBegin == WriteBegin(Words, NullLevel)

StoreWord(w) ==
    /\ Writing
    /\ w \in wtodo
    /\ tob' = [tob EXCEPT ![w] = wval[w]]
    /\ wtodo' = wtodo \ {w}
    /\ UNCHANGED <<seq, wval, committed, readerVars>>

\* Mutant of WriteEnd: the number advances by two.
WriteEndTwice ==
    /\ Writing
    /\ wtodo = {}
    /\ seq' = seq + 2
    /\ committed' = tob
    /\ UNCHANGED <<tob, wtodo, wval, readerVars>>

WriteEnd ==
    /\ Writing
    /\ wtodo = {}
    /\ seq' = seq + 1
    /\ committed' = tob
    /\ UNCHANGED <<tob, wtodo, wval, readerVars>>

-----------------------------------------------------------------------------
(* A reader: top_of_book_snapshot() *)

SnapshotCall(r) ==
    /\ rpc[r] = "idle"
    /\ rpc' = [rpc EXCEPT ![r] = "begin"]
    /\ UNCHANGED <<seq, writerVars, rseq, rtodo, snapshot, result>>

\* Mutant of ReadBegin: the odd number is not waited out.
ReadBeginOdd(r) ==
    /\ rpc[r] = "begin"
    /\ rseq' = [rseq EXCEPT ![r] = seq]
    /\ rtodo' = [rtodo EXCEPT ![r] = Words]
    /\ rpc' = [rpc EXCEPT ![r] = "copy"]
    /\ UNCHANGED <<seq, writerVars, snapshot, result>>

\* read_begin() leaves its loop on an even number.
ReadBegin(r) ==
    /\ rpc[r] = "begin"
    /\ ~Writing
    /\ rseq' = [rseq EXCEPT ![r] = seq]
    /\ rtodo' = [rtodo EXCEPT ![r] = Words]
    /\ rpc' = [rpc EXCEPT ![r] = "copy"]
    /\ UNCHANGED <<seq, writerVars, snapshot, result>>

CopyWord(r, w) ==
    /\ rpc[r] = "copy"
    /\ w \in rtodo[r]
    /\ snapshot' = [snapshot EXCEPT ![r][w] = tob[w]]
    /\ rtodo' = [rtodo EXCEPT ![r] = @ \ {w}]
    /\ UNCHANGED <<seq, writerVars, rpc, rseq, result>>

\* Mutant of ReadRetry: the copy is repeated under the old number.
ReadRetryStale(r) ==
    /\ rpc[r] = "copy" /\ rtodo[r] = {}
    /\ seq # rseq[r]
    /\ rtodo' = [rtodo EXCEPT ![r] = Words]
    /\ UNCHANGED <<seq, writerVars, rpc, rseq, snapshot, result>>

\* read_retry() returns true: seq_ moved, go round again.
ReadRetry(r) ==
    /\ rpc[r] = "copy" /\ rtodo[r] = {}
    /\ seq # rseq[r]
    /\ rpc' = [rpc EXCEPT ![r] = "begin"]
    /\ UNCHANGED <<seq, writerVars, rseq, rtodo, snapshot, result>>

SnapshotReturn(r) ==
    /\ rpc[r] = "copy" /\ rtodo[r] = {}
    /\ seq = rseq[r]
    /\ result' = [result EXCEPT ![r] = snapshot[r]]
    /\ rpc' = [rpc EXCEPT ![r] = "idle"]
    /\ UNCHANGED <<seq, writerVars, rseq, rtodo, snapshot>>

-----------------------------------------------------------------------------
StoreStep == (\E w \in Words : StoreWord(w)) \/ WriteEnd

ReadStep(r) ==
    \/ ReadBegin(r)
    \/ \E w \in Words : CopyWord(r, w)
    \/ ReadRetry(r)
    \/ SnapshotReturn(r)

Next ==
    \/ \E s \in Sides, best \in Levels : RefreshBegin(s, best)
    \/ ResetBegin
    \/ StoreStep
    \/ \E r \in Readers : SnapshotCall(r) \/ ReadStep(r)

Spec == Init /\ [][Next]_vars

\* The feed thread does not stop between write_begin() and write_end(), and a
\* reader inside its call keeps running.  Nothing makes a thread call.
FairSpec ==
    /\ Spec
    /\ WF_vars(StoreStep)
    /\ \A r \in Readers : WF_vars(ReadStep(r))

-----------------------------------------------------------------------------
(* Properties *)

Top == INSTANCE AtomicTob WITH
           top     <- committed,
           reading <- [r \in Readers |-> rpc[r] # "idle"]

\* A snapshot is the top of book of one instant of the call: never a mix of
\* two publications, of one side or of both, never a half-written level, and
\* never older than the call.
ImplementsAtomicTob == Top!Spec

\* "Wait-free in the absence of writers": once the publications are over (after
\* MaxWrites of them here) every snapshot call returns.
SnapshotReturns ==
    \A r \in Readers : (rpc[r] # "idle") ~> (rpc[r] = "idle")

\* The inductive strengthening.  Outside a write section tob_ is what was last
\* committed; inside, a word is either still to be stored or has its new value,
\* and the new values replace one side or clear both; a reader whose number is
\* still current has copied nothing but committed words.
WriterInv ==
    /\ ~Writing => wtodo = {} /\ tob = committed
    /\ \A w \in Words : tob[w] # wval[w] /\ Writing => w \in wtodo
    /\ Writing => \/ wval = Blank
                  \/ \E s \in Sides, best \in Levels :
                        wval = [w \in Words |-> IF w[1] = s THEN best ELSE committed[w]]

ReaderInv ==
    \A r \in Readers :
        /\ rseq[r] <= seq
        /\ rseq[r] % 2 = 0
        /\ rpc[r] = "copy" /\ rseq[r] = seq
             => \A w \in Words \ rtodo[r] : snapshot[r][w] = committed[w]

IInv == TypeOK /\ WriterInv /\ ReaderInv
=============================================================================
