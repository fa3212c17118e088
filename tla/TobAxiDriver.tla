---------------------------- MODULE TobAxiDriver ----------------------------
(***************************************************************************)
(* hft::TobAxiDriver::read_tob() (cpp/include/tob_axi_driver.hpp) over the *)
(* registers: a loop of single 32-bit reads, each answered on a clock edge *)
(* of its own, with any number of edges in between.  The words of the      *)
(* prices are numbered in the order in which they are read, and a word is  *)
(* represented by the top it belongs to.                                   *)
(***************************************************************************)
EXTENDS TobRegisters

CONSTANT NWords   \* 32-bit reads in one round of the loop

ASSUME NWordsAssumption == NWords \in Nat \ {0}

VARIABLES
    pc,        \* "idle", or the next access of read_tob()
    w,         \* the next word
    retries,   \* the local of that name
    tob        \* the words read in this round

drvVars == <<pc, w, retries, tob>>
vars == <<regVars, drvVars>>

Nothing == [k \in 1..NWords |-> Undefined]

TypeOK ==
    /\ RegTypeOK
    /\ pc \in {"idle", "clear", "words", "check"}
    /\ w \in 1..NWords
    /\ retries \in {0, 1}
    /\ tob \in [1..NWords -> Tops \cup {Undefined}]

Init ==
    /\ RegInit
    /\ pc = "idle" /\ w = 1 /\ retries = 0
    /\ tob = Nothing

-----------------------------------------------------------------------------
(* What the driver does on an edge *)

NoRead == NoAnswer /\ UNCHANGED drvVars

Call ==
    /\ pc = "idle"
    /\ NoAnswer
    /\ pc' = "clear"
    /\ retries' = 0
    /\ UNCHANGED <<w, tob>>

\* (void)tob_changed_and_clear()
ClearStale ==
    /\ pc = "clear"
    /\ Answer(TRUE)
    /\ pc' = "words" /\ w' = 1
    /\ tob' = Nothing
    /\ UNCHANGED retries

ReadWord ==
    /\ pc = "words"
    /\ Answer(FALSE)
    /\ tob' = [tob EXCEPT ![w] = captured]
    /\ IF w < NWords THEN w' = w + 1 /\ UNCHANGED pc
                     ELSE pc' = "check" /\ UNCHANGED w
    /\ UNCHANGED retries

\* Mutants of Retry: no limit; a limit that is not tested.
RetryUnlimited ==
    /\ pc = "check" /\ latch
    /\ Answer(TRUE)
    /\ pc' = "clear"
    /\ UNCHANGED <<w, retries, tob>>

RetryUncounted ==
    /\ pc = "check" /\ latch
    /\ Answer(TRUE)
    /\ retries' = retries + 1
    /\ pc' = "clear"
    /\ UNCHANGED <<w, tob>>

\* if (tob_changed_and_clear() && retries++ < 1) continue
Retry ==
    /\ pc = "check" /\ latch /\ retries < 1
    /\ Answer(TRUE)
    /\ retries' = retries + 1
    /\ pc' = "clear"
    /\ UNCHANGED <<w, tob>>

Return ==
    /\ pc = "check" /\ (~latch \/ retries >= 1)
    /\ Answer(TRUE)
    /\ pc' = "idle"
    /\ UNCHANGED <<w, retries, tob>>

ReadStep == ClearStale \/ ReadWord \/ Retry \/ Return

Next == Fabric /\ (NoRead \/ Call \/ ReadStep)

Spec == Init /\ [][Next]_vars

\* The bus accepts an answer in the end, and a load the driver has issued is
\* answered in the end.  Nothing makes it call, and messages need not come.
FairSpec ==
    /\ Spec
    /\ WF_vars(Next /\ rvalid /\ ~rvalid')
    /\ WF_vars(Fabric /\ ReadStep)

-----------------------------------------------------------------------------
(* Properties *)

\* A round that finds TOB_CHANGED clear has read all its words from one capture,
\* the one the registers show at that instant: a capture in the middle of the
\* round cannot go unnoticed, although clearing wins over setting.
CleanRoundIsWhole ==
    pc = "check" /\ ~latch => \A k \in 1..NWords : tob[k] = captured

\* read_tob() returns, however often the book changes meanwhile.
ReadReturns == (pc # "idle") ~> (pc = "idle")

\* The inductive strengthening.  While the flag is clear the words read so far
\* are those the registers show: a capture sets the flag on the same edge.
ReadSoFar ==
    CASE pc = "words" -> 1..(w - 1)
      [] pc = "check" -> 1..NWords
      [] OTHER        -> {}

RoundInv == ~latch => \A k \in ReadSoFar : tob[k] = captured

IInv == TypeOK /\ PulseInv /\ RoundInv
=============================================================================
