---------------------------- MODULE TobAxiCalls ----------------------------
(***************************************************************************)
(* The other calls of hft::TobAxiDriver on those registers: write_reg()    *)
(* and clear_parse_error(), a store and the dsb that waits for it;         *)
(* parse_error(); msg_count(), two reads.  In between is the bus master of *)
(* the processor: it presents the address and the data of a store in any   *)
(* order and at any time, keeps them up until they are taken, and accepts  *)
(* the answer at any time.                                                 *)
(***************************************************************************)
EXTENDS TobStatus

VARIABLES
    awq, wq,         \* addresses and data of stores the master still holds
    awvalid, wvalid, \* the first of each is presented
    outstanding,     \* stores not yet answered
    access,          \* "idle", or the next access of a call
    call,            \* the call
    lo,              \* local of msg_count()
    result,          \* what msg_count() or parse_error() returned on this edge
    since,           \* history: the count when msg_count() was called
    owed,            \* history: an error came after the last clear_parse_error()
    old              \* history: the latch still holds what that call must clear

busVars == <<awq, wq, awvalid, wvalid, outstanding>>
localVars == <<access, call, lo, result, since>>
ghosts == <<owed, old>>
callsVars == <<statusVars, busVars, localVars, ghosts>>

Data == [bit2 : BOOLEAN]
Clear == [bit2 |-> TRUE]
Calls == {"none", "write_reg", "clear_parse_error", "parse_error", "msg_count"}

CallsTypeOK ==
    /\ StatusTypeOK
    /\ awq \in Seq(Registers) /\ wq \in Seq(Data)
    /\ awvalid => awq # << >>
    /\ wvalid => wq # << >>
    /\ Len(awq) <= outstanding /\ Len(wq) <= outstanding /\ outstanding <= 1
    /\ access \in {"idle", "dsb", "status", "lo", "hi"}
    /\ call \in Calls /\ (call = "none" <=> access = "idle")
    /\ lo \in 0..(Half - 1) /\ result \in 0..(MaxCount + Half) /\ since \in 0..MaxCount
    /\ {awvalid, wvalid, owed, old} \subseteq BOOLEAN

CallsInit ==
    /\ StatusInit
    /\ awq = << >> /\ wq = << >> /\ awvalid = FALSE /\ wvalid = FALSE /\ outstanding = 0
    /\ access = "idle" /\ call = "none" /\ lo = 0 /\ result = 0 /\ since = 0
    /\ owed = FALSE /\ old = FALSE

-----------------------------------------------------------------------------
(* The bus master *)

\* A channel with queue q: what was taken on this edge leaves it, and the next
\* may be presented.
Channel(q, valid, ready) == IF valid /\ ready THEN Tail(q) ELSE q

Present(q1, valid, valid1, ready) ==
    /\ valid1 \in BOOLEAN
    /\ valid1 => q1 # << >>
    /\ valid /\ ~ready => valid1

\* What the bus does on an edge, with the addresses and the data of the stores that
\* the processor adds.
Bus(bready, addrs, data) ==
    /\ WriteChannel(awvalid, IF awvalid THEN Head(awq) ELSE wr_addr, wvalid, bready)
    /\ ErrorLatch(wvalid, IF wvalid THEN Head(wq) ELSE Clear)
    /\ awq' = Channel(awq, awvalid, awready) \o addrs
    /\ wq' = Channel(wq, wvalid, wready) \o data
    /\ \E v \in BOOLEAN : Present(awq', awvalid, v, awready) /\ awvalid' = v
    /\ \E v \in BOOLEAN : Present(wq', wvalid, v, wready) /\ wvalid' = v
    /\ outstanding' = outstanding + Len(addrs) - (IF bvalid /\ bready THEN 1 ELSE 0)

-----------------------------------------------------------------------------
(* The driver's part of an edge *)

\* The processor does something else on this edge, or waits.
Wait(bready) ==
    /\ Bus(bready, << >>, << >>) /\ NotAnswered
    /\ result' = 0
    /\ UNCHANGED <<access, call, lo, since>>

\* write_reg(): the store.  The dsb comes next.
Store(bready, name, reg, data) ==
    /\ access = "idle"
    /\ Bus(bready, <<reg>>, <<data>>)
    /\ NotAnswered
    /\ access' = "dsb" /\ call' = name
    /\ result' = 0
    /\ UNCHANGED <<lo, since>>

\* Mutant of Dsb: write_reg() returns while the store is under way.
DsbMissing(bready) ==
    /\ access = "dsb"
    /\ Bus(bready, << >>, << >>) /\ NotAnswered
    /\ access' = "idle" /\ call' = "none"
    /\ result' = 0
    /\ UNCHANGED <<lo, since>>

\* The dsb is over when the store has been answered.
Dsb(bready) ==
    /\ access = "dsb"
    /\ outstanding = 0
    /\ Bus(bready, << >>, << >>) /\ NotAnswered
    /\ access' = "idle" /\ call' = "none"
    /\ result' = 0
    /\ UNCHANGED <<lo, since>>

\* A call that starts with a read.
StartRead(bready, name, first) ==
    /\ access = "idle"
    /\ Bus(bready, << >>, << >>) /\ NotAnswered
    /\ access' = first /\ call' = name
    /\ since' = IF name = "msg_count" THEN count_axi ELSE 0
    /\ result' = 0
    /\ UNCHANGED lo

\* parse_error()
ReadStatus(bready) ==
    /\ access = "status"
    /\ Bus(bready, << >>, << >>) /\ Answered
    /\ result' = IF ReadData(STATUS) THEN 1 ELSE 0
    /\ access' = "idle" /\ call' = "none"
    /\ UNCHANGED <<lo, since>>

\* msg_count(): the low half, then the high half.
ReadLo(bready) ==
    /\ access = "lo"
    /\ Bus(bready, << >>, << >>) /\ Answered
    /\ lo' = ReadData("MSG_CNT_LO")
    /\ access' = "hi"
    /\ result' = 0
    /\ UNCHANGED <<call, since>>

\* Mutant of ReadHi: the high half is lost, as when 32 bits are shifted by 32.
ReadHiNarrow(bready) ==
    /\ access = "hi"
    /\ Bus(bready, << >>, << >>) /\ Answered
    /\ result' = lo
    /\ access' = "idle" /\ call' = "none"
    /\ lo' = 0 /\ since' = 0

ReadHi(bready) ==
    /\ access = "hi"
    /\ Bus(bready, << >>, << >>) /\ Answered
    /\ result' = ReadData("MSG_CNT_HI") * Half + lo
    /\ access' = "idle" /\ call' = "none"
    /\ lo' = 0 /\ since' = 0

Driver(bready) ==
    \/ Wait(bready)
    \/ Store(bready, "clear_parse_error", STATUS, Clear)
    \/ \E reg \in Registers, data \in Data :
          <<reg, data>> # <<STATUS, Clear>> /\ Store(bready, "write_reg", reg, data)
    \/ Dsb(bready)
    \/ StartRead(bready, "parse_error", "status")
    \/ ReadStatus(bready)
    \/ StartRead(bready, "msg_count", "lo")
    \/ ReadLo(bready)
    \/ ReadHi(bready)

Histories ==
    /\ owed' = (call' # "clear_parse_error" /\ (owed \/ parsed' = "bad"))
    /\ old' = (err_latch' /\ (old \/ (call' = "clear_parse_error" /\ call # call')))

CallsNext ==
    /\ Parser
    /\ MessageCounter
    /\ ErrorSynchroniser
    /\ \E bready \in BOOLEAN : Driver(bready)
    /\ Histories

CallsSpec == CallsInit /\ [][CallsNext]_callsVars

\* The clock ticks; the master presents what it holds and accepts what it is
\* offered; an access that can be made is made.
CallsFairSpec ==
    /\ CallsSpec
    /\ WF_callsVars(CallsNext)
    /\ WF_callsVars(CallsNext /\ ~awvalid /\ awvalid')
    /\ WF_callsVars(CallsNext /\ ~wvalid /\ wvalid')
    /\ WF_callsVars(CallsNext /\ bvalid /\ ~bvalid')
    /\ WF_callsVars(CallsNext /\ rvalid /\ ~rvalid')
    /\ WF_callsVars(CallsNext /\ access # "idle" /\ access' # access)

-----------------------------------------------------------------------------
(* Properties *)

\* No parse error goes unreported: parse_error() returns true when an error came
\* after the last clear_parse_error() had returned, unless it is still on its
\* way through the synchroniser, whatever other writes were made.
ErrorsReported ==
    [][/\ call = "parse_error" /\ call' = "none"
       /\ owed /\ parsed # "bad" /\ ~err_s1 /\ ~err_axi
       => result' = 1]_callsVars

\* clear_parse_error() is done when it returns: no error from before the call is
\* reported after it.
ClearTakesEffect == old => call = "clear_parse_error"

\* The two halves of msg_count() may belong to different counts.  What it returns
\* is never behind the count at the call, and ahead of the count at the return only
\* when the low half wrapped in between, and then by less than one wrap.
CountIsNear ==
    [][call = "msg_count" /\ call' = "none" =>
         /\ since <= result'
         /\ \/ result' <= count_axi
            \/ since \div Half < count_axi \div Half /\ result' < count_axi + Half]_callsVars

\* Every call returns, in whatever order the interconnect brings address and data.
CallsReturn == (access # "idle") ~> (access = "idle")
=============================================================================
