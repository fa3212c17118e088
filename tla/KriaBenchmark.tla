--------------------------- MODULE KriaBenchmark ---------------------------
(***************************************************************************)
(* cpp/src/kria_benchmark.cpp, a single thread from main() to its end: the *)
(* calls into cpu_utils_arm64.hpp that may fail, the software benchmark     *)
(* over FeedHandler and OrderBook, LatencyHistogram, and the AXI benchmark  *)
(* over the life of a TobAxiDriver.  A message of the benchmark is a legal  *)
(* add, so it enters FeedHandler decoded; a duration is any of Ticks.  The  *)
(* numbers of the code are parameters, in the comments on them.            *)
(***************************************************************************)
EXTENDS FeedHandler, Sequences

CONSTANTS
    Warmup,        \* 10000
    BasePrice, PriceCycle,   \* 9990, 20
    RefCycle,      \* 200
    BaseQty, QtyCycle,       \* 100, 50
    HistCapacity,  \* 500'000
    AxiReads,      \* 500'000, in each of the two loops
    MessageCounts, \* bound: values of --messages
    Ticks          \* bound: ticks of the counter between two samples

ASSUME BenchAssumption ==
    /\ {RefCycle, PriceCycle, QtyCycle, BaseQty} \subseteq Nat \ {0}
    /\ BasePrice \in Int /\ PriceCycle <= Capacity
    /\ MessageCounts \subseteq Nat /\ Ticks \subseteq Nat
    /\ {Warmup, AxiReads, HistCapacity} \subseteq Nat \ {0}

VARIABLES
    pc,        \* where main() is
    cfg,       \* the Config
    iter,      \* the index i of the loop it is in
    samples, count,   \* samples_ and count_ of the histogram in scope
    measured,  \* history: every duration measured for it
    stats,     \* what its compute() returned, or NoStats
    fd,        \* the driver's fd_: "none", "open", "closed"
    map        \* its map_base_, likewise

histVars == <<samples, count, measured, stats>>
drvVars == <<fd, map>>
benchVars == <<vars, pc, cfg, iter, histVars, drvVars>>

NoStats == [none |-> TRUE]
Permilles == {500, 900, 990, 999}

\* What parse_args() may return, but for what changes no step of the program.
Config == [n_messages : MessageCounts, axi_bench : BOOLEAN]

\* LatencyHistogram(): samples_.fill(0).
NewHistogram ==
    /\ samples' = [k \in 1..HistCapacity |-> 0] /\ count' = 0
    /\ measured' = << >> /\ stats' = NoStats

\* The messages of the benchmark, and a strategy without callbacks.
BenchSetting ==
    /\ Refs = 1..RefCycle
    /\ Prices = BasePrice..(BasePrice + PriceCycle - 1)
    /\ WireQtys = BaseQty..(BaseQty + QtyCycle - 1)
    /\ Callbacks = {}

BenchInit ==
    /\ Init /\ BenchSetting
    /\ pc = "pin" /\ cfg \in Config /\ iter = 0
    /\ samples = [k \in 1..HistCapacity |-> 0] /\ count = 0
    /\ measured = << >> /\ stats = NoStats
    /\ fd = "none" /\ map = "none"

-----------------------------------------------------------------------------
(* LatencyHistogram *)

\* Mutant of record: the capacity is not checked.
recordUnchecked(ticks) ==
    /\ samples' = IF count < HistCapacity THEN [samples EXCEPT ![count + 1] = ticks] ELSE samples
    /\ count' = count + 1
    /\ measured' = Append(measured, ticks)
    /\ UNCHANGED stats

\* record(): a full histogram drops the sample.
record(ticks) ==
    /\ IF count < HistCapacity
       THEN samples' = [samples EXCEPT ![count + 1] = ticks] /\ count' = count + 1
       ELSE UNCHANGED <<samples, count>>
    /\ measured' = Append(measured, ticks)
    /\ UNCHANGED stats

\* The rearrangements of the first n samples, with the rest as it was.
Arrangements(s, n) ==
    {[k \in DOMAIN s |-> s[IF k \in 1..n THEN f[k] ELSE k]] : f \in Bijection(1..n, 1..n)}

Ascending(s, n) == \A j, k \in 1..n : j <= k => s[j] <= s[k]

\* Mutant of Sorted: the whole array is sorted, its unused zeros too.
SortedAll(s, n) == {t \in Arrangements(s, HistCapacity) : Ascending(t, HistCapacity)}

\* What std::sort may make of the first n samples.
Sorted(s, n) == {t \in Arrangements(s, n) : Ascending(t, n)}

\* pct(p / 1000) on sorted samples.
pct(s, n, p) == s[(p * (n - 1)) \div 1000 + 1]

\* The sum of the first n, counted one by one.
Total(s, n) == Cardinality(UNION {{k} \X (1..s[k]) : k \in 1..n})

\* compute(), of at least one sample; the mean as its sum.
compute ==
    \E s \in Sorted(samples, count) :
        /\ count > 0
        /\ samples' = s
        /\ stats' = [min |-> s[1], max |-> s[count], sample_count |-> count,
                     pcts |-> [p \in Permilles |-> pct(s, count, p)],
                     sum |-> Total(s, count)]
        /\ UNCHANGED <<count, measured>>

-----------------------------------------------------------------------------
(* main() *)

Goto(from, to) == pc = from /\ pc' = to /\ UNCHANGED cfg

\* pin_thread_to_core(): its exception is not caught, and the program ends.
pin_thread_to_core ==
    /\ Goto("pin", "lock") \/ Goto("pin", "terminated")
    /\ UNCHANGED <<vars, iter, histVars, drvVars>>

\* lock_memory() and set_realtime_priority(), asked for or not: when one of them
\* fails, a warning is printed and the program goes on.
lock_memory == Goto("lock", "realtime") /\ UNCHANGED <<vars, iter, histVars, drvVars>>
set_realtime_priority == Goto("realtime", "warmup") /\ UNCHANGED <<vars, iter, histVars, drvVars>>

-----------------------------------------------------------------------------
(* bench_software_feed() *)

\* Message k of the batch.
Msg(k) == [ref   |-> (k % RefCycle) + 1,
           side  |-> IF k % 3 # 0 THEN Bid ELSE Ask,
           qty   |-> BaseQty + (k % QtyCycle),
           price |-> BasePrice + (k % PriceCycle)]

ProcessMessage(k) == LET m == Msg(k) IN handle_add(m.ref, m.side, m.qty, m.price)

WarmUp ==
    /\ iter < Warmup
    /\ Goto("warmup", "warmup")
    /\ ProcessMessage(iter)
    /\ iter' = iter + 1
    /\ UNCHANGED <<histVars, drvVars>>

Reset ==
    /\ iter = Warmup
    /\ Goto("warmup", "measure")
    /\ ResetBook
    /\ iter' = 0
    /\ UNCHANGED <<histVars, drvVars>>

Measure ==
    /\ iter < cfg.n_messages
    /\ Goto("measure", "measure")
    /\ ProcessMessage(iter)
    /\ \E ticks \in Ticks : record(ticks)
    /\ iter' = iter + 1
    /\ UNCHANGED drvVars

Compute(from, to) ==
    /\ Goto(from, to)
    /\ compute
    /\ UNCHANGED <<vars, iter, drvVars>>

\* compute() of no sample: without NDEBUG the assertion ends the program, with it
\* the percentiles are read far outside the array, which may do the same.
ComputeNothing ==
    /\ count = 0
    /\ Goto("measure", "axi") \/ Goto("measure", "crashed")
    /\ UNCHANGED <<vars, iter, histVars, drvVars>>

ReportFeed ==
    /\ iter = cfg.n_messages
    /\ Compute("measure", "axi") \/ ComputeNothing

-----------------------------------------------------------------------------
(* bench_axi_read(), the constructor and the destructor of TobAxiDriver *)

NoAxi == ~cfg.axi_bench /\ Goto("axi", "done") /\ UNCHANGED <<vars, iter, histVars, drvVars>>

\* open("/dev/mem"): on failure the exception reaches the handler in main().
Open ==
    /\ cfg.axi_bench
    /\ \/ Goto("axi", "map") /\ fd' = "open"
       \/ Goto("axi", "done") /\ fd' = fd
    /\ UNCHANGED <<vars, iter, histVars, map>>

\* Mutant of Map: the constructor throws without closing the file.
MapLeaks ==
    /\ \/ Goto("map", "single") /\ map' = "open" /\ NewHistogram /\ UNCHANGED fd
       \/ Goto("map", "done") /\ UNCHANGED <<histVars, map, fd>>
    /\ iter' = 0
    /\ UNCHANGED vars

\* mmap(): on failure the constructor closes the file itself, since a destructor
\* does not run for an object that was never constructed.
Map ==
    /\ \/ Goto("map", "single") /\ map' = "open" /\ NewHistogram /\ UNCHANGED fd
       \/ Goto("map", "done") /\ fd' = "closed" /\ UNCHANGED <<histVars, map>>
    /\ iter' = 0
    /\ UNCHANGED vars

\* The loop of register reads, or of read_tob() calls.
Sample(loop) ==
    /\ iter < AxiReads
    /\ map = "open"
    /\ Goto(loop, loop)
    /\ \E ticks \in Ticks : record(ticks)
    /\ iter' = iter + 1
    /\ UNCHANGED <<vars, drvVars>>

ReportLoop(loop, to) == iter = AxiReads /\ Compute(loop, to)

NextHistogram ==
    /\ Goto("reported", "tob")
    /\ NewHistogram
    /\ iter' = 0
    /\ UNCHANGED <<vars, drvVars>>

\* ~TobAxiDriver(), at the end of bench_axi_read().
Destroy ==
    /\ Goto("destroy", "done")
    /\ map' = IF map = "open" THEN "closed" ELSE map
    /\ fd' = IF fd = "open" THEN "closed" ELSE fd
    /\ UNCHANGED <<vars, iter, histVars>>

bench_software_feed == WarmUp \/ Reset \/ Measure \/ ReportFeed

bench_axi_read ==
    \/ Open \/ Map
    \/ Sample("single") \/ ReportLoop("single", "reported") \/ NextHistogram
    \/ Sample("tob") \/ ReportLoop("tob", "destroy") \/ Destroy

BenchNext ==
    \/ pin_thread_to_core \/ lock_memory \/ set_realtime_priority
    \/ bench_software_feed
    \/ NoAxi \/ bench_axi_read

\* The thread keeps running; there is only one.
BenchSpec == BenchInit /\ [][BenchNext]_benchVars /\ WF_benchVars(BenchNext)

-----------------------------------------------------------------------------
(* Properties *)

BenchTypeOK ==
    /\ TypeOK
    /\ cfg \in Config
    /\ iter \in Nat
    /\ count \in 0..HistCapacity
    /\ samples \in [1..HistCapacity -> Ticks \cup {0}]
    /\ measured \in Seq(Ticks)
    /\ {fd, map} \subseteq {"none", "open", "closed"}

\* v is the sample of rank k, counted from 0, among the first n of s.
HasRank(s, n, v, k) ==
    /\ Cardinality({j \in 1..n : s[j] < v}) <= k
    /\ k < Cardinality({j \in 1..n : s[j] <= v})

\* The number of durations that fit the histogram.
Kept == IF Len(measured) < HistCapacity THEN Len(measured) ELSE HistCapacity

\* What is printed is about the durations that were measured: the percentiles are
\* their samples of that rank, and neither slots never recorded to nor the sorting
\* in place get into them.  Of more durations than the histogram holds, those are
\* the first ones.
ReportIsOfTheSamples ==
    stats # NoStats =>
        /\ stats.sample_count = Kept
        /\ HasRank(measured, Kept, stats.min, 0) /\ HasRank(measured, Kept, stats.max, Kept - 1)
        /\ \A p \in Permilles :
              HasRank(measured, Kept, stats.pcts[p], (p * (Kept - 1)) \div 1000)
        /\ stats.sum = Total(measured, Kept)

\* The orders of the first n messages, had every message a reference of its own.
Batch(n) == [k \in 0..(n - 1) |->
    [price |-> Msg(k).price, quantity |-> Msg(k).qty, side |-> Msg(k).side]]

\* The book that is measured is that of the measured messages: the warm-up leaves
\* nothing behind in it, although it leaves orders_ full of references that the
\* measured messages use again.
BookCountsMeasured ==
    pc = "measure" =>
        \A s \in Sides, p \in Prices :
            /\ LevelAt(s, p).quantity = RestingQty(Batch(iter), s, p)
            /\ LevelAt(s, p).orders = Cardinality(RestingAt(Batch(iter), s, p))

\* Every path through main() comes to an end, and one that returns from it has
\* given back what the driver acquired; it can only end otherwise when the thread
\* cannot be pinned, or when there was nothing to measure.
CleanEnd ==
    \/ pc = "done" /\ fd # "open" /\ map # "open"
    \/ pc = "terminated"
    \/ pc = "crashed" /\ cfg.n_messages = 0
EndsClean == <>[]CleanEnd

\* The part of it that is about single states: no end is another one, and the
\* registers are read while they are mapped only.
Ended == pc \in {"done", "terminated", "crashed"}
NoOtherEnd ==
    /\ Ended => CleanEnd
    /\ pc \in {"single", "tob"} => fd = "open" /\ map = "open"

\* The inductive strengthening: what the driver holds at each place of main(), and
\* that nothing measured means no message.
Held ==
    /\ pc \in {"pin", "lock", "realtime", "warmup", "measure", "axi"}
           => fd = "none" /\ map = "none"
    /\ pc = "map" => fd = "open" /\ map = "none"
    /\ pc \in {"single", "reported", "tob", "destroy"} => fd = "open" /\ map = "open"
NoneMeasured ==
    /\ pc \in {"pin", "lock", "realtime", "warmup"} => count = 0
    /\ pc = "measure" /\ count = 0 => iter = 0
=============================================================================
