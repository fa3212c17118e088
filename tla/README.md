# Verification of the KR260 order book

The repository is a market-data demo for the Kria KR260: a C++ library that
decodes an exchange feed and keeps an order book on the ARM cores, a Verilog
pipeline that does the same in the FPGA fabric, and a driver and a demo that
read the FPGA's registers. This directory holds TLA+ models of it, TLC
configurations that check them on small instances, and TLAPS proofs of what
matters most for every instance. `PROJECT.json` maps every definition to the
source lines it models.

    tlc -workers 2 -config ring.cfg RingObserver     # one run
    tlapm RingBufferProofs.tla                        # one set of proofs

## 1. Inventory

### Software (`src/cpp`)

| component | state | operations | interacts with |
|---|---|---|---|
| `RingBuffer` (`ring_buffer.hpp`) | `head_`, `tail_`, `buf_` | `push`, `pop`, `size_approx`, `empty` | one producer thread, one consumer thread, observers |
| `Seqlock` and `top_of_book_snapshot` (`order_book.hpp`) | `seq_`, `tob_` | `write_begin`, `write_end`, `read_begin`, `read_retry` | the feed thread writes, any thread reads |
| `OrderBook` (`order_book.hpp`) | `bids_`, `asks_`, `tob_` | `update_level`, `remove_level`, `reset`, `refresh_top` | called by `FeedHandler`, read through the seqlock |
| `FeedHandler` (`feed_handler.hpp`) | `orders_`, `last_ts_ns_`, statistics | `process` and its five handlers | changes the book, calls the strategy back |
| `TobAxiDriver` (`tob_axi_driver.hpp`) | the mapping and its file | `read_tob`, `msg_count`, `parse_error`, `write_reg`, `clear_parse_error` | the FPGA's register file |
| `kria_benchmark.cpp`, helper headers | latency samples | `bench_software_feed`, `bench_axi_read`, `LatencyHistogram` | call the library, one thread |

Hard behaviours: two threads on the ring with nothing but two indices between
them; a 48-byte struct copied while it is written; a cached best level that
every path must refresh; a direct-mapped level array in which prices can
collide; orders whose life is longer or shorter than that of their level;
registers read one 32-bit word at a time; stores that are only done when the
bus has answered them; a constructor that fails half way.

What makes the software correct: the ring is a FIFO and its slots are never accessed by
two threads at once; a snapshot is the state of one instant; the published top
is the best level; the book never shows quantity that no order backs; the
strategy hears of every change, and with the timestamp of its own message; what
was sent is what is read; an error reported is one that was not cleared before.

### FPGA (`src/fpga/rtl`)

| component | state | what it does each clock |
|---|---|---|
| `msg_framer` | position in the message, expected length | marks the last byte of each message |
| `market_data_parser` | a 30-byte shift register, three pipeline stages | decodes fixed positions when a message ends |
| `order_book_engine` | eight levels per side, pipeline registers | matches, updates, recomputes the best prices |
| `kr260_top` | synchronisers, captured prices, message count | moves the results to the register file |
| `tob_axi_lite` | two sticky bits, read and write handshakes | serves register reads and writes |

Hard behaviours: each stage uses what another stage computed a cycle earlier,
for other inputs; the parser's register keeps the bytes of earlier messages; the
framer has nothing to resynchronise on; a set and a clear of a sticky bit meet
in one cycle; the software reads while the fabric changes.

What makes it correct: every message is framed where it ends and decoded from its
own bytes; no message takes the slot of a level in use, and an order is dropped
only when there is no room; the best prices are the best of the levels and reach
the registers; what the software reads belongs together.

### The rest

`demo.py` (DMA register access, terminal display, message generator), the
testbenches, the Vivado scripts and the build scripts hold no protocol state of
their own and are not modelled. The testbenches are read for what they expect.

## 2. Modules

| module | models | role |
|---|---|---|
| `RingBuffer` | `RingBuffer` | one action per access of a shared variable |
| `RingObserver` | `size_approx`, `empty` | extends `RingBuffer` with what the two threads see of the indices |
| `BoundedFifo` | | abstract: a FIFO queue whose calls take effect at one instant |
| `TobSeqlock` | `Seqlock`, its writers, `top_of_book_snapshot` | one action per access of `seq_` or of a word of `tob_` |
| `AtomicTob` | | abstract: a register replaced and copied at one instant |
| `PriceLevels` | `PriceLevel` and the computations on it | shared by the next three |
| `AtomicBook` | | abstract: a book whose calls change a level and publish the top of its side in one step |
| `OrderBook` | `OrderBook`'s write path | one action per call and per iteration of `refresh_top` |
| `FeedHandler` | `FeedHandler::process` with the book behind it | one action per message |
| `FeedWire` | message structs and builders, the reads at fixed offsets, timestamp, both callbacks | extends `FeedHandler` with the bytes; one action per buffer |
| `ExchangeFeed` | | extends `FeedHandler` with the messages an exchange may send, and resets of the book |
| `KriaBenchmark` | `kria_benchmark.cpp`, `LatencyHistogram`, constructor and destructor of `TobAxiDriver` | extends `FeedHandler`; one action per loop iteration or call that can fail |
| `MarketDataParser` | `msg_framer`, `market_data_parser` | one action per clock edge, a byte stands for its place in its message |
| `OrderBookEngine` | `order_book_engine`: scan, stage registers, update, comparison trees | one action per clock edge |
| `AxiReadChannel` | the read channel of `tob_axi_lite` | shared by the next three |
| `TobRegisters` | the engine's reporting half, `kr260_top`'s synchronisers and capture, `TOB_CHANGED` | the clock edge as action parts, without a next-state relation |
| `TobAxiDriver` | `TobAxiDriver::read_tob` | extends `TobRegisters` with the processor, one read per edge |
| `TobStatus` | write channel, parse-error bit, count registers, and their paths from the parser | the clock edge as action parts |
| `TobAxiCalls` | `write_reg`, `clear_parse_error`, `parse_error`, `msg_count` | extends `TobStatus` with the processor and its bus master |
| `MCOrderBook`, `MCFeedWire`, `MCExchangeFeed`, `MCKriaBenchmark`, `MCMarketDataParser` | | constants of the runs |
| `*Proofs` | | the theorems: `FeedHandlerProofs` also those of `ExchangeFeed`, `FeedWire` and `KriaBenchmark`, `TobAxiDriverProofs` also those of `TobAxiCalls` |

The layers rest on each other. `TobSeqlock` shows that a publication is one step
for every reader, so `OrderBook` publishes in one step; `OrderBook` shows that
the scan finds the best level, so `refresh_top` in `FeedHandler` takes the best
level at once. `AtomicBook` is what stands between the two: `OrderBook` implements
it and `FeedHandler` uses its book through it only, and both facts are proved.
`PriceLevels` gives all three the same `Updated` and `Removed`.

How the state corresponds to the code:

- `RingBuffer`: `head`, `tail`, `buf` are the members; `ph`, `ct` are the locals
  `h` and `t`; `ppc`, `cpc` are the points between two accesses. The first,
  relaxed load of a thread's own index is part of the call action: nobody else
  writes that index. AArch64 keeps a store-release and a load-acquire in order
  and stores reach all cores at once, so interleaving in program order is exact
  for the ring.
- `TobSeqlock`: `seq` and the words of `tob_`; `committed` is a history variable,
  what `tob_` was at the last `write_end`. Stores and copies of words happen in
  any order between the accesses to `seq_`, since the language gives them none.
  A word is represented by the level it belongs to, so a mixed snapshot is visible.
- `OrderBook`: `levels` is `bids_` and `asks_`, `tob` what readers see; `pc`,
  `side`, `i`, `best` are the control point and locals of `refresh_top`.
  `published` is a history variable, the levels at the last publication: it is the
  book that `AtomicBook` is refined by, and differs from `levels` during a call only.
- `RingObserver`: `ptail` and `chead` are the index of the other thread that
  `size_approx` or `empty` loaded. Both loads are relaxed, so the one of the
  other index may be done as early as after the thread's last acquire load, which
  is why a producer may look between its full check and its store of `head_`.
- `FeedHandler`: `levels`, `tob` and `orders` (a function on the references that
  rest); `returned` and `delivered` are what `process` returned and handed to
  the callback, if one is registered (`Callbacks`). `Spec` takes any messages.
  `LevelAt` is what the book shows at a price, `RestingQty` what the orders
  resting there hold, and `Window` says that no two prices share a slot.
- `FeedWire`: a buffer is a function from offsets to bytes, built field by field
  as the builders and packed structs do and read back with the offsets of the
  handlers; only the number of values of a byte is a parameter. `sent_ts` and
  `as_sent` compare what was read with what was sent. A buffer cut short is a
  function on fewer offsets: a handler that read past it would be an error. That
  what is sent fits its fields (`FieldsFit`) is part of `WireInit`.
- `ExchangeFeed`: an order reference is not reused while it rests, executions do
  not exceed the order, prices stay in a window, and the owner may reset the book
  as `kria_benchmark.cpp` does. `wiped` is a history variable.
- `KriaBenchmark`: `pc` is the place in `main`, `iter` the index of the loop it is
  in; `samples` and `count` are the histogram in scope, `fd` and `map` what the
  driver holds. Every call that can fail may fail. `BenchSetting`, part of
  `BenchInit`, ties the references, prices and quantities to the generator's
  cycles. `std::sort` is any ascending rearrangement. `measured` is a history
  variable.
- `RestingQty` and `Total` count units one by one where a sum over a sequence or a
  function would do, so that what the sum is can be proved and not only computed.
- `TobStatus`, `TobAxiCalls`: the registers by their names; `awq`, `wq` are the
  stores the bus master still holds, presented on either channel at any time;
  `access` is the next access of the `call` in progress and `lo` its local;
  `since`, `owed` and `old` are history. An
  edge is the conjunction of what each register block does on it.
- The hardware modules keep the names of the registers. A primed variable is the
  register after the edge and is computed from the registers before it, which is
  what a non-blocking assignment means; combinational signals are operators.
  `create_kr260_project.tcl` drives every clock pin from `pl_clk0`, so there is
  one clock, and a synchroniser is two registers in a row.
- `MarketDataParser`: a byte is the type of its message, its place in it and the
  character it happens to be, so that a payload byte may look like any type.
  Stage 2 of the parser is a pure delay and left out. `since` is history: the clocks
  from one message that comes out to the next.
- `OrderBookEngine`: `gap` is history, whether the last clock had a message; `match_r` and `empty_r` are `bid_match_r`, `ask_empty_r` and
  the like, per side; a slot whose valid bit is off is `Free`. The price bus takes
  any price on every clock, as the parser drives it with whatever its register holds.
- `TobRegisters`: a top is the pair of best prices of one instant; what a message
  does to it, and when it comes, is left open. `crowded` is history. The price registers have no reset, hence `Undefined`.
  `TobAxiDriver`: `pc`, `w`, `retries`, `tob` are the control point and locals of
  `read_tob`; any number of edges may pass between two of its reads.

## 3. Runs

| run | instance | what it shows |
|---|---|---|
| `ring` | 4 slots, 2 payloads | FIFO refinement, no slot shared, both calls return, what a thread saw of the size is a bound it can act on |
| `seqlock` | 2 sides of 2 words, 3 values, 3 publications, 1 reader | snapshots are whole and current; a reader returns when the writer is quiet |
| `book` | 4 slots, prices -1, 0, 3, quantity up to 2 | no leftovers in slots, the published top is the best level, readers see the tops of a book with atomic calls |
| `feed_any` | 2 slots, 3 prices of which two collide and one is negative, 2 references, 2 timestamps, 8 values of a byte, buffers of 0 to 31 bytes | fields are read as they were sent, callbacks get the timestamp of their message, no change is missed |
| `feed_legal` | 2 prices, 4 references, quantities up to 2 | what the book still promises in spite of whole-level removals and resets |
| `bench` | 7 warm-up and up to 6 measured messages, a histogram of 4, 4 prices and references | the device is given back, the report is about the samples, the warm-up leaves nothing in the book |
| `parser` | frame of 5 bytes, types of 5, 3 and 2 bytes, unknown type | every message of a length in the framer's table framed where it ends, every byte of a full frame found in its place, messages as far apart as they are long |
| `parser_short` | the same | a counterexample to "after all bytes arrive, byte 0 is at [239:232]" |
| `engine` | 8 levels, 2 prices, quantities up to 1, one side, messages on any clocks | no level in use taken by an ADD and no order dropped while there is room, but by a message on the clock after another; no underflow |
| `engine_best` | the same | a counterexample to "better bid not detected" |
| `tob_read` | 3 tops, 3 words per round, messages on any clocks | what a round of reads is worth, how far the registers lag, `read_tob` returns |
| `regs` | up to 4 messages counted, halves of one binary digit, one store under way | errors are not lost, except those that arrive while a clear is in progress, nor reported after they were cleared; the count is near, every call returns |

Bounds. Four slots let the ring be empty, partly full, full and wrapped with
both threads anywhere in their calls; two payloads suffice because the code
copies payloads and never looks at them. Three publications let a reader be
overtaken twice, and see the number odd twice. In `book`, -1 and 3 share the last slot and 0 has the
first, so the scan meets a level at both of its ends and empty slots between them, and every
quantity from one unit to the bound meets every delta. In `feed_legal` four
orders can rest at two prices of either side, so a level can be removed under
three others; `MaxLevel` is never reached there. The bounds `MaxWrites`,
`MaxQty`, `MaxOrders`, `MaxLevel`, `Counts` and `MaxCount` sit in the guards of
the actions that would exceed them.

In `feed_any` a byte has the seven characters of the protocol and one value that
is none, so that a payload byte may look like a type; references, timestamps and
prices use the first and the last bytes of their eight, so an offset that is off
by one reads something else. In `bench` the cycles of the generator are shorter
than the warm-up, so its references come again while they are measured, and the
histogram is smaller than the batch. In `regs` a half of the count wraps twice.

In `parser` the frame is shortened; an ADD fills it as in the code and the other
lengths are in the order of the real ones. In `engine` the number of levels is
the real eight; two prices suffice because a message compares one price with
those of the levels, and one side because the sides share no state. A message may come on
any clock. A message of known type leaves the parser as many clocks after another one
as it has bytes (`MessagesApart`), at least 17; but a byte of unknown type is a message
of one clock (`msg_framer.v:90`), the parser takes its type from a byte of an earlier
message, and `kr260_top` hands it to the engine even when the parser reports an error.
On the clock right after another message the engine may then overwrite the level
that was just added, or drop an order, since its slot numbers are a clock old: that
is why `NoLevelOverwritten` and `DroppedOnlyWhenFull` speak of messages that do not
come on the next clock (`gap >= 2`), whatever came before. Likewise the
comparison of `TobRegisters` misses the first of two changes on consecutive clocks:
`crowded` remembers that this happened, until a message finds a change again, and
`LagsOneMessage` promises nothing meanwhile. A feed of known types never comes to
either.

In `parser` sender and framer share the framer's table of lengths, and what is
decoded is where each byte of a field comes from.
`tob_read` has a first, an inner and a last word where the code has four price reads
(the proof is for any number); the two quantity registers
are never assigned by the engine and hold no top. Three tops let the registers
show one, the pipeline carry another and the book hold a third.

Symmetry is used only where no liveness is checked: order references are
compared for equality and nothing else.

Fairness. In `ring` a thread that is inside `push` or `pop` keeps running;
nothing makes a thread call, so each call must return even if the other thread
never runs again. In `seqlock` the feed thread does not stop between
`write_begin` and `write_end` and a reader inside its call keeps running. Both
are weak fairness of one thread's steps: what the scheduler gives a runnable
thread. In `tob_read` the interconnect accepts an answer in the end and a load
that was issued is answered in the end, which AXI promises of its master and
which the slave's single `always` block does on the next edge; messages need
never come. `regs` assumes the same of the write channels: the clock ticks, the
master presents what it holds and accepts what it is offered, and the processor
makes the access it has come to; how long each takes is open. In `bench` the
single thread keeps running. `TobSeqlock` needs the first one: a reader spins for as long as the
number is odd, so a feed thread that stopped there would hold every reader.

## 4. Disagreements between code and comments

- `engine_best`: `b0>b1?b0:b1 > b2?b2:b3` groups as
  `b0>b1 ? b0 : ((b1>b2) ? b2 : b3)`. Slots are filled from the last one down, so
  already a better second bid (slot 6) loses to the first (slot 7), the situation
  of test 2 in `tb_top.sv`. The trace has its ADDs on consecutive clocks because it is
  the shortest; they take different slots, and with pauses between them the levels
  are the same.
- `parser_short`: only a 30-byte message has its type byte where the parser reads
  the type; deletes, updates, executions and trades are decoded with a byte of an
  earlier message as their type. `FullFramesExact` is what holds.

Other comments say more than the code does, in ways a property states exactly:

- `order_book.hpp:65` calls `PriceLevel::orders` the "count of resting orders at
  this level". An order that reaches zero by `'U'` or `'E'` takes its whole price
  level along (`feed_handler.hpp:196`, `:238`), other orders included.
  `NeverOverstates`, `TopIsBacked` and `ExactUnlessWiped` are what is left: the
  book then shows too little, never too much, its best price is always one an
  order rests at, and only levels that lost quantity this way, or to `reset`, are
  off.
- `ring_buffer.hpp:95` says the size "may be stale by one element". For the two
  threads that own an index it is a bound, however stale (`OwnSizeIsBound`), and
  enough to act on (`LookThenCall`); for a third thread it may be any number,
  since the other index can go round between the two loads.
- `feed_handler.hpp:106`: `process` returns true and runs the callback for every
  message that was applied, also when the top of book stayed as it was;
  `NoMissedChange` is the direction the strategy depends on.
- `tob_axi_driver.hpp:136` promises a consistent snapshot and retries once: if
  `TOB_CHANGED` is set again after the second round, `read_tob` returns what it
  has. `CleanRoundIsWhole` is the exact promise: a round that ends with the flag
  clear is of one capture, although a clearing read wins over a set on the same
  edge.
- `order_book_engine.v:253`: a message compares the best price from before itself
  with the one from before the previous message, and no comparison is made
  without a message, so the registers follow one message late (`LagsOneMessage`),
  where `tb_kr260_top.v:297` waits for the price of the last one. After two changes on
  consecutive clocks they may stay behind longer.
- `kria_benchmark.cpp:76` speaks of 200 price levels; the prices cycle through 20.
  A histogram of 500,000 keeps the first samples and drops the rest
  (`ReportIsOfTheSamples`). With `--messages 0` there is nothing to compute, and
  a release build reads outside the array where a debug build asserts; a core
  that cannot be pinned ends the program, since that call is outside any `try`
  (`EndsClean` names both).

- `order_book_engine.v:158` registers the slot numbers a clock before a message
  uses them, and with the slot of the price that was then on the bus. The parser
  drives the bus anew on every clock (`market_data_parser.v:161`), so a message is
  matched by what its register held a byte earlier: it may meet the level of that
  price, or open a second level of its own. `OrderBookEngine` has it so (`Analyse`
  takes any price), and its properties promise only what is left: that a number
  from a clock ago still names a level in use or a free slot.

Read, and not modelled: `market_data_parser.v` swaps the bytes of fields that
its big-endian shift register already holds in order, and takes a trade for 23
bytes where `MsgTrade` has 22.

## 5. Proofs

| theorem | for every | argument |
|---|---|---|
| `RingBufferProofs!TypeCorrect`, `NoSlotRaceHolds` | capacity, payloads | `IInv`: registers equal the index their thread owns, a thread past its check owns its slot, the item in transit is the one in the slot |
| `RingBufferProofs!RingImplementsFifo` | | `IInv`, and lemmas on the index arithmetic: publishing appends to the queue between the indices, consuming takes its head, all else keeps it |
| `RingBufferProofs!OwnSizeBounds`, `LookingWorks` | | `ViewsErrSafely`: a view of the other index only ever errs on its owner's safe side, and a thread past its check has not seen a ring that would have failed it |
| `TobSeqlockProofs!TypeCorrect`, `SeqlockImplementsAtomicTob` | words, values, readers, publications | `IInv`: outside a write section `tob_` is what was committed; a reader whose number is current has copied committed words only. `write_end` is the publication, the last check of the reader is its copy |
| `OrderBookProofs!BookImplementsAtomicBook` | | `PublishedInv`: during a call the levels differ from those last published by what that call makes of one slot of the side it scans. The publication is the step of `AtomicBook`; what it publishes is best by `ScanInv` |
| `OrderBookProofs!TypeCorrect`, `SlotsDisciplined`, `TopIsBest` | capacity, prices, deltas | types and the slot discipline are inductive together and rule out ties; the best level needs the loop invariant `ScanInv` of `refresh_top` |
| `FeedHandlerProofs!TypeCorrect`, `SlotsStayDisciplined`, `BookStaysInOrder`, `StrategyMissesNoChange` | capacity, references, messages | each handler changes one slot by `Updated` or `Removed` and refreshes that side |
| `FeedHandlerProofs!HandlersUseAtomicBook` | | every handler makes one call of `AtomicBook`, with a change that is some integer, or none |
| `FeedHandlerProofs!FeedIsAnyFeed`, `BookNeverOverstates`, `LevelsExactUnlessWiped`, `TopIsBackedByAnOrder` | capacity, number of references, window of prices, legal feed | `FeedInv`, the accounts of the book, below |
| `FeedHandlerProofs!WireIsAnyFeed`, `ReadAsSent`, `CallbackTimestamps` | values of a byte, values that fit the fields, lengths | no induction: a builder puts each byte of a field where the handler looks for it (`LayoutOfAdd` and the other three), `be16`, `be32`, `be64` undo the divisions (`Read16` to `Read64`), `Signed` undoes `Unsigned`, and the switch finds the one handler (`Switch`); a shorter buffer passes no length test |
| `FeedHandlerProofs!BenchIsAnyFeed`, `BenchTypeCorrect`, `ReportIsTrue`, `MeasuredBookIsTheirs` | all constants of the benchmark, durations, failures | `HistInv`: until it is sorted, the histogram is a prefix of what was measured; sorting is a bijection on it, which keeps ranks (`RankOfSorted`) and the sum (`TotalOfSorted`). The measured book is counted one message at a time (`MessageCounted`) from an empty one |
| `FeedHandlerProofs!NoOtherEnds` | | `Held`: what the driver holds at each place of `main`; `NoneMeasured`: the measuring loop has not moved while there is no sample |
| `MarketDataParserProofs!TypeCorrect`, `FramerKeepsItsPlace`, `FullFramesAreExact` | types, lengths, payloads, pauses | `IInv`: the framer counts with the DMA, the register ends with the bytes sent of the message in progress; one lemma per pipeline part |
| `MarketDataParserProofs!MessagesStayApart` | | `ClocksForBytes`: the clocks since a message came out are at least the bytes collected of the next one |
| `OrderBookEngineProofs!TypeCorrect`, `LevelsKeepTheirPrice`, `OnlyAFullSideDrops` | prices, quantities, widths, clocks of messages | `SlotsFresh`: two clocks after a message the slot numbers are those of the levels as they are, whatever came before; types hold with any slot numbers |
| `TobAxiDriverProofs!TypeCorrect`, `CleanRounds`, `RegistersLagOneMessage` | tops, words, clocks of messages, timing of reads | `RoundInv`: while the flag is clear, the words read are those on show, since a capture sets it on the same edge; `PulseInv`: unless changes crowd, what the registers will show when the pulses under way have arrived is the book's top or the one it is compared with next |
| `TobAxiDriverProofs!CallsTypeCorrect`, `ClearDone`, `NoErrorLost`, `CountStaysNear` | width of a half, number of messages, order and timing of address, data, answers and reads | `CallsInv`, below |

The invariants that need more than a line:

- `FeedInv` (`ExchangeFeed`). `ExactUnlessWiped` is not inductive on its own: a
  price stops counting as wiped when the last order there goes, and the level must
  be empty by then, which it is because it never overstates. The two hold together
  (`Accounts`), on top of the slot discipline and of `Window`, without which a level
  could be that of another price. The steps rest on what one order more, one order
  less and a changed quantity do to `RestingQty` and to the number of orders
  (`EntryCounted`, `ErasureCounted`, `ChangeCounted`). `TopIsBackedByAnOrder`
  follows: a published level has a positive quantity, which an order must cover.
- `CallsInv` (`TobAxiCalls`). `ClearTakesEffect` needs to know where a store can
  be. `StoreInv` lists the phases: no store at all, or one whose address is
  waiting, being taken or taken, then its data likewise, and then the answer; the
  slave's `aw_active` and ready pulses belong to them. `OldInv` then says
  that a latch from before the call can only be up while the store's data still
  wait, so it is gone at the answer that the `dsb` waits for. For
  `ErrorsReported`, `OwedInv` follows an error from the parser through the two
  synchroniser registers to the latch; no store but the one of `clear_parse_error`
  takes it from there. For `CountIsNear`, `CountInv` keeps what the
  low half tells of the count between the two reads, and `Spliced` is the
  arithmetic of putting two halves together.

Refinements proved: the ring implements a FIFO, the seqlock an atomic register, the
book a book with atomic calls, and the feed handler moves its book by such calls
only; the legal feed, the feed in bytes and the benchmark are each behaviours of
`FeedHandler`, so the slot discipline, the best top and `NoMissedChange` hold of
them too.

Assumptions: the capacity is a power of two (the `static_assert`); no payload is
`NoItem`; `NULL_PRICE` is below every price and is not one; quantities on the
wire are natural numbers. The theorems about any feed hold for all integers as
prices and do not need the window. `Window` is part of `FeedInit`, `FieldsFit` of
`WireInit` and `BenchSetting` of `BenchInit`: they say which feed, values and
generator the specification is about, and the benchmark's prices are proved to
lie in a window (`PricesFitTheBook`). A byte has at least two values and the
characters of the protocol differ. Nothing is assumed about the spacing of the engine's messages (§3).
Every known type has more than one byte, and the longest message fits the frame. A half
of the message count has any positive number of values; `MaxCount` bounds the
count, and is arbitrary.

Model-checked only: liveness (`CallsReturn` of the ring and of the driver,
`SnapshotReturns`, `ReadReturns`, `EndsClean`), for which the prover has no
fairness rules (of `EndsClean`, that no end is another one is proved as `NoOtherEnd`,
that an end is reached is not), and the two counterexamples.

## 6. Not modelled

The statistics of `FeedHandler`, which nothing in the library reads back; the
accessors of `OrderBook`, which read one field each; the wrap of 64-bit sequence
numbers and of 64-bit quantities; `NULL_PRICE` as a price on the wire; printing
and the conversion of ticks to nanoseconds; negative values of `--messages`;
`prefault`, huge pages and barriers of `cpu_utils_arm64.hpp`, which have no
caller. In the hardware: resets in operation, metastability, `tob_valid`,
`spread`, `crossed_book`, timestamps and LEDs; byte values of the parser's
fields; loss of place in the byte stream, of which the framer has no notion.
`demo.py`, the testbenches and the scripts.

## 7. Plan

1. (done) Ring, seqlock, order book, feed handler, with proofs.
2. (done) Framer and parser, engine, register path and driver, with proofs.
3. (done) Write channel, parse-error bit, message count; wire format; observers of
   the ring, with proofs; the benchmark.
4. (done) Proofs about `ExchangeFeed`, `FeedWire`, `KriaBenchmark`, `TobAxiCalls`.
5. (done) The safety half of `EndsClean`; `OrderBook` as an implementation of a book
   with atomic calls, and `FeedHandler` as its user; the spacing of messages that
   the framer guarantees; with proofs.
6. (done) Messages on any clock in the engine and the registers, as bytes of unknown
   type bring them; with proofs.
7. What is left of a message that is matched by an earlier price; the reaction of the
   framer to a truncated message.
