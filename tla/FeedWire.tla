------------------------------ MODULE FeedWire ------------------------------
(***************************************************************************)
(* The bytes in front of FeedHandler's handlers: the packed structs of     *)
(* feed_handler.hpp, the builders of namespace msg, the big-endian reads at *)
(* fixed offsets and the length tests of process(), the timestamp it keeps *)
(* and the trade callback.  Offsets and widths are those of the code; only *)
(* the number of values of a byte is a parameter (256 in the code).        *)
(***************************************************************************)
EXTENDS FeedHandler

CONSTANTS
    Base,       \* values of a byte
    Char,       \* the byte of each character of the protocol
    Timestamps, \* ns since midnight
    Leftover    \* what a buffer holds outside the message built in it

Word == Base * Base        \* values of two, four and eight bytes
Half == Word * Word
Full == Half * Half

ASSUME WireAssumption ==
    /\ Base \in Nat \ {0, 1} /\ Leftover \in 0..(Base - 1)
    /\ DOMAIN Char = {"A", "U", "D", "E", "P", "B", "S"}
    /\ \A c \in DOMAIN Char : Char[c] \in 0..(Base - 1)
    /\ \A c, d \in DOMAIN Char : Char[c] = Char[d] => c = d
    /\ Timestamps \subseteq 0..(Full - 1)

VARIABLES
    last_ts_ns,  \* last_ts_ns_
    callback_ts, \* the timestamp tob_cb_ or trade_cb_ got in process(), or 0
    sent_ts,     \* history: the one in the message that made it call back, or 0
    as_sent      \* history: the last message was read as it was sent

wireVars == <<vars, last_ts_ns, callback_ts, sent_ts, as_sent>>

\* sizeof the packed struct of a type.
SizeOf == [A |-> 30, U |-> 21, D |-> 17, E |-> 21, P |-> 22]

Nothing == [type |-> "none"]

\* What is sent fits the fields: uint64_t, uint32_t, int64_t.
FieldsFit ==
    /\ Refs \subseteq 0..(Full - 1)
    /\ WireQtys \subseteq 0..(Half - 1)
    /\ \A p \in Prices : -Full <= 2 * p /\ 2 * p < Full

-----------------------------------------------------------------------------
(* Building a message *)

\* Byte k, from the most significant, of v in two, four and eight bytes.
write_be16(v, k) == IF k = 0 THEN v \div Base ELSE v % Base
write_be32(v, k) == IF k < 2 THEN write_be16(v \div Word, k) ELSE write_be16(v % Word, k - 2)
write_be64(v, k) == IF k < 4 THEN write_be32(v \div Half, k) ELSE write_be32(v % Half, k - 4)

\* static_cast<uint64_t>
Unsigned(v) == v % Full

SideChar(s) == IF s = Bid THEN Char["B"] ELSE Char["S"]

\* The builders write into a buffer at least as long as every message.
Offsets == 0..31

build_add(g) == [at \in Offsets |->
    CASE at = 0        -> Char["A"]
      [] at \in 1..8   -> write_be64(g.ts, at - 1)
      [] at \in 9..16  -> write_be64(g.ref, at - 9)
      [] at = 17       -> SideChar(g.side)
      [] at \in 18..21 -> write_be32(g.qty, at - 18)
      [] at \in 22..29 -> write_be64(Unsigned(g.price), at - 22)
      [] OTHER         -> Leftover]

build_delete(g) == [at \in Offsets |->
    CASE at = 0        -> Char["D"]
      [] at \in 1..8   -> write_be64(g.ts, at - 1)
      [] at \in 9..16  -> write_be64(g.ref, at - 9)
      [] OTHER         -> Leftover]

\* The message of an execution, and of the venue's updates, which msg has no
\* builder for.
WithQty(type, g) == [at \in Offsets |->
    CASE at = 0        -> Char[type]
      [] at \in 1..8   -> write_be64(g.ts, at - 1)
      [] at \in 9..16  -> write_be64(g.ref, at - 9)
      [] at \in 17..20 -> write_be32(g.qty, at - 17)
      [] OTHER         -> Leftover]

build_execute(g) == WithQty("E", g)
MsgOrderUpdate(g) == WithQty("U", g)

\* The venue's trades, likewise.
MsgTrade(g) == [at \in Offsets |->
    CASE at = 0        -> Char["P"]
      [] at \in 1..8   -> write_be64(g.ts, at - 1)
      [] at = 9        -> SideChar(g.side)
      [] at \in 10..13 -> write_be32(g.qty, at - 10)
      [] at \in 14..21 -> write_be64(Unsigned(g.price), at - 14)
      [] OTHER         -> Leftover]

\* A buffer that begins with the byte c of no known type.
UnknownTypes == (0..(Base - 1)) \ {Char[t] : t \in DOMAIN SizeOf}
Unknown(c) == [at \in Offsets |-> IF at = 0 THEN c ELSE Leftover]

\* What is sent, with its bytes.
Adds == [type : {"A"}, ts : Timestamps, ref : Refs, side : Sides, qty : WireQtys, price : Prices]
Sized(t) == [type : {t}, ts : Timestamps, ref : Refs, qty : WireQtys]
Orders(t) == [type : {t}, ts : Timestamps, ref : Refs]
Trades == [type : {"P"}, ts : Timestamps, side : Sides, qty : WireQtys, price : Prices]

Messages ==
    {<<g, build_add(g)>> : g \in Adds}
    \cup {<<g, MsgOrderUpdate(g)>> : g \in Sized("U")}
    \cup {<<g, build_delete(g)>> : g \in Orders("D")}
    \cup {<<g, build_execute(g)>> : g \in Sized("E")}
    \cup {<<g, MsgTrade(g)>> : g \in Trades}

-----------------------------------------------------------------------------
(* Reading it *)

\* Mutant of be16: the bytes are not swapped.
be16Unswapped(m, at) == m[at] + m[at + 1] * Base

\* The number at m + at in two, four and eight bytes.
be16(m, at) == m[at] * Base + m[at + 1]
be32(m, at) == be16(m, at) * Word + be16(m, at + 2)
be64(m, at) == be32(m, at) * Half + be32(m, at + 4)

\* be64s(): the upper half of the unsigned values is negative.
Signed(v) == IF 2 * v >= Full THEN v - Full ELSE v

SideAt(m, at) == IF m[at] = Char["B"] THEN Bid ELSE Ask

\* What the handlers read from the buffer m.
AddFields(m) ==
    [type |-> "A", ts |-> be64(m, 1), ref |-> be64(m, 9), side |-> SideAt(m, 17),
     qty |-> be32(m, 18), price |-> Signed(be64(m, 22))]

UpdateFields(m) ==
    [type |-> "U", ts |-> be64(m, 1), ref |-> be64(m, 9), qty |-> be32(m, 17)]

DeleteFields(m) == [type |-> "D", ts |-> be64(m, 1), ref |-> be64(m, 9)]

ExecuteFields(m) ==
    [type |-> "E", ts |-> be64(m, 1), ref |-> be64(m, 9), qty |-> be32(m, 17)]

TradeFields(m) ==
    [type |-> "P", ts |-> be64(m, 1), side |-> SideAt(m, 9),
     qty |-> be32(m, 10), price |-> Signed(be64(m, 14))]

\* The switch of process() and the length test of each handler, on the len
\* bytes m; Nothing when none of the handlers goes on.
Read(m, len) ==
    LET is(t) == len >= 1 /\ m[0] = Char[t] /\ len >= SizeOf[t]
    IN  CASE is("A") -> AddFields(m)
          [] is("U") -> UpdateFields(m)
          [] is("D") -> DeleteFields(m)
          [] is("E") -> ExecuteFields(m)
          [] is("P") -> TradeFields(m)
          [] OTHER   -> Nothing

\* The first len bytes of a buffer.
First(buffer, len) == [at \in 0..(len - 1) |-> buffer[at]]

\* What process() gets of a message of which len bytes arrive, with what was
\* sent.  A handler that looked past these bytes would look outside the function.
OfMessage(x, len) ==
    [sent |-> IF len >= SizeOf[x[1].type] THEN x[1] ELSE Nothing,
     got |-> Read(First(x[2], len), len)]

OfUnknown(c) == [sent |-> Nothing, got |-> Read(Unknown(c), 31)]

\* Messages in full, cut short, or with bytes after them, and buffers of no known
\* type.
Received ==
    {OfMessage(x, len) : x \in Messages, len \in 0..31}
    \cup {OfUnknown(c) : c \in UnknownTypes}

-----------------------------------------------------------------------------
(* process() *)

\* process() calls back when a handler returned true, handle_trade() by itself.
Callback(g) ==
    callback_ts' =
        IF delivered' # NoTop \/ (g.type = "P" /\ "trade" \in Callbacks) THEN last_ts_ns' ELSE 0

\* Mutant of Stamp: handle_execute forgets the timestamp.
StampNotExecute(g) ==
    last_ts_ns' = IF g.type \in {"none", "E"} THEN last_ts_ns ELSE g.ts

\* Every handler keeps the timestamp, also for a reference it does not know.
Stamp(g) == last_ts_ns' = IF g = Nothing THEN last_ts_ns ELSE g.ts

\* The handler of g with the fields of g.
Handle(g) ==
    /\ \/ g.type = "A" /\ handle_add(g.ref, g.side, g.qty, g.price)
       \/ g.type = "U" /\ handle_update(g.ref, g.qty)
       \/ g.type = "D" /\ handle_delete(g.ref)
       \/ g.type = "E" /\ handle_execute(g.ref, g.qty)
       \/ g.type \in {"U", "D", "E"} /\ UnknownRef(g.ref)
       \/ g.type \in {"P", "none"} /\ NoBookMessage
    /\ Stamp(g)
    /\ Callback(g)

process ==
    \E x \in Received :
        /\ Handle(x.got)
        /\ sent_ts' = IF x.sent = Nothing \/ callback_ts' = 0 THEN 0 ELSE x.sent.ts
        /\ as_sent' = (x.got = x.sent)

WireReset == ResetBook /\ UNCHANGED <<last_ts_ns, callback_ts, sent_ts, as_sent>>

WireInit == Init /\ FieldsFit /\ last_ts_ns = 0 /\ callback_ts = 0 /\ sent_ts = 0 /\ as_sent = TRUE

WireNext == process \/ WireReset

WireSpec == WireInit /\ [][WireNext]_wireVars

-----------------------------------------------------------------------------
(* Properties *)

\* What a handler works with is what the sender put into the message, for every
\* type and value: no field is read from another one's bytes, from leftovers in
\* the buffer or with the wrong sign; a message cut short is not handled at all,
\* and bytes after a message change nothing.
ReadsWhatWasSent == as_sent

\* The member that outlives process() is never handed out stale: a callback gets
\* the timestamp of the message that caused it.
TimestampIsOwn == callback_ts = sent_ts
=============================================================================
