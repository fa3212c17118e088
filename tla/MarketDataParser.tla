-------------------------- MODULE MarketDataParser --------------------------
(***************************************************************************)
(* fpga/rtl/msg_framer.v and fpga/rtl/market_data_parser.v: the framer     *)
(* marks the last byte of each message in the DMA's byte stream, and the   *)
(* parser decodes fixed positions of a shift register when that byte has   *)
(* come.  One action is one clock edge.                                    *)
(*                                                                         *)
(* A byte is represented by the message it belongs to: its type, its place *)
(* in the message, and the character it happens to be.  Field values and   *)
(* byte order are left out.  Stage 2 of the parser, which names the fields *)
(* of the frame, is a pure delay and left out as well.  Register contents  *)
(* that no valid bit covers are represented by NoByte.                     *)
(***************************************************************************)
EXTENDS Naturals

CONSTANTS
    Types,      \* the type characters
    Other,      \* every other character, and the type of a message it starts
    Len,        \* the length of a message of each type
    FrameLen    \* MAX_FRAME

ASSUME LenAssumption ==
    /\ Other \notin Types
    /\ FrameLen \in Nat
    /\ Len \in [Types \cup {Other} -> 1..FrameLen]
    /\ \A t \in Types : Len[t] > 1
    /\ Len[Other] = 1

Chars == Types \cup {Other}
Frames == 1..FrameLen

Byte == [type : Chars, pos : Frames, char : Chars]
NoByte == [type |-> Other, pos |-> 0, char |-> Other]
Bytes == Byte \cup {NoByte}
Blank == [k \in Frames |-> NoByte]

VARIABLES
    sent, sending,                         \* the DMA: bytes sent of the message
                                           \* in progress, and its type
    in_message, cnt, expected_len,         \* framer: position in the message
    m_tdata, m_tvalid, m_tlast,            \* framer: output
    frame_sr, byte_cnt,                    \* parser: stage 1
    p1_valid, p1_byte_cnt, p1_frame,       \* parser: its pipeline register
    out_valid, out_msg_type, out_error,    \* parser: output
    out_frame,                             \* and the bytes its fields come from
    since                                  \* history: clocks since the last
                                           \* message came out, up to FrameLen

dmaVars == <<sent, sending>>
framerVars == <<in_message, cnt, expected_len, m_tdata, m_tvalid, m_tlast>>
parserVars == <<frame_sr, byte_cnt, p1_valid, p1_byte_cnt, p1_frame,
                out_valid, out_msg_type, out_error, out_frame>>
vars == <<dmaVars, framerVars, parserVars, since>>

TypeOK ==
    /\ sent \in 0..(FrameLen - 1) /\ sending \in Chars
    /\ in_message \in BOOLEAN /\ cnt \in 0..(FrameLen - 1) /\ expected_len \in Frames
    /\ m_tdata \in Bytes /\ m_tvalid \in BOOLEAN /\ m_tlast \in BOOLEAN
    /\ frame_sr \in [Frames -> Bytes] /\ byte_cnt \in 0..(FrameLen - 1)
    /\ p1_valid \in BOOLEAN /\ p1_byte_cnt \in Frames /\ p1_frame \in [Frames -> Bytes]
    /\ out_valid \in BOOLEAN /\ out_msg_type \in Chars /\ out_error \in BOOLEAN
    /\ out_frame \in [Frames -> Bytes]
    /\ since \in Frames

Init ==
    /\ sent = 0 /\ sending = Other
    /\ in_message = FALSE /\ cnt = 0 /\ expected_len = 1
    /\ m_tdata = NoByte /\ m_tvalid = FALSE /\ m_tlast = FALSE
    /\ frame_sr = Blank /\ byte_cnt = 0
    /\ p1_valid = FALSE /\ p1_byte_cnt = 1 /\ p1_frame = Blank
    /\ out_valid = FALSE /\ out_msg_type = Other /\ out_error = FALSE
    /\ out_frame = Blank
    /\ since = FrameLen

-----------------------------------------------------------------------------
(* The framer, on the byte b *)

\* The type byte.  A character that is no type is a message of its own.
FrameFirst(b) ==
    /\ ~in_message
    /\ expected_len' = Len[b.char]
    /\ IF b.char = Other
       THEN in_message' = FALSE /\ cnt' = 0 /\ m_tlast' = TRUE
       ELSE in_message' = TRUE /\ cnt' = 1 /\ m_tlast' = FALSE

\* Mutant of FrameNext: the message ends a byte late.
FrameNextLate(b) ==
    /\ in_message
    /\ IF cnt = expected_len
       THEN in_message' = FALSE /\ cnt' = 0 /\ m_tlast' = TRUE
       ELSE in_message' = TRUE /\ cnt' = cnt + 1 /\ m_tlast' = FALSE
    /\ UNCHANGED expected_len

\* Mutant of FrameNext: the message ends a byte early.
FrameNextEarly(b) ==
    /\ in_message
    /\ IF cnt = expected_len - 2
       THEN in_message' = FALSE /\ cnt' = 0 /\ m_tlast' = TRUE
       ELSE in_message' = TRUE /\ cnt' = cnt + 1 /\ m_tlast' = FALSE
    /\ UNCHANGED expected_len

FrameNext(b) ==
    /\ in_message
    /\ IF cnt = expected_len - 1
       THEN in_message' = FALSE /\ cnt' = 0 /\ m_tlast' = TRUE
       ELSE in_message' = TRUE /\ cnt' = cnt + 1 /\ m_tlast' = FALSE
    /\ UNCHANGED expected_len

Frame(b) ==
    /\ FrameFirst(b) \/ FrameNext(b)
    /\ m_tvalid' = TRUE /\ m_tdata' = b

NoFrame ==
    /\ m_tvalid' = FALSE /\ m_tlast' = FALSE /\ m_tdata' = NoByte
    /\ UNCHANGED <<in_message, cnt, expected_len>>

-----------------------------------------------------------------------------
(* The parser, on the framer's output of the clock before *)

\* The new byte enters at the end, the oldest leaves at the front.
Shifted == [k \in Frames |-> IF k < FrameLen THEN frame_sr[k + 1] ELSE m_tdata]

Collect ==
    /\ IF m_tvalid
       THEN /\ frame_sr' = Shifted
            /\ byte_cnt' = IF m_tlast THEN 0 ELSE byte_cnt + 1
       ELSE UNCHANGED <<frame_sr, byte_cnt>>
    /\ p1_valid' = (m_tvalid /\ m_tlast)
    /\ p1_byte_cnt' = byte_cnt + 1
    /\ p1_frame' = IF m_tvalid /\ m_tlast THEN Shifted ELSE Blank

\* Mutant of Decode: the length of the message is not checked.
DecodeAnyLength ==
    /\ out_valid' = p1_valid
    /\ out_frame' = p1_frame
    /\ IF p1_valid
       THEN /\ out_msg_type' = p1_frame[1].char
            /\ out_error' = (p1_frame[1].char = Other)
       ELSE out_error' = FALSE /\ UNCHANGED out_msg_type

\* The type is the character in the first place of the frame.
Decode ==
    /\ out_valid' = p1_valid
    /\ out_frame' = p1_frame
    /\ IF p1_valid
       THEN /\ out_msg_type' = p1_frame[1].char
            /\ out_error' = \/ p1_frame[1].char = Other
                            \/ p1_byte_cnt < Len[p1_frame[1].char]
       ELSE out_error' = FALSE /\ UNCHANGED out_msg_type

-----------------------------------------------------------------------------
(* One clock edge: the DMA presents a byte or none *)

SendFirst(t) ==
    /\ sent = 0
    /\ Frame([type |-> t, pos |-> 1, char |-> t])
    /\ sent' = IF Len[t] = 1 THEN 0 ELSE 1
    /\ sending' = t

SendNext(c) ==
    /\ sent > 0
    /\ Frame([type |-> sending, pos |-> sent + 1, char |-> c])
    /\ sent' = IF sent + 1 = Len[sending] THEN 0 ELSE sent + 1
    /\ UNCHANGED sending

SendNothing == NoFrame /\ UNCHANGED dmaVars

\* The clocks are counted from one message to the next, that one's included.
CountClock ==
    since' = IF out_valid THEN 1 ELSE IF since < FrameLen THEN since + 1 ELSE since

Next ==
    /\ \/ \E t \in Chars : SendFirst(t)
       \/ \E c \in Chars : SendNext(c)
       \/ SendNothing
    /\ Collect
    /\ Decode
    /\ CountClock

Spec == Init /\ [][Next]_vars

-----------------------------------------------------------------------------
(* Properties *)

\* The framer never loses its place in a stream of whole messages, whatever the
\* bytes in them look like and wherever the stream pauses: it marks the last
\* byte of every message, and no other.
TlastAtMessageEnd ==
    m_tvalid => (m_tlast <=> m_tdata.pos = Len[m_tdata.type])

\* The bytes of one message that fills the frame.
IsMessage(f, t) == \A k \in Frames : f[k].type = t /\ f[k].pos = k

\* A message that comes out with the type of a full frame (ADD) and without an
\* error is a message of that type, with every field in its place, and every
\* such message comes out so: the leftovers of earlier messages that shorter
\* ones are decoded with never pass for an ADD.
FullFramesExact ==
    out_valid =>
        \A t \in Types :
            Len[t] = FrameLen =>
                (out_msg_type = t /\ ~out_error <=> IsMessage(out_frame, t))

\* "After all bytes arrive, byte 0 is at [239:232]": a message that has a type
\* comes out with that type, wherever its length leaves it in the register.
EveryTypeDecoded ==
    out_valid /\ out_frame[FrameLen].type # Other
        => out_msg_type = out_frame[FrameLen].type /\ ~out_error

\* Messages leave the parser as far apart as they are long, however the framing
\* and the two pipeline stages overlap: the order book engine, which needs two
\* clocks for a message, is never given one of a known type sooner.
MessagesApart == out_valid => since >= Len[out_frame[FrameLen].type]

\* The inductive strengthening.  The last n bytes of the register are the first
\* n of a message of type t.
Run(f, n, t) == \A k \in 1..n : f[FrameLen - n + k].type = t /\ f[FrameLen - n + k].pos = k

\* A type byte looks like the type it is.
FirstsLookRight(f) == \A k \in Frames : f[k].pos = 1 => f[k].char = f[k].type

\* The framer is as far in the message as the DMA.
FramerInSync ==
    /\ in_message <=> sent > 0
    /\ in_message => /\ cnt = sent /\ sent < Len[sending]
                     /\ sending \in Types /\ expected_len = Len[sending]

\* The byte between the two is the one that the register lacks.
WireInSync ==
    IF m_tvalid
    THEN /\ m_tdata.pos \in 1..Len[m_tdata.type]
         /\ m_tdata.pos = 1 => m_tdata.char = m_tdata.type
         /\ m_tlast <=> m_tdata.pos = Len[m_tdata.type]
         /\ IF m_tlast THEN sent = 0 ELSE sent = m_tdata.pos /\ sending = m_tdata.type
         /\ byte_cnt + 1 = m_tdata.pos /\ Run(frame_sr, byte_cnt, m_tdata.type)
    ELSE byte_cnt = sent /\ Run(frame_sr, byte_cnt, sending)

\* The frame that stage 2 gets ends with one whole message.
FrameEndsInMessage ==
    p1_valid => LET t == p1_frame[FrameLen].type
                IN  p1_byte_cnt = Len[t] /\ Run(p1_frame, Len[t], t)

\* The clocks since the last message came out are at least the bytes that have been
\* collected of the next one.
SinceOut == IF out_valid THEN 0 ELSE since
ClocksForBytes ==
    IF p1_valid THEN byte_cnt = 0 /\ p1_byte_cnt <= SinceOut + 1
    ELSE byte_cnt <= SinceOut + 1

IInv ==
    /\ TypeOK /\ FramerInSync /\ WireInSync /\ FrameEndsInMessage /\ FullFramesExact
    /\ FirstsLookRight(frame_sr) /\ FirstsLookRight(p1_frame)
    /\ MessagesApart /\ ClocksForBytes
=============================================================================
