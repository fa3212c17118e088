----------------------- MODULE MarketDataParserProofs -----------------------
(***************************************************************************)
(* Proofs about MarketDataParser, for every set of types, all lengths of   *)
(* their messages and every length of the frame: the framer never loses    *)
(* its place, and a full frame is decoded exactly.                         *)
(***************************************************************************)
EXTENDS MarketDataParser, TLAPS

\* What the assumption on lengths says of one message.
LEMMA Lengths ==
    /\ FrameLen \in Nat /\ FrameLen >= 1
    /\ \A t \in Chars : Len[t] \in 1..FrameLen /\ Len[t] \in Nat
    /\ Len[Other] = 1 /\ Other \notin Types
    /\ \A t \in Types : Len[t] > 1
BY LenAssumption DEF Chars

\* The facts about the bytes and the frame that typing gives.
LEMMA BytesTyped ==
    /\ NoByte \in Bytes /\ Blank \in [Frames -> Bytes]
    /\ \A b \in Bytes : b.type \in Chars /\ b.char \in Chars /\ b.pos \in Nat
BY Lengths DEF Bytes, Byte, NoByte, Blank, Frames, Chars

-----------------------------------------------------------------------------
(* Stage 1 *)

\* Shifting the byte on the wire into the register keeps the register typed, and
\* appends the byte to the run at its end.
LEMMA ShiftTyped ==
    ASSUME TypeOK
    PROVE  Shifted \in [Frames -> Bytes]
BY Lengths DEF TypeOK, Shifted, Frames

LEMMA ShiftAppends ==
    ASSUME TypeOK, NEW n \in Nat, n < FrameLen,
           Run(frame_sr, n, m_tdata.type), m_tdata.pos = n + 1
    PROVE  Run(Shifted, n + 1, m_tdata.type)
<1> SUFFICES ASSUME NEW k \in 1..(n + 1)
             PROVE  /\ Shifted[FrameLen - (n + 1) + k].type = m_tdata.type
                    /\ Shifted[FrameLen - (n + 1) + k].pos = k
  BY DEF Run
<1>1. FrameLen - (n + 1) + k \in Frames
  BY Lengths DEF Frames
<1>2. CASE k = n + 1
  <2>1. Shifted[FrameLen - (n + 1) + k] = m_tdata
    BY <1>1, <1>2, Lengths DEF Shifted
  <2>2. QED
    BY <1>2, <2>1
<1>3. CASE k \in 1..n
  <2>1. Shifted[FrameLen - (n + 1) + k] = frame_sr[FrameLen - n + k]
    BY <1>1, <1>3, Lengths DEF Shifted
  <2>2. QED
    BY <1>3, <2>1 DEF Run
<1>4. QED
  BY <1>2, <1>3

LEMMA ShiftFirsts ==
    ASSUME TypeOK, FirstsLookRight(frame_sr), m_tdata.pos = 1 => m_tdata.char = m_tdata.type
    PROVE  FirstsLookRight(Shifted)
BY Lengths DEF FirstsLookRight, Shifted, Frames

\* The register has caught up with the DMA of the clock before.
LEMMA CollectCatchesUp ==
    ASSUME IInv, Collect
    PROVE  /\ byte_cnt' = sent /\ Run(frame_sr', sent, sending)
           /\ frame_sr' \in [Frames -> Bytes]
           /\ FirstsLookRight(frame_sr')
<1> USE DEF IInv
<1>1. CASE ~m_tvalid
  BY <1>1 DEF Collect, WireInSync, TypeOK
<1>2. CASE m_tvalid
  <2>1. /\ frame_sr' = Shifted
        /\ byte_cnt' = IF m_tlast THEN 0 ELSE byte_cnt + 1
    BY <1>2 DEF Collect
  <2>2. /\ m_tdata.pos = 1 => m_tdata.char = m_tdata.type
        /\ byte_cnt + 1 = m_tdata.pos /\ Run(frame_sr, byte_cnt, m_tdata.type)
        /\ IF m_tlast THEN sent = 0 ELSE sent = m_tdata.pos /\ sending = m_tdata.type
    BY <1>2 DEF WireInSync
  <2>3. Shifted \in [Frames -> Bytes] /\ FirstsLookRight(Shifted)
    BY <2>2, ShiftTyped, ShiftFirsts
  <2>4. byte_cnt \in Nat /\ byte_cnt < FrameLen
    BY Lengths DEF TypeOK
  <2>5. Run(Shifted, byte_cnt + 1, m_tdata.type)
    BY <2>2, <2>4, ShiftAppends
  <2>6. CASE m_tlast
    <3>1. Run(Shifted, 0, sending)
      BY DEF Run
    <3>2. QED
      BY <2>1, <2>2, <2>3, <2>6, <3>1
  <2>7. CASE ~m_tlast
    BY <2>1, <2>2, <2>3, <2>5, <2>7
  <2>8. QED
    BY <2>6, <2>7
<1>3. QED
  BY <1>1, <1>2

\* What stage 2 gets when a message has ended.
LEMMA CollectFrames ==
    ASSUME IInv, Collect
    PROVE  /\ FrameEndsInMessage'
           /\ p1_frame' \in [Frames -> Bytes] /\ p1_byte_cnt' \in Frames
           /\ p1_valid' \in BOOLEAN
           /\ FirstsLookRight(p1_frame')
<1> USE DEF IInv
<1>1. p1_byte_cnt' \in Frames
  BY Lengths DEF Collect, TypeOK, Frames
<1>2. CASE ~(m_tvalid /\ m_tlast)
  <2>1. p1_frame' = Blank
    BY <1>2 DEF Collect
  <2>2. p1_valid' = FALSE
    BY <1>2, Zenon DEF Collect
  <2>3. FirstsLookRight(Blank)
    BY DEF FirstsLookRight, Blank, NoByte
  <2>4. QED
    BY <1>1, <2>1, <2>2, <2>3, BytesTyped DEF FrameEndsInMessage
<1>3. CASE m_tvalid /\ m_tlast
  <2>1. p1_frame' = Shifted /\ p1_byte_cnt' = byte_cnt + 1
    BY <1>3 DEF Collect
  <2>2. p1_valid' = TRUE
    BY <1>3, Zenon DEF Collect
  <2>3. /\ m_tdata.pos = 1 => m_tdata.char = m_tdata.type
        /\ byte_cnt + 1 = m_tdata.pos /\ Run(frame_sr, byte_cnt, m_tdata.type)
        /\ m_tdata.pos = Len[m_tdata.type]
    BY <1>3 DEF WireInSync
  <2>4. byte_cnt \in Nat /\ byte_cnt < FrameLen
    BY Lengths DEF TypeOK
  <2>5. Run(Shifted, byte_cnt + 1, m_tdata.type)
    BY <2>3, <2>4, ShiftAppends
  <2>6. Shifted[FrameLen] = m_tdata
    BY Lengths DEF Shifted, Frames
  <2>7. FrameEndsInMessage'
    BY <2>1, <2>3, <2>5, <2>6 DEF FrameEndsInMessage
  <2>8. QED
    BY <1>1, <2>1, <2>2, <2>3, <2>7, ShiftTyped, ShiftFirsts
<1>4. QED
  BY <1>2, <1>3

-----------------------------------------------------------------------------
(* Stage 3 *)

\* A frame that ends with one whole message starts with the type of a full frame,
\* and is long enough for it, exactly when that message fills the frame.
LEMMA FullFrame ==
    ASSUME NEW f \in [Frames -> Bytes], FirstsLookRight(f),
           NEW n \in Nat, n = Len[f[FrameLen].type], Run(f, n, f[FrameLen].type),
           NEW t \in Types, Len[t] = FrameLen
    PROVE  f[1].char = t /\ n >= FrameLen <=> IsMessage(f, t)
<1> DEFINE u == f[FrameLen].type
<1>1. 1 \in Frames /\ FrameLen \in Frames
  BY Lengths DEF Frames
<1>2. u \in Chars /\ Len[u] <= FrameLen
  BY <1>1, BytesTyped, Lengths
<1>3. ASSUME f[1].char = t, n >= FrameLen
      PROVE  IsMessage(f, t)
  <2>1. n = FrameLen
    BY <1>2, <1>3, Lengths
  <2>2. \A k \in Frames : f[k].type = u /\ f[k].pos = k
    BY <2>1, Lengths DEF Run, Frames
  <2>3. u = t
    BY <1>1, <1>3, <2>2 DEF FirstsLookRight
  <2>4. QED
    BY <2>2, <2>3 DEF IsMessage
<1>4. ASSUME IsMessage(f, t)
      PROVE  f[1].char = t /\ n >= FrameLen
  <2>1. u = t /\ f[1].type = t /\ f[1].pos = 1
    BY <1>1, <1>4 DEF IsMessage
  <2>2. QED
    BY <1>1, <2>1, Lengths DEF FirstsLookRight
<1>5. QED
  BY <1>3, <1>4

\* What comes out of the parser.
LEMMA DecodeExact ==
    ASSUME IInv, Decode
    PROVE  /\ FullFramesExact'
           /\ out_valid' \in BOOLEAN /\ out_error' \in BOOLEAN
           /\ out_msg_type' \in Chars /\ out_frame' \in [Frames -> Bytes]
<1> USE DEF IInv
<1>1. /\ p1_frame \in [Frames -> Bytes] /\ p1_byte_cnt \in Frames /\ p1_byte_cnt \in Nat
      /\ p1_valid \in BOOLEAN /\ out_msg_type \in Chars
  BY Lengths DEF TypeOK, Frames
<1>2. out_valid' = p1_valid /\ out_frame' = p1_frame
  BY DEF Decode
<1>3. out_error' \in BOOLEAN
  BY Zenon DEF Decode
<1>4. out_msg_type' \in Chars
  <2>1. p1_frame[1] \in Bytes
    BY <1>1, Lengths DEF Frames
  <2>2. out_msg_type' = p1_frame[1].char \/ out_msg_type' = out_msg_type
    BY DEF Decode
  <2>3. QED
    BY <1>1, <2>1, <2>2, BytesTyped
<1>5. FullFramesExact'
  <2> SUFFICES ASSUME p1_valid, NEW t \in Types, Len[t] = FrameLen
               PROVE  out_msg_type' = t /\ ~out_error' <=> IsMessage(p1_frame, t)
    BY <1>2 DEF FullFramesExact, IsMessage
  <2>1. /\ out_msg_type' = p1_frame[1].char
        /\ out_error' <=> \/ p1_frame[1].char = Other
                          \/ p1_byte_cnt < Len[p1_frame[1].char]
    BY DEF Decode
  <2>2. out_msg_type' = t /\ ~out_error' <=> p1_frame[1].char = t /\ p1_byte_cnt >= FrameLen
    BY <1>1, <2>1, Lengths
  <2>3. p1_byte_cnt = Len[p1_frame[FrameLen].type]
        /\ Run(p1_frame, p1_byte_cnt, p1_frame[FrameLen].type)
    BY DEF FrameEndsInMessage
  <2>4. QED
    BY <1>1, <2>2, <2>3, FullFrame
<1>6. QED
  BY <1>1, <1>2, <1>3, <1>4, <1>5

-----------------------------------------------------------------------------
(* The framer *)

\* What the DMA and the framer do on one clock edge, as far as it concerns the
\* parser's next one.
Feeds ==
    /\ FramerInSync'
    /\ IF m_tvalid'
       THEN /\ m_tdata'.pos \in 1..Len[m_tdata'.type]
            /\ m_tdata'.pos = 1 => m_tdata'.char = m_tdata'.type
            /\ m_tlast' <=> m_tdata'.pos = Len[m_tdata'.type]
            /\ IF m_tlast' THEN sent' = 0 ELSE sent' = m_tdata'.pos /\ sending' = m_tdata'.type
            /\ sent + 1 = m_tdata'.pos
            /\ sent > 0 => m_tdata'.type = sending
       ELSE sent' = sent /\ sending' = sending
    /\ sent' \in 0..(FrameLen - 1) /\ sending' \in Chars
    /\ in_message' \in BOOLEAN /\ cnt' \in 0..(FrameLen - 1) /\ expected_len' \in Frames
    /\ m_tdata' \in Bytes /\ m_tvalid' \in BOOLEAN /\ m_tlast' \in BOOLEAN

\* The first byte of a message is framed as one, since the framer is waiting.
LEMMA FirstFeeds ==
    ASSUME IInv, NEW t \in Chars, SendFirst(t)
    PROVE  Feeds
<1> USE DEF IInv
<1> DEFINE b == [type |-> t, pos |-> 1, char |-> t]
<1>1. ~in_message /\ sent = 0
  BY DEF SendFirst, FramerInSync
<1>2. m_tvalid' = TRUE /\ m_tdata' = b /\ FrameFirst(b)
  BY <1>1 DEF SendFirst, Frame, FrameNext
<1>3. b \in Bytes
  BY Lengths DEF Bytes, Byte, Frames
<1>4. /\ sending' = t /\ expected_len' = Len[t] /\ expected_len' \in Frames
      /\ sent' = IF Len[t] = 1 THEN 0 ELSE 1
  BY <1>2, Lengths DEF SendFirst, FrameFirst, Frames
<1>5. CASE t = Other
  <2>1. in_message' = FALSE /\ cnt' = 0 /\ m_tlast' = TRUE
    BY <1>2, <1>5 DEF FrameFirst
  <2>2. /\ m_tvalid' /\ m_tlast' /\ ~in_message'
        /\ m_tvalid' \in BOOLEAN /\ m_tlast' \in BOOLEAN /\ in_message' \in BOOLEAN
    BY <1>2, <2>1, Zenon
  <2>3. cnt' = 0 /\ m_tdata' = b
    BY <1>2, <2>1
  <2>4. QED
    BY <1>1, <1>3, <1>4, <1>5, <2>2, <2>3, Lengths DEF Feeds, FramerInSync
<1>6. CASE t # Other
  <2>1. in_message' = TRUE /\ cnt' = 1 /\ m_tlast' = FALSE
    BY <1>2, <1>6 DEF FrameFirst
  <2>2. /\ m_tvalid' /\ ~m_tlast' /\ in_message'
        /\ m_tvalid' \in BOOLEAN /\ m_tlast' \in BOOLEAN /\ in_message' \in BOOLEAN
    BY <1>2, <2>1, Zenon
  <2>3. cnt' = 1 /\ m_tdata' = b
    BY <1>2, <2>1
  <2>4. t \in Types /\ Len[t] > 1 /\ Len[t] \in 1..FrameLen
    BY <1>6, Lengths DEF Chars
  <2>5. QED
    BY <1>1, <1>3, <1>4, <2>2, <2>3, <2>4, Lengths DEF Feeds, FramerInSync
<1>7. QED
  BY <1>5, <1>6

\* Every later byte is counted, whatever character it is.
LEMMA NextFeeds ==
    ASSUME IInv, NEW c \in Chars, SendNext(c)
    PROVE  Feeds
<1> USE DEF IInv
<1> DEFINE b == [type |-> sending, pos |-> sent + 1, char |-> c]
<1>1. /\ in_message /\ sent > 0 /\ cnt = sent /\ sent < Len[sending]
      /\ sending \in Types /\ expected_len = Len[sending]
  BY DEF SendNext, FramerInSync
<1>2. m_tvalid' = TRUE /\ m_tdata' = b /\ FrameNext(b)
  BY <1>1 DEF SendNext, Frame, FrameFirst
<1>3. Len[sending] \in 1..FrameLen /\ sending \in Chars /\ sent \in Nat /\ FrameLen \in Nat
  BY <1>1, Lengths DEF TypeOK, Chars
<1>4. b \in Bytes
  BY <1>1, <1>3 DEF Bytes, Byte, Frames
<1>5. /\ sending' = sending /\ expected_len' = expected_len
      /\ sent' = IF sent + 1 = Len[sending] THEN 0 ELSE sent + 1
  BY <1>2 DEF SendNext, FrameNext
<1>6. CASE sent + 1 = Len[sending]
  <2>1. in_message' = FALSE /\ cnt' = 0 /\ m_tlast' = TRUE
    BY <1>1, <1>2, <1>3, <1>6 DEF FrameNext
  <2>2. /\ m_tvalid' /\ m_tlast' /\ ~in_message'
        /\ m_tvalid' \in BOOLEAN /\ m_tlast' \in BOOLEAN /\ in_message' \in BOOLEAN
    BY <1>2, <2>1, Zenon
  <2>3. cnt' = 0 /\ m_tdata' = b
    BY <1>2, <2>1
  <2>4. QED
    BY <1>1, <1>3, <1>4, <1>5, <1>6, <2>2, <2>3 DEF Feeds, FramerInSync, TypeOK
<1>7. CASE sent + 1 # Len[sending]
  <2>1. in_message' = TRUE /\ cnt' = cnt + 1 /\ m_tlast' = FALSE
    BY <1>1, <1>2, <1>3, <1>7 DEF FrameNext
  <2>2. /\ m_tvalid' /\ ~m_tlast' /\ in_message'
        /\ m_tvalid' \in BOOLEAN /\ m_tlast' \in BOOLEAN /\ in_message' \in BOOLEAN
    BY <1>2, <2>1, Zenon
  <2>3. cnt' = cnt + 1 /\ m_tdata' = b
    BY <1>2, <2>1
  <2>4. QED
    BY <1>1, <1>3, <1>4, <1>5, <1>7, <2>2, <2>3 DEF Feeds, FramerInSync, TypeOK
<1>8. QED
  BY <1>6, <1>7

\* A pause changes nothing.
LEMMA NothingFeeds ==
    ASSUME IInv, SendNothing
    PROVE  Feeds
BY BytesTyped DEF IInv, SendNothing, NoFrame, dmaVars, Feeds, FramerInSync, TypeOK

-----------------------------------------------------------------------------
(* The distance of messages *)

\* A message that comes out now was collected byte by byte, one a clock, after the
\* last byte of the message before it.
LEMMA ClocksCounted ==
    ASSUME IInv, Collect, Decode, CountClock
    PROVE  since' \in Frames /\ MessagesApart' /\ ClocksForBytes'
<1>1. /\ since \in 1..FrameLen /\ FrameLen \in Nat /\ FrameLen > 0 /\ byte_cnt \in Nat
      /\ p1_byte_cnt \in 1..FrameLen
  BY Lengths DEF IInv, TypeOK, Frames
<1>2. since' = IF SinceOut < FrameLen THEN SinceOut + 1 ELSE FrameLen
  BY <1>1 DEF CountClock, SinceOut
<1>3. SinceOut \in 0..FrameLen /\ since' \in 1..FrameLen
  BY <1>1, <1>2 DEF SinceOut
<1>4. SinceOut' = IF p1_valid THEN 0 ELSE since'
  BY DEF Decode, SinceOut
<1>5. MessagesApart'
  <2>1. CASE p1_valid
    <3>1. p1_byte_cnt = Len[p1_frame[FrameLen].type] /\ out_frame' = p1_frame
      BY <2>1 DEF IInv, FrameEndsInMessage, Decode
    <3>2. p1_byte_cnt <= SinceOut + 1
      BY <2>1 DEF IInv, ClocksForBytes
    <3>3. p1_byte_cnt <= since'
      BY <1>1, <1>2, <1>3, <3>2
    <3>4. QED
      BY <3>1, <3>3 DEF MessagesApart
  <2>2. CASE ~p1_valid
    BY <2>2 DEF Decode, MessagesApart
  <2>3. QED
    BY <2>1, <2>2
<1>6. ClocksForBytes'
  <2>1. byte_cnt <= (IF p1_valid THEN 0 ELSE SinceOut + 1)
    BY <1>1, <1>3 DEF IInv, ClocksForBytes
  <2>2. PICK d \in Nat : d = SinceOut' /\ byte_cnt <= d
    <3>1. byte_cnt < FrameLen
      BY Lengths DEF IInv, TypeOK
    <3>2. CASE p1_valid
      BY <1>1, <1>4, <2>1, <3>2
    <3>3. CASE ~p1_valid
      BY <1>1, <1>2, <1>3, <1>4, <2>1, <3>1, <3>3
    <3>4. QED
      BY <3>2, <3>3
  <2>3. p1_byte_cnt' = byte_cnt + 1 /\ byte_cnt' \in {0, byte_cnt, byte_cnt + 1}
    BY DEF Collect
  <2>4. byte_cnt' <= d + 1 /\ p1_byte_cnt' <= d + 1
    <3>1. byte_cnt \in Nat /\ byte_cnt <= d
      BY <1>1, <2>2
    <3>2. byte_cnt <= d + 1 /\ byte_cnt + 1 <= d + 1
      BY <3>1
    <3>3. QED
      BY <2>3, <3>2
  <2>5. p1_valid' => byte_cnt' = 0
    BY DEF Collect
  <2>6. QED
    BY <2>2, <2>4, <2>5 DEF ClocksForBytes
<1>7. QED
  BY <1>3, <1>5, <1>6 DEF Frames

-----------------------------------------------------------------------------
(* The invariant *)

\* After reset nothing is under way.
LEMMA InvInit == Init => IInv
<1> SUFFICES ASSUME Init PROVE IInv
  OBVIOUS
<1>1. TypeOK
  <2>1. /\ in_message \in BOOLEAN /\ m_tvalid \in BOOLEAN /\ m_tlast \in BOOLEAN
        /\ p1_valid \in BOOLEAN /\ out_valid \in BOOLEAN /\ out_error \in BOOLEAN
    BY Zenon DEF Init
  <2>2. 0 \in 0..(FrameLen - 1) /\ {1, FrameLen} \subseteq Frames /\ Other \in Chars
    BY Lengths DEF Frames, Chars
  <2>3. QED
    BY <2>1, <2>2, BytesTyped DEF Init, TypeOK
<1>2. FramerInSync /\ FrameEndsInMessage /\ FullFramesExact
  BY DEF Init, FramerInSync, FrameEndsInMessage, FullFramesExact
<1>3. WireInSync
  BY DEF Init, WireInSync, Run
<1>4. FirstsLookRight(frame_sr) /\ FirstsLookRight(p1_frame)
  BY DEF Init, FirstsLookRight, Blank, NoByte
<1>5. MessagesApart /\ ClocksForBytes
  BY Lengths DEF Init, MessagesApart, ClocksForBytes, SinceOut
<1>6. QED
  BY <1>1, <1>2, <1>3, <1>4, <1>5 DEF IInv

\* One clock edge: the register catches up with the DMA of the clock before, while
\* the DMA moves on by the byte on the wire.
LEMMA InvStep == IInv /\ [Next]_vars => IInv'
<1> SUFFICES ASSUME IInv, [Next]_vars PROVE IInv'
  OBVIOUS
<1>1. CASE Next
  <2>1. Feeds
    BY <1>1, FirstFeeds, NextFeeds, NothingFeeds DEF Next
  <2>2. /\ byte_cnt' = sent /\ Run(frame_sr', sent, sending)
        /\ frame_sr' \in [Frames -> Bytes]
        /\ FirstsLookRight(frame_sr')
    BY <1>1, CollectCatchesUp DEF Next
  <2>3. /\ FrameEndsInMessage'
        /\ p1_frame' \in [Frames -> Bytes] /\ p1_byte_cnt' \in Frames
        /\ p1_valid' \in BOOLEAN
        /\ FirstsLookRight(p1_frame')
    BY <1>1, CollectFrames DEF Next
  <2>4. /\ FullFramesExact'
        /\ out_valid' \in BOOLEAN /\ out_error' \in BOOLEAN
        /\ out_msg_type' \in Chars /\ out_frame' \in [Frames -> Bytes]
    BY <1>1, DecodeExact DEF Next
  <2>5. sent \in 0..(FrameLen - 1)
    BY DEF IInv, TypeOK
  <2>10. since' \in Frames /\ MessagesApart' /\ ClocksForBytes'
    BY <1>1, ClocksCounted DEF Next
  <2>6. TypeOK'
    BY <2>1, <2>2, <2>3, <2>4, <2>5, <2>10 DEF TypeOK, Feeds
  <2>7. WireInSync'
    <3>1. CASE m_tvalid'
      <4>1. Run(frame_sr', sent, m_tdata'.type)
        BY <2>1, <2>2, <2>5, <3>1 DEF Feeds, Run
      <4>2. QED
        BY <2>1, <2>2, <3>1, <4>1 DEF Feeds, WireInSync
    <3>2. CASE ~m_tvalid'
      BY <2>1, <2>2, <3>2 DEF Feeds, WireInSync
    <3>3. QED
      BY <3>1, <3>2
  <2>8. QED
    BY <2>1, <2>2, <2>3, <2>4, <2>6, <2>7, <2>10 DEF IInv, Feeds
<1>2. CASE UNCHANGED vars
  BY <1>2 DEF vars, dmaVars, framerVars, parserVars, IInv, TypeOK, FramerInSync, WireInSync,
              FrameEndsInMessage, FullFramesExact, IsMessage, FirstsLookRight, Run,
              MessagesApart, ClocksForBytes, SinceOut
<1>3. QED
  BY <1>1, <1>2

-----------------------------------------------------------------------------
(* The theorems *)

\* Counters and registers stay in range: no message overruns the frame.
THEOREM TypeCorrect == Spec => []TypeOK
<1>1. IInv => TypeOK
  BY DEF IInv
<1>2. QED
  BY InvInit, InvStep, <1>1, PTL DEF Spec

\* The framer marks the last byte of every message and no other.
THEOREM FramerKeepsItsPlace == Spec => []TlastAtMessageEnd
<1>1. IInv => TlastAtMessageEnd
  BY DEF IInv, WireInSync, TlastAtMessageEnd
<1>2. QED
  BY InvInit, InvStep, <1>1, PTL DEF Spec

\* Messages that fill the frame come out with every field in its place, and
\* nothing else comes out as one of them without an error.
THEOREM FullFramesAreExact == Spec => []FullFramesExact
<1>1. IInv => FullFramesExact
  BY DEF IInv
<1>2. QED
  BY InvInit, InvStep, <1>1, PTL DEF Spec

\* Messages come out of the parser at least as many clocks apart as the later one
\* has bytes, for all lengths and whatever the pauses of the DMA.  A known type has
\* at least two bytes, which is the distance that the engine is proved under.
THEOREM MessagesStayApart == Spec => []MessagesApart
<1>1. IInv => MessagesApart
  BY DEF IInv
<1>2. QED
  BY InvInit, InvStep, <1>1, PTL DEF Spec
=============================================================================
