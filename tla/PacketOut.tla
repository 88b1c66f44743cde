----------------------------- MODULE PacketOut -----------------------------
(***************************************************************************)
(* How frames are put into packets and read back (rqc_packet_out.c,        *)
(* rqc_frame_parser.c, rqc_packet_parser.c, rqc_variable_len_int.c, the    *)
(* submission of rqc_datagram.c).  A packet's buffer is the sequence of    *)
(* the pieces written into it, each with its size in bytes: the header,    *)
(* stream frame headers, stream data, ACK frames and the other frames with *)
(* their integers in wire order.  Stream data is named by its stream and   *)
(* offset, so that a receiver that takes the wrong bytes is seen to do so. *)
(* The connection is established, and the send queue has room.             *)
(***************************************************************************)
EXTENDS Naturals, FiniteSets, SequencesExt

CONSTANTS
  Server,           \* the connection is a server's
  Streams,          \* stream ids
  HighPri,          \* the streams of RQC_STREAM_PRI_HIGH
  RateLimited,      \* streams whose first write raises the receive window
  Sizes,            \* payload sizes handed to one write
  AckRanges,        \* numbers of ranges in the ACK frames written
  Requests,         \* the other frames, by type and arguments
  MaxPktOutSize,    \* conn_settings.max_pkt_out_size
  LocalUdp,         \* local_settings.max_udp_payload_size
  RemoteUdp,        \* remote_settings.max_udp_payload_size
  MaxDatagramFrame, \* remote_settings.max_datagram_frame_size
  CidLen,           \* length of both connection ids
  PnWin,            \* truncated packet numbers: 2^(8 * RQC_PKTNO_CLASS)
  MaxPackets,       \* bound: packets created
  MaxWrites,        \* bound: stream writes
  MaxRequests,      \* bound: other frames written
  MaxAcks,          \* bound: ACK frames written
  FirstNumber       \* packet numbers used before: the model joins a running connection

ASSUME HighPriIsSome == HighPri \subseteq Streams /\ RateLimited \subseteq Streams
ASSUME RoomForUdp == LocalUdp > 16 /\ RemoteUdp > 16
ASSUME WindowIsEven == PnWin \in Nat \ {0} /\ PnWin % 2 = 0
ASSUME FirstNumberIsNat == FirstNumber \in Nat

VARIABLES
  send,    \* sndq_send_packets
  high,    \* sndq_send_packets_high_pri
  buf,     \* path_schedule_buf[RQC_SEND_TYPE_NORMAL]
  wire,    \* packets sent, in order of their packet numbers
  offset,  \* stream_send_offset
  state,   \* open, fin (RQC_STREAM_FLAG_FIN_WRITE) or reset
  writes,  \* bound: stream writes so far
  asked,   \* bound: other frames so far
  acks     \* bound: ACK frames so far

vars == <<send, high, buf, wire, offset, state, writes, asked, acks>>

-----------------------------------------------------------------------------
(* Sizes *)

ACK_SPACE == 16
MIN_MSS == 1200
MAX_STREAM_FRAME_IN_PO == 3
Need == 50
PKTNO_LEN == 4

AtMost(a, b) == IF a < b THEN a ELSE b

\* rqc_put_varint_len: 6, 14, 30 or 62 bits of value
VintLen(v) == IF v < 64 THEN 1 ELSE IF v < 16384 THEN 2 ELSE IF v < 1073741824 THEN 4 ELSE 8

SumSizes(items) == FoldSeq(LAMBDA it, n : it.size + n, 0, items)

ShortHeaderSize == 1 + CidLen + 2 + PKTNO_LEN
LongHeaderSize == 1 + 4 + 1 + CidLen + 1 + CidLen + 2 + PKTNO_LEN
HeaderSize(type) == IF type = "SHORT" THEN ShortHeaderSize ELSE LongHeaderSize

\* Only a server lowers its packet size to the peer's limit
PktOutSize ==
  LET own == AtMost(MaxPktOutSize, LocalUdp - ACK_SPACE)
  IN IF Server /\ RemoteUdp >= MIN_MSS THEN AtMost(own, RemoteUdp - ACK_SPACE) ELSE own

-----------------------------------------------------------------------------
(* Packets.  sf is po_stream_frames, at the index of the frame's header     *)
(* piece; ackAt counts the pieces before the ACK frame (po_ack_offset);     *)
(* length is the header's Length field; asked holds the frames requested.   *)

NewPacket(type) ==
  [type |-> type, items |-> <<[k |-> "HDR", size |-> HeaderSize(type)]>>, types |-> {},
   sf |-> <<>>, ackAt |-> 0, noLen |-> FALSE, size |-> PktOutSize, length |-> 0,
   num |-> 0, copy |-> FALSE, asked |-> {}]

Used(p) == SumSizes(p.items)

Remained(p) == IF Used(p) >= p.size THEN 0 ELSE p.size - Used(p)

\* The limit of the settings instead of the packet's own
RemainedWithAckOfSettings(p) ==
  IF Used(p) >= MaxPktOutSize + ACK_SPACE THEN 0 ELSE MaxPktOutSize + ACK_SPACE - Used(p)

RemainedWithAck(p) ==
  IF Used(p) >= p.size + ACK_SPACE THEN 0 ELSE p.size + ACK_SPACE - Used(p)

-----------------------------------------------------------------------------
(* STREAM frames *)

\* Other frames after the last STREAM frame are not looked for
CanCombineAnyway(p, s) ==
  /\ p.sf # <<>>
  /\ LET prev == Last(p.sf) IN
       /\ prev.id = s /\ prev.off + prev.len = offset[s]
       /\ prev.hasLen /\ p.items[prev.at].lenBytes = 2

CanCombine(p, s) ==
  /\ p.sf # <<>> /\ p.types = {"STREAM"}
  /\ LET prev == Last(p.sf) IN
       /\ prev.id = s /\ prev.off + prev.len = offset[s]
       /\ prev.hasLen /\ p.items[prev.at].lenBytes = 2

\* A partial append keeps the FIN
CombineKeepsFin(p, s, n, fin) ==
  LET i == Len(p.sf)
      prev == p.sf[i]
      take == AtMost(n, Remained(p))
      grown == [p.items EXCEPT ![prev.at].len = @ + take, ![prev.at].fin = @ \/ fin]
  IN [po |-> [p EXCEPT
        !.items = IF take = 0 THEN grown
                  ELSE Append(grown, [k |-> "DATA", id |-> s, off |-> offset[s], size |-> take]),
        !.sf[i].len = @ + take, !.sf[i].fin = @ \/ fin],
      written |-> take, ok |-> TRUE]

\* Append to the last STREAM frame; a partial append drops the FIN
Combine(p, s, n, fin) ==
  LET i == Len(p.sf)
      prev == p.sf[i]
      take == AtMost(n, Remained(p))
      last == fin /\ take = n
      grown == [p.items EXCEPT ![prev.at].len = @ + take, ![prev.at].fin = @ \/ last]
  IN [po |-> [p EXCEPT
        !.items = IF take = 0 THEN grown
                  ELSE Append(grown, [k |-> "DATA", id |-> s, off |-> offset[s], size |-> take]),
        !.sf[i].len = @ + take, !.sf[i].fin = @ \/ last],
      written |-> take, ok |-> TRUE]

\* The frame's fixed part: type, stream id, and an offset unless it is 0
StreamHead(s) == 1 + VintLen(s) + (IF offset[s] > 0 THEN VintLen(offset[s]) ELSE 0)

\* A data frame has a two-byte Length and shrinks to what is left; a lone FIN
\* has a one-byte Length, or none if the frame fills the packet
NewStreamFrame(p, s, n, fin) ==
  LET room == Remained(p)
      head == StreamHead(s)
      finOnly == fin /\ n = 0
      lenBytes == IF ~finOnly THEN 2 ELSE IF head < room THEN 1 ELSE 0
      ok == IF finOnly THEN head + lenBytes <= room ELSE head + 2 < room
      take == IF finOnly THEN 0 ELSE AtMost(n, room - head - 2)
      last == fin /\ take = n
      frame == [k |-> "STREAM", id |-> s, off |-> offset[s], len |-> take,
                lenBytes |-> lenBytes, fin |-> last, size |-> head + lenBytes]
      data == IF take = 0 THEN <<>>
              ELSE <<[k |-> "DATA", id |-> s, off |-> offset[s], size |-> take]>>
  IN IF ~ok THEN [po |-> p, written |-> 0, ok |-> FALSE]
     ELSE [po |-> [p EXCEPT
             !.items = Append(@, frame) \o data,
             !.sf = Append(@, [id |-> s, off |-> offset[s], len |-> take, fin |-> last,
                               at |-> Len(p.items) + 1, hasLen |-> lenBytes = 2,
                               reset |-> FALSE]),
             !.types = @ \union {"STREAM"}, !.noLen = @ \/ lenBytes = 0],
           written |-> take, ok |-> TRUE]

GenStreamFrame(p, s, n, fin) ==
  IF CanCombine(p, s) THEN Combine(p, s, n, fin) ELSE NewStreamFrame(p, s, n, fin)

\* Only the last packet of the stream's list is filled up, and only if its
\* last STREAM frame is this stream's
FillsUp(p, s) ==
  /\ p.type = "SHORT" /\ "DATAGRAM" \notin p.types
  /\ Remained(p) >= Need
  /\ Len(p.sf) \in 1 .. MAX_STREAM_FRAME_IN_PO - 1
  /\ Last(p.sf).id = s

-----------------------------------------------------------------------------
(* The other frames: a type byte and variable-length integers, in order     *)

Ints(type, v) ==
  [k |-> type, v |-> v, size |-> 1 + FoldSeq(LAMBDA i, n : VintLen(i) + n, 0, v)]

GenPing == Ints("PING", <<>>)
\* Error codes of the application start at REQUEST_NO_ERROR and carry no frame type
GenConnClose(r) ==
  IF r.app THEN Ints("APP_CLOSE", <<r.err, 0>>) ELSE Ints("CONNECTION_CLOSE", <<r.err, 0, 0>>)
GenReset(r) == Ints("RESET_STREAM", <<r.id, r.err, r.final>>)
GenStopSending(r) == Ints("STOP_SENDING", <<r.id, r.err>>)
GenDataBlocked(r) == Ints("DATA_BLOCKED", <<r.limit>>)
GenStreamDataBlocked(r) == Ints("STREAM_DATA_BLOCKED", <<r.id, r.limit>>)
GenStreamsBlocked(r) == Ints(IF r.bidi THEN "STREAMS_BLOCKED_BIDI" ELSE "STREAMS_BLOCKED_UNI", <<r.limit>>)
GenMaxData(r) == Ints("MAX_DATA", <<r.limit>>)
GenMaxStreamData(r) == Ints("MAX_STREAM_DATA", <<r.id, r.limit>>)
GenMaxStreams(r) == Ints(IF r.bidi THEN "MAX_STREAMS_BIDI" ELSE "MAX_STREAMS_UNI", <<r.limit>>)
\* Eight bytes of data
GenPathChallenge(r) == [k |-> "PATH_CHALLENGE", v |-> <<r.data>>, size |-> 9]
GenPathResponse(r) == [k |-> "PATH_RESPONSE", v |-> <<r.data>>, size |-> 9]
\* ALPN, transport parameters and extension, each after its length
GenHandshake(r) ==
  LET lens == <<r.alpn, r.tp, r.ext>>
  IN [Ints("HANDSHAKE", lens) EXCEPT !.size = @ + r.alpn + r.tp + r.ext]
GenDatagram(r) == [Ints("DATAGRAM", <<r.len>>) EXCEPT !.size = @ + r.len]

GenAckFrame(ranges) == [k |-> "ACK", ranges |-> ranges, size |-> 3 + 2 * ranges]

CanAttachAck(p) == p.type = "SHORT" /\ "ACK" \notin p.types /\ ~p.noLen

AddAck(p, ranges) ==
  [p EXCEPT !.items = Append(@, GenAckFrame(ranges)), !.types = @ \union {"ACK"},
            !.ackAt = Len(p.items)]

AckFits(p, ranges) == GenAckFrame(ranges).size <= RemainedWithAck(p)

\* The largest message whose frame fits the packet and the peer's limit
DatagramMss ==
  LET limit == AtMost(AtMost(PktOutSize, AtMost(LocalUdp, RemoteUdp) - ACK_SPACE) - ShortHeaderSize,
                      MaxDatagramFrame)
  IN CHOOSE n \in 0 .. limit - 2 :
       /\ n + 1 + VintLen(n) <= limit
       /\ \A m \in n + 1 .. limit - 2 : m + 1 + VintLen(m) > limit

-----------------------------------------------------------------------------
(* Writing *)

Init ==
  /\ send = <<>> /\ high = <<>> /\ buf = <<>> /\ wire = <<>>
  /\ offset = [s \in Streams |-> 0]
  /\ state = [s \in Streams |-> "open"]
  /\ writes = 0 /\ asked = 0 /\ acks = 0

Packets == ToSet(send) \union ToSet(high) \union ToSet(buf) \union ToSet(wire)

Room == Len(send) + Len(high) + Len(buf) + Len(wire) < MaxPackets

\* A new packet with the one frame of request r
Single(type, r, frame) ==
  [NewPacket(type) EXCEPT !.items = Append(@, frame), !.types = {r.type}, !.asked = {r}]

\* rqc_write_max_stream_data_to_packet, before the first write of a stream
\* whose receive rate is limited
RaiseWindow(s) ==
  IF s \in RateLimited /\ offset[s] = 0
  THEN LET r == [type |-> "MAX_STREAM_DATA", id |-> s, limit |-> 16384]
       IN <<Single("SHORT", r, GenMaxStreamData(r))>>
  ELSE <<>>

\* rqc_write_stream_frame_to_packet, for one round of rqc_stream_send's loop
WriteStream(s, n, fin) ==
  /\ state[s] = "open" /\ writes < MaxWrites /\ Room
  /\ LET raised == high \o RaiseWindow(s)
         list == IF s \in HighPri THEN raised ELSE send
         fill == list # <<>> /\ FillsUp(Last(list), s)
         out == GenStreamFrame(IF fill THEN Last(list) ELSE NewPacket("SHORT"), s, n, fin)
         after == IF fill THEN Append(Front(list), out.po) ELSE Append(list, out.po)
     IN /\ out.ok
        /\ IF s \in HighPri THEN high' = after /\ UNCHANGED send
           ELSE send' = after /\ high' = raised
        /\ offset' = [offset EXCEPT ![s] = @ + out.written]
        /\ state' = [state EXCEPT ![s] = IF fin /\ out.written = n THEN "fin" ELSE @]
  /\ writes' = writes + 1
  /\ UNCHANGED <<buf, wire, asked, acks>>

\* rqc_write_ack_to_packets: the first packet scheduled, or else the first
\* queued, takes the ACK if it can; otherwise a packet of its own goes first
WriteAck(ranges) ==
  LET attach(list) == /\ list # <<>> /\ CanAttachAck(Head(list)) /\ AckFits(Head(list), ranges)
      added(list) == <<AddAck(Head(list), ranges)>> \o Tail(list)
  IN /\ acks < MaxAcks
     /\ acks' = acks + 1
     /\ \/ /\ attach(buf)
           /\ buf' = added(buf) /\ UNCHANGED <<send, high>>
        \/ /\ buf = <<>> /\ attach(send)
           /\ send' = added(send) /\ UNCHANGED <<buf, high>>
        \/ /\ ~attach(buf) /\ ~(buf = <<>> /\ attach(send)) /\ Room
           /\ high' = Append(high, AddAck(NewPacket("SHORT"), ranges))
           /\ UNCHANGED <<buf, send>>
     /\ UNCHANGED <<wire, offset, state, writes, asked>>

\* rqc_write_*_to_packet: every other frame has a packet of its own, which goes
\* to the tail of a queue
Queued(p) ==
  /\ asked < MaxRequests /\ Room
  /\ send' = Append(send, p) /\ asked' = asked + 1
  /\ UNCHANGED <<high, buf, wire, offset, writes, acks>>

Urgent(p) ==
  /\ asked < MaxRequests /\ Room
  /\ high' = Append(high, p) /\ asked' = asked + 1
  /\ UNCHANGED <<send, buf, wire, offset, state, writes, acks>>

WritePing(r) == r.type = "PING" /\ Urgent(Single("SHORT", r, GenPing))
WriteConnClose(r) == r.type = "CONNECTION_CLOSE" /\ Urgent(Single("SHORT", r, GenConnClose(r)))
WriteDataBlocked(r) == r.type = "DATA_BLOCKED" /\ Urgent(Single("SHORT", r, GenDataBlocked(r)))
WriteStreamDataBlocked(r) ==
  r.type = "STREAM_DATA_BLOCKED" /\ Urgent(Single("SHORT", r, GenStreamDataBlocked(r)))
WriteStreamsBlocked(r) ==
  r.type = "STREAMS_BLOCKED" /\ Urgent(Single("SHORT", r, GenStreamsBlocked(r)))
WriteMaxData(r) == r.type = "MAX_DATA" /\ Urgent(Single("SHORT", r, GenMaxData(r)))
WriteMaxStreamData(r) ==
  r.type = "MAX_STREAM_DATA" /\ Urgent(Single("SHORT", r, GenMaxStreamData(r)))
WriteMaxStreams(r) == r.type = "MAX_STREAMS" /\ Urgent(Single("SHORT", r, GenMaxStreams(r)))
WritePathChallenge(r) ==
  r.type = "PATH_CHALLENGE" /\ Urgent(Single("SHORT", r, GenPathChallenge(r)))
WritePathResponse(r) ==
  r.type = "PATH_RESPONSE" /\ Urgent(Single("SHORT", r, GenPathResponse(r)))

WriteStopSending(r) ==
  /\ r.type = "STOP_SENDING"
  /\ Queued(Single("SHORT", r, GenStopSending(r))) /\ UNCHANGED state

\* The server's answer, still queued when the streams start
WriteHandshake(r) ==
  /\ r.type = "HANDSHAKE"
  /\ Queued(Single("INIT", r, GenHandshake(r))) /\ UNCHANGED state

\* RESET_STREAM takes a po_stream_frames entry
WriteReset(r) ==
  /\ r.type = "RESET_STREAM" /\ state[r.id] # "reset"
  /\ LET q == [r EXCEPT !.final = offset[r.id]]
     IN Queued([Single("SHORT", q, GenReset(q)) EXCEPT
          !.sf = <<[id |-> r.id, off |-> 0, len |-> 0, fin |-> FALSE, at |-> 0,
                    hasLen |-> FALSE, reset |-> TRUE]>>])
  /\ state' = [state EXCEPT ![r.id] = "reset"]

\* rqc_datagram_submit: refused above the MSS
SubmitDatagram(r) ==
  /\ r.type = "DATAGRAM" /\ r.len <= DatagramMss
  /\ Queued([Single("SHORT", r, GenDatagram(r)) EXCEPT
               !.size = AtMost(@, AtMost(LocalUdp, RemoteUdp) - ACK_SPACE)])
  /\ UNCHANGED state

WriteFrame(r) ==
  \/ WritePing(r) \/ WriteConnClose(r) \/ WriteReset(r) \/ WriteStopSending(r)
  \/ WriteDataBlocked(r) \/ WriteStreamDataBlocked(r) \/ WriteStreamsBlocked(r)
  \/ WriteMaxData(r) \/ WriteMaxStreamData(r) \/ WriteMaxStreams(r)
  \/ WritePathChallenge(r) \/ WritePathResponse(r) \/ WriteHandshake(r)
  \/ SubmitDatagram(r)

-----------------------------------------------------------------------------
(* Sending *)

\* rqc_encode_packet_with_pn: the number, then the Length from it to the end
Encode(p) ==
  [type |-> p.type, items |-> p.items, types |-> p.types, sf |-> p.sf, ackAt |-> p.ackAt,
   noLen |-> p.noLen, size |-> p.size, length |-> Used(p) - HeaderSize(p.type) + PKTNO_LEN,
   num |-> (FirstNumber + Len(wire)) % PnWin, copy |-> p.copy, asked |-> p.asked]

\* rqc_conn_schedule_packets, as far as the congestion window goes
Schedule ==
  /\ send # <<>>
  /\ buf' = Append(buf, Head(send)) /\ send' = Tail(send)
  /\ UNCHANGED <<high, wire, offset, state, writes, asked, acks>>

\* rqc_path_send_buffer_clear: scheduled packets return to the queue
Unschedule ==
  /\ buf # <<>>
  /\ send' = buf \o send /\ buf' = <<>>
  /\ UNCHANGED <<high, wire, offset, state, writes, asked, acks>>

Send ==
  /\ \/ /\ high # <<>>
        /\ wire' = Append(wire, Encode(Head(high))) /\ high' = Tail(high)
        /\ UNCHANGED buf
     \/ /\ high = <<>> /\ buf # <<>>
        /\ wire' = Append(wire, Encode(Head(buf))) /\ buf' = Tail(buf)
        /\ UNCHANGED high
  /\ UNCHANGED <<send, offset, state, writes, asked, acks>>

\* rqc_packet_out_remove_ack_frame: cut the copy where its ACK starts
RemoveAck(p) ==
  IF "ACK" \in p.types
  THEN [p EXCEPT !.items = SubSeq(@, 1, p.ackAt), !.types = @ \ {"ACK"}] ELSE p

AckEliciting(p) == p.types \ {"ACK", "CONNECTION_CLOSE"} # {}

\* rqc_send_queue_copy_to_lost and rqc_send_queue_copy_to_probe, and the copy's sending
Resend(i) ==
  /\ Room
  /\ AckEliciting(wire[i]) /\ "DATAGRAM" \notin wire[i].types
  /\ wire' = Append(wire, Encode([RemoveAck(wire[i]) EXCEPT !.copy = TRUE]))
  /\ UNCHANGED <<send, high, buf, offset, state, writes, asked, acks>>

-----------------------------------------------------------------------------
(* Reading back *)

\* rqc_parse_stream_frame: Length bytes from the frame on, or all that is left
Illegal == [type |-> "illegal"]

ParseStream(p, i) ==
  LET h == p.items[i]
      ends == {j \in i .. Len(p.items) : \A d \in i + 1 .. j : p.items[d].k = "DATA"}
      end == IF h.lenBytes = 0 THEN Len(p.items) ELSE CHOOSE j \in ends : \A e \in ends : e <= j
      body == SubSeq(p.items, i + 1, end)
      right == \A d \in 1 .. Len(body) :
                 /\ body[d].k = "DATA" /\ body[d].id = h.id
                 /\ body[d].off = h.off + SumSizes(SubSeq(body, 1, d - 1))
  IN IF right /\ (h.lenBytes = 0 \/ SumSizes(body) = h.len)
     THEN [type |-> "STREAM", id |-> h.id, off |-> h.off, len |-> SumSizes(body), fin |-> h.fin]
     ELSE Illegal

ParseConnClose(k, v) ==
  IF k = "CONNECTION_CLOSE"
  THEN [type |-> "CONNECTION_CLOSE", app |-> FALSE, err |-> v[1]]
  ELSE [type |-> "CONNECTION_CLOSE", app |-> TRUE, err |-> v[1]]
ParseReset(v) == [type |-> "RESET_STREAM", id |-> v[1], err |-> v[2], final |-> v[3]]
ParseStopSending(v) == [type |-> "STOP_SENDING", id |-> v[1], err |-> v[2]]
ParseDataBlocked(v) == [type |-> "DATA_BLOCKED", limit |-> v[1]]
ParseStreamDataBlocked(v) == [type |-> "STREAM_DATA_BLOCKED", id |-> v[1], limit |-> v[2]]
ParseStreamsBlocked(k, v) ==
  [type |-> "STREAMS_BLOCKED", bidi |-> k = "STREAMS_BLOCKED_BIDI", limit |-> v[1]]
ParseMaxData(v) == [type |-> "MAX_DATA", limit |-> v[1]]
ParseMaxStreamData(v) == [type |-> "MAX_STREAM_DATA", id |-> v[1], limit |-> v[2]]
ParseMaxStreams(k, v) == [type |-> "MAX_STREAMS", bidi |-> k = "MAX_STREAMS_BIDI", limit |-> v[1]]
ParsePathChallenge(v) == [type |-> "PATH_CHALLENGE", data |-> v[1]]
ParsePathResponse(v) == [type |-> "PATH_RESPONSE", data |-> v[1]]
ParseHandshake(v) == [type |-> "HANDSHAKE", alpn |-> v[1], tp |-> v[2], ext |-> v[3]]
\* rqc_datagram_process_frame: a frame above the limit this end announced is refused
ParseDatagram(it) ==
  IF it.size > MaxDatagramFrame THEN Illegal ELSE [type |-> "DATAGRAM", len |-> it.v[1]]

\* rqc_process_frames: dispatch on the type byte
ParseFrame(p, i) ==
  LET it == p.items[i] IN
  CASE it.k = "STREAM" -> ParseStream(p, i)
    [] it.k = "ACK" -> [type |-> "ACK"]
    [] it.k = "PING" -> [type |-> "PING"]
    [] it.k \in {"CONNECTION_CLOSE", "APP_CLOSE"} -> ParseConnClose(it.k, it.v)
    [] it.k = "RESET_STREAM" -> ParseReset(it.v)
    [] it.k = "STOP_SENDING" -> ParseStopSending(it.v)
    [] it.k = "DATA_BLOCKED" -> ParseDataBlocked(it.v)
    [] it.k = "STREAM_DATA_BLOCKED" -> ParseStreamDataBlocked(it.v)
    [] it.k \in {"STREAMS_BLOCKED_BIDI", "STREAMS_BLOCKED_UNI"} -> ParseStreamsBlocked(it.k, it.v)
    [] it.k = "MAX_DATA" -> ParseMaxData(it.v)
    [] it.k = "MAX_STREAM_DATA" -> ParseMaxStreamData(it.v)
    [] it.k \in {"MAX_STREAMS_BIDI", "MAX_STREAMS_UNI"} -> ParseMaxStreams(it.k, it.v)
    [] it.k = "PATH_CHALLENGE" -> ParsePathChallenge(it.v)
    [] it.k = "PATH_RESPONSE" -> ParsePathResponse(it.v)
    [] it.k = "HANDSHAKE" -> ParseHandshake(it.v)
    [] it.k = "DATAGRAM" -> ParseDatagram(it)

\* The pieces a receiver takes for the start of a frame
FrameStarts(p) == {i \in 2 .. Len(p.items) : p.items[i].k # "DATA"}

\* rqc_packet_parse_short_header and rqc_packet_parse_initial: the packet ends
\* where its Length says, which may not be past the end of the datagram
ParsePacket(p) ==
  IF p.length < PKTNO_LEN \/ HeaderSize(p.type) - PKTNO_LEN + p.length # Used(p) THEN {Illegal}
  ELSE {ParseFrame(p, i) : i \in FrameStarts(p)}

\* Exactly half a window below the expected number counts as above
CalcPacketNumberStrict(largest, trunc) ==
  LET win == PnWin
      half == win \div 2
      expected == largest + 1
      candidate == expected - (expected % win) + trunc
  IN IF candidate + half < expected THEN candidate + win
     ELSE IF candidate > expected + half /\ candidate >= win THEN candidate - win
     ELSE candidate

\* rqc_packet_calc_packet_number
CalcPacketNumber(largest, trunc) ==
  LET win == PnWin
      half == win \div 2
      expected == largest + 1
      candidate == expected - (expected % win) + trunc
  IN IF candidate + half <= expected THEN candidate + win
     ELSE IF candidate > expected + half /\ candidate >= win THEN candidate - win
     ELSE candidate

-----------------------------------------------------------------------------
Next ==
  \/ \E s \in Streams, n \in Sizes, fin \in BOOLEAN : (n > 0 \/ fin) /\ WriteStream(s, n, fin)
  \/ \E ranges \in AckRanges : WriteAck(ranges)
  \/ \E r \in Requests : WriteFrame(r)
  \/ Schedule
  \/ Unschedule
  \/ Send
  \/ \E i \in 1 .. Len(wire) : Resend(i)

Spec == Init /\ [][Next]_vars

-----------------------------------------------------------------------------
(* Properties *)

StreamFrame(f) == [type |-> "STREAM", id |-> f.id, off |-> f.off, len |-> f.len, fin |-> f.fin]

\* What the sender believes packet p carries: po_stream_frames and the frames requested
Recorded(p) ==
  {StreamFrame(p.sf[i]) : i \in {j \in DOMAIN p.sf : ~p.sf[j].reset}}
    \union p.asked \union (IF "ACK" \in p.types THEN {[type |-> "ACK"]} ELSE {})

\* The records of p whose frames were written before its ACK
BeforeAck(p) ==
  {StreamFrame(p.sf[i]) : i \in {j \in DOMAIN p.sf : ~p.sf[j].reset /\ p.sf[j].at <= p.ackAt}}

\* Bookkeeping stays within its bounds: at most three stream frame records and
\* one ACK a packet (rqc_packet_out_can_attach_ack), and no packet, its ACK
\* included, above the UDP payload this end allows, whichever of the writers
\* filled it (rqc_get_po_remained_size_with_ack_spc); a DATAGRAM packet, and every
\* packet of a server, not above what the peer allows either.
PacketBounds ==
  /\ state \in [Streams -> {"open", "fin", "reset"}]
  /\ \A p \in Packets :
       /\ p.types # {} /\ Len(p.sf) <= MAX_STREAM_FRAME_IN_PO
       /\ Cardinality({i \in DOMAIN p.items : p.items[i].k = "ACK"})
            = (IF "ACK" \in p.types THEN 1 ELSE 0)
       /\ Used(p) <= (IF Server \/ "DATAGRAM" \in p.types THEN AtMost(LocalUdp, RemoteUdp)
                     ELSE LocalUdp)

\* What the peer reads from a packet is what the sender recorded for it: every
\* STREAM frame with its own bytes, through combined writes, partial writes and
\* an ACK attached in between, and every other frame with its arguments, all
\* within the Length in the header.  A copy without its ACK reads as the frames
\* written before the ACK.
ReadsAsRecorded ==
  \A p \in ToSet(wire) :
    ParsePacket(p) = IF p.copy /\ p.ackAt > 0 THEN BeforeAck(p) \union p.asked ELSE Recorded(p)

\* Every byte a stream accepted is in exactly one original packet, queued or
\* sent, and the FIN is in the frame that ends at the final offset and in no other
\* (rqc_gen_stream_frame clears fin when it shrinks or cuts the write).
EachByteOnce ==
  LET originals == <<send, high, buf, SelectSeq(wire, LAMBDA p : ~p.copy)>>
      f(x) == originals[x[1]][x[2]].sf[x[3]]
      places == {x \in (1 .. 4) \X (1 .. MaxPackets + 1) \X (1 .. 3) :
                   x[2] \in DOMAIN originals[x[1]] /\ x[3] \in DOMAIN originals[x[1]][x[2]].sf}
      frames(s) == {x \in places : f(x).id = s /\ ~f(x).reset}
  IN \A s \in Streams :
       /\ \A x, y \in frames(s) : x = y \/ f(x).off + f(x).len <= f(y).off
                                      \/ f(y).off + f(y).len <= f(x).off
       /\ MapThenSumSet(LAMBDA x : f(x).len, frames(s)) = offset[s]
       /\ \A x \in frames(s) : f(x).fin => f(x).off + f(x).len = offset[s] /\ state[s] # "open"
       /\ state[s] = "fin" => Cardinality({x \in frames(s) : f(x).fin}) = 1

\* A packet number read within half a window of the one expected next is the
\* one sent, whichever packets arrived before it (rqc_packet_calc_packet_number).
NumberRecovered ==
  \A i \in 1 .. Len(wire), largest \in 0 .. FirstNumber + Len(wire) - 1 :
    LET half == PnWin \div 2
        sent == FirstNumber + i - 1
    IN (sent + half > largest + 1 /\ sent <= largest + 1 + half)
         => CalcPacketNumber(largest, wire[i].num) = sent

\* A retransmitted copy carries every stream byte of the packet it stands for:
\* docs/datagram.md has applications "use reliable streams for control messages
\* and completion notifications", so a lost packet's stream data must be sent again.
CopyKeepsData ==
  \A p \in ToSet(wire) :
    p.copy => {StreamFrame(p.sf[i]) : i \in {j \in DOMAIN p.sf : ~p.sf[j].reset}}
                \subseteq ParsePacket(p)
=============================================================================
