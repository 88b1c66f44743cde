---------------------------- MODULE LossRecovery ----------------------------
(***************************************************************************)
(* The sender of one path: the lists of packets of rqc_send_queue.c and    *)
(* rqc_multipath.c, acknowledgement, loss detection and probe timeout of   *)
(* rqc_send_ctl.c and rqc_timer.c, and the sending passes of rqc_conn.c.   *)
(*                                                                         *)
(* A packet_out object carries one payload.  A lost or probed packet stays *)
(* on the unacked list and a copy of it is queued; the copy points at the  *)
(* first packet (po_origin), which counts its copies.  Objects are reused  *)
(* through a free list, so a wrong count or a wrong list is a dangling     *)
(* pointer.                                                                *)
(*                                                                         *)
(* The engine is single threaded.  A handler that walks a list is a        *)
(* sequence of steps, one per iteration, during which `walk' holds the     *)
(* position the loop will visit next and no other handler runs.            *)
(*                                                                         *)
(* All packets have size 1 and are ack-eliciting; the congestion window is *)
(* the constant Cwnd, the pacer may refuse at any time, time is abstracted *)
(* to the order of packet numbers.                                         *)
(***************************************************************************)
EXTENDS Integers, Sequences, FiniteSets, SequencesExt

CONSTANTS
    Po,         \* the packet_out objects
    None,       \* NULL
    StmCnt,     \* packets of the stream; the last carries the FIN
    CtlCnt,     \* packets with another frame that needs repair
    DgmCnt,     \* packets with a DATAGRAM
    Cwnd,       \* congestion window, in packets
    PktThresh,  \* ctl_reordering_packet_threshold
    ProbeCnt,   \* RQC_CONN_PTO_PKT_CNT_MAX
    MaxPn       \* bound: packet numbers 0..MaxPn-1 are used

VARIABLES
    snd,        \* lists, packets and counters of the sender
    walk,       \* the loop that is running, if any
    wire,       \* history: the payload each packet number carried
    acks        \* history: packet numbers acknowledged by the peer

vars == <<snd, walk, wire, acks>>

Stm == {<<"stm", i>> : i \in 1..StmCnt}
Ctl == {<<"ctl", i>> : i \in 1..CtlCnt}
Dgm == {<<"dgm", i>> : i \in 1..DgmCnt}
Rst == <<"rst", 0>>
Png == <<"png", 0>>

Payload == Stm \cup Ctl \cup Dgm \cup {Rst, Png}

\* Mutants: RQC_NEED_REPAIR without RESET_STREAM, and with DATAGRAM.
NeedRepairNoReset(tok) == tok \notin Dgm \cup {Png, Rst}
NeedRepairDatagram(tok) == tok # Png

\* RQC_NEED_REPAIR
NeedRepair(tok) == tok \notin Dgm \cup {Png}

\* The passes of the engine, in the order in which they send.
SendType == <<"probe", "lost", "high", "send">>

Congest(t) == t \in {"lost", "send"}

Unacked == <<"sndq", "unacked">>
Queue(t) == <<"sndq", t>>       \* queues of the connection
Buf(t) == <<"path", t>>         \* path_schedule_buf

ListName == {Unacked} \cup {Queue(t) : t \in ToSet(SendType)}
                     \cup {Buf(t) : t \in ToSet(SendType)}

NewPo(tok) == [tok |-> tok, pn |-> -1, origin |-> None, ref |-> 0,
               inflight |-> FALSE, acked |-> FALSE, sunack |-> FALSE,
               dgram |-> tok \in Dgm]

Idle == [fn |-> "idle"]

Init ==
    /\ snd = [ po       |-> [p \in Po |-> NewPo(Png)],
               list     |-> [l \in ListName |-> <<>>],
               free     |-> Po,
               bytes    |-> 0,          \* ctl_bytes_in_flight
               nextPn   |-> 0,
               largest  |-> -1,         \* ctl_largest_acked
               lossTime |-> -1,         \* ctl_loss_time, as a packet number
               timer    |-> FALSE,      \* RQC_TIMER_LOSS_DETECTION is set
               sUnacked |-> 0,          \* stream_unacked_pkt
               sState   |-> "ready",    \* stream_state_send
               written  |-> {},
               fb       |-> [d \in Dgm |-> "none"] ]
    /\ walk = Idle
    /\ wire = [n \in 0..(MaxPn - 1) |-> None]
    /\ acks = {}

-----------------------------------------------------------------------------
(* Lists *)

Unlink(S, p) ==
    [S EXCEPT !.list = [l \in ListName |-> SelectSeq(S.list[l], LAMBDA x : x # p)]]

PushTail(S, l, p) == [S EXCEPT !.list[l] = Append(@, p)]

\* rqc_send_queue_insert_free.  What a free object holds is dead: it is cleared
\* or overwritten when it is taken again.
InsertFree(S, p) == [S EXCEPT !.free = @ \cup {p}, !.po[p] = NewPo(Png)]

\* The object the next packet is written to: rqc_send_queue_get_packet_out.
Fresh(S) == CHOOSE p \in S.free : TRUE

NewPacket(S, tok, l) ==
    PushTail([S EXCEPT !.po[Fresh(S)] = NewPo(tok), !.free = @ \ {Fresh(S)}],
             l, Fresh(S))

Release(S, p) == InsertFree(Unlink(S, p), p)

First(S, l) == IF S.list[l] = <<>> THEN None ELSE S.list[l][1]

\* The `next' of rqc_list_for_each_safe, read before the body runs.
After(S, l, p) ==
    LET i == CHOOSE j \in DOMAIN S.list[l] : S.list[l][j] = p
    IN  IF i = Len(S.list[l]) THEN None ELSE S.list[l][i + 1]

-----------------------------------------------------------------------------
(* Acknowledgement of one packet *)

DecreaseInflight(S, p) ==
    IF S.po[p].inflight
    THEN [S EXCEPT !.po[p].inflight = FALSE,
                   !.bytes = IF @ > 1 THEN @ - 1 ELSE 0]
    ELSE S

RecordFeedback(S, p, result) ==
    IF S.po[p].dgram
    THEN [S EXCEPT !.po[p].dgram = FALSE, !.fb[S.po[p].tok] = result]
    ELSE S

OriginAcked(S, p) == S.po[p].origin # None /\ S.po[S.po[p].origin].acked

\* Mutant: without first_time_ack.
DecreaseStreamRefEach(S, p) ==
    LET left == IF S.sUnacked = 0 THEN 0 ELSE S.sUnacked - 1
    IN  IF ~S.po[p].sunack THEN S
        ELSE [S EXCEPT !.po[p].sunack = FALSE,
                       !.sUnacked = left,
                       !.sState = IF left = 0 /\ @ = "data_sent" THEN "data_recvd" ELSE @]

\* rqc_conn_decrease_unacked_stream_ref
DecreaseStreamRef(S, p) ==
    LET left == IF S.po[p].acked \/ OriginAcked(S, p) \/ S.sUnacked = 0
                THEN S.sUnacked ELSE S.sUnacked - 1
        first == ~S.po[p].acked /\ ~OriginAcked(S, p)
    IN  IF ~S.po[p].sunack THEN S
        ELSE [S EXCEPT !.po[p].sunack = FALSE,
                       !.sUnacked = left,
                       !.sState = IF first /\ left = 0 /\ @ = "data_sent"
                                  THEN "data_recvd" ELSE @]

\* rqc_send_ctl_on_reset_stream_acked
OnResetAcked(S, p) ==
    IF S.po[p].tok = Rst /\ S.sState = "reset_sent"
    THEN [S EXCEPT !.sState = "reset_recvd"] ELSE S

\* A RESET_STREAM is noticed only while the packet is in flight.
OnPacketAcked(S, p) ==
    LET T == DecreaseStreamRef(RecordFeedback(S, p, "acked"), p)
        U == IF T.po[p].inflight THEN OnResetAcked(DecreaseInflight(T, p), p) ELSE T
        o == S.po[p].origin
    IN  IF o = None THEN [U EXCEPT !.po[p].acked = TRUE]
        ELSE [U EXCEPT !.po[p].acked = TRUE, !.po[o].acked = TRUE]

\* Mutant: the copies of an acknowledged packet are freed with it.
MaybeRemoveFamily(S, p) ==
    LET family == {p} \cup {c \in Po : S.po[c].origin = p}
    IN  FoldSet(LAMBDA c, T : Release(T, c), S, family)

\* Mutant: po_origin_ref_cnt is not consulted.
MaybeRemoveAtOnce(S, p) == Release(S, p)

\* rqc_send_queue_maybe_remove_unacked
MaybeRemoveUnacked(S, p) ==
    LET o == S.po[p].origin
        T == Release(S, p)
    IN  IF o = None
        THEN IF S.po[p].ref # 0 THEN S ELSE T
        ELSE IF S.po[o].ref # 1
             THEN [T EXCEPT !.po[o].ref = @ - 1]
             ELSE Release(DecreaseInflight([T EXCEPT !.po[o].ref = 0], o), o)

\* rqc_send_ctl_indirectly_ack_or_drop_po: p needs no more attention.
Settled(S, p) == S.po[p].acked \/ OriginAcked(S, p)

DropSettled(S, p) ==
    MaybeRemoveUnacked(IF OriginAcked(S, p) THEN OnPacketAcked(S, p) ELSE S, p)

-----------------------------------------------------------------------------
(* Copies *)

\* rqc_packet_out_copy, and the copy goes to queue t.
CopyTo(S, p, t) ==
    LET o == IF S.po[p].origin = None THEN p ELSE S.po[p].origin
        c == Fresh(S)
    IN  PushTail([S EXCEPT !.po = [@ EXCEPT ![c] = [S.po[p] EXCEPT !.ref = 0, !.origin = o],
                                            ![o].ref = @ + 1],
                           !.free = @ \ {c}],
                 Queue(t), c)

\* Mutant: armed for the time threshold only.
SetTimerLossOnly(S) == [S EXCEPT !.timer = S.lossTime # -1]

\* rqc_send_ctl_set_loss_detection_timer
SetTimer(S) == [S EXCEPT !.timer = S.lossTime # -1 \/ S.bytes > 0]

-----------------------------------------------------------------------------
(* The application *)

Update(S, w) == snd' = S /\ walk' = w

\* Bound: n objects are left for the packets the next handler can make.
Room(n) == Cardinality(snd.free) >= n

\* rqc_stream_send, rqc_datagram_send, rqc_conn_send_ping, MAX_DATA and the
\* like: one packet is written to a queue.
Write(tok) ==
    /\ walk = Idle
    /\ tok \notin snd.written
    /\ tok \in Stm => /\ snd.sState \in {"ready", "send"}
                      /\ \A i \in 1..(tok[2] - 1) : <<"stm", i>> \in snd.written
    /\ Room(1)
    /\ Update([NewPacket(snd, tok, Queue(IF tok \in Ctl THEN "high" ELSE "send"))
                   EXCEPT !.written = @ \cup {tok}], Idle)
    /\ UNCHANGED <<wire, acks>>

\* rqc_send_queue_drop_stream_frame_packets: packets of the stream leave all
\* lists; no reference count is consulted.
DropStreamPackets(S) ==
    LET lists == {Unacked} \cup {Queue(t) : t \in {"send", "lost", "probe"}}
                           \cup {Buf(t) : t \in {"send", "lost", "probe"}}
        drop == {p \in UNION {ToSet(S.list[l]) : l \in lists} : S.po[p].tok \in Stm}
        flying == {p \in drop : S.po[p].inflight}
    IN  [S EXCEPT !.list = [l \in ListName |-> SelectSeq(S.list[l], LAMBDA p : p \notin drop)],
                  !.bytes = @ - Cardinality(flying),
                  !.po = [p \in Po |-> IF p \in drop THEN NewPo(Png) ELSE @[p]],
                  !.free = @ \cup drop]

\* rqc_stream_close, or a RESET_STREAM or STOP_SENDING of the peer
CloseStream ==
    /\ walk = Idle
    /\ snd.sState \notin {"reset_sent", "reset_recvd"}
    /\ snd.written \cap Stm # {}
    /\ Room(1)
    /\ Update([NewPacket(DropStreamPackets(snd), Rst, Queue("send"))
                   EXCEPT !.sState = "reset_sent", !.written = @ \cup {Rst}], Idle)
    /\ UNCHANGED <<wire, acks>>

-----------------------------------------------------------------------------
(* Sending: rqc_conn_schedule_packets_to_paths and the three send passes *)

\* path_schedule_bytes
ScheduledBytes(S) == FoldSeq(LAMBDA t, n : n + Len(S.list[Buf(t)]), 0, SendType)

\* rqc_conn_schedule_packets: a prefix of the queue moves to the buffer.
ScheduleQueue(S, t) ==
    LET q == S.list[Queue(t)]
        room == Cwnd - S.bytes - ScheduledBytes(S)
        n == IF ~Congest(t) \/ room >= Len(q) THEN Len(q)
             ELSE IF room > 0 THEN room ELSE 0
    IN  [S EXCEPT !.list[Buf(t)] = @ \o SubSeq(q, 1, n),
                  !.list[Queue(t)] = SubSeq(q, n + 1, Len(q))]

SendWalk(S, i) == [fn |-> "send", ty |-> i, cur |-> First(S, Buf(SendType[i]))]

Schedule ==
    /\ \/ walk.fn = "sched"
       \/ walk = Idle /\ \E l \in ListName \ {Unacked} : snd.list[l] # <<>>
    /\ \E S1 \in {ScheduleQueue(snd, "probe")} :
       \E S2 \in {ScheduleQueue(S1, "lost")} :
       \E S3 \in {ScheduleQueue(S2, "high")} :
       \E S4 \in {ScheduleQueue(S3, "send")} : Update(S4, SendWalk(S4, 1))
    /\ UNCHANGED <<wire, acks>>

SendTo(next) == [walk EXCEPT !.cur = next]
SendBuf == Buf(SendType[walk.ty])

\* rqc_check_acked_or_dropped_pkt
SendSettled ==
    /\ walk.fn = "send" /\ walk.cur # None
    /\ Settled(snd, walk.cur)
    /\ Update(DropSettled(snd, walk.cur), SendTo(After(snd, SendBuf, walk.cur)))
    /\ UNCHANGED <<wire, acks>>

\* The window or the pacer refuses; or (bound) the packet numbers are used up.
SendBlocked ==
    /\ walk.fn = "send" /\ walk.cur # None
    /\ ~Settled(snd, walk.cur)
    /\ Congest(SendType[walk.ty]) \/ snd.nextPn = MaxPn
    /\ Update(snd, SendTo(None))
    /\ UNCHANGED <<wire, acks>>

CanWrite ==
    /\ walk.fn = "send" /\ walk.cur # None
    /\ ~Settled(snd, walk.cur)
    /\ Congest(SendType[walk.ty]) => snd.bytes + 1 <= Cwnd
    /\ snd.nextPn < MaxPn

\* write_socket returns RQC_SOCKET_EAGAIN: the number is spent, the pass ends.
SendAgain ==
    /\ CanWrite
    /\ Update([snd EXCEPT !.po[walk.cur].pn = snd.nextPn, !.nextPn = @ + 1], SendTo(None))
    /\ UNCHANGED <<wire, acks>>

\* rqc_conn_increase_unacked_stream_ref
IncreaseStreamRef(S, p) ==
    IF S.po[p].tok \notin Stm \/ S.po[p].sunack THEN S
    ELSE IF S.po[p].origin # None THEN [S EXCEPT !.po[p].sunack = TRUE]
    ELSE [S EXCEPT !.po[p].sunack = TRUE,
                   !.sUnacked = @ + 1,
                   !.sState = IF @ \notin {"ready", "send"} THEN @
                              ELSE IF S.po[p].tok[2] = StmCnt THEN "data_sent"
                              ELSE "send"]

\* rqc_send_ctl_on_packet_sent; the packet moves to the unacked list.
OnPacketSent(S, p) ==
    LET T == [IncreaseStreamRef(S, p) EXCEPT
                  !.po[p].pn = S.nextPn, !.nextPn = @ + 1,
                  !.po[p].inflight = TRUE, !.bytes = @ + 1]
    IN  PushTail(Unlink(SetTimer(T), p), Unacked, p)

SendOk ==
    /\ CanWrite
    /\ Update(OnPacketSent(snd, walk.cur), SendTo(After(snd, SendBuf, walk.cur)))
    /\ wire' = [wire EXCEPT ![snd.nextPn] = snd.po[walk.cur].tok]
    /\ UNCHANGED acks

SendNextType ==
    /\ walk.fn = "send" /\ walk.cur = None
    /\ Update(snd, IF walk.ty = Len(SendType) THEN Idle ELSE SendWalk(snd, walk.ty + 1))
    /\ UNCHANGED <<wire, acks>>

-----------------------------------------------------------------------------
(* Acknowledgement and loss *)

\* rqc_send_ctl_on_ack_received.  The peer acknowledges what was sent.
RecvAck(A) ==
    /\ walk = Idle
    /\ A # {} /\ \A n \in A : wire[n] # None
    /\ Room(snd.bytes)
    /\ acks' = acks \cup A
    /\ Update(snd, [fn |-> "ack", cur |-> First(snd, Unacked), frame |-> A, hit |-> FALSE])
    /\ UNCHANGED wire

AckStep ==
    LET p == walk.cur
        n == snd.po[p].pn
        S == MaybeRemoveUnacked(OnPacketAcked(
                 [snd EXCEPT !.largest = IF n > @ THEN n ELSE @], p), p)
        next == After(snd, Unacked, p)
    IN  /\ walk.fn = "ack" /\ walk.cur # None
        /\ \/ /\ \A m \in walk.frame : n > m
              /\ Update(snd, [walk EXCEPT !.cur = None])
           \/ /\ n \in walk.frame
              /\ Update(S, [walk EXCEPT !.cur = next, !.hit = TRUE])
           \/ /\ n \notin walk.frame /\ \E m \in walk.frame : m > n
              /\ Update(snd, [walk EXCEPT !.cur = next])
        /\ UNCHANGED <<wire, acks>>

\* rqc_send_ctl_get_lost_sent_pn
LostSentPn(S) == S.largest - PktThresh

\* rqc_send_ctl_detect_lost.  Packets up to thr are lost: those below the
\* packet threshold, and those the clock says are old enough.
DetectWalk(S, thr, then) ==
    [fn |-> "detect", cur |-> First(S, Unacked), thr |-> thr, then |-> then]

AckEnd ==
    /\ walk.fn = "ack" /\ walk.cur = None
    /\ \/ /\ ~walk.hit
          /\ Update(snd, Idle)
       \/ /\ walk.hit
          /\ \E thr \in -1..snd.largest :
                 /\ thr >= LostSentPn(snd)
                 /\ Update([snd EXCEPT !.lossTime = -1], DetectWalk(snd, thr, Idle))
    /\ UNCHANGED <<wire, acks>>

\* A packet is declared lost.
DeclareLost(S, p) ==
    LET T == DecreaseInflight(RecordFeedback(S, p, "lost"), p)
    IN  IF ~S.po[p].inflight THEN S
        ELSE IF NeedRepair(S.po[p].tok) THEN CopyTo(T, p, "lost")
        ELSE Release(T, p)

DetectStep ==
    LET p == walk.cur
        n == snd.po[p].pn
        next == [walk EXCEPT !.cur = After(snd, Unacked, p)]
    IN  /\ walk.fn = "detect" /\ walk.cur # None
        /\ \/ /\ Settled(snd, p)
              /\ Update(DropSettled(snd, p), next)
           \/ /\ ~Settled(snd, p) /\ n > snd.largest
              /\ Update(snd, [walk EXCEPT !.cur = None])
           \/ /\ ~Settled(snd, p) /\ n <= snd.largest /\ n <= walk.thr
              /\ Update(DeclareLost(snd, p), next)
           \/ /\ ~Settled(snd, p) /\ n <= snd.largest /\ n > walk.thr
              /\ Update([snd EXCEPT !.lossTime = IF @ = -1 THEN n ELSE @], next)
        /\ UNCHANGED <<wire, acks>>

DetectEnd ==
    /\ walk.fn = "detect" /\ walk.cur = None
    /\ Update(SetTimer(snd), walk.then)
    /\ UNCHANGED <<wire, acks>>

-----------------------------------------------------------------------------
(* rqc_timer_loss_detection_timeout.  The engine pass that runs the timers *)
(* goes on to schedule and to send.                                        *)

Sched == [fn |-> "sched"]

\* The packet whose time has come is old enough.
LossTimeout ==
    /\ walk = Idle /\ snd.timer /\ snd.lossTime # -1
    /\ Room(snd.bytes)
    /\ \E thr \in snd.lossTime..snd.largest :
           /\ thr >= LostSentPn(snd)
           /\ Update([snd EXCEPT !.lossTime = -1], DetectWalk(snd, thr, Sched))
    /\ UNCHANGED <<wire, acks>>

\* rqc_path_send_one_or_two_ack_elicit_pkts
ProbeTimeout ==
    /\ walk = Idle /\ snd.timer /\ snd.lossTime = -1
    /\ Room(ProbeCnt) /\ snd.nextPn < MaxPn   \* bound
    /\ Update(snd, [fn |-> "pto", last |-> None,
                    cur |-> IF snd.bytes > 0 THEN First(snd, Unacked) ELSE None,
                    left |-> IF snd.bytes > 0 THEN ProbeCnt ELSE 0])
    /\ UNCHANGED <<wire, acks>>

\* Mutant: the probed packet stays in flight.
ProbeInFlight(S, p) == CopyTo(S, p, "probe")

\* rqc_conn_send_probe_pkt
Probe(S, p) == CopyTo(DecreaseInflight(S, p), p, "probe")

ProbeStep ==
    LET p == walk.cur
        next == After(snd, Unacked, p)
    IN  /\ walk.fn = "pto" /\ walk.cur # None
        /\ \/ /\ Settled(snd, p)
              /\ Update(DropSettled(snd, p), [walk EXCEPT !.cur = next])
           \/ /\ ~Settled(snd, p) /\ NeedRepair(snd.po[p].tok)
              /\ Update(Probe(snd, p),
                        [walk EXCEPT !.last = p, !.left = @ - 1,
                                     !.cur = IF walk.left = 1 THEN None ELSE next])
           \/ /\ ~Settled(snd, p) /\ ~NeedRepair(snd.po[p].tok)
              /\ Update(snd, [walk EXCEPT !.cur = next])
        /\ UNCHANGED <<wire, acks>>

\* The rest of the budget: the last packet again, or PINGs.
ProbeMore ==
    /\ walk.fn = "pto" /\ walk.cur = None /\ walk.left > 0
    /\ Update(IF walk.last # None THEN Probe(snd, walk.last)
              ELSE NewPacket(snd, Png, Queue("probe")),
              [walk EXCEPT !.left = @ - 1])
    /\ UNCHANGED <<wire, acks>>

ProbeEnd ==
    /\ walk.fn = "pto" /\ walk.cur = None /\ walk.left = 0
    /\ Update(SetTimer(snd), Sched)
    /\ UNCHANGED <<wire, acks>>

-----------------------------------------------------------------------------

Step == \/ SendSettled \/ SendBlocked \/ SendAgain \/ SendOk \/ SendNextType
        \/ AckStep \/ AckEnd \/ DetectStep \/ DetectEnd
        \/ ProbeStep \/ ProbeMore \/ ProbeEnd

Next == \/ \E tok \in Stm \cup Ctl \cup Dgm : Write(tok)
        \/ CloseStream
        \/ Schedule
        \/ \E A \in SUBSET (0..(MaxPn - 1)) : RecvAck(A)
        \/ LossTimeout \/ ProbeTimeout
        \/ Step

Spec == Init /\ [][Next]_vars

\* A loop that runs goes on.  Every packet and every wakeup ends in an engine
\* pass, which runs the timers that are due and schedules what is queued.  A
\* socket and a pacer that refuse do not refuse for ever.
FairSpec == /\ Spec
            /\ WF_vars(Step) /\ SF_vars(Schedule) /\ SF_vars(SendOk)
            /\ SF_vars(LossTimeout) /\ SF_vars(ProbeTimeout)

-----------------------------------------------------------------------------
(* Properties *)

Live == Po \ snd.free

OnList(l) == ToSet(snd.list[l])

IsAcked(tok) == \E n \in acks : wire[n] = tok

Reset == snd.sState \in {"reset_sent", "reset_recvd"}

\* The fields of the sender hold values of their types. A packet object in use is
\* on exactly one list, once, and a free one on none: the moves between queues,
\* buffers and the unacked list never lose an object and never link it twice. The
\* unacked list is in the order of packet numbers, which the loops of
\* rqc_send_ctl_on_ack_received and rqc_send_ctl_detect_lost rely on when they stop.
TypeOK ==
    /\ snd.po \in [Po -> [tok : Payload, pn : -1..(MaxPn - 1), origin : Po \cup {None},
                          ref : 0..Cardinality(Po), inflight : BOOLEAN, acked : BOOLEAN,
                          sunack : BOOLEAN, dgram : BOOLEAN]]
    /\ snd.bytes \in 0..Cardinality(Po)
    /\ snd.nextPn \in 0..MaxPn
    /\ snd.largest \in -1..(MaxPn - 1) /\ snd.lossTime \in -1..(MaxPn - 1)
    /\ snd.sUnacked \in 0..StmCnt
    /\ snd.sState \in {"ready", "send", "data_sent", "data_recvd", "reset_sent", "reset_recvd"}
    /\ wire \in [0..(MaxPn - 1) -> Payload \cup {None}]
    /\ \A l \in ListName : OnList(l) \subseteq Po /\ IsInjective(snd.list[l])
    /\ \A p \in Po : Cardinality({l \in ListName : p \in OnList(l)})
                         = IF p \in Live THEN 1 ELSE 0
    /\ LET u == snd.list[Unacked]
       IN  \A i, j \in DOMAIN u : i < j => snd.po[u[i]].pn < snd.po[u[j]].pn

\* po_origin never dangles: it names a packet that is itself no copy, still
\* waits on the unacked list, carries the same payload and counts its copies.
\* This is what the comment in rqc_send_ctl_stream_frame_can_drop fears for.
OriginsCounted ==
    \A p \in Live :
        /\ snd.po[p].origin # None =>
               LET o == snd.po[p].origin
               IN  /\ o \in OnList(Unacked) /\ snd.po[o].origin = None
                   /\ snd.po[o].tok = snd.po[p].tok
        /\ snd.po[p].ref = Cardinality({c \in Live : snd.po[c].origin = p})

\* ctl_bytes_in_flight is the size of the packets that are marked in flight,
\* and those wait on the unacked list: nothing is counted twice, given back
\* twice or forgotten, whatever mixture of loss, probe, reset and late
\* acknowledgement happened to the packet.
InflightExact ==
    LET flying == {p \in Live : snd.po[p].inflight}
    IN  snd.bytes = Cardinality(flying) /\ flying \subseteq OnList(Unacked)

\* The lists are sound (TypeOK) also in the middle of a loop, and the position the
\* loop saved before its body ran is still on the list it walks: no iteration
\* frees the packet the next one will read.
SafeWalk ==
    /\ TypeOK
    /\ walk.fn = "send" /\ walk.cur # None => walk.cur \in OnList(SendBuf)
    /\ walk.fn \in {"ack", "detect", "pto"} /\ walk.cur # None
           => walk.cur \in OnList(Unacked)
    /\ walk.fn = "pto" /\ walk.last # None => walk.last \in OnList(Unacked)

\* Data that needs repair is never forgotten: until a packet that carried it
\* is acknowledged or its stream is reset, it is queued or in flight.
NoDataForgotten ==
    \A tok \in snd.written \ Dgm :
        \/ IsAcked(tok) \/ (tok \in Stm /\ Reset)
        \/ \E p \in Live : /\ snd.po[p].tok = tok /\ ~Settled(snd, p)
                           /\ p \notin OnList(Unacked) \/ snd.po[p].inflight

\* stream_unacked_pkt counts payloads, not packets: with all the copies about,
\* the stream reaches "data_recvd" exactly when each part has been acknowledged.
StreamDoneWhenAcked ==
    walk.fn = "idle" /\ ~Reset =>
        (snd.sState = "data_recvd" <=> \A tok \in Stm : IsAcked(tok))

\* docs/datagram.md: no retransmission, and each message reports only its
\* first ACK or suspected loss.
DatagramReportedOnce ==
    [][ \A d \in Dgm :
            /\ snd.fb[d] # "none" => snd'.fb[d] = snd.fb[d]
            /\ snd'.fb[d] = "acked" => IsAcked(d)
            /\ Cardinality({n \in DOMAIN wire' : wire'[n] = d}) <= 1 ]_vars

\* The sender never falls silent: a payload that needs repair is acknowledged,
\* or dropped with its stream, or the packet numbers or objects of the model
\* are used up by trying.
NeverSilent ==
    \A tok \in Stm \cup Ctl :
        tok \in snd.written ~> \/ IsAcked(tok) \/ (tok \in Stm /\ Reset)
                               \/ snd.nextPn = MaxPn \/ ~Room(snd.bytes + ProbeCnt)

=============================================================================
