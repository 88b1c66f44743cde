----------------------------- MODULE AckExchange ----------------------------
(***************************************************************************)
(* When this endpoint acknowledges, in which packets, and when it forgets: *)
(* the receive record composed with rqc_maybe_should_ack, the ACK timer,   *)
(* rqc_write_ack_to_packets, the record of the ACKs sent and the pruning   *)
(* in rqc_send_ctl_on_ack_received.                                        *)
(*                                                                         *)
(* The peer's packets PktNums are ack-eliciting and come in any order, any *)
(* number of times or never.  This endpoint's packets may be lost; a lost  *)
(* data packet is sent again as a copy without the ACK it carried.  The    *)
(* congestion window and the pacer are abstracted to the choice when a     *)
(* queue is served.                                                        *)
(***************************************************************************)
EXTENDS RecvRecord, FiniteSets

CONSTANTS
    AckFrequency,   \* rqc_get_ack_frequency
    SentCap,        \* capacity of rqc_ack_sent_record_t.ack_sent
    DataCnt,        \* bound: data packets the application writes
    MaxPn,          \* bound: packet numbers 0..MaxPn-1 are used
    MaxOwed         \* bound: packets received since the last ACK was written

ASSUME AckFrequencyAssumption == AckFrequency \in Nat

ASSUME SentCapAssumption == SentCap \in Nat \ {0}

VARIABLES
    eliciting,      \* ctl_ack_eliciting_pkt
    shouldAck,      \* RQC_PATH_FLAG_SHOULD_ACK
    ackTimer,       \* RQC_TIMER_ACK is set
    queue,          \* "high", "lost" and "send" queues (with the path's buffers)
    unacked,        \* sndq_unacked_packets, in order
    doneIds,        \* data acknowledged in some packet
    ackSent,        \* rqc_ack_sent_record_t.ack_sent, newest first
    ackedAck,       \* ctl_largest_acked_ack
    written,        \* data packets written so far
    wire,           \* history: the packets sent, in the order of their numbers
    peerGot         \* history: the numbers of the packets the peer received

ackVars == <<eliciting, shouldAck, ackTimer>>
sendVars == <<queue, unacked, doneIds, ackSent, ackedAck, written, wire>>
vars == <<rrVars, ackVars, sendVars, peerGot>>

\* id 0 is a packet with nothing but an ACK; ack is the set of packet numbers
\* the ACK frame names, {} when there is none; largest is po_largest_ack.
Packet(id, ack, largest) == [id |-> id, ack |-> ack, largest |-> largest]

Init ==
    /\ RRInit
    /\ eliciting = 0 /\ shouldAck = FALSE /\ ackTimer = FALSE
    /\ queue = [high |-> <<>>, lost |-> <<>>, send |-> <<>>]
    /\ unacked = <<>> /\ doneIds = {} /\ ackSent = <<>> /\ ackedAck = 0
    /\ written = 0 /\ wire = <<>> /\ peerGot = {}

NextPn == Len(wire)
Sent(n) == wire[n + 1]

-----------------------------------------------------------------------------
(* Receiving *)

\* Mutants: the timer goes on when the acknowledgement is due; no timer is set.
MaybeShouldAckBoth(n, outOfOrder) ==
    IF shouldAck THEN UNCHANGED <<shouldAck, ackTimer>>
    ELSE /\ shouldAck' = (n > 0 /\ (n >= AckFrequency \/ outOfOrder))
         /\ ackTimer' = (ackTimer \/ n > 0)

MaybeShouldAckNoTimer(n, outOfOrder) ==
    /\ shouldAck' = (shouldAck \/ n >= AckFrequency \/ outOfOrder)
    /\ UNCHANGED ackTimer

\* rqc_maybe_should_ack, after the handshake
MaybeShouldAck(n, outOfOrder) ==
    LET now == n > 0 /\ (n >= AckFrequency \/ outOfOrder)
    IN  IF shouldAck THEN UNCHANGED <<shouldAck, ackTimer>>
        ELSE /\ shouldAck' = now
             /\ ackTimer' = (~now /\ (ackTimer \/ n > 0))

\* rqc_conn_record_single
RecordSingle(pn) ==
    /\ Add(pn)
    /\ \/ Covers(list, pn) /\ UNCHANGED ackVars
       \/ /\ ~Covers(list, pn)
          /\ eliciting < MaxOwed
          /\ eliciting' = eliciting + 1
          /\ MaybeShouldAck(eliciting + 1, pn # Largest(list'))
    /\ UNCHANGED <<sendVars, peerGot>>

\* rqc_timer_ack_timeout
AckTimeout ==
    /\ ackTimer
    /\ ackTimer' = FALSE /\ shouldAck' = TRUE
    /\ UNCHANGED <<rrVars, eliciting, sendVars, peerGot>>

-----------------------------------------------------------------------------
(* Sending *)

WriteData ==
    /\ written < DataCnt
    /\ written' = written + 1
    /\ queue' = [queue EXCEPT !.send = Append(@, Packet(written + 1, {}, 0))]
    /\ UNCHANGED <<rrVars, ackVars, unacked, doneIds, ackSent, ackedAck, wire, peerGot>>

\* rqc_write_ack_to_packets: the ACK rides on the first data packet when that
\* has none yet and has room, or gets a packet of its own.
WriteAck ==
    LET frame == {pn \in PktNums : Covers(list, pn)}
        alone == Packet(0, frame, Largest(list))
    IN  /\ shouldAck /\ list # <<>>
        /\ \/ /\ queue.send # <<>> /\ queue.send[1].ack = {}
              /\ queue' = [queue EXCEPT !.send[1] = Packet(@.id, frame, Largest(list))]
           \/ queue' = [queue EXCEPT !.high = Append(@, alone)]
        /\ eliciting' = 0 /\ shouldAck' = FALSE
        /\ UNCHANGED <<rrVars, ackTimer, unacked, doneIds, ackSent, ackedAck,
                       written, wire, peerGot>>

\* rqc_ack_sent_record_add; the newest replaces the oldest when it is full.
RecordAckSent(p) ==
    LET kept == SubSeq(ackSent, 1, IF Len(ackSent) < SentCap THEN Len(ackSent)
                                                             ELSE SentCap - 1)
    IN  ackSent' = <<[pn |-> NextPn, largest |-> p.largest]>> \o kept

\* The first packet of queue t is sent, or dropped when the data it repeats
\* has been acknowledged meanwhile.
SendFirst(t) ==
    LET p == queue[t][1] IN
    /\ queue[t] # <<>>
    /\ queue' = [queue EXCEPT ![t] = Tail(@)]
    /\ \/ /\ p.id \in doneIds
          /\ UNCHANGED <<unacked, ackSent, wire>>
       \/ /\ p.id \notin doneIds
          /\ NextPn < MaxPn
          /\ wire' = Append(wire, p)
          /\ unacked' = IF p.id = 0 THEN unacked ELSE Append(unacked, NextPn)
          /\ \/ p.largest > 0 /\ RecordAckSent(p)
             \/ UNCHANGED ackSent       \* less than one RTT since the last
    /\ UNCHANGED <<rrVars, ackVars, doneIds, ackedAck, written, peerGot>>

\* rqc_packet_out_copy and rqc_packet_out_remove_ack_frame: po_largest_ack
\* is copied and stays.
StrippedCopy(p) == Packet(p.id, {}, p.largest)

\* A packet is declared lost or is probed.
Retransmit(n) ==
    LET p == Sent(n) IN
    /\ n \in Range(unacked) /\ p.id \notin doneIds
    /\ \A i \in DOMAIN queue.lost : queue.lost[i].id # p.id    \* bound
    /\ queue' = [queue EXCEPT !.lost = Append(@, StrippedCopy(p))]
    /\ UNCHANGED <<rrVars, ackVars, unacked, doneIds, ackSent, ackedAck,
                   written, wire, peerGot>>

\* The network delivers packet n to the peer.
Deliver(n) ==
    /\ n \notin peerGot
    /\ peerGot' = peerGot \cup {n}
    /\ UNCHANGED <<rrVars, ackVars, sendVars>>

-----------------------------------------------------------------------------
(* rqc_send_ctl_on_ack_received, as far as ACKs of ACKs go *)

\* rqc_ack_sent_record_on_ack: i is the index of the newest ACK that arrived,
\* or 0 when none did
NewestAcked(A, i) ==
    /\ i > 0 => ackSent[i].pn \in A
    /\ \A j \in DOMAIN ackSent : (i = 0 \/ j < i) => ackSent[j].pn \notin A

\* The peer acknowledges A.  Nothing is pruned when no packet was waiting for it.
RecvAck(A) ==
    \E i \in 0..Len(ackSent) :
    LET acked == {n \in Range(unacked) : n \in A}
        tops == {ackedAck} \cup (IF i = 0 THEN {} ELSE {ackSent[i].largest})
                    \cup {Sent(n).largest : n \in acked}
    IN  /\ A # {} /\ NewestAcked(A, i)
        /\ ackSent' = IF i = 0 THEN ackSent ELSE SubSeq(ackSent, 1, i - 1)
        /\ doneIds' = doneIds \cup {Sent(n).id : n \in acked}
        /\ unacked' = SelectSeq(unacked, LAMBDA n : Sent(n).id \notin doneIds')
        /\ \E top \in tops :
             /\ \A n \in tops : n <= top
             /\ ackedAck' = top
             /\ IF acked # {} /\ top > ackedAck THEN Del(top + 1) ELSE UNCHANGED rrVars
        /\ UNCHANGED <<ackVars, queue, written, wire, peerGot>>

-----------------------------------------------------------------------------

Next ==
    \/ \E pn \in PktNums : RecordSingle(pn)
    \/ AckTimeout
    \/ WriteData
    \/ WriteAck
    \/ \E t \in DOMAIN queue : SendFirst(t)
    \/ \E n \in 0..(NextPn - 1) : Retransmit(n) \/ Deliver(n)
    \/ \E A \in SUBSET peerGot : RecvAck(A)

Spec == Init /\ [][Next]_vars

\* The ACK timer fires, the engine writes the ACK that is due, and no queue is
\* blocked for ever.
FairSpec ==
    /\ Spec
    /\ WF_vars(AckTimeout) /\ WF_vars(WriteAck)
    /\ \A t \in {"high", "lost", "send"} : WF_vars(SendFirst(t))

-----------------------------------------------------------------------------
(* Properties *)

\* As long as a received packet waits for its acknowledgement one is due or
\* the ACK timer runs, never both; otherwise neither: the flag, the timer and
\* the counter are set and cleared in four different functions.
AckOwed ==
    /\ eliciting > 0 <=> shouldAck \/ ackTimer
    /\ ~(shouldAck /\ ackTimer)

InAckFrame(pn) == \E i \in DOMAIN wire : pn \in wire[i].ack

\* A packet that was recorded is named by an ACK frame that is sent, or has
\* been pruned or evicted from the record by then; or (bound) the packet
\* numbers are used up.
EveryPacketAcked ==
    \A pn \in PktNums :
        pn \in received ~> InAckFrame(pn) \/ ~Covers(list, pn) \/ NextPn = MaxPn
=============================================================================
