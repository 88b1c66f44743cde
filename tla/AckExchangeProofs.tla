-------------------------- MODULE AckExchangeProofs -------------------------
(***************************************************************************)
(* Proofs about the exchange of acknowledgements, for every ACK frequency, *)
(* every set of packet numbers and every limit on the records.             *)
(***************************************************************************)
EXTENDS AckExchange, RecvRecordProofs

-----------------------------------------------------------------------------
(* The acknowledgement that is owed *)

OwedInv ==
    /\ eliciting \in Nat
    /\ shouldAck \in BOOLEAN
    /\ ackTimer \in BOOLEAN
    /\ AckOwed

\* Recording a packet leaves exactly one of the flag and the timer set.
LEMMA RecordSingleOwed ==
    ASSUME OwedInv, NEW pn \in PktNums, RecordSingle(pn)
    PROVE  OwedInv'
  <1>1. CASE UNCHANGED ackVars
    BY <1>1 DEF OwedInv, AckOwed, ackVars
  <1>2. CASE eliciting' = eliciting + 1 /\ MaybeShouldAck(eliciting + 1, pn # Largest(list'))
    <2>1. eliciting' \in Nat /\ eliciting' > 0 /\ eliciting + 1 > 0
      BY <1>2 DEF OwedInv
    <2>2. CASE shouldAck
      BY <1>2, <2>1, <2>2 DEF OwedInv, AckOwed, MaybeShouldAck
    <2>3. CASE ~shouldAck
      <3>1. PICK now \in BOOLEAN : shouldAck' = now /\ ackTimer' = ~now
        BY <1>2, <2>1, <2>3, AckFrequencyAssumption DEF MaybeShouldAck, OwedInv
      <3> QED
        BY <2>1, <3>1 DEF OwedInv, AckOwed
    <2> QED
      BY <2>2, <2>3
  <1> QED
    BY <1>1, <1>2 DEF RecordSingle

\* Every step preserves what is owed.
LEMMA NextOwed == OwedInv /\ [Next]_vars => OwedInv'
  <1> SUFFICES ASSUME OwedInv, [Next]_vars PROVE OwedInv'
    OBVIOUS
  <1>1. CASE \E pn \in PktNums : RecordSingle(pn)
    BY <1>1, RecordSingleOwed
  <1>2. CASE AckTimeout
    BY <1>2 DEF AckTimeout, OwedInv, AckOwed
  <1>3. CASE WriteAck
    <2>1. shouldAck /\ eliciting' = 0 /\ shouldAck' = FALSE /\ ackTimer' = ackTimer
      BY <1>3, Zenon DEF WriteAck
    <2>2. ackTimer' = FALSE
      BY <2>1, Zenon DEF OwedInv, AckOwed
    <2>3. 0 \in Nat /\ ~(0 > 0)
      OBVIOUS
    <2> QED
      BY <2>1, <2>2, <2>3, Zenon DEF OwedInv, AckOwed
  <1>4. CASE UNCHANGED ackVars
    BY <1>4 DEF ackVars, OwedInv, AckOwed
  <1>5. ASSUME NEW t \in DOMAIN queue, SendFirst(t) PROVE UNCHANGED ackVars
    BY <1>5 DEF SendFirst
  <1>6. ASSUME NEW n, Retransmit(n) \/ Deliver(n) PROVE UNCHANGED ackVars
    BY <1>6 DEF Retransmit, Deliver
  <1>7. ASSUME NEW A, RecvAck(A) PROVE UNCHANGED ackVars
    BY <1>7 DEF RecvAck
  <1>8. WriteData => UNCHANGED ackVars
    BY DEF WriteData
  <1>9. UNCHANGED vars => UNCHANGED ackVars
    BY DEF vars
  <1> QED
    BY <1>1, <1>2, <1>3, <1>4, <1>5, <1>6, <1>7, <1>8, <1>9 DEF Next

\* While a received packet waits for its acknowledgement, either the flag
\* RQC_PATH_FLAG_SHOULD_ACK is set or the ACK timer runs, and not both.
THEOREM OwedAlways == Spec => []AckOwed
  <1>1. Init => OwedInv
    <2>1. 0 \in Nat /\ ~(0 > 0)
      OBVIOUS
    <2> QED
      BY <2>1, Zenon DEF Init, OwedInv, AckOwed
  <1>2. OwedInv => AckOwed
    BY DEF OwedInv
  <1> QED
    BY <1>1, <1>2, NextOwed, PTL DEF Spec

-----------------------------------------------------------------------------
(* What the ACK frames name.  The packets in the queues have to be followed    *)
(* too: an ACK frame is written into a packet before the packet is sent, and   *)
(* the record may have been pruned in between.                                 *)

PktOver(R) == [id : Nat, ack : SUBSET R, largest : Nat]

ExInv ==
    /\ IInv
    /\ queue \in [high : Seq(PktOver(received)), lost : Seq(PktOver(received)),
                  send : Seq(PktOver(received))]
    /\ wire \in Seq(PktOver(received))
    /\ ackSent \in Seq([pn : Nat, largest : Nat])
    /\ ackedAck \in Nat
    /\ written \in Nat
    /\ peerGot \subseteq 0..(Len(wire) - 1)

\* Every ACK frame sent names only packets that were received.
SentAcksReceived == \A i \in DOMAIN wire : wire[i].ack \subseteq received

\* Packets whose ACKs name received packets still do when more are received.
LEMMA PktOverGrows ==
    ASSUME NEW R, NEW T, R \subseteq T, NEW s \in Seq(PktOver(R))
    PROVE  s \in Seq(PktOver(T))
  <1>1. Len(s) \in Nat /\ DOMAIN s = 1..Len(s)
    BY LenProperties
  <1>2. ASSUME NEW i \in 1..Len(s) PROVE s[i] \in PktOver(T)
    <2>1. s[i] \in PktOver(R)
      BY ElementOfSeq
    <2> QED
      BY <2>1 DEF PktOver
  <1>3. s \in [1..Len(s) -> PktOver(T)]
    <2>1. s = [i \in 1..Len(s) |-> s[i]]
      BY <1>1
    <2> QED
      BY <1>2, <2>1
  <1> QED
    BY <1>1, <1>3

\* A packet built from its parts.
LEMMA PacketIsPkt ==
    ASSUME NEW R, NEW id \in Nat, NEW ack \in SUBSET R, NEW largest \in Nat
    PROVE  Packet(id, ack, largest) \in PktOver(R)
  BY DEF Packet, PktOver

\* What the record covers was received, and its largest number is a natural.
LEMMA FrameReceived ==
    ASSUME IInv
    PROVE  {pn \in PktNums : Covers(list, pn)} \subseteq received /\ Largest(list) \in Nat
  <1>1. /\ Len(list) \in Nat
        /\ \A i \in 1..Len(list) : list[i].low \in Nat /\ list[i].high \in Nat
    BY BoundsAreNat DEF IInv, Sound
  <1>2. ASSUME NEW pn \in PktNums, Covers(list, pn) PROVE pn \in received
    <2>1. PICK i \in 1..Len(list) : list[i].low <= pn /\ pn <= list[i].high
      BY <1>2 DEF Covers
    <2>2. pn \in list[i].low..list[i].high
      BY <1>1, <2>1, PktNumsAssumption
    <2> QED
      BY <2>2 DEF IInv, Sound, Within
  <1>3. Largest(list) \in Nat
    <2>1. CASE list = <<>>
      BY <2>1 DEF Largest
    <2>2. CASE list # <<>>
      <3>1. 1 \in 1..Len(list)
        BY <1>1, <2>2 DEF IInv, Sound
      <3> QED
        BY <1>1, <2>2, <3>1 DEF Largest
    <2> QED
      BY <2>1, <2>2
  <1> QED
    BY <1>2, <1>3

\* Steps that leave the record alone leave its invariant alone.
LEMMA KeepIInv == IInv /\ UNCHANGED rrVars => IInv'
  BY DEF rrVars, IInv, Sound, Apart, Within

\* Receiving a packet only adds to what the ACKs may name.
LEMMA RecordSingleEx ==
    ASSUME ExInv, NEW pn \in PktNums, RecordSingle(pn)
    PROVE  ExInv'
  <1>1. IInv' /\ received \subseteq received'
    <2>1. Add(pn) /\ IInv
      BY DEF RecordSingle, ExInv
    <2> QED
      BY <2>1, AddIInv DEF Add
  <1>2. UNCHANGED <<queue, ackSent, ackedAck, written, wire, peerGot>>
    BY DEF RecordSingle, sendVars
  <1>3. wire \in Seq(PktOver(received'))
    BY <1>1, PktOverGrows DEF ExInv
  <1>4. queue \in [high : Seq(PktOver(received')), lost : Seq(PktOver(received')),
                   send : Seq(PktOver(received'))]
    BY <1>1, PktOverGrows DEF ExInv
  <1> QED
    BY <1>1, <1>2, <1>3, <1>4 DEF ExInv

\* The application's data goes into the send queue.
LEMMA WriteDataEx == ASSUME ExInv, WriteData PROVE ExInv'
  <1>1. IInv' /\ received' = received
    BY KeepIInv DEF ExInv, WriteData, rrVars
  <1>2. Packet(written + 1, {}, 0) \in PktOver(received) /\ written + 1 \in Nat
    BY PacketIsPkt DEF ExInv
  <1>3. /\ queue' = [queue EXCEPT !.send = Append(queue.send, Packet(written + 1, {}, 0))]
        /\ written' = written + 1
        /\ UNCHANGED <<ackSent, ackedAck, wire, peerGot>>
    BY DEF WriteData
  <1>4. Append(queue.send, Packet(written + 1, {}, 0)) \in Seq(PktOver(received))
    BY <1>2, AppendProperties DEF ExInv
  <1> QED
    BY <1>1, <1>2, <1>3, <1>4 DEF ExInv

\* The ACK frame names what the record covers, which was received.
LEMMA WriteAckEx == ASSUME ExInv, WriteAck PROVE ExInv'
  <1> DEFINE frame == {pn \in PktNums : Covers(list, pn)}
             alone == Packet(0, frame, Largest(list))
             first == Packet(queue.send[1].id, frame, Largest(list))
             P == PktOver(received)
  <1>1. IInv' /\ received' = received
    BY KeepIInv DEF ExInv, WriteAck, rrVars
  <1>2. frame \subseteq received /\ Largest(list) \in Nat
    BY FrameReceived DEF ExInv
  <1>3. UNCHANGED <<ackSent, ackedAck, written, wire, peerGot>>
    BY DEF WriteAck
  <1>4. /\ queue.high \in Seq(P) /\ queue.lost \in Seq(P) /\ queue.send \in Seq(P)
        /\ queue \in [high : Seq(P), lost : Seq(P), send : Seq(P)]
    BY DEF ExInv
  <1>5. \/ queue.send # <<>> /\ queue' = [queue EXCEPT !.send[1] = first]
        \/ queue' = [queue EXCEPT !.high = Append(queue.high, alone)]
    BY DEF WriteAck
  <1> HIDE DEF frame, P
  <1>6. CASE queue.send # <<>> /\ queue' = [queue EXCEPT !.send[1] = first]
    <2>1. Len(queue.send) \in Nat /\ 1 \in 1..Len(queue.send)
      BY <1>4, <1>6, LenProperties, EmptySeq
    <2>2. queue.send[1] \in P
      BY <1>4, <2>1, ElementOfSeq
    <2>3. first \in P
      BY <1>2, <2>2, PacketIsPkt DEF P, PktOver
    <2> HIDE DEF first
    <2>4. [queue.send EXCEPT ![1] = first] \in Seq(P)
      BY <1>4, <2>1, <2>3, ExceptSeq
    <2>5. queue' = [queue EXCEPT !.send = [queue.send EXCEPT ![1] = first]]
      BY <1>6
    <2>6. queue' \in [high : Seq(P), lost : Seq(P), send : Seq(P)]
      BY <1>4, <2>4, <2>5
    <2> QED
      BY <1>1, <1>3, <2>6 DEF ExInv, P
  <1>7. CASE queue' = [queue EXCEPT !.high = Append(queue.high, alone)]
    <2>1. alone \in P
      BY <1>2, PacketIsPkt DEF P
    <2> HIDE DEF alone
    <2>2. Append(queue.high, alone) \in Seq(P)
      BY <1>4, <2>1, AppendProperties
    <2>3. queue' \in [high : Seq(P), lost : Seq(P), send : Seq(P)]
      BY <1>4, <1>7, <2>2
    <2> QED
      BY <1>1, <1>3, <2>3 DEF ExInv, P
  <1> QED
    BY <1>5, <1>6, <1>7

\* A prefix of the record of sent ACKs is one.
LEMMA SentPrefix ==
    ASSUME NEW S, NEW s \in Seq(S), NEW n \in 0..Len(s)
    PROVE  SubSeq(s, 1, n) \in Seq(S)
  <1>1. Len(s) \in Nat /\ \A i \in 1..Len(s) : s[i] \in S
    BY LenProperties, ElementOfSeq
  <1>2. \A i \in 1..n : s[i] \in S
    BY <1>1
  <1> QED
    BY <1>1, <1>2, SubSeqProperties, Z3

\* The packet sent was in a queue; the record of sent ACKs keeps its type.
LEMMA SendFirstEx ==
    ASSUME ExInv, NEW t \in DOMAIN queue, SendFirst(t)
    PROVE  ExInv'
  <1> DEFINE P == PktOver(received)
             A == [pn : Nat, largest : Nat]
             p == queue[t][1]
  <1>1. IInv' /\ received' = received
    BY KeepIInv DEF ExInv, SendFirst, rrVars
  <1>2. /\ queue[t] \in Seq(P) /\ queue[t] # <<>>
        /\ queue' = [queue EXCEPT ![t] = Tail(queue[t])]
        /\ UNCHANGED <<ackedAck, written, peerGot>>
    BY DEF ExInv, SendFirst
  <1>3. queue \in [high : Seq(P), lost : Seq(P), send : Seq(P)] /\ wire \in Seq(P)
        /\ Len(wire) \in Nat
    BY LenProperties DEF ExInv
  <1> HIDE DEF P
  <1>4. p \in P
    <2>1. 1 \in 1..Len(queue[t])
      BY <1>2, LenProperties, EmptySeq
    <2> QED
      BY <1>2, <2>1, ElementOfSeq
  <1>5. queue' \in [high : Seq(P), lost : Seq(P), send : Seq(P)]
    <2>1. Tail(queue[t]) \in Seq(P)
      BY <1>2, HeadTailProperties
    <2> QED
      BY <1>2, <1>3, <2>1
  <1>6. wire' \in Seq(P) /\ Len(wire') \in Nat /\ Len(wire') >= Len(wire)
    <2>1. wire' = wire \/ wire' = Append(wire, p)
      BY DEF SendFirst
    <2> HIDE DEF p
    <2>2. Append(wire, p) \in Seq(P) /\ Len(Append(wire, p)) = Len(wire) + 1
      BY <1>3, <1>4, AppendProperties
    <2>3. CASE wire' = wire
      BY <1>3, <2>3
    <2>4. CASE wire' = Append(wire, p)
      BY <1>3, <2>2, <2>4
    <2> QED
      BY <2>1, <2>3, <2>4
  <1>7. ackSent' \in Seq(A)
    <2>1. ackSent \in Seq(A) /\ Len(ackSent) \in Nat
      BY LenProperties DEF ExInv
    <2>2. ackSent' = ackSent \/ RecordAckSent(p)
      BY DEF SendFirst
    <2>3. CASE RecordAckSent(p)
      <3> DEFINE n == IF Len(ackSent) < SentCap THEN Len(ackSent) ELSE SentCap - 1
                 new == [pn |-> NextPn, largest |-> p.largest]
      <3>1. n \in 0..Len(ackSent)
        BY <2>1, SentCapAssumption
      <3>2. ackSent' = <<new>> \o SubSeq(ackSent, 1, n)
        BY <2>3 DEF RecordAckSent
      <3>3. new \in A
        BY <1>3, <1>4 DEF NextPn, P, PktOver
      <3> HIDE DEF n, new, A
      <3>4. SubSeq(ackSent, 1, n) \in Seq(A)
        BY <2>1, <3>1, SentPrefix
      <3>5. <<new>> \in Seq(A)
        BY <3>3
      <3> QED
        BY <3>2, <3>4, <3>5, ConcatProperties
    <2> QED
      BY <2>1, <2>2, <2>3
  <1>8. peerGot \subseteq 0..(Len(wire') - 1)
    BY <1>3, <1>6 DEF ExInv
  <1> QED
    BY <1>1, <1>2, <1>5, <1>6, <1>7, <1>8 DEF ExInv, P

\* The copy of a lost packet carries no ACK at all.
LEMMA RetransmitEx ==
    ASSUME ExInv, NEW n \in 0..(NextPn - 1), Retransmit(n)
    PROVE  ExInv'
  <1> DEFINE P == PktOver(received)
             c == StrippedCopy(Sent(n))
  <1>1. IInv' /\ received' = received
    BY KeepIInv DEF ExInv, Retransmit, rrVars
  <1>2. /\ queue' = [queue EXCEPT !.lost = Append(queue.lost, c)]
        /\ UNCHANGED <<ackSent, ackedAck, written, wire, peerGot>>
    BY DEF Retransmit
  <1>3. c \in P
    <2>1. Sent(n) \in P
      <3>1. wire \in Seq(P) /\ Len(wire) \in Nat
        BY LenProperties DEF ExInv
      <3>2. n + 1 \in 1..Len(wire)
        BY <3>1 DEF NextPn
      <3> QED
        BY <3>1, <3>2, ElementOfSeq DEF Sent
    <2>2. Sent(n).id \in Nat /\ Sent(n).largest \in Nat
      BY <2>1 DEF PktOver
    <2> QED
      BY <2>2, PacketIsPkt DEF StrippedCopy
  <1>4. queue' \in [high : Seq(P), lost : Seq(P), send : Seq(P)]
    <2> HIDE DEF c, P
    <2>1. queue \in [high : Seq(P), lost : Seq(P), send : Seq(P)]
      BY DEF ExInv, P
    <2>2. Append(queue.lost, c) \in Seq(P)
      BY <1>3, <2>1, AppendProperties
    <2> QED
      BY <1>2, <2>1, <2>2
  <1> QED
    BY <1>1, <1>2, <1>4 DEF ExInv

\* An ACK that arrives prunes the record from some packet number on and leaves
\* what was sent alone.
LEMMA RecvAckEx ==
    ASSUME ExInv, NEW A \in SUBSET peerGot, RecvAck(A)
    PROVE  ExInv'
  <1> DEFINE S == [pn : Nat, largest : Nat]
             acked == {n \in Range(unacked) : n \in A}
             tops(i) == {ackedAck} \cup (IF i = 0 THEN {} ELSE {ackSent[i].largest})
                            \cup {Sent(n).largest : n \in acked}
  <1>1. PICK i \in 0..Len(ackSent) :
          /\ ackSent' = IF i = 0 THEN ackSent ELSE SubSeq(ackSent, 1, i - 1)
          /\ \E top \in tops(i) :
               /\ \A n \in tops(i) : n <= top
               /\ ackedAck' = top
               /\ IF acked # {} /\ top > ackedAck THEN Del(top + 1) ELSE UNCHANGED rrVars
          /\ UNCHANGED <<queue, written, wire, peerGot>>
    BY Zenon DEF RecvAck
  <1>2. PICK top \in tops(i) :
          /\ ackedAck' = top
          /\ Del(top + 1) \/ UNCHANGED rrVars
    BY <1>1, Zenon
  <1>3. ackSent \in Seq(S) /\ Len(ackSent) \in Nat
    BY LenProperties DEF ExInv
  <1>4. top \in Nat
    <2>1. CASE top = ackedAck
      BY <2>1 DEF ExInv
    <2>2. CASE i # 0 /\ top = ackSent[i].largest
      <3>1. ackSent[i] \in S
        <4>1. i \in 1..Len(ackSent)
          BY <1>3, <2>2
        <4> HIDE DEF S
        <4> QED
          BY <1>3, <4>1, ElementOfSeq
      <3> QED
        BY <2>2, <3>1
    <2>3. CASE \E n \in acked : top = Sent(n).largest
      <3>1. PICK n \in A : top = Sent(n).largest
        BY <2>3, Zenon
      <3>2. wire \in Seq(PktOver(received)) /\ Len(wire) \in Nat /\ n \in 0..(Len(wire) - 1)
        BY LenProperties DEF ExInv
      <3>3. n + 1 \in 1..Len(wire)
        BY <3>2
      <3>4. wire[n + 1] \in PktOver(received)
        BY <3>2, <3>3, ElementOfSeq
      <3> QED
        BY <3>1, <3>4 DEF Sent, PktOver
    <2> QED
      BY <2>1, <2>2, <2>3, Zenon
  <1>5. IInv' /\ received' = received
    <2>1. IInv /\ top + 1 \in Nat
      BY <1>4 DEF ExInv
    <2>2. CASE Del(top + 1)
      BY <2>1, <2>2, DelIInv DEF Del
    <2>3. CASE UNCHANGED rrVars
      BY <2>1, <2>3, KeepIInv DEF rrVars
    <2> QED
      BY <1>2, <2>2, <2>3
  <1>6. ackSent' \in Seq(S)
    <2>1. CASE i = 0
      BY <1>1, <1>3, <2>1
    <2>2. CASE i # 0
      <3>1. i - 1 \in 0..Len(ackSent)
        BY <1>3, <2>2
      <3> HIDE DEF S
      <3>2. SubSeq(ackSent, 1, i - 1) \in Seq(S)
        BY <1>3, <3>1, SentPrefix
      <3> QED
        BY <1>1, <2>2, <3>2
    <2> QED
      BY <2>1, <2>2
  <1>7. UNCHANGED <<queue, written, wire, peerGot>> /\ ackedAck' \in Nat
    BY <1>1, <1>2, <1>4
  <1> HIDE DEF tops, acked
  <1> QED
    BY <1>5, <1>6, <1>7 DEF ExInv

\* Every step preserves the invariant of the exchange.
LEMMA NextEx == ExInv /\ [Next]_vars => ExInv'
  <1> SUFFICES ASSUME ExInv, [Next]_vars PROVE ExInv'
    OBVIOUS
  <1>1. CASE \E pn \in PktNums : RecordSingle(pn)
    BY <1>1, RecordSingleEx
  <1>2. ASSUME UNCHANGED <<rrVars, queue, ackSent, ackedAck, written, wire, peerGot>>
        PROVE  ExInv'
    BY <1>2, KeepIInv DEF ExInv, rrVars
  <1>3. CASE AckTimeout
    BY <1>2, <1>3 DEF AckTimeout, sendVars
  <1>4. CASE WriteData
    BY <1>4, WriteDataEx
  <1>5. CASE WriteAck
    BY <1>5, WriteAckEx
  <1>6. CASE \E t \in DOMAIN queue : SendFirst(t)
    BY <1>6, SendFirstEx
  <1>7. ASSUME NEW n \in 0..(NextPn - 1), Deliver(n) PROVE ExInv'
    <2>1. peerGot' = peerGot \cup {n} /\ n \in 0..(Len(wire) - 1)
      BY <1>7 DEF Deliver, NextPn
    <2>2. UNCHANGED <<rrVars, queue, ackSent, ackedAck, written, wire>>
      BY <1>7 DEF Deliver, sendVars
    <2> QED
      BY <2>1, <2>2, KeepIInv DEF ExInv, rrVars
  <1>8. CASE \E n \in 0..(NextPn - 1) : Retransmit(n) \/ Deliver(n)
    BY <1>7, <1>8, RetransmitEx
  <1>9. CASE \E A \in SUBSET peerGot : RecvAck(A)
    BY <1>9, RecvAckEx
  <1>10. CASE UNCHANGED vars
    BY <1>2, <1>10 DEF vars, sendVars
  <1> QED
    BY <1>1, <1>3, <1>4, <1>5, <1>6, <1>8, <1>9, <1>10 DEF Next

\* A new path satisfies the invariant of the exchange.
LEMMA InitEx == Init => ExInv
  <1> SUFFICES ASSUME Init PROVE ExInv
    OBVIOUS
  <1>1. IInv
    BY InitIInv DEF Init
  <1>2. <<>> \in Seq(PktOver(received)) /\ <<>> \in Seq([pn : Nat, largest : Nat])
    OBVIOUS
  <1> QED
    BY <1>1, <1>2 DEF Init, ExInv

\* No ACK frame that was sent names a packet that was not received, although it
\* was written some time before and the record pruned and evicted meanwhile
\* (rqc_write_ack_to_packets, rqc_send_ctl_on_ack_received).
THEOREM ExchangeAcksReceived == Spec => []SentAcksReceived
  <1>1. ExInv => SentAcksReceived
    <2> SUFFICES ASSUME ExInv, NEW i \in DOMAIN wire PROVE wire[i].ack \subseteq received
      BY DEF SentAcksReceived
    <2>1. wire \in Seq(PktOver(received)) /\ DOMAIN wire = 1..Len(wire)
      BY LenProperties DEF ExInv
    <2>2. wire[i] \in PktOver(received)
      BY <2>1, ElementOfSeq
    <2> QED
      BY <2>2 DEF PktOver
  <1> QED
    BY <1>1, InitEx, NextEx, PTL DEF Spec

\* The ranges stay apart in the exchange as well, where the pruning starts from
\* the packets that carried the ACKs (rqc_send_ctl_on_ack_received).
THEOREM ExchangeApart == Spec => []RangesApart
  <1>1. ExInv => RangesApart
    BY DEF ExInv, IInv, Sound, RangesApart
  <1> QED
    BY <1>1, InitEx, NextEx, PTL DEF Spec
=============================================================================
