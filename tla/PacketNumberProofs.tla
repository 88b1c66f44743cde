------------------------- MODULE PacketNumberProofs -------------------------
(***************************************************************************)
(* Truncated packet numbers are recovered, for every window they are cut   *)
(* to and every number the connection has reached.                         *)
(***************************************************************************)
EXTENDS PacketOut, SequenceTheorems, TLAPS

\* Quotient and remainder of the division by the window.
LEMMA DivMod ==
    ASSUME NEW x \in Nat
    PROVE  /\ x \div PnWin \in Int /\ x % PnWin \in Int
           /\ x = (x \div PnWin) * PnWin + (x % PnWin)
           /\ 0 <= x % PnWin /\ x % PnWin < PnWin
  BY WindowIsEven, SMT

\* A multiple of the window nearer than two windows is at most one away.
LEMMA NearMultiple ==
    ASSUME NEW k \in Int, k * PnWin < 2 * PnWin, -(2 * PnWin) < k * PnWin
    PROVE  k \in {-1, 0, 1}
  <1>1. PnWin \in Nat /\ PnWin > 0
    BY WindowIsEven
  <1>2. k >= 2 => k * PnWin >= 2 * PnWin
    BY <1>1, SMT
  <1>3. k <= -2 => k * PnWin <= -(2 * PnWin)
    BY <1>1, SMT
  <1> QED
    BY <1>1, <1>2, <1>3

\* What the encoding puts in the packet's number, whatever the packet.
LEMMA EncodedNumber ==
    ASSUME NEW p
    PROVE  Encode(p).num = (FirstNumber + Len(wire)) % PnWin
  BY DEF Encode

\* A number within half a window of the expected one is recovered from what is
\* left of it: the candidate in the expected number's window is off by at most
\* one window, and the two comparisons of rqc_packet_calc_packet_number tell
\* the three cases apart.
THEOREM Recovered ==
    ASSUME NEW largest \in Nat, NEW sent \in Nat,
           sent + (PnWin \div 2) > largest + 1,
           sent <= largest + 1 + (PnWin \div 2)
    PROVE  CalcPacketNumber(largest, sent % PnWin) = sent
  <1> DEFINE expected == largest + 1
             a == expected \div PnWin
             b == expected % PnWin
             c == sent \div PnWin
             t == sent % PnWin
             half == PnWin \div 2
             candidate == expected - b + t
  <1>1. PnWin \in Nat /\ PnWin > 0 /\ half \in Nat /\ PnWin = 2 * half
    BY WindowIsEven
  <1>2. /\ a \in Int /\ b \in Int /\ 0 <= b /\ b < PnWin
        /\ expected \in Nat /\ expected = a * PnWin + b
    BY DivMod
  <1>3. c \in Int /\ t \in Int /\ 0 <= t /\ t < PnWin /\ sent = c * PnWin + t
    BY DivMod
  <1>4. sent + half > expected /\ sent <= expected + half
    OBVIOUS
  <1>5. CalcPacketNumber(largest, t)
          = IF candidate + half <= expected THEN candidate + PnWin
            ELSE IF candidate > expected + half /\ candidate >= PnWin THEN candidate - PnWin
            ELSE candidate
    BY DEF CalcPacketNumber
  <1> HIDE DEF expected, a, b, c, t, half
  <1>6. candidate = a * PnWin + t /\ candidate \in Int
    BY <1>1, <1>2, <1>3
  <1>7. PICK k \in Int : k = c - a
    BY <1>2, <1>3
  <1>8. k * PnWin = c * PnWin - a * PnWin
    BY <1>1, <1>2, <1>3, <1>7
  <1>9. sent = candidate + k * PnWin
    BY <1>1, <1>2, <1>3, <1>6, <1>8
  <1> HIDE DEF candidate
  <1>10. k * PnWin < 2 * PnWin /\ -(2 * PnWin) < k * PnWin
    <2>1. k * PnWin = sent - expected + b - t
      BY <1>1, <1>2, <1>3, <1>8
    <2> QED
      BY <1>1, <1>2, <1>3, <1>4, <2>1
  <1>11. k = -1 \/ k = 0 \/ k = 1
    BY <1>10, NearMultiple
  <1>12. \/ sent = candidate - PnWin
         \/ sent = candidate
         \/ sent = candidate + PnWin
    BY <1>1, <1>6, <1>9, <1>11
  <1> QED
    BY <1>1, <1>2, <1>4, <1>5, <1>6, <1>12 DEF t

-----------------------------------------------------------------------------
(* Only the number in a sent packet matters here, so the invariant says nothing *)
(* about the rest of a packet: the queues may hold anything.                    *)

NumInv ==
    /\ \E S : wire \in Seq(S)
    /\ \A i \in 1..Len(wire) : wire[i].num = (FirstNumber + i - 1) % PnWin

\* Sending a packet gives it the next number.
LEMMA AppendEncoded ==
    ASSUME NumInv, NEW p, wire' = Append(wire, Encode(p))
    PROVE  NumInv'
  <1>1. PICK S : wire \in Seq(S)
    BY DEF NumInv
  <1> DEFINE e == Encode(p)
             T == S \cup {e}
  <1>2. Len(wire) \in Nat /\ e \in T /\ FirstNumber \in Nat
    BY <1>1, LenProperties, FirstNumberIsNat
  <1>3. wire \in Seq(T)
    <2>1. DOMAIN wire = 1..Len(wire) /\ \A i \in 1..Len(wire) : wire[i] \in S
      BY <1>1, LenProperties, ElementOfSeq
    <2>2. wire = [i \in 1..Len(wire) |-> wire[i]]
      BY <1>1, <2>1
    <2> HIDE DEF e
    <2>3. wire \in [1..Len(wire) -> T]
      BY <2>1, <2>2
    <2> QED
      BY <1>2, <2>3
  <1>4. e.num = (FirstNumber + Len(wire)) % PnWin
    BY EncodedNumber
  <1> HIDE DEF e, T
  <1>5. /\ wire' \in Seq(T) /\ Len(wire') = Len(wire) + 1
        /\ \A i \in 1..Len(wire) : wire'[i] = wire[i]
        /\ wire'[Len(wire) + 1] = e
    BY <1>2, <1>3, AppendProperties DEF e
  <1>6. ASSUME NEW i \in 1..Len(wire')
        PROVE  wire'[i].num = (FirstNumber + i - 1) % PnWin
    <2>1. CASE i \in 1..Len(wire)
      BY <1>5, <2>1 DEF NumInv
    <2>2. CASE i = Len(wire) + 1
      <3>1. FirstNumber + i - 1 = FirstNumber + Len(wire)
        BY <1>2, <2>2
      <3> QED
        BY <1>4, <1>5, <2>2, <3>1
    <2> QED
      BY <1>2, <1>5, <2>1, <2>2
  <1> QED
    BY <1>5, <1>6 DEF NumInv

\* Writing frames into packets sends nothing.
LEMMA WritersSendNothing ==
    ASSUME NEW r, WriteFrame(r)
    PROVE  UNCHANGED wire
  <1>1. ASSUME NEW p PROVE (Urgent(p) => UNCHANGED wire) /\ (Queued(p) => UNCHANGED wire)
    BY DEF Urgent, Queued
  <1> QED
    BY <1>1, Zenon DEF WriteFrame, WritePing, WriteConnClose, WriteReset, WriteStopSending,
       WriteDataBlocked, WriteStreamDataBlocked, WriteStreamsBlocked, WriteMaxData,
       WriteMaxStreamData, WriteMaxStreams, WritePathChallenge, WritePathResponse,
       WriteHandshake, SubmitDatagram

\* Every step keeps the numbers of the sent packets.
LEMMA NextNum == NumInv /\ [Next]_vars => NumInv'
  <1> SUFFICES ASSUME NumInv, [Next]_vars PROVE NumInv'
    OBVIOUS
  <1>1. CASE UNCHANGED wire
    BY <1>1 DEF NumInv
  <1>2. ASSUME NEW s, NEW n, NEW fin, WriteStream(s, n, fin) PROVE UNCHANGED wire
    BY <1>2, Zenon DEF WriteStream
  <1>3. ASSUME NEW ranges, WriteAck(ranges) PROVE UNCHANGED wire
    BY <1>3, Zenon DEF WriteAck
  <1>4. Schedule \/ Unschedule => UNCHANGED wire
    BY Zenon DEF Schedule, Unschedule
  <1>5. CASE Send
    <2>1. \E p : wire' = Append(wire, Encode(p))
      BY <1>5, Zenon DEF Send
    <2> QED
      BY <2>1, AppendEncoded
  <1>6. CASE \E i \in 1 .. Len(wire) : Resend(i)
    <2>1. \E p : wire' = Append(wire, Encode(p))
      BY <1>6, Zenon DEF Resend
    <2> QED
      BY <2>1, AppendEncoded
  <1>7. UNCHANGED vars => UNCHANGED wire
    BY DEF vars
  <1> QED
    BY <1>1, <1>2, <1>3, <1>4, <1>5, <1>6, <1>7, WritersSendNothing, Zenon DEF Next

\* Whatever is written, scheduled, sent and sent again, in a connection of any
\* age, a packet number read within half a window of the one expected next is
\* the one sent (rqc_packet_encode_packet_number, rqc_packet_calc_packet_number).
THEOREM NumberAlwaysRecovered == Spec => []NumberRecovered
  <1>1. Init => NumInv
    <2> SUFFICES ASSUME Init PROVE NumInv
      OBVIOUS
    <2>1. wire = <<>>
      BY DEF Init
    <2>2. <<>> \in Seq({}) /\ Len(<<>>) = 0
      OBVIOUS
    <2> QED
      BY <2>1, <2>2 DEF NumInv
  <1>2. NumInv => NumberRecovered
    <2> SUFFICES ASSUME NumInv, NEW i \in 1 .. Len(wire),
                        NEW largest \in 0 .. FirstNumber + Len(wire) - 1,
                        FirstNumber + i - 1 + (PnWin \div 2) > largest + 1,
                        FirstNumber + i - 1 <= largest + 1 + (PnWin \div 2)
                 PROVE  CalcPacketNumber(largest, wire[i].num) = FirstNumber + i - 1
      BY DEF NumberRecovered
    <2>1. Len(wire) \in Nat /\ FirstNumber \in Nat
      BY LenProperties, FirstNumberIsNat DEF NumInv
    <2>2. PICK sent \in Nat : sent = FirstNumber + i - 1
      BY <2>1
    <2>3. wire[i].num = sent % PnWin
      BY <2>2 DEF NumInv
    <2>4. largest \in Nat
      BY <2>1
    <2>5. sent + (PnWin \div 2) > largest + 1 /\ sent <= largest + 1 + (PnWin \div 2)
      BY <2>2
    <2>6. CalcPacketNumber(largest, sent % PnWin) = sent
      BY <2>4, <2>5, Recovered
    <2> QED
      BY <2>2, <2>3, <2>6
  <1> QED
    BY <1>1, <1>2, NextNum, PTL DEF Spec
=============================================================================
