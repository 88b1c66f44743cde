-------------------------- MODULE FlowControlProofs -------------------------
(***************************************************************************)
(* The limits of flow control, for any number of streams and any windows:  *)
(* what the receiver promises is bounded, the sender keeps to it, and the  *)
(* connection's books agree with those of its streams.                     *)
(***************************************************************************)
EXTENDS FlowControl, TLAPS

\* The largest window the connection's limit may have.
TopWin == Larger(SumWin, (3 * MaxWin) \div 2)

Sender ==
    [off : [Streams -> Nat], can : [Streams -> Nat], sent : Nat, max : Nat,
     blocked : SUBSET Streams, stop : BOOLEAN, reset : SUBSET Streams]

Receiver ==
    [got : [Streams -> SUBSET Nat], top : [Streams -> Nat], read : [Streams -> Nat],
     can : [Streams -> Nat], win : [Streams -> 0..MaxWin], timed : SUBSET Streams,
     opened : SUBSET Streams, recved : Int, dread : Nat, max : Nat, cwin : Nat,
     ctimed : BOOLEAN, reset : SUBSET Streams, err : BOOLEAN]

\* What a frame on its way says is still true when it arrives, however late:
\* data lies below the offset sent, a reset names the final size, and a limit
\* was promised.
Truthful(S, R, f) ==
    /\ f.t = "stream" => f.to <= S.off[f.s]
    /\ f.t = "reset" => f.s \in S.reset /\ f.n = S.off[f.s]
    /\ f.t = "max_stream_data" => f.n <= R.can[f.s]
    /\ f.t = "max_data" => f.n <= R.max

\* Stream s: the sender is within its limit, its limit within the receiver's,
\* and what arrived and was read within what was sent.
StreamKept(S, R, s) ==
    /\ S.off[s] <= S.can[s] /\ S.can[s] <= R.can[s]
    /\ R.top[s] <= S.off[s] /\ R.read[s] <= S.off[s]
    /\ \A b \in R.got[s] : b < S.off[s]
    /\ R.can[s] - R.read[s] <= MaxWin

ConnKept(S, R) ==
    /\ S.sent <= S.max /\ S.max <= R.max
    /\ R.cwin <= TopWin /\ R.max - R.dread <= TopWin

Kept(S, R, N) ==
    /\ S \in Sender /\ R \in Receiver /\ N \subseteq Frame
    /\ \A f \in N : Truthful(S, R, f)
    /\ \A s \in Streams : StreamKept(S, R, s)
    /\ ConnKept(S, R)

FInv == Kept(snd, rcv, net)

\* The windows are naturals, and the bound on the connection's is one.
LEMMA Windows ==
    /\ MaxWin \in Nat /\ InitWin \in Nat /\ MinConnWin \in Nat /\ SumWin \in Nat
    /\ PktSize \in Nat /\ PktSize > 0
    /\ InitStreamWin \in 0..MaxWin
    /\ TopWin \in Nat /\ MaxWin <= TopWin /\ SumWin <= TopWin
    /\ \A w \in 0..MaxWin : (3 * w) \div 2 \in Nat /\ (3 * w) \div 2 <= TopWin
  BY WindowAssumption, SizeAssumption DEF TopWin, Larger, InitStreamWin

\* The endpoints start with the same limits.
LEMMA InitFInv == Init => FInv
  <1> SUFFICES ASSUME Init PROVE FInv
    OBVIOUS
  <1>1. PICK cw \in InitConnWins : /\ snd = [off |-> [s \in Streams |-> 0],
                                             can |-> [s \in Streams |-> InitStreamWin],
                                             sent |-> 0, max |-> cw, blocked |-> {},
                                             stop |-> FALSE, reset |-> {}]
                                   /\ rcv = [got |-> [s \in Streams |-> {}],
                                             top |-> [s \in Streams |-> 0],
                                             read |-> [s \in Streams |-> 0],
                                             can |-> [s \in Streams |-> InitStreamWin],
                                             win |-> [s \in Streams |-> InitStreamWin],
                                             timed |-> {}, opened |-> {}, recved |-> 0,
                                             dread |-> 0, max |-> cw, cwin |-> cw,
                                             ctimed |-> FALSE, reset |-> {}, err |-> FALSE]
                                   /\ net = {}
    BY Zenon DEF Init
  <1>2. cw \in Nat /\ cw <= TopWin
    BY Windows DEF InitConnWins
  <1>3. snd \in Sender
    BY <1>1, <1>2, Windows DEF Sender
  <1>4. rcv \in Receiver
    BY <1>1, <1>2, Windows DEF Receiver
  <1>5. ASSUME NEW s \in Streams PROVE StreamKept(snd, rcv, s)
    <2>1. /\ snd.off[s] = 0 /\ snd.can[s] = InitStreamWin /\ rcv.can[s] = InitStreamWin
          /\ rcv.top[s] = 0 /\ rcv.read[s] = 0 /\ rcv.got[s] = {}
      BY <1>1
    <2> QED
      BY <2>1, Windows DEF StreamKept
  <1>6. ConnKept(snd, rcv)
    BY <1>1, <1>2 DEF ConnKept
  <1> QED
    BY <1>1, <1>3, <1>4, <1>5, <1>6 DEF FInv, Kept

\* A frame stays truthful while offsets and limits only grow and the offset of
\* a reset stream stays.
LEMMA TruthStays ==
    ASSUME NEW S \in Sender, NEW S2 \in Sender, NEW R \in Receiver, NEW R2 \in Receiver,
           NEW f \in Frame, Truthful(S, R, f),
           \A s \in Streams : S.off[s] <= S2.off[s] /\ R.can[s] <= R2.can[s],
           \A s \in S.reset : s \in S2.reset /\ S2.off[s] = S.off[s],
           R.max <= R2.max
    PROVE  Truthful(S2, R2, f)
  <1>1. CASE f.t = "stream"
    <2>1. f.s \in Streams /\ f.to \in Nat /\ f.to <= S.off[f.s]
      BY <1>1 DEF Frame, Truthful
    <2>2. S.off[f.s] \in Nat /\ S2.off[f.s] \in Nat /\ S.off[f.s] <= S2.off[f.s]
      BY <2>1 DEF Sender
    <2> QED
      BY <1>1, <2>1, <2>2 DEF Truthful
  <1>2. CASE f.t = "reset"
    BY <1>2 DEF Truthful
  <1>3. CASE f.t = "max_stream_data"
    <2>1. f.s \in Streams /\ f.n \in Nat /\ f.n <= R.can[f.s]
      BY <1>3 DEF Frame, Truthful
    <2>2. R.can[f.s] \in Nat /\ R2.can[f.s] \in Nat /\ R.can[f.s] <= R2.can[f.s]
      BY <2>1 DEF Receiver
    <2> QED
      BY <1>3, <2>1, <2>2 DEF Truthful
  <1>4. CASE f.t = "max_data"
    <2>1. f.n \in Nat /\ f.n <= R.max
      BY <1>4 DEF Frame, Truthful
    <2>2. R.max \in Nat /\ R2.max \in Nat
      BY DEF Receiver
    <2> QED
      BY <1>4, <2>1, <2>2 DEF Truthful
  <1> QED
    BY <1>1, <1>2, <1>3, <1>4 DEF Truthful

\* The sender writes within both limits or asks for more.
LEMMA SendFInv == ASSUME FInv, NEW s \in Streams, Send(s) PROVE FInv'
  <1>1. /\ snd \in Sender /\ rcv \in Receiver /\ net \subseteq Frame /\ ConnKept(snd, rcv)
        /\ \A f \in net : Truthful(snd, rcv, f)
        /\ \A x \in Streams : StreamKept(snd, rcv, x)
        /\ rcv' = rcv /\ s \notin snd.reset
    BY Zenon DEF FInv, Kept, Send
  <1>2. CASE ~ConnBlocked(snd) /\ ~StreamBlocked(snd, s)
    <2>1. PICK n \in 1..PktSize :
            /\ snd' = [snd EXCEPT !.off[s] = snd.off[s] + n, !.sent = snd.sent + n]
            /\ net' = net \cup {[t |-> "stream", s |-> s,
                                 from |-> snd.off[s], to |-> snd.off[s] + n]}
      BY <1>2, Zenon DEF Send
    <2>2. n \in Nat /\ snd.off[s] \in Nat /\ snd.sent \in Nat /\ n <= PktSize
      BY <1>1, Windows DEF Sender
    <2>3. /\ snd' \in Sender
          /\ snd'.off[s] = snd.off[s] + n /\ \A x \in Streams : x # s => snd'.off[x] = snd.off[x]
          /\ snd'.can = snd.can /\ snd'.sent = snd.sent + n /\ snd'.max = snd.max
          /\ snd'.reset = snd.reset
      <3>1. snd \in Sender /\ snd.off[s] + n \in Nat /\ snd.sent + n \in Nat
        BY <1>1, <2>2
      <3>2. snd' = [snd EXCEPT !.off[s] = snd.off[s] + n, !.sent = snd.sent + n]
        BY <2>1
      <3> QED
        BY <3>1, <3>2 DEF Sender
    <2>4. snd'.sent <= snd.max /\ snd'.off[s] <= snd.can[s]
      BY <1>1, <1>2, <2>2, <2>3, Windows DEF ConnBlocked, StreamBlocked, Sender
    <2>5. ConnKept(snd', rcv)
      BY <1>1, <2>3, <2>4 DEF ConnKept
    <2>6. ASSUME NEW x \in Streams PROVE StreamKept(snd', rcv, x)
      <3>1. CASE x # s
        BY <1>1, <2>3, <3>1 DEF StreamKept
      <3>2. CASE x = s
        <4>1. StreamKept(snd, rcv, s)
          BY <1>1
        <4>2. /\ rcv.can[s] \in Nat /\ rcv.top[s] \in Nat /\ rcv.read[s] \in Nat
              /\ rcv.got[s] \subseteq Nat /\ snd.can[s] \in Nat
          BY <1>1 DEF Receiver, Sender
        <4> QED
          BY <2>2, <2>3, <2>4, <3>2, <4>1, <4>2 DEF StreamKept
      <3> QED
        BY <3>1, <3>2
    <2> DEFINE g == [t |-> "stream", s |-> s, from |-> snd.off[s], to |-> snd.off[s] + n]
    <2>7. g \in Frame
      BY <2>2 DEF Frame
    <2>8. Truthful(snd', rcv, g)
      BY <2>2, <2>3 DEF Truthful
    <2>9. ASSUME NEW f \in net PROVE Truthful(snd', rcv, f)
      <3>1. \A x \in Streams : snd.off[x] <= snd'.off[x] /\ rcv.can[x] <= rcv.can[x]
        BY <1>1, <2>2, <2>3 DEF Sender, Receiver
      <3>2. \A x \in snd.reset : x \in snd'.reset /\ snd'.off[x] = snd.off[x]
        BY <1>1, <2>3 DEF Sender
      <3>3. rcv.max <= rcv.max
        BY <1>1 DEF Receiver
      <3> QED
        BY <1>1, <2>3, <3>1, <3>2, <3>3, TruthStays
    <2> HIDE DEF g
    <2>10. net' = net \cup {g}
      BY <2>1 DEF g
    <2> QED
      BY <1>1, <2>3, <2>5, <2>6, <2>7, <2>8, <2>9, <2>10 DEF FInv, Kept
  <1>3. CASE ConnBlocked(snd) \/ StreamBlocked(snd, s)
    <2>1. /\ snd' = [snd EXCEPT !.stop = snd.stop \/ ConnBlocked(snd),
                                !.blocked = IF StreamBlocked(snd, s) THEN snd.blocked \cup {s}
                                            ELSE snd.blocked]
          /\ net' = net
               \cup (IF ConnBlocked(snd) THEN {ConnFrame("data_blocked", snd.max)} ELSE {})
               \cup (IF StreamBlocked(snd, s)
                     THEN {StreamFrame("stream_data_blocked", s, snd.can[s])} ELSE {})
      BY <1>3, Zenon DEF Send
    <2>2. /\ snd' \in Sender /\ snd'.off = snd.off /\ snd'.can = snd.can
          /\ snd'.sent = snd.sent /\ snd'.max = snd.max /\ snd'.reset = snd.reset
      <3>1. /\ snd \in Sender
            /\ (snd.stop \/ ConnBlocked(snd)) \in BOOLEAN
            /\ (IF StreamBlocked(snd, s) THEN snd.blocked \cup {s} ELSE snd.blocked)
                 \in SUBSET Streams
        BY <1>1, Zenon DEF Sender
      <3> QED
        BY <2>1, <3>1 DEF Sender
    <2>3. \A f : Truthful(snd, rcv, f) => Truthful(snd', rcv, f)
      BY <2>2 DEF Truthful
    <2>4. ConnKept(snd', rcv) /\ \A x \in Streams : StreamKept(snd', rcv, x)
      BY <1>1, <2>2 DEF ConnKept, StreamKept
    <2>5. /\ ConnFrame("data_blocked", snd.max) \in Frame
          /\ Truthful(snd, rcv, ConnFrame("data_blocked", snd.max))
      BY <1>1 DEF ConnFrame, Frame, Truthful, Sender
    <2>6. /\ StreamFrame("stream_data_blocked", s, snd.can[s]) \in Frame
          /\ Truthful(snd, rcv, StreamFrame("stream_data_blocked", s, snd.can[s]))
      BY <1>1 DEF StreamFrame, Frame, Truthful, Sender
    <2>7. \A f \in net' : f \in Frame /\ Truthful(snd, rcv, f)
      BY <1>1, <2>1, <2>5, <2>6
    <2> QED
      BY <1>1, <2>2, <2>3, <2>4, <2>7 DEF FInv, Kept
  <1> QED
    BY <1>2, <1>3

\* A stream that is reset stays where it is.
LEMMA ResetFInv == ASSUME FInv, NEW s \in Streams, Reset(s) PROVE FInv'
  <1>1. snd \in Sender /\ rcv \in Receiver
    BY DEF FInv, Kept
  <1>2. /\ snd' = [snd EXCEPT !.reset = snd.reset \cup {s}]
        /\ net' = net \cup {StreamFrame("reset", s, snd.off[s])}
        /\ rcv' = rcv
    BY DEF Reset
  <1>3. /\ snd' \in Sender /\ snd'.off = snd.off /\ snd'.can = snd.can
        /\ snd'.sent = snd.sent /\ snd'.max = snd.max /\ snd'.reset = snd.reset \cup {s}
    BY <1>1, <1>2 DEF Sender
  <1>4. /\ StreamFrame("reset", s, snd.off[s]) \in Frame
        /\ Truthful(snd', rcv, StreamFrame("reset", s, snd.off[s]))
    BY <1>1, <1>3 DEF StreamFrame, Frame, Truthful, Sender
  <1>5. \A f : Truthful(snd, rcv, f) => Truthful(snd', rcv, f)
    BY <1>3 DEF Truthful
  <1>6. ConnKept(snd', rcv) /\ \A x \in Streams : StreamKept(snd', rcv, x)
    BY <1>3 DEF FInv, Kept, ConnKept, StreamKept
  <1>7. net' \subseteq Frame /\ \A f \in net' : Truthful(snd', rcv, f)
    BY <1>2, <1>4, <1>5 DEF FInv, Kept
  <1> QED
    BY <1>1, <1>2, <1>3, <1>6, <1>7 DEF FInv, Kept

\* A receiver whose limits only grow keeps what its earlier frames promised.
LEMMA ReceiverKept ==
    ASSUME NEW S, NEW R, NEW N, Kept(S, R, N), NEW R2 \in Receiver, NEW N2 \in SUBSET Frame,
           \A f \in N2 : f \in N \/ Truthful(S, R2, f),
           \A s \in Streams : R.can[s] <= R2.can[s] /\ StreamKept(S, R2, s),
           R.max <= R2.max, ConnKept(S, R2)
    PROVE  Kept(S, R2, N2)
  <1>1. S \in Sender /\ R \in Receiver
    BY DEF Kept
  <1>2. ASSUME NEW f \in N2 PROVE Truthful(S, R2, f)
    <2>1. CASE f \in N
      <3>1. f \in Frame /\ Truthful(S, R, f)
        BY <2>1 DEF Kept
      <3>2. /\ \A s \in Streams : S.off[s] <= S.off[s] /\ R.can[s] <= R2.can[s]
            /\ \A s \in S.reset : s \in S.reset /\ S.off[s] = S.off[s]
        BY <1>1 DEF Sender
      <3> QED
        BY <1>1, <3>1, <3>2, TruthStays
    <2> QED
      BY <2>1
  <1> QED
    BY <1>1, <1>2 DEF Kept

\* rqc_stream_recv reads bytes that arrived and so were sent.
LEMMA ReadKept ==
    ASSUME NEW S, NEW R, NEW N, Kept(S, R, N), NEW s \in Streams, NEW n \in Nat,
           Merged(R, s, R.read[s] + n), NEW R2,
           R2 = [R EXCEPT !.read[s] = R.read[s] + n, !.dread = R.dread + n]
    PROVE  Kept(S, R2, N)
  <1>1. S \in Sender /\ R \in Receiver
    BY DEF Kept
  <1>2. /\ R.read[s] \in Nat /\ R.dread \in Nat /\ R.can[s] \in Nat /\ S.off[s] \in Nat
        /\ R.max \in Nat
    BY <1>1 DEF Sender, Receiver
  <1>3. /\ R2 \in Receiver
        /\ R2.got = R.got /\ R2.top = R.top /\ R2.can = R.can /\ R2.max = R.max
        /\ R2.cwin = R.cwin /\ R2.dread = R.dread + n /\ R2.read[s] = R.read[s] + n
        /\ \A x \in Streams : x # s => R2.read[x] = R.read[x]
    <2>1. R.read[s] + n \in Nat /\ R.dread + n \in Nat
      BY <1>2
    <2> QED
      BY <1>1, <2>1 DEF Receiver
  <1>4. StreamKept(S, R, s) /\ ConnKept(S, R)
    BY DEF Kept
  <1>5. R2.read[s] <= S.off[s]
    <2>1. CASE n = 0
      BY <1>2, <1>3, <1>4, <2>1 DEF StreamKept
    <2>2. CASE n > 0
      <3>1. PICK b \in 0..(R.read[s] + n - 1) : b = R.read[s] + n - 1
        BY <1>2, <2>2
      <3>2. b \in R.got[s]
        <4>1. \A x \in Nat : x < R.read[s] + n => x \in R.got[s]
          BY <1>2 DEF Merged
        <4> QED
          BY <1>2, <2>2, <3>1, <4>1
      <3>3. b < S.off[s]
        BY <1>4, <3>2 DEF StreamKept
      <3> QED
        BY <1>2, <1>3, <3>1, <3>3
    <2> QED
      BY <2>1, <2>2
  <1>6. StreamKept(S, R2, s)
    BY <1>2, <1>3, <1>4, <1>5, Windows DEF StreamKept
  <1>7. ASSUME NEW x \in Streams PROVE StreamKept(S, R2, x)
    <2>1. CASE x # s
      BY <1>3, <2>1 DEF Kept, StreamKept
    <2> QED
      BY <1>6, <2>1
  <1>8. ConnKept(S, R2)
    <2>1. R2.max - R2.dread <= TopWin
      BY <1>2, <1>3, <1>4, Windows DEF ConnKept
    <2> QED
      BY <1>3, <1>4, <2>1 DEF ConnKept
  <1>9. R.max <= R2.max /\ \A x \in Streams : R.can[x] <= R2.can[x]
    BY <1>1, <1>3 DEF Receiver
  <1>10. N \in SUBSET Frame
    BY DEF Kept
  <1> QED
    BY <1>3, <1>7, <1>8, <1>9, <1>10, ReceiverKept

\* Raising the limit of a stream to at most the largest window beyond what was
\* read, and saying so.
LEMMA RaiseStream ==
    ASSUME NEW S, NEW R, NEW N, Kept(S, R, N), NEW s \in Streams, NEW R2 \in Receiver,
           R2.got = R.got, R2.top = R.top, R2.read = R.read, R2.max = R.max,
           R2.cwin = R.cwin, R2.dread = R.dread,
           \A x \in Streams : x # s => R2.can[x] = R.can[x],
           R.can[s] <= R2.can[s], R2.can[s] - R2.read[s] <= MaxWin,
           NEW out \in SUBSET {StreamFrame("max_stream_data", s, R2.can[s])}
    PROVE  Kept(S, R2, N \cup out)
  <1>1. S \in Sender /\ R \in Receiver /\ N \subseteq Frame
    BY DEF Kept
  <1>2. S.can[s] \in Nat /\ R.can[s] \in Nat /\ R2.can[s] \in Nat
    BY <1>1 DEF Sender, Receiver
  <1>3. ASSUME NEW x \in Streams PROVE StreamKept(S, R2, x)
    <2>1. StreamKept(S, R, x)
      BY DEF Kept
    <2>2. CASE x # s
      BY <2>1, <2>2 DEF StreamKept
    <2>3. CASE x = s
      BY <1>2, <2>1, <2>3 DEF StreamKept
    <2> QED
      BY <2>2, <2>3
  <1>4. ConnKept(S, R2)
    BY DEF Kept, ConnKept
  <1>5. R.max <= R2.max /\ \A x \in Streams : R.can[x] <= R2.can[x]
    BY <1>1 DEF Receiver
  <1>6. \A f \in out : f \in Frame /\ Truthful(S, R2, f)
    BY <1>2 DEF StreamFrame, Frame, Truthful
  <1>7. N \cup out \in SUBSET Frame /\ \A f \in N \cup out : f \in N \/ Truthful(S, R2, f)
    BY <1>1, <1>6
  <1> QED
    BY <1>3, <1>4, <1>5, <1>7, ReceiverKept

\* Raising the connection's limit within its largest window, and saying so.
LEMMA RaiseConn ==
    ASSUME NEW S, NEW R, NEW N, Kept(S, R, N), NEW R2 \in Receiver,
           R2.got = R.got, R2.top = R.top, R2.read = R.read, R2.can = R.can,
           R.max <= R2.max, R2.cwin <= TopWin, R2.max - R2.dread <= TopWin,
           NEW out \in SUBSET {ConnFrame("max_data", R2.max)}
    PROVE  Kept(S, R2, N \cup out)
  <1>1. S \in Sender /\ R \in Receiver /\ N \subseteq Frame
    BY DEF Kept
  <1>2. S.max \in Nat /\ R.max \in Nat /\ R2.max \in Nat
    BY <1>1 DEF Sender, Receiver
  <1>3. \A x \in Streams : StreamKept(S, R2, x)
    BY DEF Kept, StreamKept
  <1>4. ConnKept(S, R2)
    BY <1>2 DEF Kept, ConnKept
  <1>5. \A x \in Streams : R.can[x] <= R2.can[x]
    BY <1>1 DEF Receiver
  <1>6. \A f \in out : f \in Frame /\ Truthful(S, R2, f)
    BY <1>2 DEF ConnFrame, Frame, Truthful
  <1>7. N \cup out \in SUBSET Frame /\ \A f \in N \cup out : f \in N \/ Truthful(S, R2, f)
    BY <1>1, <1>6
  <1> QED
    BY <1>3, <1>4, <1>5, <1>7, ReceiverKept

\* A grant never moves a limit further than the window beyond what was read.
LEMMA GrantBounded ==
    ASSUME NEW can \in Nat, NEW read \in Nat, NEW w \in Nat, NEW top \in Nat,
           w <= top, can - read <= top
    PROVE  /\ Grant(w, can - read) \in Nat
           /\ can + Grant(w, can - read) - read <= top
  BY DEF Grant

\* The update of a stream's window in rqc_stream_do_recv_flow_ctl.
LEMMA StreamUpdateKept ==
    ASSUME NEW S, NEW R, NEW N, Kept(S, R, N), NEW s \in Streams, NEW u \in StreamUpdates(R, s)
    PROVE  Kept(S, u.r, N \cup u.out)
  <1>1. R \in Receiver /\ StreamKept(S, R, s)
    BY DEF Kept
  <1>2. /\ R.can[s] \in Nat /\ R.read[s] \in Nat /\ R.win[s] \in 0..MaxWin
        /\ R.timed \in SUBSET Streams
    BY <1>1 DEF Receiver
  <1>3. CASE ~StreamLow(R, s)
    <2>1. u.r = R /\ u.out = {}
      BY <1>3 DEF StreamUpdates, Update
    <2> QED
      BY <2>1
  <1>4. CASE StreamLow(R, s)
    <2> DEFINE grow(w) == Grant(w, R.can[s] - R.read[s])
    <2>1. PICK w \in StreamWins(R, s) :
            u = Update([R EXCEPT !.win[s] = w, !.timed = R.timed \cup {s},
                                 !.can[s] = R.can[s] + grow(w)],
                       IF grow(w) = 0 THEN {}
                       ELSE {StreamFrame("max_stream_data", s, R.can[s] + grow(w))})
      BY <1>4, Zenon DEF StreamUpdates
    <2>2. w \in 0..MaxWin
      <3>1. CASE s \in StreamRate
        BY <3>1, Windows DEF StreamWins
      <3>2. CASE s \notin StreamRate
        <4>1. w = R.win[s] \/ w = Smaller(2 * R.win[s], MaxWin)
          BY <3>2 DEF StreamWins
        <4> QED
          BY <1>2, <4>1, Windows DEF Smaller
      <3> QED
        BY <3>1, <3>2
    <2>3. grow(w) \in Nat /\ R.can[s] + grow(w) - R.read[s] <= MaxWin
      <3>1. R.can[s] - R.read[s] <= MaxWin /\ w \in Nat /\ w <= MaxWin /\ MaxWin \in Nat
        BY <1>1, <2>2, Windows DEF StreamKept
      <3> QED
        BY <1>2, <3>1, GrantBounded
    <2> HIDE DEF grow
    <2>4. PICK c \in Nat : c = R.can[s] + grow(w)
      BY <1>2, <2>3
    <2>5. /\ u.r = [R EXCEPT !.win[s] = w, !.timed = R.timed \cup {s}, !.can[s] = c]
          /\ u.out \in SUBSET {StreamFrame("max_stream_data", s, c)}
      BY <2>1, <2>4 DEF Update
    <2>6. /\ u.r \in Receiver
          /\ u.r.got = R.got /\ u.r.top = R.top /\ u.r.read = R.read /\ u.r.max = R.max
          /\ u.r.cwin = R.cwin /\ u.r.dread = R.dread /\ u.r.can[s] = c
          /\ \A x \in Streams : x # s => u.r.can[x] = R.can[x]
      <3>1. /\ R \in Receiver /\ R.timed \cup {s} \in SUBSET Streams
            /\ u.r = [R EXCEPT !.win[s] = w, !.timed = R.timed \cup {s}, !.can[s] = c]
        BY <1>1, <1>2, <2>5
      <3>2. PICK T : T = u.r
        OBVIOUS
      <3>3. T = [R EXCEPT !.win[s] = w, !.timed = R.timed \cup {s}, !.can[s] = c]
        BY <3>1, <3>2
      <3>4. /\ T \in Receiver
            /\ T.got = R.got /\ T.top = R.top /\ T.read = R.read /\ T.max = R.max
            /\ T.cwin = R.cwin /\ T.dread = R.dread /\ T.can[s] = c
            /\ \A x \in Streams : x # s => T.can[x] = R.can[x]
        <4>1. PICK W \in [Streams -> 0..MaxWin] : W = [R.win EXCEPT ![s] = w]
          BY <1>1, <2>2 DEF Receiver
        <4>2. PICK C \in [Streams -> Nat] : C = [R.can EXCEPT ![s] = c]
          BY <1>1 DEF Receiver
        <4>3. T = [R EXCEPT !.win = W, !.timed = R.timed \cup {s}, !.can = C]
          BY <3>3, <4>1, <4>2
        <4>4. C[s] = c /\ \A x \in Streams : x # s => C[x] = R.can[x]
          BY <1>1, <4>2 DEF Receiver
        <4>5. /\ T \in Receiver /\ T.can = C
              /\ T.got = R.got /\ T.top = R.top /\ T.read = R.read /\ T.max = R.max
              /\ T.cwin = R.cwin /\ T.dread = R.dread
          BY <3>1, <4>3 DEF Receiver
        <4> QED
          BY <4>4, <4>5
      <3> QED
        BY <3>2, <3>4
    <2>7. R.can[s] <= c /\ c - R.read[s] <= MaxWin
      BY <1>2, <2>3, <2>4, Windows
    <2>8. /\ R.can[s] <= u.r.can[s] /\ u.r.can[s] - u.r.read[s] <= MaxWin
          /\ u.out \in SUBSET {StreamFrame("max_stream_data", s, u.r.can[s])}
      BY <2>5, <2>6, <2>7
    <2>9. PICK T \in Receiver : T = u.r
      BY <2>6
    <2>10. PICK out \in SUBSET {StreamFrame("max_stream_data", s, T.can[s])} : out = u.out
      BY <2>8, <2>9
    <2>11. /\ T.got = R.got /\ T.top = R.top /\ T.read = R.read /\ T.max = R.max
           /\ T.cwin = R.cwin /\ T.dread = R.dread
           /\ \A x \in Streams : x # s => T.can[x] = R.can[x]
           /\ R.can[s] <= T.can[s] /\ T.can[s] - T.read[s] <= MaxWin
      BY <2>6, <2>8, <2>9
    <2>12. Kept(S, T, N \cup out)
      BY <2>11, RaiseStream, Zenon
    <2> QED
      BY <2>9, <2>10, <2>12
  <1> QED
    BY <1>3, <1>4

\* The update of the connection's window in rqc_stream_do_recv_flow_ctl.
LEMMA ConnUpdateKept ==
    ASSUME NEW S, NEW R, NEW N, Kept(S, R, N), NEW s \in Streams, NEW v \in ConnUpdates(R, s)
    PROVE  Kept(S, v.r, N \cup v.out)
  <1>1. R \in Receiver /\ ConnKept(S, R)
    BY DEF Kept
  <1>2. /\ R.max \in Nat /\ R.dread \in Nat /\ R.cwin \in Nat /\ R.win[s] \in 0..MaxWin
    BY <1>1 DEF Receiver
  <1>3. CASE R.max - R.dread >= R.cwin \div 2
    <2>1. v.r = R /\ v.out = {}
      BY <1>3 DEF ConnUpdates, Update
    <2> QED
      BY <2>1
  <1>4. CASE ~(R.max - R.dread >= R.cwin \div 2)
    <2> DEFINE grow(w) == Grant(w, R.max - R.dread)
    <2>1. PICK w \in ConnWins(R, R.win[s]) :
            v = Update([R EXCEPT !.cwin = w, !.ctimed = TRUE, !.max = R.max + grow(w)],
                       IF grow(w) = 0 THEN {} ELSE {ConnFrame("max_data", R.max + grow(w))})
      BY <1>4, Zenon DEF ConnUpdates
    <2>2. w \in Nat /\ w <= TopWin
      <3>1. CASE ConnRate
        <4>1. w \in MinConnWin..MaxWin
          BY <3>1 DEF ConnWins
        <4> QED
          BY <4>1, Windows
      <3>2. CASE ~ConnRate
        <4>1. PICK g \in {R.cwin, Smaller(2 * R.cwin, MaxWin)} :
                w = IF 2 * g < 3 * R.win[s] THEN (3 * R.win[s]) \div 2 ELSE g
          BY <3>2 DEF ConnWins
        <4>2. g \in Nat /\ g <= TopWin
          BY <1>1, <1>2, Windows DEF Smaller, ConnKept
        <4>3. (3 * R.win[s]) \div 2 \in Nat /\ (3 * R.win[s]) \div 2 <= TopWin
          BY <1>2, Windows
        <4> QED
          BY <4>1, <4>2, <4>3
      <3> QED
        BY <3>1, <3>2
    <2>3. grow(w) \in Nat /\ R.max + grow(w) - R.dread <= TopWin
      <3>1. R.max - R.dread <= TopWin /\ TopWin \in Nat
        BY <1>1, Windows DEF ConnKept
      <3> QED
        BY <1>2, <2>2, <3>1, GrantBounded
    <2> HIDE DEF grow
    <2>4. PICK m \in Nat : m = R.max + grow(w)
      BY <1>2, <2>3
    <2>5. /\ v.r = [R EXCEPT !.cwin = w, !.ctimed = TRUE, !.max = m]
          /\ v.out \in SUBSET {ConnFrame("max_data", m)}
      BY <2>1, <2>4 DEF Update
    <2>6. PICK T : T = v.r
      OBVIOUS
    <2>7. /\ T \in Receiver /\ T.got = R.got /\ T.top = R.top /\ T.read = R.read
          /\ T.can = R.can /\ T.cwin = w /\ T.max = m /\ T.dread = R.dread
      <3>1. T = [R EXCEPT !.cwin = w, !.ctimed = TRUE, !.max = m] /\ R \in Receiver /\ w \in Nat
        BY <1>1, <2>2, <2>5, <2>6
      <3> QED
        BY <3>1 DEF Receiver
    <2>8. R.max <= T.max /\ T.cwin <= TopWin /\ T.max - T.dread <= TopWin
      BY <1>2, <2>2, <2>3, <2>4, <2>7
    <2>9. v.out \in SUBSET {ConnFrame("max_data", T.max)}
      BY <2>5, <2>7
    <2>10. Kept(S, T, N \cup v.out)
      BY <2>7, <2>8, <2>9, RaiseConn
    <2> QED
      BY <2>6, <2>10
  <1> QED
    BY <1>3, <1>4

\* The application reads and both windows may move.
LEMMA ReadFInv == ASSUME FInv, NEW s \in Streams, Read(s) PROVE FInv'
  <1>1. PICK n \in 0..(Total[s] - rcv.read[s]) :
          /\ Merged(rcv, s, rcv.read[s] + n)
          /\ \E u \in StreamUpdates([rcv EXCEPT !.read[s] = rcv.read[s] + n,
                                                !.dread = rcv.dread + n], s) :
             \E v \in ConnUpdates(u.r, s) :
                /\ rcv' = v.r
                /\ net' = net \cup u.out \cup v.out
    BY Zenon DEF Read
  <1>2. PICK R : R = [rcv EXCEPT !.read[s] = rcv.read[s] + n, !.dread = rcv.dread + n]
    OBVIOUS
  <1>3. PICK u \in StreamUpdates(R, s) : \E v \in ConnUpdates(u.r, s) :
          rcv' = v.r /\ net' = net \cup u.out \cup v.out
    BY <1>1, <1>2, Zenon
  <1>4. PICK v \in ConnUpdates(u.r, s) : rcv' = v.r /\ net' = net \cup u.out \cup v.out
    BY <1>3
  <1>5. Kept(snd, R, net)
    <2>1. n \in Nat /\ Kept(snd, rcv, net)
      BY SizeAssumption DEF FInv
    <2> QED
      BY <1>1, <1>2, <2>1, ReadKept
  <1>6. Kept(snd, u.r, net \cup u.out)
    BY <1>5, StreamUpdateKept
  <1>7. Kept(snd, v.r, (net \cup u.out) \cup v.out)
    BY <1>6, ConnUpdateKept
  <1>8. snd' = snd
    BY DEF Read
  <1> QED
    BY <1>4, <1>7, <1>8 DEF FInv

\* The window of a rate limited connection's stream is opened.
LEMMA OpenWindowFInv == ASSUME FInv, NEW s \in Streams, OpenWindow(s) PROVE FInv'
  <1> DEFINE grow(w) == Grant(w, rcv.can[s] - rcv.read[s])
  <1>1. rcv \in Receiver /\ StreamKept(snd, rcv, s) /\ snd' = snd
    BY DEF FInv, Kept, OpenWindow
  <1>2. /\ rcv.can[s] \in Nat /\ rcv.read[s] \in Nat /\ rcv.win[s] \in 0..MaxWin
        /\ rcv.opened \cup {s} \in SUBSET Streams
    BY <1>1 DEF Receiver
  <1>3. PICK w \in IF ~StreamLimit THEN {rcv.win[s]}
                   ELSE IF s \in StreamRate THEN InitWin..MaxWin ELSE {MaxWin} :
          /\ rcv' = [rcv EXCEPT !.opened = rcv.opened \cup {s}, !.win[s] = w,
                                !.can[s] = rcv.can[s] + grow(w)]
          /\ net' = IF grow(w) = 0 THEN net
                    ELSE net \cup {StreamFrame("max_stream_data", s, rcv.can[s] + grow(w))}
    BY Zenon DEF OpenWindow
  <1>4. w \in 0..MaxWin
    BY <1>2, Windows
  <1>5. grow(w) \in Nat /\ rcv.can[s] + grow(w) - rcv.read[s] <= MaxWin
    <2>1. rcv.can[s] - rcv.read[s] <= MaxWin /\ w \in Nat /\ w <= MaxWin /\ MaxWin \in Nat
      BY <1>1, <1>4, Windows DEF StreamKept
    <2> QED
      BY <1>2, <2>1, GrantBounded
  <1> HIDE DEF grow
  <1>6. PICK c \in Nat : c = rcv.can[s] + grow(w)
    BY <1>2, <1>5
  <1>7. PICK out \in SUBSET {StreamFrame("max_stream_data", s, c)} : net' = net \cup out
    <2>1. net' = net \cup {} \/ net' = net \cup {StreamFrame("max_stream_data", s, c)}
      BY <1>3, <1>6
    <2> HIDE DEF grow
    <2>2. /\ {} \in SUBSET {StreamFrame("max_stream_data", s, c)}
          /\ {StreamFrame("max_stream_data", s, c)} \in SUBSET {StreamFrame("max_stream_data", s, c)}
      OBVIOUS
    <2> QED
      BY <2>1, <2>2, Zenon
  <1>8. /\ rcv' \in Receiver /\ rcv'.can[s] = c
        /\ rcv'.got = rcv.got /\ rcv'.top = rcv.top /\ rcv'.read = rcv.read
        /\ rcv'.max = rcv.max /\ rcv'.cwin = rcv.cwin /\ rcv'.dread = rcv.dread
        /\ \A x \in Streams : x # s => rcv'.can[x] = rcv.can[x]
    <2>1. PICK W \in [Streams -> 0..MaxWin] : W = [rcv.win EXCEPT ![s] = w]
      BY <1>1, <1>4 DEF Receiver
    <2>2. PICK C \in [Streams -> Nat] : C = [rcv.can EXCEPT ![s] = c]
      BY <1>1 DEF Receiver
    <2>3. rcv' = [rcv EXCEPT !.opened = rcv.opened \cup {s}, !.win = W, !.can = C]
      BY <1>3, <1>6, <2>1, <2>2
    <2>4. C[s] = c /\ \A x \in Streams : x # s => C[x] = rcv.can[x]
      BY <1>1, <2>2 DEF Receiver
    <2>5. /\ rcv' \in Receiver /\ rcv'.can = C
          /\ rcv'.got = rcv.got /\ rcv'.top = rcv.top /\ rcv'.read = rcv.read
          /\ rcv'.max = rcv.max /\ rcv'.cwin = rcv.cwin /\ rcv'.dread = rcv.dread
      <3>1. rcv \in Receiver
        BY <1>1
      <3> QED
        BY <1>2, <2>3, <3>1 DEF Receiver
    <2> QED
      BY <2>4, <2>5
  <1>9. /\ rcv.can[s] <= rcv'.can[s] /\ rcv'.can[s] - rcv'.read[s] <= MaxWin
        /\ out \in SUBSET {StreamFrame("max_stream_data", s, rcv'.can[s])}
    BY <1>2, <1>5, <1>6, <1>8
  <1>10. Kept(snd, rcv', net \cup out)
    BY <1>8, <1>9, RaiseStream DEF FInv
  <1> QED
    BY <1>1, <1>7, <1>10 DEF FInv

\* MAX_DATA and MAX_STREAM_DATA raise the sender's limits to promised ones.
LEMMA SenderLimits ==
    ASSUME NEW S, NEW R, NEW N, Kept(S, R, N), NEW f \in N, ToSender(f), NEW S2,
           S2 = IF f.t = "max_data" THEN OnMaxData(S, f.n) ELSE OnMaxStreamData(S, f.s, f.n)
    PROVE  Kept(S2, R, N)
  <1>1. S \in Sender /\ R \in Receiver /\ f \in Frame /\ Truthful(S, R, f)
    BY DEF Kept
  <1>2. CASE f.t = "max_data" /\ f.n > S.max
    <2>1. f.n \in Nat /\ f.n <= R.max /\ S.max \in Nat /\ S.sent \in Nat
      BY <1>1, <1>2 DEF Frame, Truthful, Sender
    <2>2. S2 = [S EXCEPT !.max = f.n, !.stop = FALSE]
      BY <1>2 DEF OnMaxData
    <2>3. /\ S2 \in Sender /\ S2.off = S.off /\ S2.can = S.can /\ S2.sent = S.sent
          /\ S2.reset = S.reset /\ S2.max = f.n
      <3>1. S \in Sender
        BY <1>1
      <3> QED
        BY <2>1, <2>2, <3>1 DEF Sender
    <2>4. ConnKept(S2, R)
      BY <1>2, <2>1, <2>3 DEF Kept, ConnKept
    <2> QED
      BY <2>3, <2>4 DEF Kept, StreamKept, Truthful
  <1>3. CASE f.t = "max_stream_data" /\ f.n > S.can[f.s]
    <2>1. /\ f.s \in Streams /\ f.n \in Nat /\ f.n <= R.can[f.s]
          /\ S.can[f.s] \in Nat /\ S.off[f.s] \in Nat /\ R.can[f.s] \in Nat
      BY <1>1, <1>3 DEF Frame, Truthful, Sender, Receiver
    <2>2. S2 = [S EXCEPT !.can[f.s] = f.n, !.blocked = S.blocked \ {f.s}]
      BY <1>3 DEF OnMaxStreamData
    <2>3. /\ S2 \in Sender /\ S2.off = S.off /\ S2.sent = S.sent /\ S2.max = S.max
          /\ S2.reset = S.reset /\ S2.can[f.s] = f.n
          /\ \A x \in Streams : x # f.s => S2.can[x] = S.can[x]
      <3>1. S \in Sender
        BY <1>1
      <3>2. PICK C \in [Streams -> Nat] : C = [S.can EXCEPT ![f.s] = f.n]
        BY <2>1, <3>1 DEF Sender
      <3>3. C[f.s] = f.n /\ \A x \in Streams : x # f.s => C[x] = S.can[x]
        BY <2>1, <3>1, <3>2 DEF Sender
      <3>4. S2 = [S EXCEPT !.can = C, !.blocked = S.blocked \ {f.s}]
        BY <2>2, <3>2
      <3>5. /\ S2 \in Sender /\ S2.off = S.off /\ S2.sent = S.sent /\ S2.max = S.max
            /\ S2.reset = S.reset /\ S2.can = C
        BY <3>1, <3>4 DEF Sender
      <3> QED
        BY <3>3, <3>5
    <2>4. ASSUME NEW x \in Streams PROVE StreamKept(S2, R, x)
      <3>1. StreamKept(S, R, x)
        BY DEF Kept
      <3>2. CASE x # f.s
        BY <2>3, <3>1, <3>2 DEF StreamKept
      <3>3. CASE x = f.s
        <4>1. /\ S2.off[x] = S.off[x] /\ S2.can[x] = f.n /\ f.n \in Nat /\ f.n <= R.can[x]
              /\ S.off[x] \in Nat /\ S.can[x] \in Nat /\ S.can[x] < f.n
          BY <1>3, <2>1, <2>3, <3>3
        <4>2. S.off[x] <= f.n
          BY <3>1, <4>1 DEF StreamKept
        <4> QED
          BY <3>1, <4>1, <4>2 DEF StreamKept
      <3> QED
        BY <3>2, <3>3
    <2>5. ConnKept(S2, R)
      BY <2>3 DEF Kept, ConnKept
    <2>6. \A g \in N : Truthful(S2, R, g)
      BY <2>3 DEF Kept, Truthful
    <2> QED
      BY <2>3, <2>4, <2>5, <2>6 DEF Kept
  <1>4. CASE S2 = S
    BY <1>4
  <1> QED
    BY <1>2, <1>3, <1>4 DEF ToSender, OnMaxData, OnMaxStreamData

\* Data that arrives was sent (rqc_process_stream_frame).
LEMMA OnStreamKept ==
    ASSUME NEW S, NEW R, NEW N, Kept(S, R, N), NEW f \in N, f.t = "stream"
    PROVE  Kept(S, OnStream(R, f), N)
  <1>1. S \in Sender /\ R \in Receiver /\ f \in Frame /\ Truthful(S, R, f) /\ N \in SUBSET Frame
    BY DEF Kept
  <1>2. f.s \in Streams /\ f.from \in Nat /\ f.to \in Nat /\ f.to <= S.off[f.s]
    BY <1>1 DEF Frame, Truthful
  <1>3. CASE f.s \in R.reset \/ Merged(R, f.s, f.to)
    BY <1>3 DEF OnStream
  <1>4. CASE ~(f.s \in R.reset \/ Merged(R, f.s, f.to))
    <2>1. PICK x \in Streams : x = f.s
      BY <1>2
    <2>2. StreamKept(S, R, x) /\ R.top[x] \in Nat /\ S.off[x] \in Nat
          /\ R.recved \in Int /\ R.got[x] \in SUBSET Nat
      BY <1>1, <2>1 DEF Kept, Sender, Receiver
    <2>3. PICK top \in Nat : top = Larger(R.top[x], f.to) /\ top <= S.off[x]
      BY <1>2, <2>1, <2>2 DEF Larger, StreamKept
    <2>4. PICK recved \in Int : recved = R.recved + top - R.top[x]
      BY <2>2
    <2>5. PICK got \in SUBSET Nat : /\ got = R.got[x] \cup f.from..(f.to - 1)
                                    /\ \A b \in got : b < S.off[x]
      <3>1. \A b \in f.from..(f.to - 1) : b \in Nat /\ b < S.off[x]
        BY <1>2, <2>1, <2>2
      <3>2. \A b \in R.got[x] : b \in Nat /\ b < S.off[x]
        BY <2>2 DEF StreamKept
      <3>3. \A b \in R.got[x] \cup f.from..(f.to - 1) : b \in Nat /\ b < S.off[x]
        BY <3>1, <3>2, Zenon
      <3> QED
        BY <3>3, Zenon
    <2>6. PICK err \in BOOLEAN : err = (R.err \/ recved > R.max \/ top > R.can[x])
      OBVIOUS
    <2>7. OnStream(R, f) = [R EXCEPT !.got[x] = got, !.top[x] = top, !.recved = recved, !.err = err]
      BY <1>4, <2>1, <2>3, <2>4, <2>5, <2>6 DEF OnStream
    <2>8. PICK T : T = OnStream(R, f)
      OBVIOUS
    <2>9. /\ T \in Receiver /\ T.read = R.read /\ T.can = R.can /\ T.max = R.max
          /\ T.cwin = R.cwin /\ T.dread = R.dread /\ T.got[x] = got /\ T.top[x] = top
          /\ \A y \in Streams : y # x => T.got[y] = R.got[y] /\ T.top[y] = R.top[y]
      <3>1. PICK G \in [Streams -> SUBSET Nat] : G = [R.got EXCEPT ![x] = got]
        BY <1>1 DEF Receiver
      <3>2. PICK P \in [Streams -> Nat] : P = [R.top EXCEPT ![x] = top]
        BY <1>1 DEF Receiver
      <3>3. T = [R EXCEPT !.got = G, !.top = P, !.recved = recved, !.err = err] /\ R \in Receiver
        BY <1>1, <2>7, <2>8, <3>1, <3>2
      <3>4. /\ T \in Receiver /\ T.read = R.read /\ T.can = R.can /\ T.max = R.max
            /\ T.cwin = R.cwin /\ T.dread = R.dread /\ T.got = G /\ T.top = P
        BY <3>3 DEF Receiver
      <3>5. /\ G[x] = got /\ P[x] = top
            /\ \A y \in Streams : y # x => G[y] = R.got[y] /\ P[y] = R.top[y]
        BY <1>1, <3>1, <3>2 DEF Receiver
      <3> QED
        BY <3>4, <3>5
    <2>10. ASSUME NEW y \in Streams PROVE StreamKept(S, T, y)
      <3>1. CASE y # x
        BY <2>9, <3>1 DEF Kept, StreamKept
      <3>2. CASE y = x
        BY <2>2, <2>3, <2>5, <2>9, <3>2 DEF StreamKept
      <3> QED
        BY <3>1, <3>2
    <2>11. ConnKept(S, T)
      BY <2>9 DEF Kept, ConnKept
    <2>12. R.max <= T.max /\ \A y \in Streams : R.can[y] <= T.can[y]
      BY <1>1, <2>9 DEF Receiver
    <2>13. Kept(S, T, N)
      BY <1>1, <2>9, <2>10, <2>11, <2>12, ReceiverKept
    <2> QED
      BY <2>8, <2>13
  <1> QED
    BY <1>3, <1>4

\* What a reset gives back was sent and not read: the connection's limit is not
\* nearer to what was read than before (rqc_process_reset_stream_frame).
LEMMA OnResetKept ==
    ASSUME NEW S, NEW R, NEW N, Kept(S, R, N), NEW f \in N, f.t = "reset"
    PROVE  Kept(S, OnReset(R, f.s, f.n), N)
  <1>1. S \in Sender /\ R \in Receiver /\ f \in Frame /\ Truthful(S, R, f) /\ N \in SUBSET Frame
    BY DEF Kept
  <1>2. PICK x \in Streams : x = f.s
    BY <1>1 DEF Frame
  <1>3. PICK final \in Nat : final = f.n /\ final = S.off[x]
    BY <1>1, <1>2 DEF Truthful, Sender
  <1>4. CASE x \in R.reset
    BY <1>2, <1>4 DEF OnReset
  <1>5. CASE x \notin R.reset
    <2>1. /\ StreamKept(S, R, x) /\ R.top[x] \in Nat /\ R.read[x] \in Nat
          /\ R.recved \in Int /\ R.dread \in Nat /\ R.max \in Nat
          /\ R.reset \cup {x} \in SUBSET Streams
      BY <1>1 DEF Kept, Receiver
    <2>2. PICK dread \in Nat : dread = R.dread + final - R.read[x] /\ dread >= R.dread
      BY <1>3, <2>1 DEF StreamKept
    <2>3. PICK recved \in Int : recved = R.recved + final - R.top[x]
      BY <2>1
    <2>4. PICK T : T = OnReset(R, f.s, f.n)
      OBVIOUS
    <2>5. T = [R EXCEPT !.reset = R.reset \cup {x}, !.recved = recved, !.dread = dread,
                        !.got[x] = {}]
      BY <1>2, <1>3, <1>5, <2>2, <2>3, <2>4 DEF OnReset
    <2>6. /\ T \in Receiver /\ T.read = R.read /\ T.can = R.can /\ T.max = R.max
          /\ T.top = R.top /\ T.cwin = R.cwin /\ T.dread = dread
          /\ \A y \in Streams : T.got[y] \subseteq R.got[y]
      <3>1. PICK G \in [Streams -> SUBSET Nat] : G = [R.got EXCEPT ![x] = {}]
        BY <1>1 DEF Receiver
      <3>2. R \in Receiver
        BY <1>1
      <3>3. T = [R EXCEPT !.reset = R.reset \cup {x}, !.recved = recved, !.dread = dread, !.got = G]
        BY <2>5, <3>1
      <3>4. /\ T \in Receiver /\ T.read = R.read /\ T.can = R.can /\ T.max = R.max
            /\ T.top = R.top /\ T.cwin = R.cwin /\ T.dread = dread /\ T.got = G
        BY <2>1, <3>2, <3>3 DEF Receiver
      <3>5. \A y \in Streams : G[y] \subseteq R.got[y]
        BY <3>1, <3>2 DEF Receiver
      <3> QED
        BY <3>4, <3>5
    <2>7. ASSUME NEW y \in Streams PROVE StreamKept(S, T, y)
      <3>1. StreamKept(S, R, y)
        BY DEF Kept
      <3> QED
        BY <2>6, <3>1 DEF StreamKept
    <2>8. ConnKept(S, T)
      <3>1. ConnKept(S, R)
        BY DEF Kept
      <3> QED
        <4>1. TopWin \in Nat /\ dread \in Nat /\ R.max \in Nat /\ R.dread \in Nat /\ dread >= R.dread
          BY <2>1, <2>2, Windows
        <4>2. R.max - dread <= TopWin
          BY <3>1, <4>1 DEF ConnKept
        <4>3. T.max = R.max /\ T.cwin = R.cwin /\ T.dread = dread
          BY <2>6
        <4> QED
          BY <3>1, <4>2, <4>3 DEF ConnKept
    <2>9. R.max <= T.max /\ \A y \in Streams : R.can[y] <= T.can[y]
      BY <1>1, <2>6 DEF Receiver
    <2>10. Kept(S, T, N)
      BY <1>1, <2>6, <2>7, <2>8, <2>9, ReceiverKept
    <2> QED
      BY <2>4, <2>10
  <1> QED
    BY <1>4, <1>5

\* DATA_BLOCKED is answered with a full window beyond what was read.
LEMMA OnDataBlockedKept ==
    ASSUME NEW S, NEW R, NEW N, Kept(S, R, N), NEW limit, NEW u, u = OnDataBlocked(R, limit)
    PROVE  Kept(S, u.r, N \cup u.out)
  <1>1. R \in Receiver /\ ConnKept(S, R)
    BY DEF Kept
  <1>2. R.dread \in Nat /\ R.cwin \in Nat /\ R.max \in Nat /\ R.cwin <= TopWin
    BY <1>1 DEF Receiver, ConnKept
  <1>3. PICK new \in Nat : new = R.dread + R.cwin
    BY <1>2
  <1>4. CASE new <= limit \/ new <= R.max
    <2>1. u.r = R /\ u.out = {}
      BY <1>3, <1>4 DEF OnDataBlocked, Update
    <2> QED
      BY <2>1
  <1>5. CASE ~(new <= limit \/ new <= R.max)
    <2>1. u.r = [R EXCEPT !.max = new] /\ u.out = {ConnFrame("max_data", new)}
      BY <1>3, <1>5 DEF OnDataBlocked, Update
    <2>2. /\ u.r \in Receiver /\ u.r.got = R.got /\ u.r.top = R.top /\ u.r.read = R.read
          /\ u.r.can = R.can /\ u.r.max = new /\ u.r.cwin = R.cwin /\ u.r.dread = R.dread
      <3>1. R \in Receiver
        BY <1>1
      <3> QED
        BY <2>1, <3>1 DEF Receiver
    <2>3. /\ R.max <= u.r.max /\ u.r.cwin <= TopWin /\ u.r.max - u.r.dread <= TopWin
          /\ u.out \in SUBSET {ConnFrame("max_data", u.r.max)}
      BY <1>2, <1>3, <1>5, <2>1, <2>2
    <2> QED
      BY <2>2, <2>3, RaiseConn
  <1> QED
    BY <1>4, <1>5

\* STREAM_DATA_BLOCKED is answered in the same way.
LEMMA OnStreamDataBlockedKept ==
    ASSUME NEW S, NEW R, NEW N, Kept(S, R, N), NEW s \in Streams, NEW limit, NEW u,
           u = OnStreamDataBlocked(R, s, limit)
    PROVE  Kept(S, u.r, N \cup u.out)
  <1>1. R \in Receiver
    BY DEF Kept
  <1>2. R.read[s] \in Nat /\ R.win[s] \in 0..MaxWin /\ R.can[s] \in Nat
    BY <1>1 DEF Receiver
  <1>3. PICK new \in Nat : new = R.read[s] + R.win[s]
    BY <1>2
  <1>4. CASE new <= limit \/ new <= R.can[s]
    <2>1. u.r = R /\ u.out = {}
      BY <1>3, <1>4 DEF OnStreamDataBlocked, Update
    <2> QED
      BY <2>1
  <1>5. CASE ~(new <= limit \/ new <= R.can[s])
    <2>1. u.r = [R EXCEPT !.can[s] = new] /\ u.out = {StreamFrame("max_stream_data", s, new)}
      BY <1>3, <1>5 DEF OnStreamDataBlocked, Update
    <2>2. /\ u.r \in Receiver /\ u.r.got = R.got /\ u.r.top = R.top /\ u.r.read = R.read
          /\ u.r.max = R.max /\ u.r.cwin = R.cwin /\ u.r.dread = R.dread /\ u.r.can[s] = new
          /\ \A x \in Streams : x # s => u.r.can[x] = R.can[x]
      <3>1. R \in Receiver
        BY <1>1
      <3>2. PICK C \in [Streams -> Nat] : C = [R.can EXCEPT ![s] = new]
        BY <3>1 DEF Receiver
      <3>3. u.r = [R EXCEPT !.can = C]
        BY <2>1, <3>2
      <3>4. /\ u.r \in Receiver /\ u.r.got = R.got /\ u.r.top = R.top /\ u.r.read = R.read
            /\ u.r.max = R.max /\ u.r.cwin = R.cwin /\ u.r.dread = R.dread /\ u.r.can = C
        BY <3>1, <3>3 DEF Receiver
      <3>5. C[s] = new /\ \A x \in Streams : x # s => C[x] = R.can[x]
        BY <3>1, <3>2 DEF Receiver
      <3> QED
        BY <3>4, <3>5
    <2>3. /\ R.can[s] <= u.r.can[s] /\ u.r.can[s] - u.r.read[s] <= MaxWin
          /\ u.out \in SUBSET {StreamFrame("max_stream_data", s, u.r.can[s])}
      BY <1>2, <1>3, <1>5, <2>1, <2>2, Windows
    <2>4. PICK T \in Receiver : T = u.r
      BY <2>2
    <2>5. PICK out \in SUBSET {StreamFrame("max_stream_data", s, T.can[s])} : out = u.out
      BY <2>3, <2>4
    <2>6. /\ T.got = R.got /\ T.top = R.top /\ T.read = R.read /\ T.max = R.max
          /\ T.cwin = R.cwin /\ T.dread = R.dread
          /\ \A x \in Streams : x # s => T.can[x] = R.can[x]
          /\ R.can[s] <= T.can[s] /\ T.can[s] - T.read[s] <= MaxWin
      BY <2>2, <2>3, <2>4
    <2>7. Kept(S, T, N \cup out)
      BY <2>6, RaiseStream, Zenon
    <2> QED
      BY <2>4, <2>5, <2>7
  <1> QED
    BY <1>4, <1>5

\* Whatever arrives at the receiver keeps the promises.
LEMMA HandleKept ==
    ASSUME NEW S, NEW R, NEW N, Kept(S, R, N), NEW f \in N, ~ToSender(f), NEW u, u = Handle(R, f)
    PROVE  Kept(S, u.r, N \cup u.out)
  <1>1. f \in Frame
    BY DEF Kept
  <1>2. f.t \in {"stream", "reset", "data_blocked", "stream_data_blocked"}
    BY <1>1 DEF Frame, ToSender
  <1>3. CASE f.t = "stream"
    <2>1. u.r = OnStream(R, f) /\ u.out = {}
      BY <1>3 DEF Handle, Update
    <2>2. N \cup u.out = N
      BY <2>1
    <2> QED
      BY <1>3, <2>1, <2>2, OnStreamKept
  <1>4. CASE f.t = "reset"
    <2>1. u.r = OnReset(R, f.s, f.n) /\ u.out = {}
      BY <1>4 DEF Handle, Update
    <2>2. N \cup u.out = N
      BY <2>1
    <2> QED
      BY <1>4, <2>1, <2>2, OnResetKept
  <1>5. CASE f.t = "data_blocked"
    <2>1. u = OnDataBlocked(R, f.n)
      BY <1>5 DEF Handle
    <2> QED
      BY <2>1, OnDataBlockedKept
  <1>6. CASE f.t = "stream_data_blocked"
    <2>1. u = OnStreamDataBlocked(R, f.s, f.n) /\ f.s \in Streams
      BY <1>1, <1>6 DEF Handle, Frame
    <2> QED
      BY <2>1, OnStreamDataBlockedKept
  <1> QED
    BY <1>2, <1>3, <1>4, <1>5, <1>6

LEMMA DeliverFInv == ASSUME FInv, NEW f \in net, Deliver(f) PROVE FInv'
  <1>1. Kept(snd, rcv, net)
    BY DEF FInv
  <1>2. CASE ToSender(f)
    <2>1. /\ snd' = IF f.t = "max_data" THEN OnMaxData(snd, f.n) ELSE OnMaxStreamData(snd, f.s, f.n)
          /\ rcv' = rcv /\ net' = net
      BY <1>2, Zenon DEF Deliver
    <2>2. Kept(snd', rcv, net)
      BY <1>1, <1>2, <2>1, SenderLimits, Zenon
    <2> QED
      BY <2>1, <2>2 DEF FInv
  <1>3. CASE ~ToSender(f)
    <2>1. PICK u : u = Handle(rcv, f)
      OBVIOUS
    <2>2. rcv' = u.r /\ net' = net \cup u.out /\ snd' = snd
      BY <1>3, <2>1, Zenon DEF Deliver
    <2>3. Kept(snd, u.r, net \cup u.out)
      BY <1>1, <1>3, <2>1, HandleKept, Zenon
    <2> QED
      BY <2>2, <2>3 DEF FInv
  <1> QED
    BY <1>2, <1>3

LEMMA DeliverLastFInv == ASSUME FInv, NEW f \in net, DeliverLast(f) PROVE FInv'
  <1>1. Kept(snd, rcv, net)
    BY DEF FInv
  <1>2. PICK u : u = Handle(rcv, f)
    OBVIOUS
  <1>3. rcv' = u.r /\ net' = (net \ {f}) \cup u.out /\ snd' = snd /\ IsBlocked(f)
    BY <1>2, Zenon DEF DeliverLast
  <1>4. ~ToSender(f)
    BY <1>3 DEF ToSender, IsBlocked
  <1>5. Kept(snd, u.r, net \cup u.out)
    BY <1>1, <1>2, <1>4, HandleKept, Zenon
  <1>6. (net \ {f}) \cup u.out \subseteq net \cup u.out
    OBVIOUS
  <1>7. Kept(snd, u.r, (net \ {f}) \cup u.out)
    BY <1>5, <1>6, Zenon DEF Kept
  <1> QED
    BY <1>3, <1>7 DEF FInv

LEMMA NextFInv == FInv /\ [Next]_vars => FInv'
  <1> SUFFICES ASSUME FInv, [Next]_vars PROVE FInv'
    OBVIOUS
  <1>1. CASE UNCHANGED vars
    BY <1>1 DEF FInv, vars
  <1>2. ASSUME NEW s \in Streams, Send(s) \/ Reset(s) \/ Read(s) \/ OpenWindow(s) PROVE FInv'
    BY <1>2, SendFInv, ResetFInv, ReadFInv, OpenWindowFInv
  <1>3. ASSUME NEW f \in net, Deliver(f) \/ DeliverLast(f) PROVE FInv'
    BY <1>3, DeliverFInv, DeliverLastFInv
  <1> QED
    BY <1>1, <1>2, <1>3, Zenon DEF Next

\* On every stream what arrived is within what the receiver promised, what it
\* promised is within the largest window beyond what was read, and so it is with
\* the connection: stream_max_recv_offset, fc_max_stream_data_can_recv and
\* fc_max_data_can_recv, whichever of reading, opening a stream and a BLOCKED
\* frame raised the limit.
PromisesKept ==
    /\ \A s \in Streams : rcv.top[s] <= rcv.can[s] /\ rcv.can[s] - rcv.read[s] <= MaxWin
    /\ snd.sent <= rcv.max
    /\ rcv.max - rcv.dread <= TopWin

\* rqc_stream_do_send_flow_ctl and rqc_stream_do_recv_flow_ctl keep each other's
\* promises however frames are delayed, reordered and repeated, for any number of
\* streams, any windows and any packet size.
THEOREM FlowKeepsPromises == Spec => []PromisesKept
  <1>1. FInv => PromisesKept
    <2> SUFFICES ASSUME FInv PROVE PromisesKept
      OBVIOUS
    <2>1. snd \in Sender /\ rcv \in Receiver /\ ConnKept(snd, rcv)
      BY DEF FInv, Kept
    <2>2. ASSUME NEW s \in Streams
          PROVE  rcv.top[s] <= rcv.can[s] /\ rcv.can[s] - rcv.read[s] <= MaxWin
      <3>1. StreamKept(snd, rcv, s)
        BY DEF FInv, Kept
      <3>2. rcv.top[s] \in Nat /\ rcv.can[s] \in Nat /\ snd.off[s] \in Nat /\ snd.can[s] \in Nat
        BY <2>1 DEF Sender, Receiver
      <3> QED
        BY <3>1, <3>2 DEF StreamKept
    <2>3. snd.sent \in Nat /\ snd.max \in Nat /\ rcv.max \in Nat
      BY <2>1 DEF Sender, Receiver
    <2> QED
      BY <2>1, <2>2, <2>3 DEF ConnKept, PromisesKept
  <1> QED
    BY InitFInv, NextFInv, <1>1, PTL DEF Spec

-----------------------------------------------------------------------------
(* Sums over the streams *)

\* m gives every set of streams the sum of d over it.  The invariant below says
\* that there is such an m and each step names the next one, so that no fact
\* about sums has to be proved by induction.
Sums(m, d) ==
    /\ m \in [SUBSET Streams -> Nat]
    /\ \A A \in SUBSET Streams, s \in Streams : s \notin A => m[A \cup {s}] = m[A] + d[s]
    /\ \A A \in SUBSET Streams : (\A s \in A : d[s] = 0) => m[A] = 0

\* The sum of d over all streams is n.
HasSum(d, n) == \E m : Sums(m, d) /\ m[Streams] = n

\* The sum of zeros is zero.
LEMMA SumOfNothing ==
    ASSUME NEW d \in [Streams -> Nat], \A s \in Streams : d[s] = 0
    PROVE  HasSum(d, 0)
  <1> DEFINE m == [A \in SUBSET Streams |-> 0]
  <1>1. Sums(m, d)
    BY DEF Sums
  <1>2. m[Streams] = 0
    OBVIOUS
  <1> QED
    BY <1>1, <1>2 DEF HasSum

\* A sum is a natural, at least each of its terms, and zero when they all are.
LEMMA SumAtLeast ==
    ASSUME NEW d \in [Streams -> Nat], NEW n, HasSum(d, n)
    PROVE  /\ n \in Nat
           /\ \A s \in Streams : d[s] <= n
           /\ (\A s \in Streams : d[s] = 0) => n = 0
  <1>1. PICK m : Sums(m, d) /\ m[Streams] = n
    BY DEF HasSum
  <1>2. n \in Nat /\ ((\A s \in Streams : d[s] = 0) => n = 0)
    BY <1>1 DEF Sums
  <1>3. ASSUME NEW s \in Streams PROVE d[s] <= n
    <2>1. (Streams \ {s}) \cup {s} = Streams /\ Streams \ {s} \in SUBSET Streams
      OBVIOUS
    <2>2. m[Streams \ {s}] \in Nat /\ m[Streams] = m[Streams \ {s}] + d[s]
      BY <1>1, <2>1 DEF Sums
    <2> QED
      BY <1>1, <2>2
  <1> QED
    BY <1>2, <1>3

\* One term changes, and the sum by as much.
LEMMA SumChanges ==
    ASSUME NEW d \in [Streams -> Nat], NEW n, HasSum(d, n), NEW s \in Streams,
           NEW d2 \in [Streams -> Nat], \A t \in Streams : t # s => d2[t] = d[t],
           NEW n2, n2 = n + d2[s] - d[s]
    PROVE  HasSum(d2, n2)
  <1> DEFINE v == d2[s]
  <1>0. v \in Nat
    OBVIOUS
  <1>1. PICK m : Sums(m, d) /\ m[Streams] = n
    BY DEF HasSum
  <1>2. d2[s] = v /\ \A t \in Streams : t # s => d2[t] = d[t]
    OBVIOUS
  <1> HIDE DEF v
  <1>3. ASSUME NEW A \in SUBSET Streams, s \in A
        PROVE  m[A] = m[A \ {s}] + d[s] /\ m[A \ {s}] \in Nat
    <2>1. (A \ {s}) \cup {s} = A /\ A \ {s} \in SUBSET Streams
      BY <1>3
    <2> QED
      BY <1>1, <2>1 DEF Sums
  <1> DEFINE m2 == [A \in SUBSET Streams |-> IF s \in A THEN m[A \ {s}] + v ELSE m[A]]
  <1>4. m2 \in [SUBSET Streams -> Nat]
    <2>1. ASSUME NEW A \in SUBSET Streams
          PROVE  (IF s \in A THEN m[A \ {s}] + v ELSE m[A]) \in Nat
      <3>1. m[A] \in Nat
        BY <1>1 DEF Sums
      <3>2. CASE s \in A
        BY <1>0, <1>3, <3>2
      <3>3. CASE s \notin A
        BY <3>1, <3>3
      <3> QED
        BY <3>2, <3>3
    <2> QED
      BY <2>1
  <1>5. ASSUME NEW A \in SUBSET Streams, NEW t \in Streams, t \notin A
        PROVE  m2[A \cup {t}] = m2[A] + d2[t]
    <2>0. A \cup {t} \in SUBSET Streams
      OBVIOUS
    <2>1. CASE t = s
      <3>1. (A \cup {t}) \ {s} = A
        BY <1>5, <2>1
      <3> QED
        BY <1>2, <1>5, <2>0, <2>1, <3>1
    <2>2. CASE t # s /\ s \in A
      <3>1. /\ (A \cup {t}) \ {s} = (A \ {s}) \cup {t}
            /\ A \ {s} \in SUBSET Streams /\ t \notin A \ {s}
        BY <1>5, <2>2
      <3>2. m[(A \ {s}) \cup {t}] = m[A \ {s}] + d[t]
        BY <1>1, <3>1 DEF Sums
      <3>3. m2[A \cup {t}] = m[(A \ {s}) \cup {t}] + v /\ m2[A] = m[A \ {s}] + v
        BY <2>0, <2>2, <3>1
      <3>4. m[A \ {s}] \in Nat /\ d[t] \in Nat
        BY <1>3, <2>2
      <3> QED
        BY <1>0, <1>2, <2>2, <3>2, <3>3, <3>4
    <2>3. CASE t # s /\ s \notin A
      <3>1. m[A \cup {t}] = m[A] + d[t]
        BY <1>1, <1>5 DEF Sums
      <3> QED
        BY <1>2, <2>0, <2>3, <3>1
    <2> QED
      BY <2>1, <2>2, <2>3
  <1>6. ASSUME NEW A \in SUBSET Streams, \A t \in A : d2[t] = 0 PROVE m2[A] = 0
    <2>1. CASE s \in A
      <3>1. A \ {s} \in SUBSET Streams /\ (\A t \in A \ {s} : d[t] = 0) /\ v = 0
        BY <1>2, <1>6, <2>1
      <3>2. m[A \ {s}] = 0
        BY <1>1, <3>1 DEF Sums
      <3> QED
        BY <2>1, <3>1, <3>2
    <2>2. CASE s \notin A
      <3>1. \A t \in A : d[t] = 0
        BY <1>2, <1>6, <2>2
      <3>2. m[A] = 0
        BY <1>1, <3>1 DEF Sums
      <3> QED
        BY <2>2, <3>2
    <2> QED
      BY <2>1, <2>2
  <1>7. Sums(m2, d2)
    <2> HIDE DEF m2
    <2> QED
      BY <1>4, <1>5, <1>6 DEF Sums
  <1>8. m2[Streams] = n2
    <2>1. m2[Streams] = m[Streams \ {s}] + v
      OBVIOUS
    <2>2. m[Streams] = m[Streams \ {s}] + d[s] /\ m[Streams \ {s}] \in Nat
      BY <1>3
    <2> QED
      BY <1>0, <1>1, <1>2, <2>1, <2>2
  <1> QED
    BY <1>7, <1>8 DEF HasSum

-----------------------------------------------------------------------------
(* The books of the connection *)

\* What was sent on a stream and has not arrived, and what has not been read; a
\* stream whose reset arrived owes nothing.
Unarrived(S, R) ==
    [s \in Streams |-> IF s \in R.reset THEN 0 ELSE S.off[s] - R.top[s]]
Unread(S, R) ==
    [s \in Streams |-> IF s \in R.reset THEN 0 ELSE S.off[s] - R.read[s]]

\* The books of the connection agree with those of its streams.
Booked(S, R) ==
    /\ R.reset \subseteq S.reset
    /\ ~R.err
    /\ \A s \in Streams : R.read[s] <= R.top[s] /\ \A b \in R.got[s] : b < R.top[s]
    /\ HasSum(Unarrived(S, R), S.sent - R.recved)
    /\ HasSum(Unread(S, R), S.sent - R.dread)

\* The inductive invariant of both theorems.
BInv == FInv /\ Booked(snd, rcv)

\* No stream owes less than nothing.
LEMMA OwedTyped ==
    ASSUME NEW S, NEW R, NEW N, Kept(S, R, N)
    PROVE  Unarrived(S, R) \in [Streams -> Nat] /\ Unread(S, R) \in [Streams -> Nat]
  <1>1. S \in Sender /\ R \in Receiver
    BY DEF Kept
  <1>2. ASSUME NEW s \in Streams
        PROVE  S.off[s] - R.top[s] \in Nat /\ S.off[s] - R.read[s] \in Nat
    <2>1. StreamKept(S, R, s)
      BY DEF Kept
    <2>2. S.off[s] \in Nat /\ R.top[s] \in Nat /\ R.read[s] \in Nat
      BY <1>1 DEF Sender, Receiver
    <2> QED
      BY <2>1, <2>2 DEF StreamKept
  <1> QED
    BY <1>2 DEF Unarrived, Unread

\* At first nothing was sent and nothing is owed.
LEMMA InitBooked == Init => Booked(snd, rcv)
  <1> SUFFICES ASSUME Init PROVE Booked(snd, rcv)
    OBVIOUS
  <1>1. Kept(snd, rcv, net)
    BY InitFInv DEF FInv
  <1>2. /\ snd.off = [s \in Streams |-> 0] /\ snd.sent = 0 /\ snd.reset = {}
        /\ rcv.got = [s \in Streams |-> {}] /\ rcv.top = [s \in Streams |-> 0]
        /\ rcv.read = [s \in Streams |-> 0] /\ rcv.recved = 0 /\ rcv.dread = 0
        /\ rcv.reset = {} /\ rcv.err = FALSE
    BY DEF Init
  <1>3. ASSUME NEW s \in Streams
        PROVE  Unarrived(snd, rcv)[s] = 0 /\ Unread(snd, rcv)[s] = 0
    <2>1. snd.off[s] = 0 /\ rcv.top[s] = 0 /\ rcv.read[s] = 0 /\ s \notin rcv.reset
      BY <1>2
    <2>2. Unarrived(snd, rcv)[s] = 0 - 0 /\ Unread(snd, rcv)[s] = 0 - 0
      BY <2>1, Zenon DEF Unarrived, Unread
    <2> QED
      BY <2>2
  <1>4. PICK d \in [Streams -> Nat] : d = Unarrived(snd, rcv)
    BY <1>1, OwedTyped
  <1>5. PICK e \in [Streams -> Nat] : e = Unread(snd, rcv)
    BY <1>1, OwedTyped
  <1>6. HasSum(d, 0) /\ HasSum(e, 0)
    BY <1>3, <1>4, <1>5, SumOfNothing
  <1> QED
    BY <1>2, <1>4, <1>5, <1>6 DEF Booked

\* R2 has the same books as R.
SameBooks(R, R2) ==
    /\ R2.got = R.got /\ R2.top = R.top /\ R2.read = R.read /\ R2.recved = R.recved
    /\ R2.dread = R.dread /\ R2.reset = R.reset /\ R2.err = R.err

\* The books stay right when neither they nor what was sent change.
LEMMA BooksStay ==
    ASSUME NEW S, NEW R, NEW S2, NEW R2, Booked(S, R), SameBooks(R, R2),
           S2.off = S.off, S2.sent = S.sent, S.reset \subseteq S2.reset
    PROVE  Booked(S2, R2)
  <1>1. Unarrived(S2, R2) = Unarrived(S, R) /\ Unread(S2, R2) = Unread(S, R)
    BY DEF SameBooks, Unarrived, Unread
  <1>2. S2.sent - R2.recved = S.sent - R.recved /\ S2.sent - R2.dread = S.sent - R.dread
    BY DEF SameBooks
  <1>3. R2.reset \subseteq S2.reset /\ ~R2.err
    BY DEF Booked, SameBooks
  <1>4. \A s \in Streams : R2.read[s] <= R2.top[s] /\ \A b \in R2.got[s] : b < R2.top[s]
    BY DEF Booked, SameBooks
  <1> QED
    BY <1>1, <1>2, <1>3, <1>4 DEF Booked

\* n bytes are sent on s: what has not arrived and what is unread grow by n.
LEMMA SendBooked == ASSUME BInv, NEW s \in Streams, Send(s), FInv' PROVE Booked(snd', rcv')
  <1>1. /\ snd \in Sender /\ rcv \in Receiver /\ rcv' = rcv /\ Booked(snd, rcv) /\ s \notin snd.reset
        /\ Kept(snd, rcv, net) /\ Kept(snd', rcv', net')
    BY DEF BInv, FInv, Kept, Send
  <1>2. CASE ConnBlocked(snd) \/ StreamBlocked(snd, s)
    <2>1. PICK stop, blocked : snd' = [snd EXCEPT !.stop = stop, !.blocked = blocked]
      BY <1>2, Zenon DEF Send
    <2>2. snd'.off = snd.off /\ snd'.sent = snd.sent /\ snd'.reset = snd.reset
      BY <1>1, <2>1 DEF Sender
    <2> QED
      BY <1>1, <2>2, BooksStay DEF SameBooks
  <1>3. CASE ~ConnBlocked(snd) /\ ~StreamBlocked(snd, s)
    <2>1. PICK n \in 1..PktSize : snd' = [snd EXCEPT !.off[s] = @ + n, !.sent = @ + n]
      BY <1>3, Zenon DEF Send
    <2>2. n \in Nat
      BY Windows
    <2>3. /\ snd'.off = [snd.off EXCEPT ![s] = @ + n] /\ snd'.sent = snd.sent + n
          /\ snd'.reset = snd.reset
      BY <1>1, <2>1 DEF Sender
    <2>4. /\ snd.off[s] \in Nat /\ snd.sent \in Nat /\ rcv.top[s] \in Nat /\ rcv.read[s] \in Nat
          /\ rcv.recved \in Int /\ rcv.dread \in Nat /\ snd.off \in [Streams -> Nat]
      BY <1>1 DEF Sender, Receiver
    <2>5. s \notin rcv.reset
      BY <1>1 DEF Booked
    <2>6. PICK d \in [Streams -> Nat] : d = Unarrived(snd, rcv)
      BY <1>1, OwedTyped
    <2>7. PICK e \in [Streams -> Nat] : e = Unread(snd, rcv)
      BY <1>1, OwedTyped
    <2>8. PICK d2 \in [Streams -> Nat] : d2 = Unarrived(snd', rcv)
      BY <1>1, OwedTyped
    <2>9. PICK e2 \in [Streams -> Nat] : e2 = Unread(snd', rcv)
      BY <1>1, OwedTyped
    <2>10. d2[s] = d[s] + n /\ d[s] \in Nat /\ \A t \in Streams : t # s => d2[t] = d[t]
      BY <2>2, <2>3, <2>4, <2>5, <2>6, <2>8 DEF Unarrived
    <2>11. e2[s] = e[s] + n /\ e[s] \in Nat /\ \A t \in Streams : t # s => e2[t] = e[t]
      BY <2>2, <2>3, <2>4, <2>5, <2>7, <2>9 DEF Unread
    <2>12. /\ snd'.sent - rcv.recved = (snd.sent - rcv.recved) + d2[s] - d[s]
           /\ snd'.sent - rcv.dread = (snd.sent - rcv.dread) + e2[s] - e[s]
      BY <2>2, <2>3, <2>4, <2>10, <2>11
    <2>13. HasSum(d2, snd'.sent - rcv.recved)
      <3>1. PICK x : x = snd.sent - rcv.recved /\ HasSum(d, x)
        BY <1>1, <2>6 DEF Booked
      <3>2. PICK x2 : x2 = snd'.sent - rcv.recved /\ x2 = x + d2[s] - d[s]
        BY <2>12, <3>1
      <3> QED
        BY <2>10, <3>1, <3>2, SumChanges
    <2>14. HasSum(e2, snd'.sent - rcv.dread)
      <3>1. PICK x : x = snd.sent - rcv.dread /\ HasSum(e, x)
        BY <1>1, <2>7 DEF Booked
      <3>2. PICK x2 : x2 = snd'.sent - rcv.dread /\ x2 = x + e2[s] - e[s]
        BY <2>12, <3>1
      <3> QED
        BY <2>11, <3>1, <3>2, SumChanges
    <2> QED
      BY <1>1, <2>3, <2>8, <2>9, <2>13, <2>14 DEF Booked
  <1> QED
    BY <1>2, <1>3

\* Updates of the windows leave the books alone.
LEMMA StreamUpdateBooks ==
    ASSUME NEW R \in Receiver, NEW s \in Streams, NEW u \in StreamUpdates(R, s)
    PROVE  SameBooks(R, u.r)
  <1>1. CASE ~StreamLow(R, s)
    <2>1. u.r = R
      BY <1>1 DEF StreamUpdates, Update
    <2> QED
      BY <2>1 DEF SameBooks
  <1>2. CASE StreamLow(R, s)
    <2>1. PICK w, t, c, out : u = Update([R EXCEPT !.win[s] = w, !.timed = t, !.can[s] = c], out)
      BY <1>2, Zenon DEF StreamUpdates
    <2>2. PICK W : W = [R.win EXCEPT ![s] = w]
      OBVIOUS
    <2>3. PICK C : C = [R.can EXCEPT ![s] = c]
      OBVIOUS
    <2>4. u.r = [R EXCEPT !.win = W, !.timed = t, !.can = C]
      BY <2>1, <2>2, <2>3 DEF Update
    <2> QED
      BY <2>4 DEF SameBooks, Receiver
  <1> QED
    BY <1>1, <1>2

\* So do updates of the connection's window.
LEMMA ConnUpdateBooks ==
    ASSUME NEW R \in Receiver, NEW s \in Streams, NEW v \in ConnUpdates(R, s)
    PROVE  SameBooks(R, v.r)
  <1>1. CASE R.max - R.dread >= R.cwin \div 2
    <2>1. v.r = R
      BY <1>1 DEF ConnUpdates, Update
    <2> QED
      BY <2>1 DEF SameBooks
  <1>2. CASE ~(R.max - R.dread >= R.cwin \div 2)
    <2>1. PICK w, m, out : v = Update([R EXCEPT !.cwin = w, !.ctimed = TRUE, !.max = m], out)
      BY <1>2, Zenon DEF ConnUpdates
    <2>2. v.r = [R EXCEPT !.cwin = w, !.ctimed = TRUE, !.max = m]
      BY <2>1 DEF Update
    <2> QED
      BY <2>2 DEF SameBooks, Receiver
  <1> QED
    BY <1>1, <1>2

\* n bytes of s are read: so much less is unread.
LEMMA ReadBooked ==
    ASSUME NEW S, NEW R, NEW N, Kept(S, R, N), Booked(S, R), NEW s \in Streams, s \notin R.reset,
           NEW n \in Nat, Merged(R, s, R.read[s] + n), NEW R2,
           R2 = [R EXCEPT !.read[s] = R.read[s] + n, !.dread = R.dread + n]
    PROVE  Booked(S, R2)
  <1>1. S \in Sender /\ R \in Receiver /\ Kept(S, R2, N)
    BY ReadKept DEF Kept
  <1>2. /\ R.read[s] \in Nat /\ R.dread \in Nat /\ S.off[s] \in Nat /\ S.sent \in Nat
        /\ R.top[s] \in Nat /\ R.got[s] \in SUBSET Nat
    BY <1>1 DEF Sender, Receiver
  <1>3. /\ R2.got = R.got /\ R2.top = R.top /\ R2.dread = R.dread + n /\ R2.reset = R.reset
        /\ R2.recved = R.recved /\ R2.err = R.err /\ R2.read[s] = R.read[s] + n
        /\ \A x \in Streams : x # s => R2.read[x] = R.read[x]
    <2>1. R \in Receiver
      BY <1>1
    <2>2. PICK D : D = [R.read EXCEPT ![s] = R.read[s] + n]
      OBVIOUS
    <2>3. R2 = [R EXCEPT !.read = D, !.dread = R.dread + n]
      BY <2>2
    <2>4. /\ R2.got = R.got /\ R2.top = R.top /\ R2.dread = R.dread + n /\ R2.reset = R.reset
          /\ R2.recved = R.recved /\ R2.err = R.err /\ R2.read = D
      BY <2>1, <2>3 DEF Receiver
    <2>5. D[s] = R.read[s] + n /\ \A x \in Streams : x # s => D[x] = R.read[x]
      BY <2>1, <2>2 DEF Receiver
    <2> QED
      BY <2>4, <2>5
  <1>4. R2.read[s] <= R.top[s]
    <2>1. R.read[s] <= R.top[s] /\ \A b \in R.got[s] : b < R.top[s]
      BY DEF Booked
    <2>2. CASE n = 0
      BY <1>2, <1>3, <2>1, <2>2
    <2>3. CASE n > 0
      <3>1. \A x \in Nat : x < R.read[s] + n => x \in R.got[s]
        BY <1>2 DEF Merged
      <3>2. PICK b \in Nat : b = R.read[s] + n - 1
        BY <1>2, <2>3
      <3>3. b < R.top[s]
        BY <1>2, <2>1, <3>1, <3>2
      <3> QED
        BY <1>2, <1>3, <3>2, <3>3
    <2> QED
      BY <2>2, <2>3
  <1>5. Unarrived(S, R2) = Unarrived(S, R)
    BY <1>3 DEF Unarrived
  <1>6. PICK d \in [Streams -> Nat] : d = Unread(S, R)
    BY OwedTyped
  <1>7. PICK d2 \in [Streams -> Nat] : d2 = Unread(S, R2)
    BY <1>1, OwedTyped
  <1>8. /\ d[s] = S.off[s] - R.read[s] /\ d2[s] = S.off[s] - R2.read[s]
        /\ \A t \in Streams : t # s => d2[t] = d[t]
    BY <1>3, <1>6, <1>7 DEF Unread
  <1>9. S.sent - R2.dread = (S.sent - R.dread) + d2[s] - d[s]
    BY <1>2, <1>3, <1>8
  <1>10. HasSum(d2, S.sent - R2.dread)
    BY <1>6, <1>8, <1>9, SumChanges DEF Booked
  <1>11. \A x \in Streams : R2.read[x] <= R2.top[x] /\ \A b \in R2.got[x] : b < R2.top[x]
    BY <1>3, <1>4 DEF Booked
  <1> QED
    BY <1>3, <1>5, <1>7, <1>10, <1>11 DEF Booked

\* Data up to f.to arrives: as much less is on its way as the stream grows, and
\* neither limit is exceeded.
LEMMA OnStreamBooked ==
    ASSUME NEW S, NEW R, NEW N, Kept(S, R, N), Booked(S, R), NEW f \in N, f.t = "stream"
    PROVE  Booked(S, OnStream(R, f))
  <1>1. S \in Sender /\ R \in Receiver /\ f \in Frame /\ Truthful(S, R, f)
    BY DEF Kept
  <1>2. PICK s \in Streams : s = f.s
    BY <1>1 DEF Frame
  <1>3. f.from \in Nat /\ f.to \in Nat /\ f.to <= S.off[s]
    BY <1>1, <1>2 DEF Frame, Truthful
  <1>4. PICK R2 : R2 = OnStream(R, f)
    OBVIOUS
  <1>5. Kept(S, R2, N)
    BY <1>4, OnStreamKept
  <1>6. CASE s \in R.reset \/ Merged(R, s, f.to)
    BY <1>2, <1>6 DEF OnStream
  <1>7. CASE ~(s \in R.reset \/ Merged(R, s, f.to))
    <2>1. StreamKept(S, R, s) /\ ConnKept(S, R)
      BY DEF Kept
    <2>2. /\ R.top[s] \in Nat /\ R.recved \in Int /\ R.read[s] \in Nat /\ S.off[s] \in Nat
          /\ S.sent \in Nat /\ R.max \in Nat /\ R.can[s] \in Nat /\ R.got[s] \in SUBSET Nat
          /\ S.max \in Nat /\ S.can[s] \in Nat
      BY <1>1 DEF Sender, Receiver
    <2>3. PICK top \in Nat : /\ top = Larger(R.top[s], f.to) /\ R.top[s] <= top /\ f.to <= top
                             /\ top <= S.off[s]
      BY <1>3, <2>1, <2>2 DEF Larger, StreamKept
    <2>4. PICK recved \in Int : recved = R.recved + top - R.top[s]
      BY <2>2
    <2>5. PICK g : g = R.got[s] \cup f.from..(f.to - 1)
      OBVIOUS
    <2>6. R2 = [R EXCEPT !.got[s] = g, !.top[s] = top, !.recved = recved,
                         !.err = R.err \/ recved > R.max \/ top > R.can[s]]
      BY <1>2, <1>4, <1>7, <2>3, <2>4, <2>5 DEF OnStream
    <2>7. PICK err : err = (R.err \/ recved > R.max \/ top > R.can[s])
      OBVIOUS
    <2>8. /\ R2.got[s] = g /\ R2.top[s] = top /\ R2.recved = recved /\ R2.err = err
          /\ R2.read = R.read /\ R2.reset = R.reset /\ R2.dread = R.dread
          /\ \A x \in Streams : x # s => R2.top[x] = R.top[x] /\ R2.got[x] = R.got[x]
      <3>1. R \in Receiver
        BY <1>1
      <3>2. PICK G : G = [R.got EXCEPT ![s] = g]
        OBVIOUS
      <3>3. PICK T : T = [R.top EXCEPT ![s] = top]
        OBVIOUS
      <3>4. R2 = [R EXCEPT !.got = G, !.top = T, !.recved = recved, !.err = err]
        BY <2>6, <2>7, <3>2, <3>3
      <3>5. /\ R2.got = G /\ R2.top = T /\ R2.recved = recved /\ R2.err = err
            /\ R2.read = R.read /\ R2.reset = R.reset /\ R2.dread = R.dread
        BY <3>1, <3>4 DEF Receiver
      <3>6. /\ G[s] = g /\ T[s] = top
            /\ \A x \in Streams : x # s => T[x] = R.top[x] /\ G[x] = R.got[x]
        BY <3>1, <3>2, <3>3 DEF Receiver
      <3> QED
        BY <3>5, <3>6
    <2>9. PICK d \in [Streams -> Nat] : d = Unarrived(S, R)
      BY OwedTyped
    <2>10. PICK d2 \in [Streams -> Nat] : d2 = Unarrived(S, R2)
      BY <1>5, OwedTyped
    <2>11. /\ d[s] = S.off[s] - R.top[s] /\ d2[s] = S.off[s] - top
           /\ \A t \in Streams : t # s => d2[t] = d[t]
      BY <1>7, <2>8, <2>9, <2>10 DEF Unarrived
    <2>12. S.sent - recved = (S.sent - R.recved) + d2[s] - d[s]
      BY <2>2, <2>4, <2>11
    <2>13. HasSum(d2, S.sent - recved)
      BY <2>9, <2>11, <2>12, SumChanges DEF Booked
    <2>14. S.sent - recved \in Nat
      BY <2>13, SumAtLeast
    <2>15. ~(recved > R.max) /\ ~(top > R.can[s])
      <3>1. S.sent <= S.max /\ S.max <= R.max /\ S.off[s] <= S.can[s] /\ S.can[s] <= R.can[s]
        BY <2>1 DEF StreamKept, ConnKept
      <3>2. ~(recved > R.max)
        BY <2>2, <2>14, <3>1
      <3>3. ~(top > R.can[s])
        BY <2>2, <2>3, <3>1
      <3> QED
        BY <3>2, <3>3
    <2>16. ~err
      BY <2>7, <2>15 DEF Booked
    <2>17. Unread(S, R2) = Unread(S, R)
      BY <2>8 DEF Unread
    <2>18. R.read[s] <= top /\ \A b \in g : b < top
      <3>1. R.read[s] <= R.top[s] /\ \A b \in R.got[s] : b < R.top[s]
        BY DEF Booked
      <3> QED
        BY <1>3, <2>2, <2>3, <2>5, <3>1
    <2>19. \A x \in Streams : R2.read[x] <= R2.top[x] /\ \A b \in R2.got[x] : b < R2.top[x]
      BY <2>8, <2>18 DEF Booked
    <2>20. Booked(S, R2)
      BY <2>8, <2>10, <2>13, <2>16, <2>17, <2>19 DEF Booked
    <2> QED
      BY <1>4, <2>20
  <1> QED
    BY <1>6, <1>7

\* A reset arrives: the stream owes nothing any more, and the connection counts
\* the rest of it as received and as read.
LEMMA OnResetBooked ==
    ASSUME NEW S, NEW R, NEW N, Kept(S, R, N), Booked(S, R), NEW f \in N, f.t = "reset"
    PROVE  Booked(S, OnReset(R, f.s, f.n))
  <1>1. S \in Sender /\ R \in Receiver /\ f \in Frame /\ Truthful(S, R, f)
    BY DEF Kept
  <1>2. PICK s \in Streams : s = f.s
    BY <1>1 DEF Frame
  <1>3. PICK final \in Nat : final = f.n /\ final = S.off[s] /\ s \in S.reset
    BY <1>1, <1>2 DEF Truthful, Sender
  <1>4. PICK R2 : R2 = OnReset(R, f.s, f.n)
    OBVIOUS
  <1>5. Kept(S, R2, N)
    BY <1>4, OnResetKept
  <1>6. CASE s \in R.reset
    BY <1>2, <1>6 DEF OnReset
  <1>7. CASE s \notin R.reset
    <2>1. /\ R.top[s] \in Nat /\ R.recved \in Int /\ R.read[s] \in Nat /\ R.dread \in Nat
          /\ S.sent \in Nat
      BY <1>1 DEF Sender, Receiver
    <2>2. PICK recved \in Int : recved = R.recved + final - R.top[s]
      BY <2>1
    <2>3. PICK dread \in Int : dread = R.dread + final - R.read[s]
      BY <2>1
    <2>4. PICK reset : reset = R.reset \cup {s}
      OBVIOUS
    <2>5. R2 = [R EXCEPT !.reset = reset, !.recved = recved, !.dread = dread, !.got[s] = {}]
      BY <1>2, <1>3, <1>4, <1>7, <2>2, <2>3, <2>4 DEF OnReset
    <2>6. /\ R2.got[s] = {} /\ R2.top = R.top /\ R2.recved = recved /\ R2.err = R.err
          /\ R2.read = R.read /\ R2.reset = reset /\ R2.dread = dread
          /\ \A x \in Streams : x # s => R2.got[x] = R.got[x]
      <3>1. R \in Receiver
        BY <1>1
      <3>2. PICK G : G = [R.got EXCEPT ![s] = {}]
        OBVIOUS
      <3>3. R2 = [R EXCEPT !.reset = reset, !.recved = recved, !.dread = dread, !.got = G]
        BY <2>5, <3>2
      <3>4. /\ R2.got = G /\ R2.top = R.top /\ R2.recved = recved /\ R2.err = R.err
            /\ R2.read = R.read /\ R2.reset = reset /\ R2.dread = dread
        BY <3>1, <3>3 DEF Receiver
      <3>5. G[s] = {} /\ \A x \in Streams : x # s => G[x] = R.got[x]
        BY <3>1, <3>2 DEF Receiver
      <3> QED
        BY <3>4, <3>5
    <2>7. PICK d \in [Streams -> Nat] : d = Unarrived(S, R)
      BY OwedTyped
    <2>8. PICK d2 \in [Streams -> Nat] : d2 = Unarrived(S, R2)
      BY <1>5, OwedTyped
    <2>9. PICK e \in [Streams -> Nat] : e = Unread(S, R)
      BY OwedTyped
    <2>10. PICK e2 \in [Streams -> Nat] : e2 = Unread(S, R2)
      BY <1>5, OwedTyped
    <2>11. d[s] = final - R.top[s] /\ d2[s] = 0 /\ \A t \in Streams : t # s => d2[t] = d[t]
      BY <1>3, <1>7, <2>4, <2>6, <2>7, <2>8 DEF Unarrived
    <2>12. e[s] = final - R.read[s] /\ e2[s] = 0 /\ \A t \in Streams : t # s => e2[t] = e[t]
      BY <1>3, <1>7, <2>4, <2>6, <2>9, <2>10 DEF Unread
    <2>13. /\ S.sent - recved = (S.sent - R.recved) + d2[s] - d[s]
           /\ S.sent - dread = (S.sent - R.dread) + e2[s] - e[s]
      <3>1. S.sent - recved = (S.sent - R.recved) + d2[s] - d[s]
        BY <2>1, <2>2, <2>11
      <3>2. S.sent - dread = (S.sent - R.dread) + e2[s] - e[s]
        BY <2>1, <2>3, <2>12
      <3> QED
        BY <3>1, <3>2
    <2>14. HasSum(d2, S.sent - recved)
      BY <2>7, <2>11, <2>13, SumChanges DEF Booked
    <2>15. HasSum(e2, S.sent - dread)
      BY <2>9, <2>12, <2>13, SumChanges DEF Booked
    <2>16. \A x \in Streams : R2.read[x] <= R2.top[x] /\ \A b \in R2.got[x] : b < R2.top[x]
      BY <2>6 DEF Booked
    <2>17. R2.reset \subseteq S.reset /\ ~R2.err
      BY <1>3, <2>4, <2>6 DEF Booked
    <2>18. Booked(S, R2)
      BY <2>6, <2>8, <2>10, <2>14, <2>15, <2>16, <2>17 DEF Booked
    <2> QED
      BY <1>4, <2>18
  <1> QED
    BY <1>6, <1>7

\* Whatever arrives at the receiver keeps the books.
LEMMA HandleBooked ==
    ASSUME NEW S, NEW R, NEW N, Kept(S, R, N), Booked(S, R), NEW f \in N, ~ToSender(f), NEW u,
           u = Handle(R, f)
    PROVE  Booked(S, u.r)
  <1>1. f \in Frame /\ R \in Receiver
    BY DEF Kept
  <1>2. f.t \in {"stream", "reset", "data_blocked", "stream_data_blocked"}
    BY <1>1 DEF Frame, ToSender
  <1>3. CASE f.t = "stream"
    <2>1. u.r = OnStream(R, f)
      BY <1>3 DEF Handle, Update
    <2> QED
      BY <1>3, <2>1, OnStreamBooked
  <1>4. CASE f.t = "reset"
    <2>1. u.r = OnReset(R, f.s, f.n)
      BY <1>4 DEF Handle, Update
    <2> QED
      BY <1>4, <2>1, OnResetBooked
  <1>5. CASE f.t = "data_blocked"
    <2>1. u.r = R \/ \E m : u.r = [R EXCEPT !.max = m]
      BY <1>5 DEF Handle, OnDataBlocked, Update
    <2>2. SameBooks(R, u.r)
      BY <1>1, <2>1 DEF SameBooks, Receiver
    <2> QED
      BY <2>2, BooksStay
  <1>6. CASE f.t = "stream_data_blocked"
    <2>1. u.r = R \/ \E c : u.r = [R EXCEPT !.can[f.s] = c]
      BY <1>6 DEF Handle, OnStreamDataBlocked, Update
    <2>2. u.r = R \/ \E C : u.r = [R EXCEPT !.can = C]
      BY <2>1
    <2>3. SameBooks(R, u.r)
      BY <1>1, <2>2 DEF SameBooks, Receiver
    <2> QED
      BY <2>3, BooksStay
  <1> QED
    BY <1>2, <1>3, <1>4, <1>5, <1>6

\* The books are right after every step.
LEMMA NextBInv == BInv /\ [Next]_vars => BInv'
  <1> SUFFICES ASSUME BInv, [Next]_vars PROVE BInv'
    OBVIOUS
  <1>1. FInv' /\ Kept(snd, rcv, net) /\ Booked(snd, rcv) /\ FInv
    BY NextFInv DEF BInv, FInv
  <1>2. snd \in Sender /\ rcv \in Receiver
    BY <1>1 DEF Kept
  <1>3. CASE UNCHANGED vars
    BY <1>3 DEF BInv, FInv, vars
  <1>4. ASSUME NEW s \in Streams, Send(s) PROVE Booked(snd', rcv')
    BY <1>1, <1>4, SendBooked
  <1>5. ASSUME NEW s \in Streams, Reset(s) PROVE Booked(snd', rcv')
    <2>1. snd' = [snd EXCEPT !.reset = snd.reset \cup {s}] /\ rcv' = rcv
      BY <1>5 DEF Reset
    <2>2. snd'.off = snd.off /\ snd'.sent = snd.sent /\ snd.reset \subseteq snd'.reset
      BY <1>2, <2>1 DEF Sender
    <2> QED
      BY <1>1, <2>1, <2>2, BooksStay DEF SameBooks
  <1>6. ASSUME NEW s \in Streams, Read(s) PROVE Booked(snd', rcv')
    <2>1. PICK n \in 0..(Total[s] - rcv.read[s]) :
            /\ Merged(rcv, s, rcv.read[s] + n)
            /\ \E u \in StreamUpdates([rcv EXCEPT !.read[s] = rcv.read[s] + n,
                                                  !.dread = rcv.dread + n], s) :
               \E v \in ConnUpdates(u.r, s) : rcv' = v.r
      BY <1>6, Zenon DEF Read
    <2>2. PICK R : R = [rcv EXCEPT !.read[s] = rcv.read[s] + n, !.dread = rcv.dread + n]
      OBVIOUS
    <2>3. PICK u \in StreamUpdates(R, s) : \E v \in ConnUpdates(u.r, s) : rcv' = v.r
      BY <2>1, <2>2, Zenon
    <2>4. PICK v \in ConnUpdates(u.r, s) : rcv' = v.r
      BY <2>3
    <2>5. n \in Nat /\ s \notin rcv.reset /\ snd' = snd
      BY <1>6, SizeAssumption DEF Read
    <2>6. Kept(snd, R, net) /\ Booked(snd, R)
      BY <1>1, <2>1, <2>2, <2>5, ReadKept, ReadBooked
    <2>7. Kept(snd, u.r, net \cup u.out)
      BY <2>6, StreamUpdateKept
    <2>8. R \in Receiver /\ u.r \in Receiver
      BY <2>6, <2>7 DEF Kept
    <2>9. SameBooks(R, u.r) /\ SameBooks(u.r, v.r)
      BY <2>8, StreamUpdateBooks, ConnUpdateBooks
    <2>10. SameBooks(R, rcv')
      BY <2>4, <2>9 DEF SameBooks
    <2> QED
      BY <2>5, <2>6, <2>10, BooksStay
  <1>7. ASSUME NEW s \in Streams, OpenWindow(s) PROVE Booked(snd', rcv')
    <2>1. PICK o, w, c : rcv' = [rcv EXCEPT !.opened = o, !.win[s] = w, !.can[s] = c]
      BY <1>7, Zenon DEF OpenWindow
    <2>2. PICK W : W = [rcv.win EXCEPT ![s] = w]
      OBVIOUS
    <2>3. PICK C : C = [rcv.can EXCEPT ![s] = c]
      OBVIOUS
    <2>4. rcv' = [rcv EXCEPT !.opened = o, !.win = W, !.can = C]
      BY <2>1, <2>2, <2>3
    <2>5. SameBooks(rcv, rcv') /\ snd' = snd
      BY <1>2, <1>7, <2>4 DEF SameBooks, Receiver, OpenWindow
    <2> QED
      BY <1>1, <2>5, BooksStay
  <1>8. ASSUME NEW f \in net, Deliver(f) PROVE Booked(snd', rcv')
    <2>1. CASE ToSender(f)
      <3>1. /\ snd' = IF f.t = "max_data" THEN OnMaxData(snd, f.n) ELSE OnMaxStreamData(snd, f.s, f.n)
            /\ rcv' = rcv
        BY <1>8, <2>1, Zenon DEF Deliver
      <3>2. \/ snd' = snd
            \/ \E m : snd' = [snd EXCEPT !.max = m, !.stop = FALSE]
            \/ \E C, B : snd' = [snd EXCEPT !.can = C, !.blocked = B]
        BY <3>1 DEF OnMaxData, OnMaxStreamData
      <3>3. snd'.off = snd.off /\ snd'.sent = snd.sent /\ snd'.reset = snd.reset
        BY <1>2, <3>2 DEF Sender
      <3> QED
        BY <1>1, <3>1, <3>3, BooksStay DEF SameBooks
    <2>2. CASE ~ToSender(f)
      <3>1. PICK u : u = Handle(rcv, f)
        OBVIOUS
      <3>2. rcv' = u.r /\ snd' = snd
        BY <1>8, <2>2, <3>1, Zenon DEF Deliver
      <3> QED
        BY <1>1, <2>2, <3>1, <3>2, HandleBooked
    <2> QED
      BY <2>1, <2>2
  <1>9. ASSUME NEW f \in net, DeliverLast(f) PROVE Booked(snd', rcv')
    <2>1. PICK u : u = Handle(rcv, f)
      OBVIOUS
    <2>2. rcv' = u.r /\ snd' = snd /\ ~ToSender(f)
      BY <1>9, <2>1 DEF DeliverLast, IsBlocked, ToSender
    <2> QED
      BY <1>1, <2>1, <2>2, HandleBooked
  <1> QED
    BY <1>1, <1>3, <1>4, <1>5, <1>6, <1>7, <1>8, <1>9, Zenon DEF Next, BInv

\* The inductive invariant holds in every reachable state.
LEMMA AlwaysBInv == Spec => []BInv
  <1>1. Init => BInv
    BY InitFInv, InitBooked DEF BInv
  <1> QED
    BY <1>1, NextBInv, PTL DEF Spec

\* No limit is ever more than the largest window beyond what was read, and the
\* receiver never raises FLOW_CONTROL_ERROR (rqc_process_stream_frame), neither
\* for a stream nor for the connection: fc_data_recved never exceeds what was
\* sent, so it stays within the limit the sender kept to.
THEOREM FlowBounded == Spec => []BufferBounded
  <1>1. BInv => BufferBounded
    BY DEF BInv, FInv, Kept, Booked, StreamKept, ConnKept, BufferBounded, TopWin
  <1> QED
    BY <1>1, AlwaysBInv, PTL

\* Once every stream is read or reset, fc_data_read and fc_data_recved are what
\* the sender counted in fc_data_sent: rqc_process_reset_stream_frame gives back
\* exactly what the stream still owed.
THEOREM FlowLeaksNothing == Spec => []NothingLeaks
  <1>1. BInv => NothingLeaks
    <2> SUFFICES ASSUME BInv, \A s \in Streams : s \in rcv.reset \/ rcv.read[s] = snd.off[s]
                 PROVE  rcv.dread = snd.sent /\ rcv.recved = snd.sent
      BY DEF NothingLeaks
    <2>1. Kept(snd, rcv, net) /\ Booked(snd, rcv) /\ snd \in Sender /\ rcv \in Receiver
      BY DEF BInv, FInv, Kept
    <2>2. PICK d \in [Streams -> Nat] : d = Unarrived(snd, rcv)
      BY <2>1, OwedTyped
    <2>3. PICK e \in [Streams -> Nat] : e = Unread(snd, rcv)
      BY <2>1, OwedTyped
    <2>4. ASSUME NEW s \in Streams PROVE d[s] = 0 /\ e[s] = 0
      <3>1. CASE s \in rcv.reset
        BY <2>2, <2>3, <3>1 DEF Unarrived, Unread
      <3>2. CASE s \notin rcv.reset
        <4>1. /\ snd.off[s] \in Nat /\ rcv.top[s] \in Nat /\ rcv.read[s] = snd.off[s]
              /\ rcv.read[s] <= rcv.top[s] /\ rcv.top[s] <= snd.off[s]
          BY <2>1, <3>2 DEF Sender, Receiver, Booked, Kept, StreamKept
        <4>2. d[s] = snd.off[s] - rcv.top[s] /\ e[s] = snd.off[s] - rcv.read[s]
          BY <2>2, <2>3, <3>2 DEF Unarrived, Unread
        <4> QED
          BY <4>1, <4>2
      <3> QED
        BY <3>1, <3>2
    <2>5. HasSum(d, snd.sent - rcv.recved) /\ HasSum(e, snd.sent - rcv.dread)
      BY <2>1, <2>2, <2>3 DEF Booked
    <2>6. snd.sent - rcv.recved = 0 /\ snd.sent - rcv.dread = 0
      BY <2>4, <2>5, SumAtLeast
    <2>7. snd.sent \in Nat /\ rcv.recved \in Int /\ rcv.dread \in Nat
      BY <2>1 DEF Sender, Receiver
    <2> QED
      BY <2>6, <2>7
  <1> QED
    BY <1>1, AlwaysBInv, PTL
=============================================================================
