---------------------------- MODULE FlowControl ----------------------------
(***************************************************************************)
(* Flow control of one direction of a connection: the sender's limits      *)
(* (rqc_stream_do_send_flow_ctl, MAX_DATA, MAX_STREAM_DATA), the           *)
(* receiver's windows (rqc_stream_do_recv_flow_ctl), the BLOCKED frames    *)
(* and the accounting of a reset stream.                                   *)
(*                                                                         *)
(* Every frame here is one that lost packets repair, so the network holds  *)
(* a set of frames that arrive in any order, each at least once and        *)
(* possibly again.  A byte is its offset.  Clock and round-trip time are   *)
(* abstracted to the choice they decide: whether a window doubles, or what *)
(* a rate amounts to.                                                      *)
(***************************************************************************)
EXTENDS Integers

CONSTANTS
    Streams,
    PktSize,        \* pkt_out_size
    InitWin,        \* init_recv_window
    MinConnWin,     \* RQC_MIN_RECV_WINDOW
    MaxWin,         \* RQC_MAX_RECV_WINDOW
    SumWin,         \* max_data when it is the sum over all streams
    StreamLimit,    \* the receiver is a client with enable_stream_rate_limit
    Own,            \* the streams the receiver opened
    StreamRate,     \* the streams that have a recv_rate_bytes_per_sec
    ConnRate,       \* conn_settings.recv_rate_bytes_per_sec is set
    Total,          \* bound: bytes the application writes to each stream
    Resettable      \* the streams the sender may reset

ASSUME SizeAssumption == PktSize \in Nat \ {0} /\ Total \in [Streams -> Nat]

ASSUME StreamAssumption == StreamRate \subseteq Own /\ Own \subseteq Streams

ASSUME WindowAssumption ==
    /\ InitWin \in Nat /\ MinConnWin \in Nat /\ MaxWin \in Nat /\ SumWin \in Nat
    /\ InitWin <= MaxWin /\ MinConnWin <= MaxWin

VARIABLES
    snd,    \* the sending endpoint
    rcv,    \* the receiving endpoint
    net     \* frames on their way, both directions

vars == <<snd, rcv, net>>

Frame ==
         [t : {"stream"}, s : Streams, from : Nat, to : Nat]
    \cup [t : {"reset", "stream_data_blocked", "max_stream_data"}, s : Streams, n : Nat]
    \cup [t : {"data_blocked", "max_data"}, n : Nat]

ConnFrame(t, n) == [t |-> t, n |-> n]
StreamFrame(t, s, n) == [t |-> t, s |-> s, n |-> n]

\* rqc_conn_init_trans_settings, rqc_conn_init_flow_ctl, rqc_stream_set_flow_ctl:
\* both sides start from the transport parameters of the receiver.
InitStreamWin == IF StreamLimit THEN InitWin ELSE MaxWin
InitConnWins == IF ConnRate THEN MinConnWin..MaxWin ELSE {SumWin}

Init ==
    \E cw \in InitConnWins :
    /\ snd = [ off     |-> [s \in Streams |-> 0],              \* stream_send_offset
               can     |-> [s \in Streams |-> InitStreamWin],  \* fc_max_stream_data_can_send
               sent    |-> 0,                                  \* fc_data_sent
               max     |-> cw,                                 \* fc_max_data_can_send
               blocked |-> {},                     \* streams with FLAG_DATA_BLOCKED
               stop    |-> FALSE,                  \* RQC_CONN_FLAG_DATA_BLOCKED
               reset   |-> {} ]
    /\ rcv = [ got     |-> [s \in Streams |-> {}],             \* bytes received
               top     |-> [s \in Streams |-> 0],              \* stream_max_recv_offset
               read    |-> [s \in Streams |-> 0],              \* next_read_offset
               can     |-> [s \in Streams |-> InitStreamWin],  \* fc_max_stream_data_can_recv
               win     |-> [s \in Streams |-> InitStreamWin],  \* fc_stream_recv_window_size
               timed   |-> {},                     \* streams with a last update time
               opened  |-> {},                     \* streams it has sent on
               recved  |-> 0,                                  \* fc_data_recved
               dread   |-> 0,                                  \* fc_data_read
               max     |-> cw,                                 \* fc_max_data_can_recv
               cwin    |-> cw,                                 \* fc_recv_windows_size
               ctimed  |-> FALSE,
               reset   |-> {},
               err     |-> FALSE ]                 \* TRA_FLOW_CONTROL_ERROR
    /\ net = {}

-----------------------------------------------------------------------------
(* The sender *)

ConnBlocked(S) == S.sent + PktSize > S.max

StreamBlocked(S, s) == S.off[s] + PktSize > S.can[s]

\* The sender learns of a stream the receiver opened from the first frame on it
\* (rqc_passive_create_stream).
Known(s) == s \in Own => s \in rcv.opened

\* One turn of the loop of rqc_stream_send: rqc_stream_do_send_flow_ctl, then
\* rqc_write_stream_frame_to_packet with the n bytes that fit.
Send(s) ==
    /\ Known(s) /\ s \notin snd.reset /\ snd.off[s] < Total[s]
    /\ \/ /\ ~ConnBlocked(snd) /\ ~StreamBlocked(snd, s)
          /\ \E n \in 1..PktSize :
               /\ snd.off[s] + n <= Total[s]
               /\ snd' = [snd EXCEPT !.off[s] = @ + n, !.sent = @ + n]
               /\ net' = net \cup {[t |-> "stream", s |-> s,
                                    from |-> snd.off[s], to |-> snd.off[s] + n]}
       \/ /\ ConnBlocked(snd) \/ StreamBlocked(snd, s)
          /\ snd' = [snd EXCEPT !.stop = @ \/ ConnBlocked(snd),
                                !.blocked = IF StreamBlocked(snd, s) THEN @ \cup {s} ELSE @]
          /\ net' = net
               \cup (IF ConnBlocked(snd) THEN {ConnFrame("data_blocked", snd.max)} ELSE {})
               \cup (IF StreamBlocked(snd, s)
                     THEN {StreamFrame("stream_data_blocked", s, snd.can[s])} ELSE {})
    /\ UNCHANGED rcv

\* rqc_process_write_streams: the application is called for streams that no
\* flag holds back.
WriteNotified(s) == ~snd.stop /\ s \notin snd.blocked /\ Send(s)

\* rqc_stream_close: RESET_STREAM with the final size
Reset(s) ==
    /\ Known(s) /\ s \in Resettable \ snd.reset
    /\ snd' = [snd EXCEPT !.reset = @ \cup {s}]
    /\ net' = net \cup {StreamFrame("reset", s, snd.off[s])}
    /\ UNCHANGED rcv

\* Mutant: the flag stays.
OnMaxDataStuck(S, n) == IF n > S.max THEN [S EXCEPT !.max = n] ELSE S

\* rqc_process_max_data_frame
OnMaxData(S, n) == IF n > S.max THEN [S EXCEPT !.max = n, !.stop = FALSE] ELSE S

\* rqc_process_max_stream_data_frame
OnMaxStreamData(S, s, n) ==
    IF n > S.can[s] THEN [S EXCEPT !.can[s] = n, !.blocked = @ \ {s}] ELSE S

-----------------------------------------------------------------------------
(* The receiver *)

Smaller(a, b) == IF a < b THEN a ELSE b
Larger(a, b) == IF a > b THEN a ELSE b

\* merged_offset_end is m at least.
Merged(R, s, m) == \A b \in 0..(m - 1) : b \in R.got[s]

\* rqc_process_stream_frame
OnStream(R, f) ==
    LET top == Larger(R.top[f.s], f.to)
        recved == R.recved + top - R.top[f.s]
    IN  IF f.s \in R.reset \/ Merged(R, f.s, f.to) THEN R
        ELSE [R EXCEPT !.got[f.s] = @ \cup f.from..(f.to - 1),
                       !.top[f.s] = top,
                       !.recved = recved,
                       !.err = @ \/ recved > R.max \/ top > R.can[f.s]]

\* Mutant: the unread bytes of a reset stream are not given back.
OnResetUnread(R, s, final) ==
    IF s \in R.reset THEN R
    ELSE [R EXCEPT !.reset = @ \cup {s},
                   !.recved = @ + final - R.top[s],
                   !.got[s] = {}]

\* rqc_process_reset_stream_frame: what the stream will never bring counts as
\* received and read.
OnReset(R, s, final) ==
    IF s \in R.reset THEN R
    ELSE [R EXCEPT !.reset = @ \cup {s},
                   !.recved = @ + final - R.top[s],
                   !.dread = @ + final - R.read[s],
                   !.got[s] = {}]

\* The windows of stream s an update may choose.
StreamWins(R, s) ==
    IF s \in StreamRate THEN InitWin..MaxWin
    ELSE {R.win[s]} \cup (IF s \in R.timed THEN {Smaller(2 * R.win[s], MaxWin)} ELSE {})

\* The windows of the connection, once the stream's is sw.
ConnWins(R, sw) ==
    LET grown == {R.cwin} \cup (IF R.ctimed THEN {Smaller(2 * R.cwin, MaxWin)} ELSE {})
    IN  IF ConnRate THEN MinConnWin..MaxWin
        ELSE {IF 2 * w < 3 * sw THEN (3 * sw) \div 2 ELSE w : w \in grown}

\* What an update leads to: the receiver after it and the frames it writes.
Update(R, out) == [r |-> R, out |-> out]

\* Mutant: the window is added to a limit that is not used up.
GrantWhole(win, avail) == win

\* How far a limit moves.
Grant(win, avail) == IF win > avail THEN win - avail ELSE 0

\* Less than half the window is left.
StreamLow(R, s) == R.can[s] - R.read[s] < R.win[s] \div 2

\* rqc_stream_do_recv_flow_ctl, stream level
StreamUpdates(R, s) ==
    LET grow(w) == Grant(w, R.can[s] - R.read[s]) IN
    IF ~StreamLow(R, s) THEN {Update(R, {})}
    ELSE {Update([R EXCEPT !.win[s] = w, !.timed = @ \cup {s}, !.can[s] = @ + grow(w)],
                 IF grow(w) = 0 THEN {}
                 ELSE {StreamFrame("max_stream_data", s, R.can[s] + grow(w))})
              : w \in StreamWins(R, s)}

\* rqc_stream_do_recv_flow_ctl, connection level
ConnUpdates(R, s) ==
    LET grow(w) == Grant(w, R.max - R.dread) IN
    IF R.max - R.dread >= R.cwin \div 2 THEN {Update(R, {})}
    ELSE {Update([R EXCEPT !.cwin = w, !.ctimed = TRUE, !.max = @ + grow(w)],
                 IF grow(w) = 0 THEN {} ELSE {ConnFrame("max_data", R.max + grow(w))})
              : w \in ConnWins(R, R.win[s])}

\* rqc_stream_recv with room for n bytes
Read(s) ==
    /\ s \notin rcv.reset
    /\ \E n \in 0..(Total[s] - rcv.read[s]) :
         /\ Merged(rcv, s, rcv.read[s] + n)
         /\ \E u \in StreamUpdates([rcv EXCEPT !.read[s] = @ + n, !.dread = @ + n], s) :
            \E v \in ConnUpdates(u.r, s) :
                /\ rcv' = v.r
                /\ net' = net \cup u.out \cup v.out
    /\ UNCHANGED snd

\* The application is called when there is something to read, and reads it.
ReadNotified(s) == rcv.read[s] \in rcv.got[s] /\ Read(s) /\ rcv'.read[s] # rcv.read[s]

\* rqc_write_stream_frame_to_packet, when the receiver first sends on a stream it
\* opened: the small window of a rate limited connection is opened.
OpenWindow(s) ==
    LET avail == rcv.can[s] - rcv.read[s] IN
    /\ s \in Own \ rcv.opened
    /\ \E w \in IF ~StreamLimit THEN {rcv.win[s]}
                ELSE IF s \in StreamRate THEN InitWin..MaxWin ELSE {MaxWin} :
         /\ rcv' = [rcv EXCEPT !.opened = @ \cup {s}, !.win[s] = w,
                               !.can[s] = @ + Grant(w, avail)]
         /\ net' = IF Grant(w, avail) = 0 THEN net
                   ELSE net \cup {StreamFrame("max_stream_data", s,
                                              rcv.can[s] + Grant(w, avail))}
    /\ UNCHANGED snd

\* rqc_process_data_blocked_frame
OnDataBlocked(R, limit) ==
    LET new == R.dread + R.cwin IN
    IF new <= limit \/ new <= R.max THEN Update(R, {})
    ELSE Update([R EXCEPT !.max = new], {ConnFrame("max_data", new)})

\* rqc_process_stream_data_blocked_frame
OnStreamDataBlocked(R, s, limit) ==
    LET new == R.read[s] + R.win[s] IN
    IF new <= limit \/ new <= R.can[s] THEN Update(R, {})
    ELSE Update([R EXCEPT !.can[s] = new], {StreamFrame("max_stream_data", s, new)})

-----------------------------------------------------------------------------
(* The network *)

\* What a frame that arrives does to the receiver, and what it answers.
Handle(R, f) ==
    CASE f.t = "stream"              -> Update(OnStream(R, f), {})
      [] f.t = "reset"               -> Update(OnReset(R, f.s, f.n), {})
      [] f.t = "data_blocked"        -> OnDataBlocked(R, f.n)
      [] f.t = "stream_data_blocked" -> OnStreamDataBlocked(R, f.s, f.n)

ToSender(f) == f.t \in {"max_data", "max_stream_data"}

IsBlocked(f) == f.t \in {"data_blocked", "stream_data_blocked"}

\* Frame f arrives, and a copy of it may arrive again later.
Deliver(f) ==
    \/ /\ ToSender(f)
       /\ snd' = IF f.t = "max_data" THEN OnMaxData(snd, f.n)
                 ELSE OnMaxStreamData(snd, f.s, f.n)
       /\ UNCHANGED <<rcv, net>>
    \/ /\ ~ToSender(f)
       /\ rcv' = Handle(rcv, f).r
       /\ net' = net \cup Handle(rcv, f).out
       /\ UNCHANGED snd

\* The last copy of a BLOCKED frame arrives.  Of the other frames a copy that
\* arrives again changes nothing, so they need not leave the network.
DeliverLast(f) ==
    /\ IsBlocked(f)
    /\ rcv' = Handle(rcv, f).r
    /\ net' = (net \ {f}) \cup Handle(rcv, f).out
    /\ UNCHANGED snd

-----------------------------------------------------------------------------
Next ==
    \/ \E s \in Streams : Send(s) \/ Reset(s) \/ Read(s) \/ OpenWindow(s)
    \/ \E f \in net : Deliver(f) \/ DeliverLast(f)

Spec == Init /\ [][Next]_vars

\* A frame of F that is on its way and still has an effect arrives.
Arrives(F) == \E f \in F : IF IsBlocked(f) THEN DeliverLast(f) ELSE Deliver(f)

OfStream(s, t) == {f \in net : f.t = t /\ f.s = s}
OfConn(t) == {f \in net : f.t = t}

\* The engine calls the applications for streams that can be written and read,
\* and they go on; retransmission brings every frame across.
FairSpec ==
    /\ Spec
    /\ \A s \in Streams :
         /\ WF_vars(OpenWindow(s))
         /\ WF_vars(WriteNotified(s))
         /\ WF_vars(ReadNotified(s))
         /\ \A t \in {"stream", "reset", "stream_data_blocked", "max_stream_data"} :
                WF_vars(Arrives(OfStream(s, t)))
    /\ \A t \in {"data_blocked", "max_data"} : WF_vars(Arrives(OfConn(t)))

-----------------------------------------------------------------------------
(* Properties *)

\* The receiver never promises to buffer more than the largest window beyond
\* what was read, whichever of the three places raises the limit, and an rquic
\* sender keeps to what was promised: its peer never raises FLOW_CONTROL_ERROR,
\* however limits, data and resets cross on the network.
BufferBounded ==
    /\ ~rcv.err
    /\ \A s \in Streams : rcv.can[s] - rcv.read[s] <= MaxWin
    /\ rcv.max - rcv.dread <= Larger(SumWin, (3 * MaxWin) \div 2)

\* Once every stream has been read to where the sender stopped, or its reset
\* arrived, both endpoints agree how much of the connection's credit was used:
\* no reset leaks any, whatever part of the stream arrived before it.
NothingLeaks ==
    (\A s \in Streams : s \in rcv.reset \/ rcv.read[s] = snd.off[s])
        => rcv.dread = snd.sent /\ rcv.recved = snd.sent

\* A blocked sender goes on: as long as no RESET_STREAM arrives, what the
\* application wants to write is written in the end, if the receiving
\* application reads, whichever of reading and the BLOCKED frame comes first.
UnresetGoesOn == \A s \in Streams : <>(snd.off[s] = Total[s] \/ rcv.reset # {})

=============================================================================
