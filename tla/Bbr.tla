-------------------------------- MODULE Bbr --------------------------------
(***************************************************************************)
(* The congestion window of BBR (rqc_bbr.c) over a sender that fills it.   *)
(*                                                                         *)
(* BBR lowers its window on purpose in three ways: it drains to a small    *)
(* flight to measure the round trip (PROBE_RTT), it conserves packets for  *)
(* a round after a loss (recovery), and it collapses the window after      *)
(* persistent congestion.  The first two are undone from one saved value,  *)
(* prior_cwnd, and may overlap in any order.                               *)
(*                                                                         *)
(* Windows and flights count units of several packets.  What BBR compares  *)
(* by time stamps or byte counts is kept relative to now: ages in ticks,   *)
(* and how many of the packets in flight were sent before a mark.  The     *)
(* packets in flight are numbered from the oldest.  The measured bandwidth *)
(* estimate, round trip, application limit and ACK aggregation of a sample *)
(* are inputs.  Options that are off unless cc_params sets them (long-term *)
(* bandwidth, expected bandwidth) and the pacing rate are left out.        *)
(***************************************************************************)
EXTENDS Integers, FiniteSets, FiniteSetsExt

CONSTANTS
    MinCwnd,        \* rqc_bbr_min_cwnd
    InitCwnd,       \* initial_congestion_window
    SndBuf,         \* conn_settings.so_sndbuf: caps what may be in flight
    Bandwidths,     \* estimates rqc_win_filter_get may give, per tick
    Rtts,           \* round trips in ticks
    Extras,         \* rqc_bbr_ack_aggregation_cwnd
    WinSize,        \* rqc_bbr2_probertt_win_size_us and minrtt_win_size_us
    ProbeTime,      \* min(2 * srtt, rqc_bbr_probertt_time_us)
    MaxHeld         \* packets one ACK leaves behind the largest acknowledged

ASSUME Sizes == 0 < MinCwnd /\ MinCwnd <= InitCwnd /\ MinCwnd <= SndBuf

VARIABLES
    bbr,        \* rqc_bbr_t
    flight,     \* packets in flight (ctl_bytes_in_flight)
    holes,      \* how many of them are below the largest acknowledged
    delivered,  \* ctl_delivered, counted up to InitCwnd
    before      \* the window before it was lowered, 0 when not known

vars == <<bbr, flight, holes, delivered, before>>

INF == 0        \* RQC_BBR_INF: no round trip measured yet
NoStamp == -1   \* probe_rtt_round_done_stamp = 0

\* Gains in thousandths.
startup_cwnd_gain == 2885
probe_bw_cwnd_gain == 2250
probe_rtt_gain == 750
unit_gain == 1000

rqc_bbr_fullbw_cnt == 3

Larger(a, b) == IF a > b THEN a ELSE b
Smaller(a, b) == IF a < b THEN a ELSE b

----------------------------------------------------------------------------
(* Operators of rqc_bbr.c.                                                 *)

rqc_bbr_target_cwnd(b, gain) ==
    IF b.min_rtt = INF THEN InitCwnd
    ELSE Larger((gain * b.min_rtt * b.max_bw) \div 1000, MinCwnd)

rqc_bbr_probe_rtt_cwnd(b) == Larger(MinCwnd, rqc_bbr_target_cwnd(b, probe_rtt_gain))

cwnd_gain(b) ==
    CASE b.mode \in {"STARTUP", "DRAIN"} -> startup_cwnd_gain
      [] b.mode = "PROBE_BW"             -> probe_bw_cwnd_gain
      [] b.mode = "PROBE_RTT"            -> unit_gain

SaveOverwrites(b) == [b EXCEPT !.prior_cwnd = b.cwnd]

\* In a dip the window is already lowered: keep the larger of the two.
rqc_bbr_save_cwnd(b) ==
    IF ~b.recovery /\ b.mode # "PROBE_RTT"
    THEN [b EXCEPT !.prior_cwnd = b.cwnd]
    ELSE [b EXCEPT !.prior_cwnd = Larger(b.cwnd, b.prior_cwnd)]

rqc_bbr_restore_cwnd(b) == [b EXCEPT !.cwnd = Larger(b.cwnd, b.prior_cwnd)]

\* A loss in STARTUP is ignored.  Every packet of the n in flight was sent before
\* the recovery_start_time this sets.
rqc_bbr_on_lost(b, n) ==
    IF b.mode = "STARTUP" THEN b
    ELSE [rqc_bbr_save_cwnd(b) EXCEPT !.epoch = n]

rqc_bbr_reset_cwnd(b) ==
    [rqc_bbr_save_cwnd(b) EXCEPT
        !.cwnd = MinCwnd, !.recovery = FALSE, !.epoch = 0,
        !.conservation = b.conservation /\ ~b.recovery]

\* A round is over when a packet sent after its mark is acknowledged; what is in
\* flight then was sent before the mark of the next one.
rqc_bbr_update_bandwidth(b, s) ==
    [b EXCEPT !.mark = IF s.round_start THEN s.inflight ELSE @,
              !.conservation = b.conservation /\ ~s.round_start,
              !.max_bw = s.bw]

\* Three rounds without growth; what counted them is not read afterwards.
rqc_bbr_check_full_bw_reached(b, s) ==
    IF ~s.round_start \/ b.full_bw \/ s.app_limited THEN b
    ELSE IF b.max_bw * 100 >= b.last_bw * 115
    THEN [b EXCEPT !.last_bw = b.max_bw, !.full_cnt = 0]
    ELSE IF b.full_cnt + 1 < rqc_bbr_fullbw_cnt THEN [b EXCEPT !.full_cnt = @ + 1]
    ELSE [b EXCEPT !.full_bw = TRUE, !.last_bw = 0, !.full_cnt = 0]

rqc_bbr_check_drain(b, s) ==
    LET d == IF b.mode = "STARTUP" /\ b.full_bw THEN [b EXCEPT !.mode = "DRAIN"] ELSE b
    IN  IF d.mode = "DRAIN" /\ s.inflight <= rqc_bbr_target_cwnd(d, unit_gain)
        THEN [d EXCEPT !.mode = "PROBE_BW"] ELSE d

\* With the probe's time over: schedule the next one, restore the window and go
\* back to STARTUP or PROBE_BW.  The stamps are not read outside PROBE_RTT.
rqc_bbr_check_probe_rtt_done(b) ==
    IF b.done_stamp # 0 THEN b
    ELSE [rqc_bbr_restore_cwnd(b) EXCEPT
             !.probe_age = 0, !.done_stamp = NoStamp, !.round_done = FALSE,
             !.mode = IF b.full_bw THEN "PROBE_BW" ELSE "STARTUP"]

\* The two estimates of the round trip, the second filtered through the first.
UpdateEstimates(b, s) ==
    LET fresh == b.probe_min = INF \/ s.rtt <= b.probe_min \/ b.probe_age > WinSize
        p == IF fresh THEN [b EXCEPT !.probe_min = s.rtt, !.probe_age = 0] ELSE b
    IN  IF p.min_rtt = INF \/ p.probe_min <= p.min_rtt \/ p.min_age > WinSize
        THEN [p EXCEPT !.min_rtt = p.probe_min, !.min_age = p.probe_age] ELSE p

ProbeRearmed(b, s) ==
    IF s.inflight <= rqc_bbr_probe_rtt_cwnd(b)
    THEN [b EXCEPT !.done_stamp = ProbeTime, !.round_done = FALSE, !.mark = s.inflight]
    ELSE b

\* In PROBE_RTT: once the flight has drained the end of the probe is set, and it
\* ends when that time and a round trip have passed.
ProbeRtt(b, s) ==
    IF b.done_stamp = NoStamp
    THEN IF s.inflight <= rqc_bbr_probe_rtt_cwnd(b)
         THEN [b EXCEPT !.done_stamp = ProbeTime, !.round_done = FALSE, !.mark = s.inflight]
         ELSE b
    ELSE LET r == [b EXCEPT !.round_done = @ \/ s.round_start]
         IN  IF r.round_done THEN rqc_bbr_check_probe_rtt_done(r) ELSE r

\* The rest of rqc_bbr_update_min_rtt, from b with the estimates updated to e.
rqc_bbr_update_min_rtt(b, e, s) ==
    LET entered == IF b.probe_age > WinSize /\ b.mode # "PROBE_RTT" /\ ~b.idle_restart
                   THEN [rqc_bbr_save_cwnd([e EXCEPT !.mode = "PROBE_RTT"])
                            EXCEPT !.done_stamp = NoStamp]
                   ELSE e
        probed == IF entered.mode = "PROBE_RTT" THEN ProbeRtt(entered, s) ELSE entered
    IN  [probed EXCEPT !.idle_restart = FALSE]

\* The window while packets are conserved: what left the network may be sent.
EnterRecovery(b, s) ==
    [b EXCEPT !.conservation = TRUE, !.mark = s.inflight,
              !.cwnd = s.inflight + Larger(s.acked, 1)]

ExitRecovery(b) == rqc_bbr_restore_cwnd([b EXCEPT !.conservation = FALSE])

\* rqc_bbr_update_recovery_mode, whose just_enter and just_exit flags
\* rqc_bbr_modulate_cwnd_for_recovery takes back in the same call of on_ack.
rqc_bbr_modulate_cwnd_for_recovery(b, s) ==
    LET m == CASE s.before_loss /\ ~b.recovery ->
                     EnterRecovery([b EXCEPT !.recovery = TRUE], s)
               [] ~s.before_loss /\ b.recovery ->
                     ExitRecovery([b EXCEPT !.recovery = FALSE, !.epoch = 0])
               [] OTHER -> b
    IN  IF m.conservation THEN [m EXCEPT !.cwnd = Larger(@, s.inflight + s.acked)] ELSE m

\* The window before the floor and the cap of PROBE_RTT.
Grown(m, s) ==
    LET target == rqc_bbr_target_cwnd(m, cwnd_gain(m)) + s.extra
    IN  IF m.conservation THEN m.cwnd
        ELSE IF m.full_bw THEN Smaller(target, m.cwnd + s.acked)
        ELSE IF m.cwnd < target \/ s.delivered < InitCwnd THEN m.cwnd + s.acked
        ELSE m.cwnd

rqc_bbr_set_cwnd(m, s) ==
    LET floored == Larger(Grown(m, s), MinCwnd)
    IN  [m EXCEPT !.cwnd = IF m.mode = "PROBE_RTT"
                           THEN Smaller(floored, rqc_bbr_probe_rtt_cwnd(m)) ELSE floored]

\* The steps in their order, as the set of the one outcome: TLC then evaluates
\* each step once.
rqc_bbr_on_ack(b, s) ==
    LET bandwidth == {rqc_bbr_update_bandwidth(b, s)}
        full == {rqc_bbr_check_full_bw_reached(x, s) : x \in bandwidth}
        drained == {rqc_bbr_check_drain(x, s) : x \in full}
        estimated == {<<x, UpdateEstimates(x, s)>> : x \in drained}
        probed == {rqc_bbr_update_min_rtt(x[1], x[2], s) : x \in estimated}
        recovered == {rqc_bbr_modulate_cwnd_for_recovery(x, s) : x \in probed}
    IN  {rqc_bbr_set_cwnd(x, s) : x \in recovered}

rqc_bbr_restart_from_idle(b) ==
    LET r == [b EXCEPT !.idle_restart = TRUE]
    IN  IF b.mode = "PROBE_RTT" THEN rqc_bbr_check_probe_rtt_done(r) ELSE r

rqc_bbr_init ==
    [mode |-> "STARTUP", cwnd |-> InitCwnd, prior_cwnd |-> 0,
     min_rtt |-> INF, min_age |-> 0, probe_min |-> INF, probe_age |-> 0,
     done_stamp |-> NoStamp, round_done |-> FALSE, idle_restart |-> FALSE,
     max_bw |-> 0, last_bw |-> 0, full_cnt |-> 0, full_bw |-> FALSE,
     mark |-> 0, recovery |-> FALSE, conservation |-> FALSE, epoch |-> 0]

----------------------------------------------------------------------------
(* The sender.                                                             *)

Init ==
    /\ bbr = rqc_bbr_init
    /\ flight = 0
    /\ holes = 0
    /\ delivered = 0
    /\ before = 0

\* BBR has lowered the window and will restore it.
Lowered(b) == b.mode = "PROBE_RTT" \/ b.recovery

\* The window to come back to: the one when PROBE_RTT begins or when the loss is
\* reported for which recovery begins, at once or with the acknowledgement of a
\* packet sent before.  Persistent congestion gives it up.
Remember(b, l, given_up) ==
    CASE given_up -> 0
      [] ~given_up /\ Lowered(bbr) -> before
      [] ~given_up /\ ~Lowered(bbr) /\ ((l > 0 /\ bbr.mode # "STARTUP") \/ (Lowered(b) /\ bbr.epoch = 0)) ->
            bbr.cwnd
      [] OTHER -> IF b.epoch > 0 \/ Lowered(b) THEN before ELSE 0

\* rqc_send_ctl_can_send and rqc_send_ctl_on_packet_sent: the first packet after
\* an idle time restarts BBR if the application was the limit.
Send(idle) ==
    /\ flight < Smaller(bbr.cwnd, SndBuf)
    /\ LET b == IF flight = 0 /\ idle THEN rqc_bbr_restart_from_idle(bbr) ELSE bbr
       IN  bbr' = b /\ before' = Remember(b, 0, FALSE)
    /\ flight' = flight + 1
    /\ UNCHANGED <<holes, delivered>>

\* Packets 1..l are lost, the next h stay, and the next a are acknowledged.
Removed(l, h, a) == 1 .. l \cup l + h + 1 .. l + h + a

Left(n, removed) == Cardinality(1 .. n \ removed)

\* The packets in flight and BBR's marks among them without the removed ones.
Remove(removed, newest) ==
    /\ flight' = Left(flight, removed)
    /\ holes' = Left(Larger(holes, newest), removed)

Trim(b, removed) ==
    [b EXCEPT !.mark = Left(@, removed), !.epoch = Left(@, removed)]

\* rqc_send_ctl_detect_lost reports a loss to BBR, and persistent congestion.
DetectLost(l, persistent) ==
    LET b == IF l > 0 THEN rqc_bbr_on_lost(bbr, flight) ELSE bbr
    IN  IF persistent THEN rqc_bbr_reset_cwnd(b) ELSE b

\* What a valid sample tells BBR (rqc_update_sample, rqc_generate_sample).
Sample(b, l, h, a, rtt, bw, app_limited, extra) ==
    LET newest == l + h + a
    IN  [round_start |-> newest > b.mark, before_loss |-> newest <= b.epoch,
         acked |-> a, inflight |-> flight - l - a,
         delivered |-> Smaller(delivered + a, InitCwnd),
         rtt |-> rtt, bw |-> bw, app_limited |-> app_limited, extra |-> extra]

\* rqc_send_ctl_on_ack_received with a valid sample.
Ack(l, h, a) ==
    /\ l + h + a <= flight
    /\ \E rtt \in Rtts, bw \in Bandwidths, limited \in BOOLEAN, extra \in Extras :
          \E lost \in {DetectLost(l, FALSE)} :
          \E s \in {Sample(lost, l, h, a, rtt, bw, limited, extra)} :
          \E b \in rqc_bbr_on_ack(Trim(lost, Removed(l, h, a)), s) :
             bbr' = b /\ before' = Remember(b, l, FALSE)
    /\ Remove(Removed(l, h, a), l + h + a)
    /\ delivered' = Smaller(delivered + a, InitCwnd)

\* An ACK after persistent congestion, or whose interval is shorter than the
\* smallest round trip, is no sample.
AckNoSample(l, h, a, persistent) ==
    /\ l + h + a <= flight /\ (persistent => l > 0)
    /\ LET b == Trim(DetectLost(l, persistent), Removed(l, h, a))
       IN  bbr' = b /\ before' = Remember(b, l, persistent)
    /\ Remove(Removed(l, h, a), l + h + a)
    /\ delivered' = Smaller(delivered + a, InitCwnd)

\* The loss timer declares packets lost that an ACK left behind.
LossTimer(l, persistent) ==
    /\ l <= holes
    /\ LET b == Trim(DetectLost(l, persistent), 1 .. l)
       IN  bbr' = b /\ before' = Remember(b, l, persistent)
    /\ Remove(1 .. l, 0)
    /\ UNCHANGED delivered

Tick ==
    /\ bbr' = [bbr EXCEPT !.min_age = Smaller(@ + 1, WinSize + 1),
                          !.probe_age = Smaller(@ + 1, WinSize + 1),
                          !.done_stamp = IF @ > 0 THEN @ - 1 ELSE @]
    /\ UNCHANGED <<flight, holes, delivered, before>>

AnyAck == \E l \in 0 .. flight, h \in 0 .. MaxHeld, a \in 1 .. flight : Ack(l, h, a)

Next ==
    \/ \E idle \in BOOLEAN : Send(idle)
    \/ AnyAck
    \/ \E l \in 0 .. flight, h \in 0 .. MaxHeld, a \in 1 .. flight, persistent \in BOOLEAN :
          AckNoSample(l, h, a, persistent)
    \/ \E l \in 1 .. holes, persistent \in BOOLEAN : LossTimer(l, persistent)
    \/ Tick

Fairness ==
    /\ WF_vars(Tick)
    /\ SF_vars(\E idle \in BOOLEAN : Send(idle))
    /\ SF_vars(AnyAck)

Spec == Init /\ [][Next]_vars /\ Fairness

----------------------------------------------------------------------------
(* Properties.                                                             *)

\* However PROBE_RTT and recovery overlap, when the last of them ends the window is
\* back where it was, or at its target if that is smaller now. Meanwhile it never
\* falls below its floor, so the sender is never silenced, and in PROBE_RTT it
\* stays at the dip whatever recovery restores.
WindowRestored ==
    [][/\ Lowered(bbr) /\ ~Lowered(bbr') =>
             bbr'.cwnd >= Smaller(before', rqc_bbr_target_cwnd(bbr', cwnd_gain(bbr')))
       /\ MinCwnd <= bbr'.cwnd
       /\ bbr'.mode = "PROBE_RTT" => bbr'.cwnd <= rqc_bbr_probe_rtt_cwnd(bbr')]_vars

\* PROBE_RTT ends, also when losses move the mark of its round.
ProbeRttEnds == []<>(bbr.mode # "PROBE_RTT")
=============================================================================
