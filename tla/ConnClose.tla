------------------------------ MODULE ConnClose ------------------------------
(***************************************************************************)
(* How one connection is closed and destroyed: rqc_conn_close, errors      *)
(* (RQC_CONN_ERR), CONNECTION_CLOSE frames, the idle, draining and linger   *)
(* timers, and the engine pass (rqc_engine_process_conn followed by         *)
(* scheduling and sending) that carries all of it out.  The engine is       *)
(* single threaded: while a pass runs (places "process" and "send") only     *)
(* its own steps and the callbacks it makes can happen.                     *)
(*                                                                         *)
(* Packets are abstracted to what closing depends on: the handshake packet, *)
(* one unit of application data, an ACK-only packet and the CONNECTION_     *)
(* CLOSE packets.  Time is abstracted to which timers are set; a set timer   *)
(* may expire in any pass.                                                  *)
(***************************************************************************)
EXTENDS Naturals, FiniteSets

CONSTANTS Types,                \* the conn_types looked at: "client", "server"
          LingerOn,             \* conn_settings.linger.linger_on
          MaxRspConnCloseCnt,   \* MAX_RSP_CONN_CLOSE_CNT
          CloseInCreate         \* may conn_create_notify call rqc_conn_close?

ASSUME CloseAssumption ==
    /\ Types \subseteq {"client", "server"}
    /\ LingerOn \in BOOLEAN /\ CloseInCreate \in BOOLEAN
    /\ MaxRspConnCloseCnt \in Nat

VARIABLES conn,   \* the rqc_connection_t, with ghost fields for the properties
          peer    \* what the peer did: closes it has sent, 0 while it is open

vars == <<conn, peer>>

\* rqc_conn_state_t, in the order the code compares states with < and >=.
Rank == [SERVER_INIT |-> 0, SERVER_HANDSHAKE |-> 1, CLIENT_INIT |-> 5,
         CLIENT_HANDSHAKE |-> 6, ESTABED |-> 10, CLOSING |-> 11,
         DRAINING |-> 12, CLOSED |-> 13]

Flag == {"HSK_SENT", "HSK_RECVD", "HSK_DONE", "ERROR", "TIME_OUT", "LINGER",
         "NOTIFY", "NOTIFIED"}

Timer == {"idle", "draining", "linger", "ack", "loss"}

\* Packets the send queue may hold.  "none": there is none; "unsent": written;
\* "flight": sent and unacknowledged; "rtx": a copy waits to be sent.
Kind == {"hsk", "data"}
Status == {"none", "unsent", "flight", "rtx"}

\* Where the connection is: just created, in the active queue, in the wakeup
\* queue at the time of a timer or (due) at time 0, in an engine pass that is
\* about to process it or to send its packets, or freed.
Place == {"new", "active", "wakeup", "due", "process", "send", "freed"}

\* The fields of the connection hold values of their types, and no more than
\* MAX_RSP_CONN_CLOSE_CNT CONNECTION_CLOSE packets are ever written. A connection
\* without a timer, which rqc_engine_main_logic destroys, is always in CLOSED.
TypeOK ==
    /\ conn.type \in Types
    /\ conn.state \in DOMAIN Rank
    /\ conn.flags \subseteq Flag
    /\ conn.timers \subseteq Timer
    /\ conn.pkt \in [Kind -> Status]
    /\ conn.closeCnt \in 0 .. MaxRspConnCloseCnt
    /\ conn.closeq \in 0 .. conn.closeCnt
    /\ {conn.ackFlag, conn.ackq, conn.asked, conn.lingered, conn.sockErr,
        conn.destroys} \subseteq BOOLEAN
    /\ conn.notices \in Nat
    /\ conn.after \subseteq Kind \cup {"ack", "close"}
    /\ conn.place \in Place
    /\ conn.place \in {"due", "freed"} => conn.state = "CLOSED"
    /\ peer \in 0 .. MaxRspConnCloseCnt

Init ==
    /\ \E type \in Types : conn =
              [type     |-> type,
               state    |-> IF type = "server" THEN "SERVER_INIT" ELSE "CLIENT_INIT",
               flags    |-> {},
               timers   |-> {"idle"},
               pkt      |-> [k \in Kind |-> "none"],
               closeCnt |-> 0,        \* conn_close_count
               closeq   |-> 0,        \* CONNECTION_CLOSE packets not yet sent
               ackFlag  |-> FALSE,    \* ack_flag: an ACK is to be written
               ackq     |-> FALSE,    \* an ACK-only packet waits to be sent
               place    |-> "new",
               destroys |-> FALSE,    \* may the pass that runs free it?
               asked    |-> FALSE,    \* ghost: has rqc_conn_close returned RQC_OK?
               lingered |-> FALSE,    \* ghost: the linger timer has expired
               sockErr  |-> FALSE,    \* ghost: write_socket failed
               notices  |-> 0,        \* ghost: conn_closing callbacks made
               after    |-> {}]       \* ghost: what was sent in CLOSING or later
    /\ peer = 0

AtLeast(S, st) == Rank[S.state] >= Rank[st]

-----------------------------------------------------------------------------
(* Closing *)

\* Mutant: packets in flight are forgotten.
OutQueueEmptyUnsent(S) ==
    /\ \A k \in Kind : S.pkt[k] \notin {"unsent", "rtx"}
    /\ S.closeq = 0
    /\ ~S.ackq

\* rqc_send_queue_out_queue_empty
OutQueueEmpty(S) ==
    /\ \A k \in Kind : S.pkt[k] = "none"
    /\ S.closeq = 0
    /\ ~S.ackq

\* RQC_CONN_ERR: the first error only.
ConnErr(S) ==
    IF "ERROR" \in S.flags \/ S.sockErr THEN S
    ELSE [S EXCEPT !.flags = @ \cup {"ERROR", "NOTIFY"}]

\* Mutant: the draining timer is not set.
ShutdownNoTimer(S) ==
    [S EXCEPT !.timers = @ \ {"ack", "loss"},
              !.pkt = [k \in Kind |-> "none"],
              !.ackq = FALSE,
              !.closeq = 0]

\* rqc_conn_shutdown
Shutdown(S) ==
    [S EXCEPT !.timers = (@ \cup {"draining"}) \ {"ack", "loss"},
              !.pkt = [k \in Kind |-> "none"],
              !.ackq = FALSE,
              !.closeq = 0]

CanSendClose(S) ==
    IF S.type = "client" THEN "HSK_SENT" \in S.flags ELSE "HSK_RECVD" \in S.flags

\* rqc_conn_immediate_close
ImmediateClose(S) ==
    IF AtLeast(S, "DRAINING") THEN S
    ELSE IF ~CanSendClose(S) THEN [S EXCEPT !.state = "CLOSED"]
    ELSE LET S1 == IF AtLeast(S, "CLOSING") THEN S
                   ELSE [Shutdown(S) EXCEPT !.state = "CLOSING"]
         IN  IF S1.closeCnt < MaxRspConnCloseCnt
             THEN [S1 EXCEPT !.closeCnt = @ + 1, !.closeq = @ + 1]
             ELSE S1

\* rqc_engine_remove_wakeup_queue, then rqc_engine_add_active_queue
Activate(S) == [S EXCEPT !.place = "active"]

\* rqc_conn_close
ConnClose(S) ==
    IF AtLeast(S, "DRAINING") THEN [S EXCEPT !.asked = TRUE]
    ELSE IF LingerOn /\ ~OutQueueEmpty(S)
    THEN Activate([S EXCEPT !.asked = TRUE,
                            !.flags = @ \cup {"LINGER"},
                            !.timers = @ \cup {"linger"}])
    ELSE Activate([ImmediateClose(S) EXCEPT !.asked = TRUE])

\* What the application does in a callback that may call back into the library.
Callback(S, call) == CASE call = "none"  -> S
                       [] call = "close" -> ConnClose(S)
                       [] call = "error" -> ConnErr(S)

-----------------------------------------------------------------------------
(* Timers *)

\* Mutant: the linger timeout ends lingering and does not close.
ConnTimersNoClose(S, T) ==
    LET S1 == [S EXCEPT !.flags = IF T \cap {"idle", "draining"} = {}
                                  THEN @ ELSE @ \cup {"TIME_OUT"},
                        !.timers = @ \ (T \cap {"idle", "draining"})]
    IN  IF "linger" \in T
        THEN [S1 EXCEPT !.flags = @ \ {"LINGER"}, !.timers = @ \ {"linger"},
                        !.lingered = TRUE]
        ELSE S1

\* The connection's timers: idle and draining set TIME_OUT, linger closes.
ConnTimers(S, T) ==
    LET S1 == [S EXCEPT !.flags = IF T \cap {"idle", "draining"} = {}
                                  THEN @ ELSE @ \cup {"TIME_OUT"},
                        !.timers = @ \ (T \cap {"idle", "draining"})]
    IN  IF "linger" \in T
        THEN [ImmediateClose([S1 EXCEPT !.flags = @ \ {"LINGER"}])
                 EXCEPT !.timers = @ \ {"linger"}, !.lingered = TRUE]
        ELSE S1

\* The path's timers, unless a connection timer has just unset them: an ACK
\* becomes due, packets in flight are found lost or are probed.
PathTimers(S, T, lost) ==
    LET due == T \cap S.timers
    IN  [S EXCEPT !.ackFlag = @ \/ "ack" \in due,
                  !.pkt = [k \in Kind |-> IF /\ "loss" \in due
                                             /\ k \in lost
                                             /\ @[k] = "flight"
                                          THEN "rtx" ELSE @[k]],
                  !.timers = @ \ (due \cap {"ack"})]

\* rqc_conn_timer_expire
TimerExpire(S, T, lost) == PathTimers(ConnTimers(S, T), T, lost)

-----------------------------------------------------------------------------
(* One engine pass over the connection *)

\* Mutant: CLOSING_NOTIFIED is not looked at.
ClosingNotifyAgain(S, call) ==
    IF "NOTIFY" \notin S.flags THEN S
    ELSE Callback([S EXCEPT !.flags = (@ \ {"NOTIFY"}) \cup {"NOTIFIED"},
                            !.notices = @ + 1], call)

\* rqc_conn_closing_notify
ClosingNotify(S, call) ==
    IF "NOTIFY" \notin S.flags THEN S
    ELSE IF "NOTIFIED" \in S.flags THEN [S EXCEPT !.flags = @ \ {"NOTIFY"}]
    ELSE Callback([S EXCEPT !.flags = (@ \ {"NOTIFY"}) \cup {"NOTIFIED"},
                            !.notices = @ + 1], call)

\* Streams are read and written; the application may write data, close the
\* connection or meet an error there.  The ACK is written last.
ReadWriteStreams(S, call, writes) ==
    LET S1 == IF S.state # "ESTABED" THEN S
              ELSE Callback(IF writes /\ S.pkt["data"] = "none"
                            THEN [S EXCEPT !.pkt["data"] = "unsent"] ELSE S, call)
    IN  IF "ERROR" \in S1.flags THEN ImmediateClose(S1)
        ELSE [S1 EXCEPT !.ackq = @ \/ S1.ackFlag, !.ackFlag = FALSE]

\* rqc_engine_process_conn, after the timers
ProcessConn(S, notifyCall, call, writes) ==
    LET S1 == ClosingNotify(S, notifyCall)
    IN  CASE "TIME_OUT" \in S1.flags -> [S1 EXCEPT !.state = "CLOSED"]
          [] "TIME_OUT" \notin S1.flags /\ "ERROR" \in S1.flags -> ImmediateClose(S1)
          [] S1.flags \cap {"TIME_OUT", "ERROR"} = {} /\ "LINGER" \in S1.flags ->
                IF OutQueueEmpty(S1)
                THEN [ImmediateClose(S1) EXCEPT !.timers = @ \ {"linger"},
                                                !.flags = @ \ {"LINGER"}]
                ELSE S1
          [] S1.flags \cap {"TIME_OUT", "ERROR", "LINGER"} = {} ->
                IF AtLeast(S1, "CLOSING") THEN S1
                ELSE ReadWriteStreams(S1, call, writes)

\* rqc_conn_schedule_packets_to_paths and the sends.  X are the packets the
\* congestion window let out, n the closes; the socket may be full or fail.
Sendable(S) == {k \in Kind : S.pkt[k] \in {"unsent", "rtx"}}

SendPackets(S, X, n, socket) ==
    LET all == socket = "ok"
        kinds == X \cup (IF n > 0 THEN {"close"} ELSE {})
                   \cup (IF all /\ S.ackq THEN {"ack"} ELSE {})
    IN  [S EXCEPT !.pkt = [k \in Kind |-> IF k \in X THEN "flight" ELSE @[k]],
                  !.closeq = @ - n,
                  !.ackq = @ /\ ~all,
                  !.flags = @ \cup (IF "hsk" \in X THEN {"HSK_SENT"} ELSE {}),
                  !.timers = @ \cup (IF X = {} THEN {} ELSE {"loss"}),
                  !.after = @ \cup (IF AtLeast(S, "CLOSING") THEN kinds ELSE {}),
                  !.state = IF socket = "error" THEN "CLOSED" ELSE @,
                  !.sockErr = @ \/ socket = "error"]

\* After the sends: rqc_conn_next_wakeup_time decides where the connection
\* goes.  Only rqc_engine_main_logic outside rqc_engine_finish_recv destroys it.
AfterPass(S) ==
    LET dead == S.state = "CLOSED" \/ S.timers = {}
    IN  [S EXCEPT !.place = IF ~dead THEN "wakeup"
                            ELSE IF S.destroys THEN "freed" ELSE "due",
                  !.destroys = FALSE]

\* A pass begins with the timers that have expired; rqc_engine_conn_logic
\* never frees the connection.
StartPass(S, T, destroys) ==
    \E lost \in SUBSET {k \in Kind : S.pkt[k] = "flight"} :
        /\ "loss" \in T \/ lost = {}
        /\ conn' = [TimerExpire(S, T, lost) EXCEPT !.place = "process",
                                                  !.destroys = destroys]

-----------------------------------------------------------------------------
(* Packets *)

\* rqc_conn_process_handshake, with rqc_conn_server_on_alpn and
\* rqc_conn_send_handshake.  call is what the application does in
\* conn_create_notify or conn_handshake_finished.
ProcessHandshake(S, call) ==
    CASE S.type = "client" ->
           IF S.state # "CLIENT_HANDSHAKE" \/ "HSK_RECVD" \in S.flags THEN S
           ELSE Callback([S EXCEPT !.flags = @ \cup {"HSK_RECVD", "HSK_DONE"},
                                   !.state = "ESTABED"], call)
      [] S.type = "server" ->
           IF S.state # "SERVER_INIT" THEN S
           ELSE LET S1 == IF CloseInCreate THEN Callback(S, call) ELSE S
                IN  [S1 EXCEPT !.pkt["hsk"] = "unsent",
                               !.flags = @ \cup {"HSK_RECVD"},
                               !.state = "SERVER_HANDSHAKE"]

\* rqc_process_conn_close_frame
ProcessConnClose(S, withErr) ==
    LET S1 == IF withErr THEN ConnErr(S) ELSE S
        S2 == IF AtLeast(S1, "CLOSING") THEN S1 ELSE ImmediateClose(S1)
    IN  [S2 EXCEPT !.state = "DRAINING", !.flags = @ \cup {"NOTIFY"}]

\* An ACK frame: the packets in A are settled, copies of them included.
Unsettled(S) == {k \in Kind : S.pkt[k] \in {"flight", "rtx"}}

ProcessAck(S, A) ==
    LET P == [k \in Kind |-> IF k \in A \cap Unsettled(S) THEN "none" ELSE S.pkt[k]]
    IN  [S EXCEPT !.pkt = P,
                  !.timers = IF \E k \in Kind : P[k] = "flight"
                             THEN @ ELSE @ \ {"loss"}]

\* The frame of a packet: rqc_process_frames on a packet that carries f.
ProcessFrames(S, f, A, call) ==
    CASE S.state = "CLOSING" /\ f \notin {"close", "closeErr"} ->
           ImmediateClose(S)
      [] AtLeast(S, "DRAINING") -> S
      [] S.state # "CLOSING" /\ ~AtLeast(S, "DRAINING") /\ f = "hsk" ->
           ProcessHandshake(S, call)
      [] S.state # "CLOSING" /\ ~AtLeast(S, "DRAINING") /\ f = "ack" ->
           ProcessAck(S, A)
      [] ~AtLeast(S, "DRAINING") /\ f \in {"close", "closeErr"} ->
           ProcessConnClose(S, f = "closeErr")
      [] OTHER -> S

\* Was the frame read, and does it ask for an ACK?
Elicits(S, f) == ~AtLeast(S, "CLOSING") /\ f \in {"hsk", "app"}

\* rqc_conn_on_pkt_processed: a 1-RTT packet confirms the server's handshake
\* packet (rqc_conn_on_handshake_acked); an ACK is owed now or on the timer.
OnPktProcessed(S, hdr, elicits, ackNow, call) ==
    LET S1 == IF hdr = "short" /\ S.type = "server"
              THEN [S EXCEPT !.flags = @ \cup {"HSK_DONE"}] ELSE S
        S2 == IF /\ hdr = "short" /\ S.type = "server"
                 /\ S1.state = "SERVER_HANDSHAKE"
              THEN Callback([S1 EXCEPT !.state = "ESTABED"], call) ELSE S1
    IN  IF ~elicits THEN S2
        ELSE IF ackNow THEN [S2 EXCEPT !.ackFlag = TRUE]
        ELSE [S2 EXCEPT !.timers = @ \cup {"ack"}]

\* rqc_packet_parse_single ignores 1-RTT packets that come too early.
Ignored(S, hdr) ==
    /\ hdr = "short"
    /\ IF S.type = "client" THEN "HSK_DONE" \notin S.flags ELSE "HSK_SENT" \notin S.flags

\* rqc_engine_packet_process on a packet with frame f.  A malformed packet
\* is an error and does not restart the idle timer.
PacketIn(S, hdr, f, A, ackNow, call) ==
    IF Ignored(S, hdr) THEN Activate([S EXCEPT !.timers = @ \cup {"idle"}])
    ELSE IF f = "bad" /\ ~AtLeast(S, "CLOSING") THEN Activate(ConnErr(S))
    ELSE Activate([OnPktProcessed(ProcessFrames(S, f, A, call), hdr,
                                  Elicits(S, f), ackNow, call)
                      EXCEPT !.timers = @ \cup {"idle"}])

\* Does the packet run the connection at once?  One that was read and holds
\* more than stream data does (NEED_RUN), and any packet after an error;
\* otherwise only a full batch does.
RunsAtOnce(S, S1, hdr, f) ==
    \/ "ERROR" \in S1.flags \/ S1.sockErr
    \/ /\ ~Ignored(S, hdr)
       /\ f # "app"
       /\ IF f \in {"close", "closeErr"} THEN ~AtLeast(S, "DRAINING")
          ELSE ~AtLeast(S, "CLOSING")

-----------------------------------------------------------------------------
(* Actions *)

\* rqc_client_connect: the handshake packet is written and sent.
Connect ==
    /\ conn.type = "client"
    /\ conn.place = "new"
    /\ \E call \in {"none", "close"} :
         LET S == [conn EXCEPT !.state = "CLIENT_HANDSHAKE", !.pkt["hsk"] = "unsent"]
         IN  StartPass(Callback(Activate(S), call), {}, FALSE)
    /\ UNCHANGED peer

\* A packet arrives: the first one creates the server's connection; a client
\* hears from the peer once it has sent its handshake packet.  The peer, once
\* it has closed, sends nothing but closes and not more of them than this
\* endpoint would.
RecvPacket ==
    /\ conn.place \in {"new", "active", "wakeup", "due"}
    /\ conn.type = "server" \/ "HSK_SENT" \in conn.flags
    /\ \E hdr \in {"init", "short"}, f \in {"hsk", "ack", "app", "close", "closeErr", "bad"} :
         /\ conn.place = "new" => hdr = "init"
         /\ f = "hsk" => hdr = "init"
         /\ f = "app" => hdr = "short"
         /\ IF f \in {"close", "closeErr"}
            THEN /\ peer < MaxRspConnCloseCnt
                 /\ peer' = peer + 1
            ELSE /\ peer = 0
                 /\ UNCHANGED peer
         /\ \E A \in IF f = "ack" THEN SUBSET Unsettled(conn) ELSE {{}},
               ackNow \in IF f \in {"hsk", "app"} THEN BOOLEAN ELSE {FALSE},
               call \in {"none", "close"} :
              \E S \in {PacketIn(conn, hdr, f, A, ackNow, call)} :
                \/ StartPass(S, {}, FALSE)
                \/ ~RunsAtOnce(conn, S, hdr, f) /\ conn' = S

\* rqc_conn_close, called outside the engine's passes.
AppClose ==
    /\ conn.place \in {"active", "wakeup", "due"}
    /\ conn' = ConnClose(conn)
    /\ UNCHANGED peer

\* rqc_conn_close_with_error only marks the connection.
AppCloseWithError ==
    /\ conn.place \in {"active", "wakeup", "due"}
    /\ conn' = ConnErr(conn)
    /\ conn' # conn
    /\ UNCHANGED peer

\* rqc_stream_send on an established connection, not flushed.
AppSend ==
    /\ conn.place \in {"active", "wakeup", "due"}
    /\ conn.state = "ESTABED"
    /\ conn.pkt["data"] = "none"
    /\ conn' = Activate([conn EXCEPT !.pkt["data"] = "unsent"])
    /\ UNCHANGED peer

\* rqc_engine_main_logic reaches the connection: it is active, or due, or
\* one of its timers has come.  Under rqc_engine_finish_recv it is not destroyed.
MainLogic(T, destroys) ==
    /\ \/ conn.place \in {"active", "due"}
       \/ conn.place = "wakeup" /\ T # {}
    /\ StartPass(conn, T, destroys)
    /\ UNCHANGED peer

Tick == \E T \in SUBSET conn.timers, destroys \in BOOLEAN : MainLogic(T, destroys)

\* The connection is processed; a closed one is not sent from.
Process ==
    /\ conn.place = "process"
    /\ \E notifyCall \in {"none", "close"}, call \in {"none", "close", "error"},
          writes \in BOOLEAN :
         \E P \in {ProcessConn(conn, notifyCall, call, writes)} :
            conn' = IF P.state = "CLOSED" THEN AfterPass(P)
                    ELSE [P EXCEPT !.place = "send"]
    /\ UNCHANGED peer

\* Its packets are sent as far as the congestion window and the socket allow.
Send ==
    /\ conn.place = "send"
    /\ \E X \in SUBSET Sendable(conn), n \in 0 .. conn.closeq,
          socket \in {"ok", "eagain", "error"} :
         /\ socket = "ok" => n = conn.closeq
         /\ socket = "error" => ~OutQueueEmpty(conn)
         /\ conn' = AfterPass(SendPackets(conn, X, n, socket))
    /\ UNCHANGED peer

Freed == conn.place = "freed" /\ UNCHANGED vars

Next ==
    \/ Connect
    \/ RecvPacket
    \/ AppClose
    \/ AppCloseWithError
    \/ AppSend
    \/ Tick
    \/ Process
    \/ Send
    \/ Freed

Spec == Init /\ [][Next]_vars

Expires(t) ==
    /\ conn.place \in {"active", "due", "wakeup"} /\ t \in conn.timers
    /\ \E T \in SUBSET (conn.timers \ {t}) : MainLogic(T \cup {t}, TRUE)

Runs == conn.place \in {"active", "due"} /\ MainLogic({}, TRUE)

\* A pass that has begun goes on.  Strong fairness, because passes for other
\* reasons come in between: the application calls rqc_engine_main_logic when
\* the event timer it was asked to set fires, so active and due connections
\* run; the draining timer is never put off and the linger timer only by
\* another call of rqc_conn_close, so they expire; the idle timer expires
\* unless packets keep coming.
FairSpec ==
    /\ Spec
    /\ WF_vars(Process \/ Send)
    /\ SF_vars(Runs)
    /\ SF_vars(Expires("draining"))
    /\ SF_vars(Expires("linger"))
    /\ SF_vars(Expires("idle") \/ RecvPacket)

-----------------------------------------------------------------------------
(* Properties *)

\* A connection that rqc_conn_close was called on never goes back to work:
\* it is closing, or lingers until its queue is empty or the timer expires
\* (rqc_conn_close, rqc_timer_linger_close_timeout, the linger branch of
\* rqc_engine_process_conn). Once CONNECTION_CLOSE has been written nothing but
\* closes, and the ACK of the pass in which the close was called, leaves the
\* endpoint: shutdown empties every queue and unsets the timers that would fill
\* them again.
CloseSticks ==
    /\ conn.asked => AtLeast(conn, "CLOSING") \/ "LINGER" \in conn.flags
    /\ conn.after \subseteq {"close", "ack"}

\* The application hears conn_closing at most once, and has heard it by the
\* time a connection that the peer closed or an error hit is destroyed,
\* unless the socket failed. Only a connection in CLOSED is destroyed (TypeOK).
NotifiedOnce ==
    /\ TypeOK
    /\ conn.notices <= 1
    /\ conn.place = "freed" /\ ~conn.sockErr /\ "ERROR" \in conn.flags => conn.notices = 1

\* Lingering gives unacknowledged data up only when the linger timer expired
\* or the connection met an error.
LingerKeepsData ==
    [][/\ "LINGER" \in conn.flags
       /\ conn.pkt["data"] # "none"
       /\ ~AtLeast(conn, "CLOSING")
       /\ conn'.state = "CLOSING"
       => conn'.lingered \/ "ERROR" \in conn'.flags]_vars

\* A connection that was closed, by the application, by the peer or by an
\* error, is destroyed in the end.
CloseFinishes ==
    (conn.asked \/ "ERROR" \in conn.flags \/ AtLeast(conn, "CLOSING"))
        ~> conn.place = "freed"
=============================================================================
