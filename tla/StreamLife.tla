----------------------------- MODULE StreamLife -----------------------------
(***************************************************************************)
(* The life of the streams of one connection (rqc_stream.c and the stream   *)
(* frames of rqc_frame.c): creation by either side, the sending and the     *)
(* receiving state, the lists of streams to read, to write and to close,    *)
(* the loops of an engine pass over these lists, which call the application *)
(* and keep a saved successor meanwhile, the STREAM_CLOSE timer and the      *)
(* destruction of a stream.                                                 *)
(*                                                                         *)
(* A stream carries at most one byte each way and then FIN; of what it sends *)
(* only the first transmission and the acknowledgement are seen             *)
(* (retransmission is in LossRecovery, windows are in FlowControl).          *)
(***************************************************************************)
EXTENDS Integers, Sequences, Functions

CONSTANTS Streams,      \* stream numbers (stream_id >> 2)
          Passive,      \* those the peer opens
          SendOnly,     \* unidirectional streams, of this side
          RecvOnly,     \* and of the peer
          Size,         \* bytes the peer sends before its FIN: 0 or 1
          Refusable,    \* streams that stream_create_notify may refuse
          Calls,        \* Calls[s]: the calls the application makes for stream s
          Cross         \* <<loop, call>>: calls a callback makes for other streams

ASSUME StreamsAssumption ==
    /\ Streams \subseteq Nat /\ Passive \subseteq Streams
    /\ SendOnly \subseteq Streams \ Passive /\ RecvOnly \in {{}, Passive}
    /\ Size \in {0, 1} /\ Refusable \subseteq Streams
    /\ Calls \in [Streams -> SUBSET {"recv", "peek", "data", "fin", "eagain", "close"}]

VARIABLES conn,         \* the streams and lists of the rqc_connection_t
          walk          \* the loop that runs, if one does

vars == <<conn, walk>>

End == -1              \* the list head, as a loop position

NoWalk == [kind |-> "none", pos |-> End, next |-> End, due |-> {}, later |-> FALSE]

Stream == [life |-> "none",     \* none, live, freed
           snd  |-> "READY",    \* stream_state_send
           rcv  |-> "RECV",     \* stream_state_recv
           flags |-> {},        \* APP_CLOSED, NEED_CLOSE, FIN_WRITE, DISCARDED
           got  |-> 0,          \* merged_offset_end
           det  |-> FALSE,      \* stream_determined
           read |-> 0,          \* next_read_offset
           tx   |-> [k \in {"data", "fin", "reset"} |-> "no"]]

SendIsReset(x) == x.snd \in {"RESET_SENT", "RESET_RECVD"}
RecvIsReset(x) == x.rcv \in {"RESET_RECVD", "RESET_READ"}

Live == {s \in Streams : conn.st[s].life = "live"}

-----------------------------------------------------------------------------
(* The lists *)

\* rqc_list_add_tail of a node that is in no list, and rqc_list_del_init
Add(l, s) == IF s \in Range(l) THEN l ELSE Append(l, s)

Index(l, s) == CHOOSE i \in DOMAIN l : l[i] = s

Del(l, s) ==
    IF s \notin Range(l) THEN l
    ELSE SubSeq(l, 1, Index(l, s) - 1) \o SubSeq(l, Index(l, s) + 1, Len(l))

ReadyToWrite(C, s) == [C EXCEPT !.w = Add(@, s)]
ShutdownWrite(C, s) == [C EXCEPT !.w = Del(@, s)]
ReadyToRead(C, s) == [C EXCEPT !.r = Add(@, s)]
ShutdownRead(C, s) == [C EXCEPT !.r = Del(@, s)]

\* pos->next; a node that rqc_list_del_init removed points at itself.
First(l) == IF l = <<>> THEN End ELSE l[1]
Succ(l, s) ==
    IF s \notin Range(l) THEN s
    ELSE IF Index(l, s) = Len(l) THEN End ELSE l[Index(l, s) + 1]

-----------------------------------------------------------------------------
(* Closing *)

SendDone(x) == x.snd \in {"DATA_RECVD", "RESET_RECVD"}
RecvDone(x) == x.rcv \in {"DATA_READ", "RESET_READ"}

\* rqc_stream_is_terminal_state
IsTerminal(C, s) ==
    /\ s \in RecvOnly \/ SendDone(C.st[s])
    /\ s \in SendOnly \/ RecvDone(C.st[s])

\* rqc_stream_close_discarded_stream, and the body of maybe_need_close
NeedClose(C, s) ==
    IF "NEED_CLOSE" \in C.st[s].flags THEN C
    ELSE ShutdownWrite(ShutdownRead(
            [C EXCEPT !.st[s].flags = @ \cup {"NEED_CLOSE"},
                      !.timer = TRUE,
                      !.c = Append(@, s)], s), s)

\* rqc_stream_maybe_need_close
MaybeNeedClose(C, s) == IF IsTerminal(C, s) THEN NeedClose(C, s) ELSE C

\* rqc_write_reset_stream_to_packet
WriteReset(C, s) == [C EXCEPT !.st[s] = [@ EXCEPT !.snd = "RESET_SENT", !.tx["reset"] = "queued"]]

\* rqc_send_queue_drop_stream_frame_packets
Drop(C, s) == [C EXCEPT !.st[s].tx = [@ EXCEPT !["data"] = "no", !["fin"] = "no"]]

Unhash(C, s) == [C EXCEPT !.hash = @ \ {s}]

\* rqc_destroy_stream, after stream_close_notify
Destroy(C, s) ==
    Unhash(ShutdownRead(ShutdownWrite([C EXCEPT !.st[s] = [Stream EXCEPT !.life = "freed"]], s), s), s)

-----------------------------------------------------------------------------
(* What the application calls *)

\* The first lines of rqc_stream_recv and rqc_stream_peek
ReadReset(C, s) == MaybeNeedClose(ShutdownRead([C EXCEPT !.st[s].rcv = "RESET_READ"], s), s)

\* rqc_stream_recv, of all there is
Recv(C, s) ==
    IF RecvIsReset(C.st[s]) THEN ReadReset(C, s)
    ELSE LET C1 == [C EXCEPT !.st[s].read = C.st[s].got]
             x  == C1.st[s]
         IN  ShutdownRead(
                 IF x.det /\ x.read = Size /\ x.rcv = "DATA_RECVD"
                 THEN MaybeNeedClose([C1 EXCEPT !.st[s].rcv = "DATA_READ"], s)
                 ELSE C1, s)

\* rqc_stream_peek
Peek(C, s) == IF RecvIsReset(C.st[s]) THEN ReadReset(C, s) ELSE ShutdownRead(C, s)

\* rqc_stream_send of data or of FIN; what does not fit leaves the stream in
\* the write list.
Send(C, s, k, fits) ==
    LET x == C.st[s] IN
    IF SendIsReset(x) \/ "FIN_WRITE" \in x.flags THEN ShutdownWrite(C, s)
    ELSE IF x.tx[k] # "no" THEN C                   \* bound: one byte
    ELSE IF ~fits THEN ReadyToWrite(C, s)
    ELSE ShutdownWrite(
            [C EXCEPT !.st[s] = [x EXCEPT !.tx[k] = "queued",
                                          !.flags = IF k = "fin" THEN @ \cup {"FIN_WRITE"} ELSE @]],
            s)

\* Mutant: closing takes the stream off the read list.
CloseUnread(C, s) ==
    LET C1 == [C EXCEPT !.st[s].flags = @ \cup {"APP_CLOSED"}]
        C2 == IF SendIsReset(C1.st[s]) THEN C1 ELSE WriteReset(Drop(C1, s), s)
    IN  ShutdownRead(ShutdownWrite(C2, s), s)

\* rqc_stream_close; the STOP_SENDING it may write asks for the RESET_STREAM
\* that the peer's answer to RESET_STREAM is anyway.
Close(C, s) ==
    LET C1 == [C EXCEPT !.st[s].flags = @ \cup {"APP_CLOSED"}]
        C2 == IF SendIsReset(C1.st[s]) THEN C1 ELSE WriteReset(Drop(C1, s), s)
    IN  ReadyToRead(ShutdownWrite(C2, s), s)

\* rqc_stream_drain_read
DrainRead(C, s) ==
    IF s \in SendOnly \/ RecvDone(C.st[s]) THEN ShutdownRead(C, s) ELSE Recv(C, s)

Apply(C, s, call) ==
    CASE call = "none"   -> C
      [] call = "recv"   -> Recv(C, s)
      [] call = "peek"   -> Peek(C, s)
      [] call = "data"   -> Send(C, s, "data", TRUE)
      [] call = "fin"    -> Send(C, s, "fin", TRUE)
      [] call = "eagain" -> Send(C, s, "data", FALSE)
      [] call = "close"  -> Close(C, s)

\* What a callback for stream s, made by a loop of the given kind, may leave: it
\* makes a call for s, and one for another stream if Cross has it.
Callback(C, kind, s) ==
    LET own == {Apply(C, s, call) : call \in Calls[s] \cup {"none"}}
        others == (Live \ {s}) \X {c[2] : c \in {d \in Cross : d[1] = kind}}
    IN  own \cup {Apply(D, o[1], o[2]) : D \in own, o \in others}

-----------------------------------------------------------------------------
Init ==
    /\ conn = [st    |-> [s \in Streams |-> Stream],
               w     |-> <<>>,      \* conn_write_streams
               r     |-> <<>>,      \* conn_read_streams
               c     |-> <<>>,      \* conn_closing_streams
               timer |-> FALSE,     \* RQC_TIMER_STREAM_CLOSE is set
               top   |-> -1,        \* max_stream_id_bidi_remote
               hash  |-> {},        \* passive_streams_hash
               err   |-> FALSE]     \* TRA_INTERNAL_ERROR
    /\ walk = NoWalk

\* The engine is outside its loops.
Idle == walk.kind = "none" /\ ~conn.err

\* The flags stream_create_notify leaves
Answers(s) == IF s \in Refusable THEN {{}, {"DISCARDED"}} ELSE {{}}

\* rqc_stream_create
Create(s) ==
    /\ Idle /\ s \in Streams \ Passive /\ conn.st[s].life = "none"
    /\ \E F \in Answers(s) :
           conn' = ReadyToWrite([conn EXCEPT !.st[s] = [@ EXCEPT !.life = "live", !.flags = F]], s)
    /\ UNCHANGED walk

\* The application calls for a stream it has accepted, outside callbacks.
AppCall(s) ==
    /\ Idle /\ s \in Live /\ "DISCARDED" \notin conn.st[s].flags
    /\ \E call \in Calls[s] : conn' = Apply(conn, s, call)
    /\ UNCHANGED walk

-----------------------------------------------------------------------------
(* Frames *)

\* rqc_passive_create_stream: the connections it may lead to; a stream that was
\* destroyed is not created again.
Passively(C, s) ==
    LET known == IF s > C.top
                 THEN [C EXCEPT !.hash = @ \cup {t \in Passive : C.top < t /\ t <= s}, !.top = s]
                 ELSE C
    IN  IF s \notin known.hash THEN {}
        ELSE {[known EXCEPT !.st[s] = [Stream EXCEPT !.life = "live", !.flags = F]]
                 : F \in Answers(s)}

\* The connections in which a frame for s is looked at.
Found(C, s) ==
    IF C.st[s].life = "live" THEN {C}
    ELSE IF s \in Passive THEN Passively(C, s) ELSE {}

\* rqc_process_stream_frame: the byte, or the empty frame with FIN after it
OnStream(C, s, fin) ==
    LET x    == C.st[s]
        old  == IF fin THEN x.got = Size /\ x.det /\ Size > 0 ELSE x.got = 1
        D    == IF fin THEN [C EXCEPT !.st[s] =
                                [x EXCEPT !.det = TRUE,
                                          !.rcv = IF @ = "RECV" THEN "SIZE_KNOWN" ELSE @]]
                ELSE C
        E    == IF fin THEN D ELSE [D EXCEPT !.st[s].got = 1]
        y    == E.st[s]
    IN  IF RecvIsReset(x) \/ old THEN C
        ELSE IF "DISCARDED" \in x.flags THEN IF fin THEN NeedClose(D, s) ELSE D
        ELSE IF y.det /\ y.got = Size
        THEN ReadyToRead([E EXCEPT !.st[s].rcv = IF @ = "SIZE_KNOWN" THEN "DATA_RECVD" ELSE @], s)
        ELSE IF y.read < y.got THEN ReadyToRead(E, s)
        ELSE E

\* Mutant: a reset that comes after all data does not wake the reader.
OnResetQuiet(C, s) ==
    LET D == IF SendIsReset(C.st[s]) THEN C ELSE WriteReset(Drop(C, s), s)
    IN  IF RecvIsReset(C.st[s]) THEN D
        ELSE IF C.st[s].rcv \in {"DATA_RECVD", "DATA_READ"} THEN [D EXCEPT !.st[s].rcv = "RESET_RECVD"]
        ELSE ReadyToRead([D EXCEPT !.st[s].rcv = "RESET_RECVD"], s)

\* rqc_process_reset_stream_frame, after stream_closing_notify
OnReset(C, s) ==
    LET D == IF SendIsReset(C.st[s]) THEN C ELSE WriteReset(Drop(C, s), s)
    IN  IF RecvIsReset(C.st[s]) THEN D
        ELSE ReadyToRead([D EXCEPT !.st[s].rcv = "RESET_RECVD"], s)

\* rqc_process_stop_sending_frame
OnStop(C, s) == IF SendIsReset(C.st[s]) THEN C ELSE WriteReset(C, s)

RecvData(s) ==
    /\ Idle /\ s \notin SendOnly /\ Size = 1
    /\ \E C \in Found(conn, s) : conn' = OnStream(C, s, FALSE)
    /\ UNCHANGED walk

RecvFin(s) ==
    /\ Idle /\ s \notin SendOnly
    /\ \E C \in Found(conn, s) : conn' = OnStream(C, s, TRUE)
    /\ UNCHANGED walk

\* stream_closing_notify may close the stream.
RecvReset(s) ==
    /\ Idle
    /\ \E C \in Found(conn, s), call \in {"none", "close"} :
           conn' = OnReset(Apply(C, s, call), s)
    /\ UNCHANGED walk

RecvStop(s) ==
    /\ Idle
    /\ \E C \in Found(conn, s) : conn' = OnStop(C, s)
    /\ UNCHANGED walk

-----------------------------------------------------------------------------
(* Sending *)

\* A frame of the stream leaves (rqc_conn_increase_unacked_stream_ref).
Sent(s, k) ==
    LET x == conn.st[s] IN
    /\ Idle /\ s \in Live /\ x.tx[k] = "queued"
    /\ k # "data" => x.tx["data"] # "queued"
    /\ conn' = [conn EXCEPT !.st[s] =
                   [x EXCEPT !.tx[k] = "sent",
                             !.snd = IF k = "fin" /\ @ \in {"READY", "SEND"} THEN "DATA_SENT"
                                     ELSE IF k = "data" /\ @ = "READY" THEN "SEND" ELSE @]]
    /\ UNCHANGED walk

\* Mutant: the FIN is taken for all there was.
AckedFin(C, s, k) ==
    LET D == [C EXCEPT !.st[s].tx[k] = "acked"] IN
    IF k = "fin" /\ D.st[s].snd = "DATA_SENT"
    THEN MaybeNeedClose([D EXCEPT !.st[s].snd = "DATA_RECVD"], s)
    ELSE IF k = "reset" /\ D.st[s].snd = "RESET_SENT"
    THEN MaybeNeedClose([D EXCEPT !.st[s].snd = "RESET_RECVD"], s)
    ELSE D

\* rqc_conn_decrease_unacked_stream_ref, rqc_send_ctl_on_reset_stream_acked
Acked(C, s, k) ==
    LET D == [C EXCEPT !.st[s].tx[k] = "acked"]
        x == D.st[s]
    IN  IF k # "reset" /\ x.snd = "DATA_SENT" /\ "sent" \notin {x.tx["data"], x.tx["fin"]}
        THEN MaybeNeedClose([D EXCEPT !.st[s].snd = "DATA_RECVD"], s)
        ELSE IF k = "reset" /\ x.snd = "RESET_SENT"
        THEN MaybeNeedClose([D EXCEPT !.st[s].snd = "RESET_RECVD"], s)
        ELSE D

RecvAck(s, k) ==
    /\ Idle /\ s \in Live /\ conn.st[s].tx[k] = "sent"
    /\ conn' = Acked(conn, s, k)
    /\ UNCHANGED walk

-----------------------------------------------------------------------------
(* The loops *)

Begin(kind, l, due) ==
    walk' = [kind |-> kind, pos |-> First(l), next |-> Succ(l, First(l)),
             due |-> due, later |-> FALSE]

StartRead == Idle /\ conn.r # <<>> /\ Begin("read", conn.r, {}) /\ UNCHANGED conn

StartWrite == Idle /\ conn.w # <<>> /\ Begin("write", conn.w, {}) /\ UNCHANGED conn

\* The timer expires: the time of some streams has come.
StartClose ==
    /\ Idle /\ conn.timer
    /\ \E due \in (SUBSET Range(conn.c)) \ {{}} : Begin("close", conn.c, due)
    /\ UNCHANGED conn

\* pos = n, n = pos->next
Advance(l, later) ==
    IF walk.next = End THEN NoWalk
    ELSE [walk EXCEPT !.pos = walk.next, !.next = Succ(l, walk.next), !.later = later]

\* One turn of rqc_process_read_streams; a node that points at itself is an error.
ReadStep ==
    LET s == walk.pos IN
    /\ walk.kind = "read"
    /\ conn' \in IF s \notin Range(conn.r) THEN {[conn EXCEPT !.err = TRUE]}
                ELSE IF "APP_CLOSED" \in conn.st[s].flags THEN {DrainRead(conn, s)}
                ELSE Callback(conn, "read", s)
    /\ walk' = IF conn'.err THEN NoWalk ELSE Advance(conn'.r, FALSE)

\* One turn of rqc_process_write_streams; a blocked stream is passed over, as if
\* stream_write_notify called nothing.
WriteStep ==
    LET s == walk.pos IN
    /\ walk.kind = "write"
    /\ conn' \in IF "APP_CLOSED" \in conn.st[s].flags THEN {ShutdownWrite(conn, s)}
                ELSE Callback(conn, "write", s)
    /\ walk' = Advance(conn'.w, FALSE)

\* Mutant: the timer is not set again for the streams that stay.
KeepTimerNot(later) == FALSE

\* Is the timer set again, and not unset by rqc_timer_expire?
KeepTimer(later) == later

\* One turn of rqc_timer_stream_close_timeout
CloseStep ==
    LET s == walk.pos
        later == walk.later \/ s \notin walk.due
        C == IF s \in walk.due THEN [conn EXCEPT !.c = Del(@, s)] ELSE conn
    IN
    /\ walk.kind = "close"
    /\ \E D \in IF s \notin walk.due THEN {C}
                ELSE {Destroy(E, s) : E \in IF "DISCARDED" \in C.st[s].flags THEN {C}
                                            ELSE Callback(C, "close", s)} :
         conn' = IF walk.next = End THEN [D EXCEPT !.timer = KeepTimer(later)] ELSE D
    /\ walk' = Advance(conn'.c, later)

-----------------------------------------------------------------------------
Frame == {"data", "fin", "reset"}

Next ==
    \/ \E s \in Streams : \/ Create(s) \/ AppCall(s)
                          \/ RecvData(s) \/ RecvFin(s) \/ RecvReset(s) \/ RecvStop(s)
                          \/ \E k \in Frame : Sent(s, k) \/ RecvAck(s, k)
    \/ StartRead \/ StartWrite \/ StartClose
    \/ ReadStep \/ WriteStep \/ CloseStep

Spec == Init /\ [][Next]_vars

\* The peer answers a RESET_STREAM with its own, if it has not sent one yet.
PeerResets(s) ==
    /\ conn.st[s].tx["reset"] \in {"sent", "acked"} /\ ~RecvIsReset(conn.st[s])
    /\ RecvReset(s)

\* What closing a stream sends and waits for.
Network ==
    \E s \in Streams : \/ Sent(s, "data") \/ Sent(s, "reset")
                       \/ RecvAck(s, "reset") \/ PeerResets(s)

\* A loop that runs goes on.  A stream in a list makes the connection active and
\* the timer wakes it, so the loops are run again and again; packets are sent
\* until they are acknowledged.  No stream does more than a few steps of Network.
FairSpec ==
    /\ Spec
    /\ WF_vars(ReadStep \/ WriteStep \/ CloseStep)
    /\ SF_vars(StartRead) /\ SF_vars(StartClose) /\ SF_vars(Network)

-----------------------------------------------------------------------------
(* Properties *)

\* The position of a loop and the successor it saved are on the list, whatever
\* the callbacks of the loop did to other streams: the loops of
\* rqc_process_read_streams and rqc_process_write_streams end, and the check
\* for a node that points at itself never fires. Only live streams are in a list,
\* each once (rqc_destroy_stream frees the memory the nodes are in).
CursorOnList ==
    /\ ~conn.err
    /\ \A l \in {conn.w, conn.r, conn.c} : Range(l) \subseteq Live /\ IsInjective(l)
    /\ walk.kind = "read" => {walk.pos, walk.next} \subseteq Range(conn.r) \cup {End}
    /\ walk.kind = "write" => {walk.pos, walk.next} \subseteq Range(conn.w) \cup {End}
    /\ walk.kind = "close" => {walk.pos, walk.next} \subseteq Range(conn.c) \cup {End}

\* A RESET_STREAM that the application has not seen keeps the stream in the read
\* list: rqc_process_reset_stream_frame puts it there also when recv or peek
\* had taken it off, or when it was closed meanwhile.
ResetIsHeard ==
    \A s \in Live \ SendOnly :
        conn.st[s].rcv = "RESET_RECVD" => s \in Range(conn.r)

\* A stream that nobody reset or refused is destroyed only after its data and
\* FIN were acknowledged and the peer's data and FIN were read, and frames that
\* arrive after that do not create it again (passive_streams_hash forgets it).
EndsOnce ==
    [][/\ \A s \in Streams : conn.st[s].life = "freed" => conn'.st[s].life = "freed"
       /\ \A s \in Live \ (SendOnly \cup RecvOnly) :
             LET x == conn.st[s] IN
             conn'.st[s].life = "freed" =>
                 \/ SendIsReset(x) \/ "DISCARDED" \in x.flags
                 \/ /\ x.tx["fin"] = "acked" /\ x.tx["data"] \in {"no", "acked"}
                    /\ x.det /\ x.read = Size]_vars

\* rqc_stream_close: "stream_close_notify will callback when stream destroyed".
\* A stream that was closed, or both parts of which have ended, is destroyed:
\* every function that ends a part calls rqc_stream_maybe_need_close, and the
\* handler of the close timer sets it again for the streams it leaves.
ClosedIsDestroyed ==
    \A s \in Streams :
        s \in Live /\ ("APP_CLOSED" \in conn.st[s].flags \/ IsTerminal(conn, s))
            ~> conn.st[s].life = "freed"
=============================================================================
