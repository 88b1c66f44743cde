--------------------------- MODULE ConnCloseProofs ---------------------------
(***************************************************************************)
(* Closing a connection, for any number of CONNECTION_CLOSE packets, with  *)
(* lingering and without: a close that was asked for sticks, the           *)
(* application is told once, and lingering keeps its data.  Each operator  *)
(* of ConnClose is shown to keep Core, the part of the invariant that does *)
(* not depend on where the connection is.                                  *)
(***************************************************************************)
EXTENDS ConnClose, TLAPS

\* The states in which the connection is closed or on its way there.
Late == {"CLOSING", "DRAINING", "CLOSED"}

\* No packet is written or in flight.
NoPkt == [k \in Kind |-> "none"]

\* What may still be sent in CLOSING and DRAINING.
Last == {"close", "ack"}

\* The fields of the connection and their types.
Conn ==
    [type : Types, state : DOMAIN Rank, flags : SUBSET Flag, timers : SUBSET Timer,
     pkt : [Kind -> Status], closeCnt : 0 .. MaxRspConnCloseCnt, closeq : Nat,
     ackFlag : BOOLEAN, ackq : BOOLEAN, place : Place, destroys : BOOLEAN,
     asked : BOOLEAN, lingered : BOOLEAN, sockErr : BOOLEAN, notices : {0, 1},
     after : SUBSET Last]

\* What the handshake has to do with closing: who can send a CONNECTION_CLOSE in
\* ESTABED, and that a server that cannot has written nothing.
Sound(S) ==
    IF S.type = "client"
    THEN /\ S.state \notin {"SERVER_INIT", "SERVER_HANDSHAKE"}
         /\ S.state = "ESTABED" => "HSK_SENT" \in S.flags
    ELSE /\ S.state \notin {"CLIENT_INIT", "CLIENT_HANDSHAKE"}
         /\ S.state \in {"SERVER_HANDSHAKE", "ESTABED"} => "HSK_RECVD" \in S.flags
         /\ "HSK_RECVD" \notin S.flags => S.pkt = NoPkt

\* What every operator needs: the closes waiting are among those written, only
\* lingering connections have the flag, a shut down connection has no packets,
\* data needs an established one, the idle timer runs until the timeout is
\* marked, NOTIFIED counts the notice, and an error is told or will be.
Base(S) ==
    /\ S \in Conn
    /\ S.closeq <= S.closeCnt
    /\ "LINGER" \in S.flags => LingerOn
    /\ S.state \in {"CLOSING", "DRAINING"} => S.pkt = NoPkt
    /\ S.pkt["data"] # "none" => S.state \in {"ESTABED", "CLOSED"}
    /\ "idle" \in S.timers \/ "TIME_OUT" \in S.flags
    /\ "NOTIFIED" \in S.flags <=> S.notices = 1
    /\ "ERROR" \in S.flags => "NOTIFY" \in S.flags \/ "NOTIFIED" \in S.flags
    /\ Sound(S)

\* ... and a close that was asked for is under way.  rqc_conn_immediate_close
\* establishes this part whatever the flags are.
Core(S) ==
    /\ Base(S)
    /\ S.asked => S.state \in Late \/ "LINGER" \in S.flags

\* The inductive invariant: Core, and what the places of the connection say.  A
\* connection about to send has not timed out and is not closed, so that after
\* the pass it has a timer unless the socket failed.
CInv ==
    /\ Core(conn)
    /\ peer \in 0 .. MaxRspConnCloseCnt
    /\ conn.place = "new" => ~conn.asked /\ conn.state \in {"CLIENT_INIT", "SERVER_INIT"}
    /\ conn.place \in {"due", "freed"} => conn.state = "CLOSED"
    /\ conn.place = "send" => conn.state # "CLOSED" /\ "TIME_OUT" \notin conn.flags
    /\ conn.place = "freed" /\ ~conn.sockErr /\ "ERROR" \in conn.flags => conn.notices = 1

\* Data is held back by lingering.
Lingers(S) == "LINGER" \in S.flags /\ S.pkt["data"] # "none" /\ S.state \notin Late

\* The states in the order of their ranks.
LEMMA Ranks ==
    /\ DOMAIN Rank = {"SERVER_INIT", "SERVER_HANDSHAKE", "CLIENT_INIT", "CLIENT_HANDSHAKE",
                      "ESTABED", "CLOSING", "DRAINING", "CLOSED"}
    /\ \A S : S.state \in DOMAIN Rank =>
         /\ AtLeast(S, "CLOSING") <=> S.state \in Late
         /\ AtLeast(S, "DRAINING") <=> S.state \in {"DRAINING", "CLOSED"}
  <1>1. DOMAIN Rank = {"SERVER_INIT", "SERVER_HANDSHAKE", "CLIENT_INIT", "CLIENT_HANDSHAKE",
                       "ESTABED", "CLOSING", "DRAINING", "CLOSED"}
    BY DEF Rank
  <1>2. /\ Rank["SERVER_INIT"] = 0 /\ Rank["SERVER_HANDSHAKE"] = 1 /\ Rank["CLIENT_INIT"] = 5
        /\ Rank["CLIENT_HANDSHAKE"] = 6 /\ Rank["ESTABED"] = 10 /\ Rank["CLOSING"] = 11
        /\ Rank["DRAINING"] = 12 /\ Rank["CLOSED"] = 13
    BY DEF Rank
  <1> QED
    BY <1>1, <1>2 DEF AtLeast, Late

\* AtLeast, for a connection.
LEMMA Stages ==
    ASSUME NEW S \in Conn
    PROVE  /\ S.state \in {"SERVER_INIT", "SERVER_HANDSHAKE", "CLIENT_INIT", "CLIENT_HANDSHAKE",
                           "ESTABED", "CLOSING", "DRAINING", "CLOSED"}
           /\ AtLeast(S, "CLOSING") <=> S.state \in Late
           /\ AtLeast(S, "DRAINING") <=> S.state \in {"DRAINING", "CLOSED"}
           /\ S.type \in {"client", "server"}
  <1>1. S.state \in DOMAIN Rank /\ S.type \in Types
    BY DEF Conn
  <1> QED
    BY <1>1, Ranks, CloseAssumption

\* NoPkt is what it says.
LEMMA NoPkts == NoPkt \in [Kind -> Status] /\ \A k \in Kind : NoPkt[k] = "none"
  BY DEF NoPkt, Status

\* The other fields do not matter.
LEMMA SameCore ==
    ASSUME NEW S, Core(S), NEW T \in Conn, T.type = S.type, T.state = S.state, T.flags = S.flags,
           T.timers = S.timers, T.pkt = S.pkt, T.closeCnt = S.closeCnt, T.closeq = S.closeq,
           T.asked = S.asked, T.notices = S.notices
    PROVE  Core(T)
  BY DEF Core, Base, Sound

\* RQC_CONN_ERR
LEMMA ConnErrCore ==
    ASSUME NEW S, Core(S), NEW T, T = ConnErr(S)
    PROVE  /\ Core(T) /\ T.type = S.type /\ T.state = S.state /\ T.pkt = S.pkt
           /\ S.flags \subseteq T.flags /\ T.flags \subseteq S.flags \cup {"ERROR", "NOTIFY"}
           /\ T.sockErr = S.sockErr /\ T.place = S.place /\ T.asked = S.asked
  <1>1. CASE "ERROR" \in S.flags \/ S.sockErr
    BY <1>1 DEF ConnErr
  <1>2. CASE ~("ERROR" \in S.flags \/ S.sockErr)
    <2>1. PICK F : F = S.flags \cup {"ERROR", "NOTIFY"}
      OBVIOUS
    <2>2. T = [S EXCEPT !.flags = F]
      BY <1>2, <2>1 DEF ConnErr
    <2>3. S \in Conn
      BY DEF Core, Base
    <2>4. F \in SUBSET Flag
      BY <2>1, <2>3 DEF Conn, Flag
    <2>5. /\ T \in Conn /\ T.type = S.type /\ T.state = S.state /\ T.flags = F
          /\ T.timers = S.timers /\ T.pkt = S.pkt /\ T.closeCnt = S.closeCnt
          /\ T.closeq = S.closeq /\ T.asked = S.asked /\ T.notices = S.notices
          /\ T.sockErr = S.sockErr /\ T.place = S.place
      BY <2>2, <2>3, <2>4 DEF Conn
    <2>6. Core(T)
      BY <2>1, <2>5 DEF Core, Base, Sound
    <2> QED
      BY <2>1, <2>5, <2>6
  <1> QED
    BY <1>1, <1>2

\* rqc_conn_immediate_close closes, whatever the flags are; it never ends in
\* CLOSED where a CONNECTION_CLOSE can be sent.
LEMMA ImmediateCloseCore ==
    ASSUME NEW S, Base(S), NEW T, T = ImmediateClose(S)
    PROVE  /\ Core(T) /\ T.state \in Late /\ T.type = S.type /\ T.flags = S.flags
           /\ T.sockErr = S.sockErr /\ T.place = S.place /\ T.asked = S.asked
           /\ T.lingered = S.lingered
           /\ S.state \in {"DRAINING", "CLOSED"} => T = S
           /\ CanSendClose(S) /\ S.state # "CLOSED" => T.state # "CLOSED"
           /\ T.state = "CLOSED" => T.pkt = S.pkt
  <1>1. S \in Conn
    BY DEF Base
  <1>2. CASE AtLeast(S, "DRAINING")
    BY <1>1, <1>2, Stages DEF ImmediateClose, Core, Late
  <1>3. CASE ~AtLeast(S, "DRAINING") /\ ~CanSendClose(S)
    <2>1. T = [S EXCEPT !.state = "CLOSED"]
      BY <1>3 DEF ImmediateClose
    <2>2. /\ T \in Conn /\ T.type = S.type /\ T.state = "CLOSED" /\ T.flags = S.flags
          /\ T.timers = S.timers /\ T.pkt = S.pkt /\ T.closeCnt = S.closeCnt
          /\ T.closeq = S.closeq /\ T.asked = S.asked /\ T.notices = S.notices
          /\ T.sockErr = S.sockErr /\ T.place = S.place /\ T.lingered = S.lingered
      BY <1>1, <2>1, Ranks DEF Conn
    <2>3. Core(T)
      BY <2>2 DEF Core, Base, Sound, Late
    <2> QED
      BY <1>1, <1>3, <2>2, <2>3, Stages DEF Late
  <1>4. CASE ~AtLeast(S, "DRAINING") /\ CanSendClose(S)
    <2>1. PICK U : U = IF AtLeast(S, "CLOSING") THEN S
                       ELSE [Shutdown(S) EXCEPT !.state = "CLOSING"]
      OBVIOUS
    <2>2. T = IF U.closeCnt < MaxRspConnCloseCnt
              THEN [U EXCEPT !.closeCnt = @ + 1, !.closeq = @ + 1] ELSE U
      BY <1>4, <2>1 DEF ImmediateClose
    <2>3. /\ U \in Conn /\ U.type = S.type /\ U.state = "CLOSING" /\ U.flags = S.flags
          /\ U.pkt = NoPkt /\ U.asked = S.asked /\ U.notices = S.notices
          /\ U.sockErr = S.sockErr /\ U.place = S.place /\ U.lingered = S.lingered
          /\ "idle" \in U.timers <=> "idle" \in S.timers
          /\ U.closeq <= U.closeCnt
      <3>1. CASE AtLeast(S, "CLOSING")
        BY <1>1, <1>4, <2>1, <3>1, Stages DEF Base, Late
      <3>2. CASE ~AtLeast(S, "CLOSING")
        <4>1. PICK X : X = (S.timers \cup {"draining"}) \ {"ack", "loss"}
          OBVIOUS
        <4>2. U = [S EXCEPT !.timers = X, !.pkt = NoPkt, !.ackq = FALSE, !.closeq = 0,
                            !.state = "CLOSING"]
          BY <1>1, <2>1, <3>2, <4>1 DEF Shutdown, NoPkt, Conn
        <4>3. X \in SUBSET Timer /\ ("idle" \in X <=> "idle" \in S.timers)
          BY <1>1, <4>1 DEF Conn, Timer
        <4>4. "CLOSING" \in DOMAIN Rank
          BY Ranks
        <4>5. /\ U \in Conn /\ U.type = S.type /\ U.state = "CLOSING" /\ U.flags = S.flags
              /\ U.pkt = NoPkt /\ U.asked = S.asked /\ U.notices = S.notices
              /\ U.sockErr = S.sockErr /\ U.place = S.place /\ U.lingered = S.lingered
              /\ U.timers = X /\ U.closeq = 0 /\ U.closeCnt = S.closeCnt
          BY <1>1, <4>2, <4>3, <4>4, NoPkts DEF Conn
        <4>6. S.closeCnt \in Nat
          BY <1>1, CloseAssumption DEF Conn
        <4> QED
          BY <4>3, <4>5, <4>6
      <3> QED
        BY <3>1, <3>2
    <2>4. /\ T \in Conn /\ T.type = S.type /\ T.state = "CLOSING" /\ T.flags = S.flags
          /\ T.pkt = NoPkt /\ T.asked = S.asked /\ T.notices = S.notices
          /\ T.sockErr = S.sockErr /\ T.place = S.place /\ T.lingered = S.lingered
          /\ T.timers = U.timers /\ T.closeq <= T.closeCnt
      <3>1. CASE U.closeCnt < MaxRspConnCloseCnt
        <4>1. U.closeCnt \in Nat /\ U.closeq \in Nat
          BY <2>3, CloseAssumption DEF Conn
        <4>2. PICK c \in 0 .. MaxRspConnCloseCnt : c = U.closeCnt + 1
          BY <3>1, <4>1, CloseAssumption
        <4>3. PICK q \in Nat : q = U.closeq + 1 /\ q <= c
          BY <2>3, <4>1, <4>2
        <4>4. T = [U EXCEPT !.closeCnt = c, !.closeq = q] /\ U \in Conn
          BY <2>2, <2>3, <3>1, <4>2, <4>3
        <4>5. /\ T \in Conn /\ T.closeCnt = c /\ T.closeq = q /\ T.type = U.type
              /\ T.state = U.state /\ T.flags = U.flags /\ T.pkt = U.pkt /\ T.asked = U.asked
              /\ T.notices = U.notices /\ T.sockErr = U.sockErr /\ T.place = U.place
              /\ T.lingered = U.lingered /\ T.timers = U.timers
          BY <4>4 DEF Conn
        <4> QED
          BY <2>3, <4>3, <4>5
      <3>2. CASE ~(U.closeCnt < MaxRspConnCloseCnt)
        BY <2>2, <2>3, <3>2
      <3> QED
        BY <3>1, <3>2
    <2>5. Core(T)
      BY <2>3, <2>4, NoPkts DEF Core, Base, Sound, Late, Kind
    <2> QED
      BY <1>1, <1>4, <2>4, <2>5, Stages DEF Late
  <1> QED
    BY <1>2, <1>3, <1>4

-----------------------------------------------------------------------------
(* rqc_conn_close and the callbacks *)

\* rqc_conn_close closes, or lingers while packets are in the queues.
LEMMA ConnCloseCore ==
    ASSUME NEW S, Core(S), NEW T, T = ConnClose(S)
    PROVE  /\ Core(T) /\ T.type = S.type /\ T.sockErr = S.sockErr
           /\ S.flags \subseteq T.flags /\ T.flags \subseteq S.flags \cup {"LINGER"}
           /\ T.place \in {S.place, "active"}
           /\ S.state = "CLOSED" => T.state = "CLOSED"
           /\ CanSendClose(S) /\ S.state # "CLOSED" => T.state # "CLOSED"
           /\ Lingers(S) => Lingers(T)
  <1>1. S \in Conn /\ Base(S)
    BY DEF Core, Base
  <1>2. CASE AtLeast(S, "DRAINING")
    <2>1. T = [S EXCEPT !.asked = TRUE]
      BY <1>2 DEF ConnClose
    <2>2. S \in Conn
      BY <1>1
    <2>3. /\ T \in Conn /\ T.type = S.type /\ T.state = S.state /\ T.flags = S.flags
          /\ T.timers = S.timers /\ T.pkt = S.pkt /\ T.closeCnt = S.closeCnt
          /\ T.closeq = S.closeq /\ T.asked = TRUE /\ T.notices = S.notices
          /\ T.sockErr = S.sockErr /\ T.place = S.place
      BY <2>1, <2>2 DEF Conn
    <2>4. S.state \in {"DRAINING", "CLOSED"}
      BY <1>1, <1>2, Stages
    <2>5. Core(T)
      BY <1>1, <2>3, <2>4 DEF Core, Base, Sound, Late
    <2> QED
      BY <2>3, <2>4, <2>5 DEF Lingers
  <1>3. CASE ~AtLeast(S, "DRAINING") /\ LingerOn /\ ~OutQueueEmpty(S)
    <2>1. PICK F, W : F = S.flags \cup {"LINGER"} /\ W = S.timers \cup {"linger"}
      OBVIOUS
    <2>2. T = [S EXCEPT !.asked = TRUE, !.flags = F, !.timers = W, !.place = "active"]
      BY <1>3, <2>1 DEF ConnClose, Activate
    <2>3. S \in Conn
      BY <1>1
    <2>4. F \in SUBSET Flag /\ W \in SUBSET Timer /\ "active" \in Place
      BY <2>1, <2>3 DEF Conn, Flag, Timer, Place
    <2>5. /\ T \in Conn /\ T.type = S.type /\ T.state = S.state /\ T.flags = F
          /\ T.timers = W /\ T.pkt = S.pkt /\ T.closeCnt = S.closeCnt
          /\ T.closeq = S.closeq /\ T.asked = TRUE /\ T.notices = S.notices
          /\ T.sockErr = S.sockErr /\ T.place = "active"
      <3>1. PICK U : U = [S EXCEPT !.asked = TRUE, !.flags = F]
        OBVIOUS
      <3>2. T = [U EXCEPT !.timers = W, !.place = "active"]
        BY <2>2, <3>1
      <3>3. /\ U \in Conn /\ U.type = S.type /\ U.state = S.state /\ U.flags = F
            /\ U.pkt = S.pkt /\ U.closeCnt = S.closeCnt /\ U.closeq = S.closeq
            /\ U.asked = TRUE /\ U.notices = S.notices /\ U.sockErr = S.sockErr
        BY <2>3, <2>4, <3>1 DEF Conn
      <3>4. U \in Conn
        BY <3>3
      <3>5. /\ T \in Conn /\ T.type = U.type /\ T.state = U.state /\ T.flags = U.flags
            /\ T.timers = W /\ T.pkt = U.pkt /\ T.closeCnt = U.closeCnt /\ T.closeq = U.closeq
            /\ T.asked = U.asked /\ T.notices = U.notices /\ T.sockErr = U.sockErr
            /\ T.place = "active"
        BY <2>4, <3>2, <3>4 DEF Conn
      <3> QED
        BY <3>3, <3>5
    <2>6. Core(T)
      BY <1>1, <1>3, <2>1, <2>5 DEF Core, Base, Sound
    <2> QED
      BY <2>1, <2>5, <2>6 DEF Lingers
  <1>4. CASE ~AtLeast(S, "DRAINING") /\ ~(LingerOn /\ ~OutQueueEmpty(S))
    <2>1. PICK U : U = ImmediateClose(S)
      OBVIOUS
    <2>2. T = [U EXCEPT !.asked = TRUE, !.place = "active"]
      BY <1>4, <2>1 DEF ConnClose, Activate
    <2>3. /\ Core(U) /\ U.state \in Late /\ U.type = S.type /\ U.flags = S.flags
          /\ U.sockErr = S.sockErr
          /\ CanSendClose(S) /\ S.state # "CLOSED" => U.state # "CLOSED"
      BY <1>1, <2>1, ImmediateCloseCore
    <2>4. U \in Conn
      BY <2>3 DEF Core, Base
    <2>5. /\ T \in Conn /\ T.type = U.type /\ T.state = U.state /\ T.flags = U.flags
          /\ T.timers = U.timers /\ T.pkt = U.pkt /\ T.closeCnt = U.closeCnt
          /\ T.closeq = U.closeq /\ T.asked = TRUE /\ T.notices = U.notices
          /\ T.sockErr = U.sockErr /\ T.place = "active"
      BY <2>2, <2>4 DEF Conn, Place
    <2>6. Core(T)
      BY <2>3, <2>5 DEF Core, Base, Sound
    <2>7. ~Lingers(S)
      <3>1. ASSUME Lingers(S) PROVE FALSE
        <4>1. LingerOn /\ S.pkt["data"] # "none"
          BY <1>1, <3>1 DEF Lingers, Base
        <4> QED
          BY <1>4, <4>1 DEF OutQueueEmpty, Kind
      <3> QED
        BY <3>1
    <2>8. S.state # "CLOSED"
      BY <1>1, <1>4, Stages
    <2> QED
      BY <2>3, <2>5, <2>6, <2>7, <2>8
  <1> QED
    BY <1>2, <1>3, <1>4

\* What the application does in a callback.
LEMMA CallbackCore ==
    ASSUME NEW S, Core(S), NEW call \in {"none", "close", "error"}, NEW T, T = Callback(S, call)
    PROVE  /\ Core(T) /\ T.type = S.type /\ T.sockErr = S.sockErr
           /\ S.flags \subseteq T.flags
           /\ T.flags \subseteq S.flags \cup {"LINGER", "ERROR", "NOTIFY"}
           /\ call # "error" => T.flags \subseteq S.flags \cup {"LINGER"}
           /\ CanSendClose(S) /\ S.state # "CLOSED" => T.state # "CLOSED"
           /\ Lingers(S) => Lingers(T)
  <1>1. CASE call = "none"
    <2>1. T = S
      BY <1>1 DEF Callback
    <2> QED
      BY <2>1
  <1>2. CASE call = "close"
    <2>1. T = ConnClose(S)
      BY <1>2 DEF Callback
    <2> QED
      BY <2>1, ConnCloseCore
  <1>3. CASE call = "error"
    <2>1. T = ConnErr(S)
      BY <1>3 DEF Callback
    <2>2. /\ Core(T) /\ T.type = S.type /\ T.state = S.state /\ T.pkt = S.pkt
          /\ S.flags \subseteq T.flags /\ T.flags \subseteq S.flags \cup {"ERROR", "NOTIFY"}
          /\ T.sockErr = S.sockErr
      BY <2>1, ConnErrCore
    <2> QED
      BY <1>3, <2>2 DEF Lingers
  <1> QED
    BY <1>1, <1>2, <1>3

\* The connection S put at p.
Moved(S, p, d) == [S EXCEPT !.place = p, !.destroys = d]

\* Where the connection is does not matter.
LEMMA PlaceCore ==
    ASSUME NEW S, Core(S), NEW p \in Place, NEW d \in BOOLEAN, NEW T, T = Moved(S, p, d)
    PROVE  /\ Core(T) /\ T.type = S.type /\ T.state = S.state /\ T.flags = S.flags
           /\ T.pkt = S.pkt /\ T.sockErr = S.sockErr /\ T.place = p /\ T.lingered = S.lingered
           /\ T.timers = S.timers /\ T.notices = S.notices
  <1>1. S \in Conn
    BY DEF Core, Base
  <1>2. /\ T \in Conn /\ T.type = S.type /\ T.state = S.state /\ T.flags = S.flags
        /\ T.timers = S.timers /\ T.pkt = S.pkt /\ T.closeCnt = S.closeCnt
        /\ T.closeq = S.closeq /\ T.asked = S.asked /\ T.notices = S.notices
        /\ T.sockErr = S.sockErr /\ T.place = p /\ T.lingered = S.lingered
    BY <1>1 DEF Conn, Moved
  <1>3. Core(T)
    BY <1>2, SameCore
  <1> QED
    BY <1>2, <1>3

\* Nor that it is made active.
LEMMA ActivateCore ==
    ASSUME NEW S, Core(S), NEW T, T = Activate(S)
    PROVE  /\ Core(T) /\ T.type = S.type /\ T.state = S.state /\ T.flags = S.flags
           /\ T.pkt = S.pkt /\ T.sockErr = S.sockErr /\ T.place = "active"
  <1>1. S \in Conn
    BY DEF Core, Base
  <1>2. T = [S EXCEPT !.place = "active"] /\ "active" \in Place
    BY DEF Activate, Place
  <1>3. /\ T \in Conn /\ T.type = S.type /\ T.state = S.state /\ T.flags = S.flags
        /\ T.timers = S.timers /\ T.pkt = S.pkt /\ T.closeCnt = S.closeCnt
        /\ T.closeq = S.closeq /\ T.asked = S.asked /\ T.notices = S.notices
        /\ T.sockErr = S.sockErr /\ T.place = "active"
    BY <1>1, <1>2 DEF Conn
  <1>4. Core(T)
    BY <1>3, SameCore
  <1> QED
    BY <1>3, <1>4

\* S with timer x set
WithTimer(S, x) == [S EXCEPT !.timers = @ \cup {x}]

\* A timer more does no harm.
LEMMA WithTimerCore ==
    ASSUME NEW S, Core(S), NEW x \in Timer, NEW T, T = WithTimer(S, x)
    PROVE  Core(T) /\ T.state = S.state
  <1>1. S \in Conn
    BY DEF Core, Base
  <1>2. PICK W : W = S.timers \cup {x}
    OBVIOUS
  <1>3. T = [S EXCEPT !.timers = W]
    BY <1>2 DEF WithTimer
  <1>4. W \in SUBSET Timer
    BY <1>1, <1>2 DEF Conn
  <1>5. /\ T \in Conn /\ T.type = S.type /\ T.state = S.state /\ T.flags = S.flags
        /\ T.timers = W /\ T.pkt = S.pkt /\ T.closeCnt = S.closeCnt
        /\ T.closeq = S.closeq /\ T.asked = S.asked /\ T.notices = S.notices
    BY <1>1, <1>3, <1>4 DEF Conn
  <1>6. Core(T)
    BY <1>2, <1>5 DEF Core, Base, Sound
  <1> QED
    BY <1>5, <1>6

-----------------------------------------------------------------------------
(* Timers *)

\* The timers of the connection: only the linger timer closes.
LEMMA ConnTimersCore ==
    ASSUME NEW S, Core(S), NEW D, NEW T, T = ConnTimers(S, D)
    PROVE  /\ Core(T)
           /\ T.state = S.state \/ (T.lingered /\ D # {})
  <1>1. S \in Conn
    BY DEF Core, Base
  <1>2. PICK F, W : /\ F = (IF D \cap {"idle", "draining"} = {} THEN S.flags
                            ELSE S.flags \cup {"TIME_OUT"})
                    /\ W = S.timers \ (D \cap {"idle", "draining"})
    OBVIOUS
  <1>3. /\ F \in SUBSET Flag /\ W \in SUBSET Timer /\ S.flags \subseteq F
        /\ F \subseteq S.flags \cup {"TIME_OUT"}
        /\ "idle" \in W \/ "TIME_OUT" \in F
    <2>1. S.flags \in SUBSET Flag /\ S.timers \in SUBSET Timer
      BY <1>1 DEF Conn
    <2>2. "idle" \in S.timers \/ "TIME_OUT" \in S.flags
      BY DEF Core, Base
    <2> QED
      BY <1>2, <2>1, <2>2 DEF Flag
  <1>4. PICK S1 : S1 = [S EXCEPT !.flags = F, !.timers = W]
    OBVIOUS
  <1>5. /\ S1 \in Conn /\ S1.type = S.type /\ S1.state = S.state /\ S1.flags = F
        /\ S1.timers = W /\ S1.pkt = S.pkt /\ S1.closeCnt = S.closeCnt
        /\ S1.closeq = S.closeq /\ S1.asked = S.asked /\ S1.notices = S.notices
        /\ S1.lingered = S.lingered
    BY <1>1, <1>3, <1>4 DEF Conn
  <1>6. Core(S1)
    BY <1>3, <1>5 DEF Core, Base, Sound
  <1>7. T = IF "linger" \in D
            THEN [ImmediateClose([S1 EXCEPT !.flags = @ \ {"LINGER"}])
                     EXCEPT !.timers = @ \ {"linger"}, !.lingered = TRUE]
            ELSE S1
    BY <1>2, <1>4 DEF ConnTimers
  <1>8. CASE "linger" \notin D
    BY <1>5, <1>6, <1>7, <1>8
  <1>9. CASE "linger" \in D
    <2>1. PICK G : G = F \ {"LINGER"}
      OBVIOUS
    <2>2. PICK S2 : S2 = [S1 EXCEPT !.flags = G]
      OBVIOUS
    <2>3. G \in SUBSET Flag
      BY <1>3, <2>1
    <2>4. S1 \in Conn
      BY <1>5
    <2>5. /\ S2 \in Conn /\ S2.type = S1.type /\ S2.state = S1.state /\ S2.flags = G
          /\ S2.timers = S1.timers /\ S2.pkt = S1.pkt /\ S2.closeCnt = S1.closeCnt
          /\ S2.closeq = S1.closeq /\ S2.asked = S1.asked /\ S2.notices = S1.notices
      BY <2>2, <2>3, <2>4 DEF Conn
    <2>6. Base(S2)
      BY <1>5, <1>6, <2>1, <2>5 DEF Core, Base, Sound
    <2>7. PICK U : U = ImmediateClose(S2)
      OBVIOUS
    <2>8. Core(U) /\ U.state \in Late
      BY <2>6, <2>7, ImmediateCloseCore
    <2>9. PICK V : V = U.timers \ {"linger"}
      OBVIOUS
    <2>10. T = [U EXCEPT !.timers = V, !.lingered = TRUE]
      BY <1>5, <1>7, <1>9, <2>1, <2>2, <2>7, <2>9
    <2>11. U \in Conn
      BY <2>8 DEF Core, Base
    <2>12. V \in SUBSET Timer
      BY <2>9, <2>11 DEF Conn
    <2>13. /\ T \in Conn /\ T.type = U.type /\ T.state = U.state /\ T.flags = U.flags
           /\ T.timers = V /\ T.pkt = U.pkt /\ T.closeCnt = U.closeCnt
           /\ T.closeq = U.closeq /\ T.asked = U.asked /\ T.notices = U.notices
           /\ T.lingered = TRUE
      BY <2>10, <2>11, <2>12 DEF Conn
    <2>14. Core(T)
      BY <2>8, <2>9, <2>13 DEF Core, Base, Sound
    <2> QED
      BY <1>9, <2>13, <2>14
  <1> QED
    BY <1>8, <1>9

\* The timers of the path.
LEMMA PathTimersCore ==
    ASSUME NEW S, Core(S), NEW D, NEW lost, NEW T, T = PathTimers(S, D, lost)
    PROVE  Core(T) /\ T.state = S.state /\ T.lingered = S.lingered
  <1>1. S \in Conn
    BY DEF Core, Base
  <1>2. PICK a \in BOOLEAN : a = (S.ackFlag \/ "ack" \in D \cap S.timers)
    BY <1>1 DEF Conn
  <1>3. PICK P : P = [k \in Kind |-> IF /\ "loss" \in D \cap S.timers
                                        /\ k \in lost /\ S.pkt[k] = "flight"
                                     THEN "rtx" ELSE S.pkt[k]]
    OBVIOUS
  <1>4. PICK W : W = S.timers \ ((D \cap S.timers) \cap {"ack"})
    OBVIOUS
  <1>5. T = [S EXCEPT !.ackFlag = a, !.pkt = P, !.timers = W]
    BY <1>2, <1>3, <1>4 DEF PathTimers
  <1>6. S.pkt \in [Kind -> Status] /\ S.timers \in SUBSET Timer
    BY <1>1 DEF Conn
  <1>7. /\ P \in [Kind -> Status]
        /\ \A k \in Kind : P[k] = "none" <=> S.pkt[k] = "none"
    BY <1>3, <1>6 DEF Status
  <1>8. S.pkt = NoPkt => P = NoPkt
    BY <1>7, NoPkts, NoPkt \in [Kind -> Status]
  <1>9. W \in SUBSET Timer /\ ("idle" \in W <=> "idle" \in S.timers)
    BY <1>4, <1>6
  <1>10. /\ T \in Conn /\ T.type = S.type /\ T.state = S.state /\ T.flags = S.flags
         /\ T.timers = W /\ T.pkt = P /\ T.closeCnt = S.closeCnt
         /\ T.closeq = S.closeq /\ T.asked = S.asked /\ T.notices = S.notices
         /\ T.lingered = S.lingered
    <2>1. S \in Conn /\ P \in [Kind -> Status] /\ W \in SUBSET Timer
      BY <1>1, <1>7, <1>9
    <2> QED
      BY <1>5, <2>1 DEF Conn
  <1>11. T.pkt["data"] # "none" => S.pkt["data"] # "none"
    BY <1>7, <1>10 DEF Kind
  <1>12. Core(T)
    BY <1>8, <1>9, <1>10, <1>11 DEF Core, Base, Sound
  <1> QED
    BY <1>10, <1>12

\* rqc_conn_timer_expire, with which a pass begins
LEMMA StartPassCore ==
    ASSUME NEW S, Core(S), NEW D, NEW d \in BOOLEAN, StartPass(S, D, d)
    PROVE  /\ Core(conn') /\ conn'.place = "process"
           /\ conn'.state = S.state \/ (conn'.lingered /\ D # {})
  <1>1. PICK lost : conn' = [TimerExpire(S, D, lost) EXCEPT !.place = "process", !.destroys = d]
    BY Zenon DEF StartPass
  <1>2. PICK S1 : S1 = ConnTimers(S, D)
    OBVIOUS
  <1>3. PICK S2 : S2 = PathTimers(S1, D, lost)
    OBVIOUS
  <1>4. Core(S1) /\ (S1.state = S.state \/ (S1.lingered /\ D # {}))
    BY <1>2, ConnTimersCore
  <1>5. Core(S2) /\ S2.state = S1.state /\ S2.lingered = S1.lingered
    BY <1>3, <1>4, PathTimersCore
  <1>6. conn' = [S2 EXCEPT !.place = "process", !.destroys = d]
    BY <1>1, <1>2, <1>3 DEF TimerExpire
  <1>7. PICK p \in Place : p = "process"
    BY DEF Place
  <1>8. PICK C : C = conn' /\ C = Moved(S2, p, d)
    BY <1>6, <1>7 DEF Moved
  <1>9. Core(C) /\ C.place = p /\ C.state = S2.state /\ C.lingered = S2.lingered
    BY <1>5, <1>8, PlaceCore
  <1> QED
    BY <1>4, <1>5, <1>7, <1>8, <1>9

-----------------------------------------------------------------------------
(* One engine pass *)

\* rqc_conn_closing_notify makes the callback once.
LEMMA ClosingNotifyCore ==
    ASSUME NEW S, Core(S), NEW call \in {"none", "close"}, NEW T, T = ClosingNotify(S, call)
    PROVE  Core(T) /\ "NOTIFY" \notin T.flags /\ (Lingers(S) => Lingers(T))
  <1>1. S \in Conn
    BY DEF Core, Base
  <1>2. CASE "NOTIFY" \notin S.flags
    BY <1>2 DEF ClosingNotify
  <1>3. CASE "NOTIFY" \in S.flags /\ "NOTIFIED" \in S.flags
    <2>1. PICK F : F = S.flags \ {"NOTIFY"}
      OBVIOUS
    <2>2. T = [S EXCEPT !.flags = F]
      BY <1>3, <2>1 DEF ClosingNotify
    <2>3. F \in SUBSET Flag
      BY <1>1, <2>1 DEF Conn
    <2>4. /\ T \in Conn /\ T.type = S.type /\ T.state = S.state /\ T.flags = F
          /\ T.timers = S.timers /\ T.pkt = S.pkt /\ T.closeCnt = S.closeCnt
          /\ T.closeq = S.closeq /\ T.asked = S.asked /\ T.notices = S.notices
      BY <1>1, <2>2, <2>3 DEF Conn
    <2>5. Core(T)
      BY <1>3, <2>1, <2>4 DEF Core, Base, Sound
    <2> QED
      BY <2>1, <2>4, <2>5 DEF Lingers
  <1>4. CASE "NOTIFY" \in S.flags /\ "NOTIFIED" \notin S.flags
    <2>1. PICK F : F = (S.flags \ {"NOTIFY"}) \cup {"NOTIFIED"}
      OBVIOUS
    <2>2. S.notices \in {0, 1} /\ S.notices # 1
      BY <1>1, <1>4 DEF Conn, Core, Base
    <2>3. S.notices + 1 = 1
      BY <2>2
    <2>4. PICK U : U = [S EXCEPT !.flags = F, !.notices = 1]
      OBVIOUS
    <2>5. T = Callback(U, call)
      BY <1>4, <2>1, <2>3, <2>4 DEF ClosingNotify
    <2>6. F \in SUBSET Flag
      BY <1>1, <2>1 DEF Conn, Flag
    <2>7. /\ U \in Conn /\ U.type = S.type /\ U.state = S.state /\ U.flags = F
          /\ U.timers = S.timers /\ U.pkt = S.pkt /\ U.closeCnt = S.closeCnt
          /\ U.closeq = S.closeq /\ U.asked = S.asked /\ U.notices = 1
      BY <1>1, <2>4, <2>6 DEF Conn
    <2>8. Core(U)
      BY <2>1, <2>7 DEF Core, Base, Sound
    <2>9. Core(T) /\ T.flags \subseteq U.flags \cup {"LINGER"} /\ (Lingers(U) => Lingers(T))
      BY <2>5, <2>8, CallbackCore
    <2> QED
      BY <2>1, <2>7, <2>9 DEF Lingers
  <1> QED
    BY <1>2, <1>3, <1>4

\* Streams are read and written: what the application does there may close the
\* connection, which then can still tell the peer.
LEMMA ReadWriteCore ==
    ASSUME NEW S, Core(S), NEW call \in {"none", "close", "error"}, NEW writes \in BOOLEAN,
           S.state \notin Late, "TIME_OUT" \notin S.flags, "ERROR" \notin S.flags,
           NEW T, T = ReadWriteStreams(S, call, writes)
    PROVE  Core(T) /\ T.state # "CLOSED" /\ "TIME_OUT" \notin T.flags
  <1>1. S \in Conn
    BY DEF Core, Base
  <1>2. PICK V : /\ V = IF S.state # "ESTABED" THEN S
                        ELSE Callback(IF writes /\ S.pkt["data"] = "none"
                                      THEN [S EXCEPT !.pkt["data"] = "unsent"] ELSE S, call)
                 /\ T = IF "ERROR" \in V.flags THEN ImmediateClose(V)
                        ELSE [V EXCEPT !.ackq = @ \/ V.ackFlag, !.ackFlag = FALSE]
    BY DEF ReadWriteStreams
  <1>3. /\ Core(V) /\ V.state # "CLOSED" /\ "TIME_OUT" \notin V.flags
        /\ "ERROR" \in V.flags => CanSendClose(V)
    <2>1. CASE S.state # "ESTABED"
      BY <1>2, <2>1 DEF Late
    <2>2. CASE S.state = "ESTABED"
      <3>1. PICK U : U = IF writes /\ S.pkt["data"] = "none"
                         THEN [S EXCEPT !.pkt["data"] = "unsent"] ELSE S
        OBVIOUS
      <3>2. Core(U) /\ U.state = "ESTABED" /\ U.flags = S.flags /\ U.type = S.type
        <4>1. CASE ~(writes /\ S.pkt["data"] = "none")
          BY <2>2, <3>1, <4>1
        <4>2. CASE writes /\ S.pkt["data"] = "none"
          <5>1. PICK P : P = [S.pkt EXCEPT !["data"] = "unsent"]
            OBVIOUS
          <5>2. P \in [Kind -> Status]
            BY <1>1, <5>1 DEF Conn, Status, Kind
          <5>3. U = [S EXCEPT !.pkt = P]
            BY <3>1, <4>2, <5>1
          <5>4. /\ U \in Conn /\ U.type = S.type /\ U.state = S.state /\ U.flags = S.flags
                /\ U.timers = S.timers /\ U.pkt = P /\ U.closeCnt = S.closeCnt
                /\ U.closeq = S.closeq /\ U.asked = S.asked /\ U.notices = S.notices
            BY <1>1, <5>2, <5>3 DEF Conn
          <5>5. Core(U)
            BY <2>2, <5>4 DEF Core, Base, Sound
          <5> QED
            BY <2>2, <5>4, <5>5
        <4> QED
          BY <4>1, <4>2
      <3>3. CanSendClose(U)
        BY <1>1, <3>2, Stages DEF Core, Base, Sound, CanSendClose
      <3>4. V = Callback(U, call)
        BY <1>2, <2>2, <3>1
      <3>5. /\ Core(V) /\ V.type = U.type /\ U.flags \subseteq V.flags /\ V.state # "CLOSED"
            /\ V.flags \subseteq U.flags \cup {"LINGER", "ERROR", "NOTIFY"}
        BY <3>2, <3>3, <3>4, CallbackCore
      <3>6. CanSendClose(V)
        BY <3>3, <3>5 DEF CanSendClose
      <3> QED
        BY <3>2, <3>5, <3>6
    <2> QED
      BY <2>1, <2>2
  <1>4. CASE "ERROR" \in V.flags
    <2>1. T = ImmediateClose(V) /\ Base(V)
      BY <1>2, <1>3, <1>4 DEF Core
    <2>2. /\ Core(T) /\ T.flags = V.flags
          /\ CanSendClose(V) /\ V.state # "CLOSED" => T.state # "CLOSED"
      BY <2>1, ImmediateCloseCore
    <2> QED
      BY <1>3, <1>4, <2>2
  <1>5. CASE "ERROR" \notin V.flags
    <2>1. V \in Conn
      BY <1>3 DEF Core, Base
    <2>2. PICK a \in BOOLEAN : a = (V.ackq \/ V.ackFlag)
      BY <2>1 DEF Conn
    <2>3. T = [V EXCEPT !.ackq = a, !.ackFlag = FALSE]
      BY <1>2, <1>5, <2>2
    <2>4. /\ T \in Conn /\ T.type = V.type /\ T.state = V.state /\ T.flags = V.flags
          /\ T.timers = V.timers /\ T.pkt = V.pkt /\ T.closeCnt = V.closeCnt
          /\ T.closeq = V.closeq /\ T.asked = V.asked /\ T.notices = V.notices
      BY <2>1, <2>3 DEF Conn
    <2>5. Core(T)
      BY <1>3, <2>4, SameCore
    <2> QED
      BY <1>3, <2>4, <2>5
  <1> QED
    BY <1>4, <1>5

\* A connection that rqc_engine_process_conn leaves in CLOSED has told the
\* application of an error, and one that it does not leave there has not timed out.
Processed(S, T) ==
    /\ Core(T)
    /\ "TIME_OUT" \in T.flags => T.state = "CLOSED"
    /\ T.state = "CLOSED" /\ "ERROR" \in T.flags => T.notices = 1
    /\ Lingers(S) => T.state # "CLOSING" \/ "ERROR" \in T.flags

\* rqc_engine_process_conn, branch by branch
LEMMA ProcessConnCore ==
    ASSUME NEW S, Core(S), NEW notifyCall \in {"none", "close"},
           NEW call \in {"none", "close", "error"}, NEW writes \in BOOLEAN,
           NEW T, T = ProcessConn(S, notifyCall, call, writes)
    PROVE  Processed(S, T)
  <1> USE DEF Processed
  <1>1. PICK U : U = ClosingNotify(S, notifyCall)
    OBVIOUS
  <1>2. Core(U) /\ "NOTIFY" \notin U.flags /\ (Lingers(S) => Lingers(U))
    BY <1>1, ClosingNotifyCore
  <1>3. U \in Conn /\ Base(U)
    BY <1>2 DEF Core, Base
  <1>4. "ERROR" \in U.flags => U.notices = 1
    BY <1>2 DEF Core, Base
  <1>5. CASE "TIME_OUT" \in U.flags
    <2>1. T = [U EXCEPT !.state = "CLOSED"]
      BY <1>1, <1>5 DEF ProcessConn
    <2>2. "CLOSED" \in DOMAIN Rank /\ U \in Conn
      BY <1>3, Ranks
    <2>3. /\ T \in Conn /\ T.type = U.type /\ T.state = "CLOSED" /\ T.flags = U.flags
          /\ T.timers = U.timers /\ T.pkt = U.pkt /\ T.closeCnt = U.closeCnt
          /\ T.closeq = U.closeq /\ T.asked = U.asked /\ T.notices = U.notices
      BY <2>1, <2>2 DEF Conn
    <2>4. Core(T)
      BY <1>2, <2>3 DEF Core, Base, Sound, Late
    <2> QED
      BY <1>4, <2>3, <2>4
  <1>6. CASE "TIME_OUT" \notin U.flags /\ "ERROR" \in U.flags
    <2>1. T = ImmediateClose(U)
      BY <1>1, <1>6 DEF ProcessConn
    <2>2. Core(T) /\ T.flags = U.flags
      BY <1>3, <2>1, ImmediateCloseCore
    <2>3. T.notices = 1
      BY <1>2, <1>6, <2>2 DEF Core, Base
    <2> QED
      BY <1>6, <2>2, <2>3
  <1>7. CASE U.flags \cap {"TIME_OUT", "ERROR"} = {} /\ "LINGER" \in U.flags
    <2>1. T = IF OutQueueEmpty(U)
              THEN [ImmediateClose(U) EXCEPT !.timers = @ \ {"linger"}, !.flags = @ \ {"LINGER"}]
              ELSE U
      BY <1>1, <1>7 DEF ProcessConn
    <2>2. CASE ~OutQueueEmpty(U)
      <3>1. Lingers(U) => U.state # "CLOSING"
        BY DEF Lingers, Late
      <3> QED
        BY <1>2, <1>4, <1>7, <2>1, <2>2, <3>1
    <2>3. CASE OutQueueEmpty(U)
      <3>1. PICK V : V = ImmediateClose(U)
        OBVIOUS
      <3>2. Core(V) /\ V.state \in Late /\ V.flags = U.flags
        BY <1>3, <3>1, ImmediateCloseCore
      <3>3. PICK W, F : W = V.timers \ {"linger"} /\ F = V.flags \ {"LINGER"}
        OBVIOUS
      <3>4. T = [V EXCEPT !.timers = W, !.flags = F]
        BY <2>1, <2>3, <3>1, <3>3
      <3>5. V \in Conn
        BY <3>2 DEF Core, Base
      <3>6. W \in SUBSET Timer /\ F \in SUBSET Flag
        BY <3>3, <3>5 DEF Conn
      <3>7. /\ T \in Conn /\ T.type = V.type /\ T.state = V.state /\ T.flags = F
            /\ T.timers = W /\ T.pkt = V.pkt /\ T.closeCnt = V.closeCnt
            /\ T.closeq = V.closeq /\ T.asked = V.asked /\ T.notices = V.notices
        BY <3>4, <3>5, <3>6 DEF Conn
      <3>8. Core(T)
        BY <3>2, <3>3, <3>7 DEF Core, Base, Sound
      <3>9. ~Lingers(U)
        BY <2>3 DEF Lingers, OutQueueEmpty, Kind
      <3>10. "TIME_OUT" \notin T.flags /\ "ERROR" \notin T.flags
        BY <1>7, <3>2, <3>3, <3>7
      <3> QED
        BY <1>2, <3>8, <3>9, <3>10
    <2> QED
      BY <2>2, <2>3
  <1>8. CASE U.flags \cap {"TIME_OUT", "ERROR", "LINGER"} = {}
    <2>1. T = IF AtLeast(U, "CLOSING") THEN U ELSE ReadWriteStreams(U, call, writes)
      BY <1>1, <1>8 DEF ProcessConn
    <2>2. ~Lingers(U) /\ "TIME_OUT" \notin U.flags /\ "ERROR" \notin U.flags
      BY <1>8 DEF Lingers
    <2>3. CASE AtLeast(U, "CLOSING")
      BY <1>2, <2>1, <2>2, <2>3
    <2>4. CASE ~AtLeast(U, "CLOSING")
      <3>1. U.state \notin Late /\ T = ReadWriteStreams(U, call, writes)
        BY <1>3, <2>1, <2>4, Stages
      <3>2. Core(T) /\ T.state # "CLOSED" /\ "TIME_OUT" \notin T.flags
        BY <1>2, <2>2, <3>1, ReadWriteCore
      <3> QED
        BY <1>2, <2>2, <3>2
    <2> QED
      BY <2>3, <2>4
  <1>9. U.flags \cap {"TIME_OUT", "ERROR"} = {} \/ "TIME_OUT" \in U.flags \/ "ERROR" \in U.flags
    OBVIOUS
  <1> QED
    BY <1>5, <1>6, <1>7, <1>8, <1>9

\* Where a connection goes after a pass.
LEMMA AfterPassCore ==
    ASSUME NEW S, Core(S), "TIME_OUT" \in S.flags => S.state = "CLOSED", NEW T, T = AfterPass(S)
    PROVE  /\ Core(T) /\ T.state = S.state /\ T.flags = S.flags /\ T.sockErr = S.sockErr
           /\ T.notices = S.notices /\ T.lingered = S.lingered /\ T.pkt = S.pkt
           /\ T.place \in {"wakeup", "freed", "due"}
           /\ T.place \in {"freed", "due"} => S.state = "CLOSED"
  <1>1. PICK p \in Place : /\ p = IF ~(S.state = "CLOSED" \/ S.timers = {}) THEN "wakeup"
                                  ELSE IF S.destroys THEN "freed" ELSE "due"
    BY DEF Place
  <1>2. PICK d \in BOOLEAN : T = Moved(S, p, d)
    BY <1>1 DEF AfterPass, Moved
  <1>3. /\ Core(T) /\ T.state = S.state /\ T.flags = S.flags /\ T.sockErr = S.sockErr
        /\ T.notices = S.notices /\ T.lingered = S.lingered /\ T.place = p /\ T.pkt = S.pkt
    BY <1>2, PlaceCore
  <1>4. "idle" \in S.timers \/ S.state = "CLOSED"
    BY DEF Core, Base
  <1> QED
    BY <1>1, <1>3, <1>4

\* What is sent: in CLOSING or DRAINING nothing is left but closes and an ACK.
LEMMA SendPacketsCore ==
    ASSUME NEW S, Core(S), S.state # "CLOSED", NEW X \in SUBSET Sendable(S),
           NEW n \in 0 .. S.closeq, NEW socket \in {"ok", "eagain", "error"},
           NEW T, T = SendPackets(S, X, n, socket)
    PROVE  /\ Core(T)
           /\ "TIME_OUT" \in T.flags => "TIME_OUT" \in S.flags
           /\ T.state = S.state \/ (T.state = "CLOSED" /\ T.sockErr)
  <1>1. S \in Conn
    BY DEF Core, Base
  <1>2. PICK P : P = [k \in Kind |-> IF k \in X THEN "flight" ELSE S.pkt[k]]
    OBVIOUS
  <1>3. PICK a \in BOOLEAN : a = (S.ackq /\ ~(socket = "ok"))
    BY <1>1 DEF Conn
  <1>4. PICK F : F = S.flags \cup (IF "hsk" \in X THEN {"HSK_SENT"} ELSE {})
    OBVIOUS
  <1>5. PICK W : W = S.timers \cup (IF X = {} THEN {} ELSE {"loss"})
    OBVIOUS
  <1>6. PICK A : A = S.after \cup (IF AtLeast(S, "CLOSING")
                                   THEN X \cup (IF n > 0 THEN {"close"} ELSE {})
                                          \cup (IF socket = "ok" /\ S.ackq THEN {"ack"} ELSE {})
                                   ELSE {})
    OBVIOUS
  <1>7. PICK st : st = IF socket = "error" THEN "CLOSED" ELSE S.state
    OBVIOUS
  <1>8. PICK e \in BOOLEAN : e = (S.sockErr \/ socket = "error")
    BY <1>1 DEF Conn
  <1>9. PICK q \in Nat : q = S.closeq - n /\ q <= S.closeCnt
    <2>1. S.closeq \in Nat /\ S.closeCnt \in Nat /\ S.closeq <= S.closeCnt
      BY <1>1, CloseAssumption DEF Core, Base, Conn
    <2> QED
      BY <2>1
  <1>10. T = [S EXCEPT !.pkt = P, !.closeq = q, !.ackq = a, !.flags = F, !.timers = W,
                       !.after = A, !.state = st, !.sockErr = e]
    BY <1>2, <1>3, <1>4, <1>5, <1>6, <1>7, <1>8, <1>9 DEF SendPackets
  <1>11. /\ P \in [Kind -> Status]
         /\ \A k \in Kind : P[k] = "none" <=> S.pkt[k] = "none"
    <2>1. S.pkt \in [Kind -> Status] /\ \A k \in X : k \in Kind /\ S.pkt[k] # "none"
      BY <1>1 DEF Conn, Sendable
    <2> QED
      BY <1>2, <2>1 DEF Status
  <1>12. S.pkt = NoPkt => P = NoPkt
    BY <1>11, NoPkts
  <1>13. F \in SUBSET Flag /\ W \in SUBSET Timer /\ st \in DOMAIN Rank
    <2>1. S.flags \in SUBSET Flag /\ S.timers \in SUBSET Timer /\ S.state \in DOMAIN Rank
      BY <1>1 DEF Conn
    <2> QED
      BY <1>4, <1>5, <1>7, <2>1, Ranks DEF Flag, Timer
  <1>14. A \in SUBSET Last
    <2>1. S.after \in SUBSET Last
      BY <1>1 DEF Conn
    <2>2. CASE ~AtLeast(S, "CLOSING")
      BY <1>6, <2>1, <2>2
    <2>3. CASE AtLeast(S, "CLOSING")
      <3>1. S.pkt = NoPkt
        BY <1>1, <2>3, Stages DEF Core, Base, Late
      <3>2. X = {}
        BY <3>1, NoPkts DEF Sendable
      <3> QED
        BY <1>6, <2>1, <2>3, <3>2 DEF Last
    <2> QED
      BY <2>2, <2>3
  <1>15. /\ T \in Conn /\ T.type = S.type /\ T.state = st /\ T.flags = F
         /\ T.timers = W /\ T.pkt = P /\ T.closeCnt = S.closeCnt
         /\ T.closeq = q /\ T.asked = S.asked /\ T.notices = S.notices /\ T.sockErr = e
    <2>1. S \in Conn /\ P \in [Kind -> Status]
      BY <1>1, <1>11
    <2>2. PICK U : U = [S EXCEPT !.pkt = P, !.closeq = q, !.ackq = a, !.flags = F]
      OBVIOUS
    <2>3. T = [U EXCEPT !.timers = W, !.after = A, !.state = st, !.sockErr = e]
      BY <1>10, <2>2
    <2>4. /\ U \in Conn /\ U.type = S.type /\ U.flags = F /\ U.pkt = P
          /\ U.closeCnt = S.closeCnt /\ U.closeq = q /\ U.asked = S.asked
          /\ U.notices = S.notices
      BY <1>13, <2>1, <2>2 DEF Conn
    <2>5. U \in Conn
      BY <2>4
    <2>6. /\ T \in Conn /\ T.type = U.type /\ T.state = st /\ T.flags = U.flags
          /\ T.timers = W /\ T.pkt = U.pkt /\ T.closeCnt = U.closeCnt
          /\ T.closeq = U.closeq /\ T.asked = U.asked /\ T.notices = U.notices /\ T.sockErr = e
      <3>1. W \in SUBSET Timer /\ st \in DOMAIN Rank /\ A \in SUBSET Last
        BY <1>13, <1>14
      <3>2. T \in Conn
        BY <2>3, <2>5, <3>1 DEF Conn
      <3>3. /\ T.type = U.type /\ T.state = st /\ T.flags = U.flags
            /\ T.timers = W /\ T.pkt = U.pkt /\ T.closeCnt = U.closeCnt
            /\ T.closeq = U.closeq /\ T.asked = U.asked /\ T.notices = U.notices
            /\ T.sockErr = e
        BY <2>3, <2>5 DEF Conn
      <3> QED
        BY <3>2, <3>3
    <2> QED
      BY <2>4, <2>6
  <1>16. T.pkt["data"] # "none" => S.pkt["data"] # "none"
    BY <1>11, <1>15 DEF Kind
  <1>17. /\ "idle" \in S.timers => "idle" \in T.timers
         /\ S.flags \subseteq T.flags /\ T.flags \subseteq S.flags \cup {"HSK_SENT"}
         /\ T.state = S.state \/ (T.state = "CLOSED" /\ T.sockErr)
    BY <1>4, <1>5, <1>7, <1>8, <1>15
  <1>18. Core(T)
    BY <1>9, <1>12, <1>15, <1>16, <1>17 DEF Core, Base, Sound, Late
  <1> QED
    BY <1>17, <1>18

-----------------------------------------------------------------------------
(* Packets *)

\* The peer is heard of: a client has sent its handshake packet.
Heard(S) == S.type = "client" => "HSK_SENT" \in S.flags

\* rqc_conn_process_handshake, when conn_create_notify does not close
LEMMA ProcessHandshakeCore ==
    ASSUME NEW S, Core(S), Heard(S), ~CloseInCreate, NEW call \in {"none", "close"},
           NEW T, T = ProcessHandshake(S, call)
    PROVE  Core(T) /\ (S.state = "ESTABED" => T = S)
  <1>1. S \in Conn
    BY DEF Core, Base
  <1>2. CASE S.type = "client"
    <2>1. T = IF S.state # "CLIENT_HANDSHAKE" \/ "HSK_RECVD" \in S.flags THEN S
              ELSE Callback([S EXCEPT !.flags = @ \cup {"HSK_RECVD", "HSK_DONE"},
                                      !.state = "ESTABED"], call)
      BY <1>2 DEF ProcessHandshake
    <2>2. CASE S.state # "CLIENT_HANDSHAKE" \/ "HSK_RECVD" \in S.flags
      BY <2>1, <2>2
    <2>3. CASE ~(S.state # "CLIENT_HANDSHAKE" \/ "HSK_RECVD" \in S.flags)
      <3>1. PICK F : F = S.flags \cup {"HSK_RECVD", "HSK_DONE"}
        OBVIOUS
      <3>2. PICK U : U = [S EXCEPT !.flags = F, !.state = "ESTABED"]
        OBVIOUS
      <3>3. T = Callback(U, call)
        BY <2>1, <2>3, <3>1, <3>2
      <3>4. F \in SUBSET Flag /\ "ESTABED" \in DOMAIN Rank
        BY <1>1, <3>1, Ranks DEF Conn, Flag
      <3>5. /\ U \in Conn /\ U.type = S.type /\ U.state = "ESTABED" /\ U.flags = F
            /\ U.timers = S.timers /\ U.pkt = S.pkt /\ U.closeCnt = S.closeCnt
            /\ U.closeq = S.closeq /\ U.asked = S.asked /\ U.notices = S.notices
        BY <1>1, <3>2, <3>4 DEF Conn
      <3>6. S.state \notin Late /\ S.state = "CLIENT_HANDSHAKE"
        BY <2>3 DEF Late
      <3>7. Core(U)
        BY <1>2, <3>1, <3>5, <3>6 DEF Core, Base, Sound, Heard
      <3>8. Core(T)
        BY <3>3, <3>7, CallbackCore
      <3> QED
        BY <3>6, <3>8
    <2> QED
      BY <2>2, <2>3
  <1>3. CASE S.type = "server"
    <2>1. T = IF S.state # "SERVER_INIT" THEN S
              ELSE [S EXCEPT !.pkt["hsk"] = "unsent", !.flags = @ \cup {"HSK_RECVD"},
                             !.state = "SERVER_HANDSHAKE"]
      BY <1>3 DEF ProcessHandshake
    <2>2. CASE S.state # "SERVER_INIT"
      BY <2>1, <2>2
    <2>3. CASE S.state = "SERVER_INIT"
      <3>1. PICK F, P : F = S.flags \cup {"HSK_RECVD"} /\ P = [S.pkt EXCEPT !["hsk"] = "unsent"]
        OBVIOUS
      <3>2. T = [S EXCEPT !.pkt = P, !.flags = F, !.state = "SERVER_HANDSHAKE"]
        BY <2>1, <2>3, <3>1
      <3>3. /\ F \in SUBSET Flag /\ P \in [Kind -> Status] /\ "SERVER_HANDSHAKE" \in DOMAIN Rank
            /\ P["data"] = S.pkt["data"]
        BY <1>1, <3>1, Ranks DEF Conn, Flag, Kind, Status
      <3>4. /\ T \in Conn /\ T.type = S.type /\ T.state = "SERVER_HANDSHAKE" /\ T.flags = F
            /\ T.timers = S.timers /\ T.pkt = P /\ T.closeCnt = S.closeCnt
            /\ T.closeq = S.closeq /\ T.asked = S.asked /\ T.notices = S.notices
        BY <1>1, <3>2, <3>3 DEF Conn
      <3>5. S.state \notin Late
        BY <2>3 DEF Late
      <3>6. Core(T)
        BY <1>3, <2>3, <3>1, <3>3, <3>4, <3>5 DEF Core, Base, Sound
      <3> QED
        BY <2>3, <3>6
    <2> QED
      BY <2>2, <2>3
  <1> QED
    BY <1>1, <1>2, <1>3, Stages

\* rqc_process_conn_close_frame drains with empty queues.
LEMMA ProcessConnCloseCore ==
    ASSUME NEW S, Core(S), Heard(S), S.state \notin {"DRAINING", "CLOSED"}, NEW withErr \in BOOLEAN,
           NEW T, T = ProcessConnClose(S, withErr)
    PROVE  Core(T) /\ T.state = "DRAINING"
  <1>1. PICK U : U = IF withErr THEN ConnErr(S) ELSE S
    OBVIOUS
  <1>2. /\ Core(U) /\ U.type = S.type /\ U.state = S.state /\ U.pkt = S.pkt
        /\ S.flags \subseteq U.flags
    BY <1>1, ConnErrCore
  <1>3. PICK V : V = IF AtLeast(U, "CLOSING") THEN U ELSE ImmediateClose(U)
    OBVIOUS
  <1>4. PICK F : F = V.flags \cup {"NOTIFY"}
    OBVIOUS
  <1>5. T = [V EXCEPT !.state = "DRAINING", !.flags = F]
    BY <1>1, <1>3, <1>4 DEF ProcessConnClose
  <1>6. Core(V) /\ V.pkt = NoPkt
    <2>1. U \in Conn /\ Base(U)
      BY <1>2 DEF Core, Base
    <2>2. CASE AtLeast(U, "CLOSING")
      <3>1. V = U /\ U.state = "CLOSING"
        BY <1>2, <1>3, <2>1, <2>2, Stages DEF Late
      <3> QED
        BY <1>2, <3>1 DEF Core, Base
    <2>3. CASE ~AtLeast(U, "CLOSING")
      <3>1. V = ImmediateClose(U)
        BY <1>3, <2>3
      <3>2. /\ Core(V) /\ V.state \in Late
            /\ CanSendClose(U) /\ U.state # "CLOSED" => V.state # "CLOSED"
            /\ V.state = "CLOSED" => V.pkt = U.pkt
            /\ U.state \in {"DRAINING", "CLOSED"} => V = U
        BY <2>1, <3>1, ImmediateCloseCore
      <3>3. CASE V.state # "CLOSED"
        BY <3>2, <3>3 DEF Core, Base, Late
      <3>4. CASE V.state = "CLOSED"
        <4>1. ~CanSendClose(U)
          BY <1>2, <3>2, <3>4
        <4>2. U.pkt = NoPkt
          BY <1>2, <2>1, <4>1, Stages DEF Heard, CanSendClose, Base, Sound
        <4> QED
          BY <3>2, <3>4, <4>2
      <3> QED
        BY <3>3, <3>4
    <2> QED
      BY <2>2, <2>3
  <1>7. V \in Conn
    BY <1>6 DEF Core, Base
  <1>8. F \in SUBSET Flag /\ "DRAINING" \in DOMAIN Rank
    BY <1>4, <1>7, Ranks DEF Conn, Flag
  <1>9. /\ T \in Conn /\ T.type = V.type /\ T.state = "DRAINING" /\ T.flags = F
        /\ T.timers = V.timers /\ T.pkt = V.pkt /\ T.closeCnt = V.closeCnt
        /\ T.closeq = V.closeq /\ T.asked = V.asked /\ T.notices = V.notices
    BY <1>5, <1>7, <1>8 DEF Conn
  <1>10. NoPkt["data"] = "none"
    BY NoPkts DEF Kind
  <1>11. Core(T)
    <2>1. Sound(T)
      BY <1>4, <1>6, <1>9 DEF Core, Base, Sound
    <2> QED
      BY <1>4, <1>6, <1>9, <1>10, <2>1 DEF Core, Base, Late
  <1> QED
    BY <1>9, <1>11

\* An ACK settles packets and changes nothing else.
LEMMA ProcessAckCore ==
    ASSUME NEW S, Core(S), NEW A, NEW T, T = ProcessAck(S, A)
    PROVE  Core(T) /\ T.state = S.state
  <1>1. S \in Conn
    BY DEF Core, Base
  <1>2. PICK P : P = [k \in Kind |-> IF k \in A \cap Unsettled(S) THEN "none" ELSE S.pkt[k]]
    OBVIOUS
  <1>3. PICK W : W = IF \E k \in Kind : P[k] = "flight" THEN S.timers ELSE S.timers \ {"loss"}
    OBVIOUS
  <1>4. T = [S EXCEPT !.pkt = P, !.timers = W]
    BY <1>2, <1>3 DEF ProcessAck
  <1>5. S.pkt \in [Kind -> Status] /\ S.timers \in SUBSET Timer
    BY <1>1 DEF Conn
  <1>6. P \in [Kind -> Status] /\ \A k \in Kind : P[k] \in {"none", S.pkt[k]}
    BY <1>2, <1>5 DEF Status
  <1>7. W \in SUBSET Timer /\ ("idle" \in W <=> "idle" \in S.timers)
    BY <1>3, <1>5
  <1>8. /\ T \in Conn /\ T.type = S.type /\ T.state = S.state /\ T.flags = S.flags
        /\ T.timers = W /\ T.pkt = P /\ T.closeCnt = S.closeCnt
        /\ T.closeq = S.closeq /\ T.asked = S.asked /\ T.notices = S.notices
    <2>1. S \in Conn /\ P \in [Kind -> Status] /\ W \in SUBSET Timer
      BY <1>1, <1>6, <1>7
    <2> QED
      BY <1>4, <2>1 DEF Conn
  <1>9. (S.pkt = NoPkt => P = NoPkt) /\ (P["data"] # "none" => S.pkt["data"] # "none")
    BY <1>6, NoPkts DEF Kind
  <1>10. Core(T)
    BY <1>7, <1>8, <1>9 DEF Core, Base, Sound
  <1> QED
    BY <1>8, <1>10

\* What a packet may carry.
FrameKind == {"hsk", "ack", "app", "close", "closeErr", "bad"}

\* rqc_process_frames
LEMMA ProcessFramesCore ==
    ASSUME NEW S, Core(S), Heard(S), ~CloseInCreate, NEW f \in FrameKind, NEW A,
           NEW call \in {"none", "close"}, NEW T, T = ProcessFrames(S, f, A, call)
    PROVE  Core(T) /\ (S.state = "ESTABED" => T.state \in {"ESTABED", "DRAINING"})
  <1>1. S \in Conn /\ Base(S)
    BY DEF Core, Base
  <1>2. /\ AtLeast(S, "DRAINING") <=> S.state \in {"DRAINING", "CLOSED"}
        /\ AtLeast(S, "CLOSING") <=> S.state \in Late
    BY <1>1, Stages
  <1>3. CASE S.state = "CLOSING" /\ f \notin {"close", "closeErr"}
    <2>1. T = ImmediateClose(S)
      BY <1>2, <1>3 DEF ProcessFrames
    <2>2. Core(T)
      BY <1>1, <2>1, ImmediateCloseCore
    <2> QED
      BY <1>3, <2>2
  <1>4. CASE S.state \in {"DRAINING", "CLOSED"}
    <2>1. T = S
      BY <1>2, <1>4 DEF ProcessFrames
    <2> QED
      BY <1>4, <2>1
  <1>5. CASE S.state \notin Late /\ f = "hsk"
    <2>1. T = ProcessHandshake(S, call)
      BY <1>2, <1>5 DEF ProcessFrames, Late
    <2>2. Core(T) /\ (S.state = "ESTABED" => T = S)
      BY <2>1, ProcessHandshakeCore
    <2> QED
      BY <2>2
  <1>6. CASE S.state \notin Late /\ f = "ack"
    <2>1. T = ProcessAck(S, A)
      BY <1>2, <1>6 DEF ProcessFrames, Late
    <2>2. Core(T) /\ T.state = S.state
      BY <2>1, ProcessAckCore
    <2> QED
      BY <2>2
  <1>7. CASE S.state \notin {"DRAINING", "CLOSED"} /\ f \in {"close", "closeErr"}
    <2>1. PICK e \in BOOLEAN : e = (f = "closeErr")
      OBVIOUS
    <2>2. T = ProcessConnClose(S, e)
      BY <1>2, <1>7, <2>1 DEF ProcessFrames
    <2>3. Core(T) /\ T.state = "DRAINING"
      BY <1>7, <2>2, ProcessConnCloseCore
    <2> QED
      BY <2>3
  <1>8. CASE S.state \notin Late /\ f \in {"app", "bad"}
    <2>1. T = S
      BY <1>2, <1>8 DEF ProcessFrames, Late
    <2> QED
      BY <2>1
  <1> QED
    BY <1>3, <1>4, <1>5, <1>6, <1>7, <1>8 DEF Late, FrameKind

\* rqc_conn_on_pkt_processed
LEMMA OnPktProcessedCore ==
    ASSUME NEW S, Core(S), NEW hdr, NEW elicits \in BOOLEAN, NEW ackNow \in BOOLEAN,
           NEW call \in {"none", "close"}, NEW T, T = OnPktProcessed(S, hdr, elicits, ackNow, call)
    PROVE  Core(T) /\ (S.state # "SERVER_HANDSHAKE" => T.state = S.state)
  <1>1. S \in Conn
    BY DEF Core, Base
  <1>2. PICK U : U = IF hdr = "short" /\ S.type = "server"
                     THEN [S EXCEPT !.flags = @ \cup {"HSK_DONE"}] ELSE S
    OBVIOUS
  <1>3. Core(U) /\ U.state = S.state
    <2>1. CASE ~(hdr = "short" /\ S.type = "server")
      BY <1>2, <2>1
    <2>2. CASE hdr = "short" /\ S.type = "server"
      <3>1. PICK F : F = S.flags \cup {"HSK_DONE"}
        OBVIOUS
      <3>2. U = [S EXCEPT !.flags = F]
        BY <1>2, <2>2, <3>1
      <3>3. F \in SUBSET Flag
        BY <1>1, <3>1 DEF Conn, Flag
      <3>4. /\ U \in Conn /\ U.type = S.type /\ U.state = S.state /\ U.flags = F
            /\ U.timers = S.timers /\ U.pkt = S.pkt /\ U.closeCnt = S.closeCnt
            /\ U.closeq = S.closeq /\ U.asked = S.asked /\ U.notices = S.notices
        BY <1>1, <3>2, <3>3 DEF Conn
      <3>5. Core(U)
        BY <3>1, <3>4 DEF Core, Base, Sound
      <3> QED
        BY <3>4, <3>5
    <2> QED
      BY <2>1, <2>2
  <1>4. PICK V : V = IF hdr = "short" /\ S.type = "server" /\ U.state = "SERVER_HANDSHAKE"
                     THEN Callback([U EXCEPT !.state = "ESTABED"], call) ELSE U
    OBVIOUS
  <1>5. Core(V) /\ (S.state # "SERVER_HANDSHAKE" => V.state = S.state)
    <2>1. CASE ~(hdr = "short" /\ S.type = "server" /\ U.state = "SERVER_HANDSHAKE")
      BY <1>3, <1>4, <2>1
    <2>2. CASE hdr = "short" /\ S.type = "server" /\ U.state = "SERVER_HANDSHAKE"
      <3>1. PICK X : X = [U EXCEPT !.state = "ESTABED"]
        OBVIOUS
      <3>2. V = Callback(X, call)
        BY <1>4, <2>2, <3>1
      <3>3. U \in Conn /\ "ESTABED" \in DOMAIN Rank
        BY <1>3, Ranks DEF Core, Base
      <3>4. /\ X \in Conn /\ X.type = U.type /\ X.state = "ESTABED" /\ X.flags = U.flags
            /\ X.timers = U.timers /\ X.pkt = U.pkt /\ X.closeCnt = U.closeCnt
            /\ X.closeq = U.closeq /\ X.asked = U.asked /\ X.notices = U.notices
        BY <3>1, <3>3 DEF Conn
      <3>5. U.state \notin Late /\ U.type # "client"
        BY <1>3, <2>2 DEF Late, Core, Base, Sound
      <3>6. Core(X)
        BY <1>3, <2>2, <3>4, <3>5 DEF Core, Base, Sound
      <3>7. Core(V)
        BY <3>2, <3>6, CallbackCore
      <3> QED
        BY <1>3, <2>2, <3>7
    <2> QED
      BY <2>1, <2>2
  <1>6. T = IF ~elicits THEN V
            ELSE IF ackNow THEN [V EXCEPT !.ackFlag = TRUE]
            ELSE [V EXCEPT !.timers = @ \cup {"ack"}]
    BY <1>2, <1>4 DEF OnPktProcessed
  <1>7. V \in Conn
    BY <1>5 DEF Core, Base
  <1>8. CASE ~elicits
    BY <1>5, <1>6, <1>8
  <1>9. CASE elicits /\ ackNow
    <2>1. T = [V EXCEPT !.ackFlag = TRUE]
      BY <1>6, <1>9
    <2>2. /\ T \in Conn /\ T.type = V.type /\ T.state = V.state /\ T.flags = V.flags
          /\ T.timers = V.timers /\ T.pkt = V.pkt /\ T.closeCnt = V.closeCnt
          /\ T.closeq = V.closeq /\ T.asked = V.asked /\ T.notices = V.notices
      BY <1>7, <2>1 DEF Conn
    <2>3. Core(T)
      BY <1>5, <2>2, SameCore
    <2> QED
      BY <1>5, <2>2, <2>3
  <1>10. CASE elicits /\ ~ackNow
    <2>1. T = WithTimer(V, "ack")
      BY <1>6, <1>10 DEF WithTimer
    <2>2. Core(T) /\ T.state = V.state
      BY <1>5, <2>1, WithTimerCore DEF Timer
    <2> QED
      BY <1>5, <2>2
  <1> QED
    BY <1>8, <1>9, <1>10

\* rqc_engine_packet_process
LEMMA PacketInCore ==
    ASSUME NEW S, Core(S), Heard(S), ~CloseInCreate, NEW hdr, NEW f \in FrameKind, NEW A,
           NEW ackNow \in BOOLEAN, NEW call \in {"none", "close"},
           NEW T, T = PacketIn(S, hdr, f, A, ackNow, call)
    PROVE  Core(T) /\ T.place = "active" /\ (Lingers(S) => T.state # "CLOSING")
  <1>1. PICK U : /\ T = Activate(U)
                 /\ U = IF Ignored(S, hdr) THEN WithTimer(S, "idle")
                        ELSE IF f = "bad" /\ ~AtLeast(S, "CLOSING") THEN ConnErr(S)
                        ELSE WithTimer(OnPktProcessed(ProcessFrames(S, f, A, call), hdr,
                                                      Elicits(S, f), ackNow, call), "idle")
    BY DEF PacketIn, WithTimer
  <1>2. Lingers(S) => S.state = "ESTABED"
    BY DEF Lingers, Core, Base, Late
  <1>3. Core(U) /\ (Lingers(S) => U.state # "CLOSING")
    <2>1. CASE Ignored(S, hdr)
      <3>1. U = WithTimer(S, "idle")
        BY <1>1, <2>1
      <3>2. Core(U) /\ U.state = S.state
        BY <3>1, WithTimerCore DEF Timer
      <3> QED
        BY <1>2, <3>2
    <2>2. CASE ~Ignored(S, hdr) /\ f = "bad" /\ ~AtLeast(S, "CLOSING")
      <3>1. U = ConnErr(S)
        BY <1>1, <2>2
      <3>2. Core(U) /\ U.state = S.state
        BY <3>1, ConnErrCore
      <3> QED
        BY <1>2, <3>2
    <2>3. CASE ~Ignored(S, hdr) /\ ~(f = "bad" /\ ~AtLeast(S, "CLOSING"))
      <3>1. PICK F : F = ProcessFrames(S, f, A, call)
        OBVIOUS
      <3>2. Core(F) /\ (S.state = "ESTABED" => F.state \in {"ESTABED", "DRAINING"})
        BY <3>1, ProcessFramesCore
      <3>3. PICK e \in BOOLEAN : e = Elicits(S, f)
        BY DEF Elicits, AtLeast
      <3>4. PICK P : P = OnPktProcessed(F, hdr, e, ackNow, call)
        OBVIOUS
      <3>5. Core(P) /\ (F.state # "SERVER_HANDSHAKE" => P.state = F.state)
        BY <3>2, <3>4, OnPktProcessedCore
      <3>6. U = WithTimer(P, "idle")
        BY <1>1, <2>3, <3>1, <3>3, <3>4
      <3>7. Core(U) /\ U.state = P.state
        BY <3>5, <3>6, WithTimerCore DEF Timer
      <3> QED
        BY <1>2, <3>2, <3>5, <3>7
    <2> QED
      BY <2>1, <2>2, <2>3
  <1>4. Core(T) /\ T.place = "active" /\ T.state = U.state
    BY <1>1, <1>3, ActivateCore
  <1> QED
    BY <1>3, <1>4

-----------------------------------------------------------------------------
(* Actions *)

\* A new connection has done nothing.
LEMMA InitCInv == Init => CInv
  <1> SUFFICES ASSUME Init PROVE CInv
    OBVIOUS
  <1>1. PICK type \in Types :
          conn = [type     |-> type,
                  state    |-> IF type = "server" THEN "SERVER_INIT" ELSE "CLIENT_INIT",
                  flags    |-> {}, timers   |-> {"idle"}, pkt |-> [k \in Kind |-> "none"],
                  closeCnt |-> 0, closeq |-> 0, ackFlag |-> FALSE, ackq |-> FALSE,
                  place    |-> "new", destroys |-> FALSE, asked |-> FALSE, lingered |-> FALSE,
                  sockErr  |-> FALSE, notices |-> 0, after |-> {}]
    BY Zenon DEF Init
  <1>2. type \in {"client", "server"} /\ peer = 0 /\ MaxRspConnCloseCnt \in Nat
    BY CloseAssumption DEF Init
  <1>3. PICK st \in DOMAIN Rank : /\ st = IF type = "server" THEN "SERVER_INIT" ELSE "CLIENT_INIT"
    BY Ranks
  <1>4. /\ conn.type = type /\ conn.state = st /\ conn.flags = {} /\ conn.timers = {"idle"}
        /\ conn.pkt = NoPkt /\ conn.closeCnt = 0 /\ conn.closeq = 0 /\ conn.place = "new"
        /\ conn.asked = FALSE /\ conn.notices = 0
    BY <1>1, <1>3 DEF NoPkt
  <1>5. conn \in Conn
    <2>1. /\ {"idle"} \in SUBSET Timer /\ "new" \in Place /\ 0 \in 0 .. MaxRspConnCloseCnt
          /\ NoPkt \in [Kind -> Status]
      BY <1>2, NoPkts DEF Timer, Place
    <2>2. conn = [type |-> type, state |-> st, flags |-> {}, timers |-> {"idle"}, pkt |-> NoPkt,
                  closeCnt |-> 0, closeq |-> 0, ackFlag |-> FALSE, ackq |-> FALSE,
                  place |-> "new", destroys |-> FALSE, asked |-> FALSE, lingered |-> FALSE,
                  sockErr |-> FALSE, notices |-> 0, after |-> {}]
      BY <1>1, <1>3 DEF NoPkt
    <2> QED
      BY <2>1, <2>2 DEF Conn
  <1>6. Sound(conn)
    BY <1>2, <1>3, <1>4 DEF Sound
  <1>7. Core(conn)
    BY <1>4, <1>5, <1>6, NoPkts, <1>3 DEF Core, Base, Kind
  <1> QED
    BY <1>2, <1>3, <1>4, <1>7 DEF CInv

\* rqc_client_connect
LEMMA ConnectCInv == ASSUME CInv, Connect PROVE CInv' /\ ~Lingers(conn)
  <1>1. Core(conn) /\ ~conn.asked /\ conn.state \in {"CLIENT_INIT", "SERVER_INIT"}
        /\ conn.type = "client" /\ conn.place = "new" /\ conn \in Conn
        /\ peer' = peer
    BY DEF CInv, Connect, Core, Base
  <1>2. conn.state = "CLIENT_INIT"
    BY <1>1 DEF Core, Base, Sound
  <1>3. PICK call \in {"none", "close"} :
          StartPass(Callback(Activate([conn EXCEPT !.state = "CLIENT_HANDSHAKE",
                                                   !.pkt["hsk"] = "unsent"]), call), {}, FALSE)
    BY Zenon DEF Connect
  <1>4. PICK P : P = [conn.pkt EXCEPT !["hsk"] = "unsent"]
    OBVIOUS
  <1>5. PICK S : S = [conn EXCEPT !.state = "CLIENT_HANDSHAKE", !.pkt = P]
    OBVIOUS
  <1>6. P \in [Kind -> Status] /\ P["data"] = conn.pkt["data"] /\ "CLIENT_HANDSHAKE" \in DOMAIN Rank
    BY <1>1, <1>4, Ranks DEF Conn, Kind, Status
  <1>7. /\ S \in Conn /\ S.type = conn.type /\ S.state = "CLIENT_HANDSHAKE" /\ S.flags = conn.flags
        /\ S.timers = conn.timers /\ S.pkt = P /\ S.closeCnt = conn.closeCnt
        /\ S.closeq = conn.closeq /\ S.asked = conn.asked /\ S.notices = conn.notices
    <2>1. conn \in Conn
      BY <1>1
    <2> QED
      BY <1>5, <1>6, <2>1 DEF Conn
  <1>8. Core(S)
    BY <1>1, <1>2, <1>6, <1>7 DEF Core, Base, Sound
  <1>9. PICK U : U = Activate(S)
    OBVIOUS
  <1>10. Core(U)
    BY <1>8, <1>9, ActivateCore
  <1>11. PICK V : V = Callback(U, call)
    OBVIOUS
  <1>12. Core(V)
    BY <1>10, <1>11, CallbackCore
  <1>13. StartPass(V, {}, FALSE)
    BY <1>3, <1>4, <1>5, <1>9, <1>11
  <1>14. Core(conn') /\ conn'.place = "process"
    BY <1>12, <1>13, StartPassCore
  <1>15. CInv'
    BY <1>1, <1>14 DEF CInv
  <1> QED
    BY <1>1, <1>2, <1>15 DEF Lingers, Core, Base

\* A step that starts closing while data lingers has the timer or an error as its
\* reason.
DataKept == Lingers(conn) => conn'.state # "CLOSING" \/ conn'.lingered \/ "ERROR" \in conn'.flags

\* A packet arrives.
LEMMA RecvCInv == ASSUME CInv, ~CloseInCreate, RecvPacket PROVE CInv' /\ DataKept
  <1>1. Core(conn) /\ peer \in 0 .. MaxRspConnCloseCnt
    BY DEF CInv
  <1>2. Heard(conn)
    BY DEF RecvPacket, Heard
  <1>3. PICK hdr \in {"init", "short"}, f \in FrameKind :
          /\ IF f \in {"close", "closeErr"} THEN peer < MaxRspConnCloseCnt /\ peer' = peer + 1
             ELSE peer = 0 /\ UNCHANGED peer
          /\ \E A \in IF f = "ack" THEN SUBSET Unsettled(conn) ELSE {{}},
                ackNow \in IF f \in {"hsk", "app"} THEN BOOLEAN ELSE {FALSE},
                call \in {"none", "close"} :
               \E S \in {PacketIn(conn, hdr, f, A, ackNow, call)} :
                 \/ StartPass(S, {}, FALSE)
                 \/ ~RunsAtOnce(conn, S, hdr, f) /\ conn' = S
    BY Zenon DEF RecvPacket, FrameKind
  <1>4. PICK A \in IF f = "ack" THEN SUBSET Unsettled(conn) ELSE {{}},
             ackNow \in IF f \in {"hsk", "app"} THEN BOOLEAN ELSE {FALSE},
             call \in {"none", "close"} :
               \E S \in {PacketIn(conn, hdr, f, A, ackNow, call)} :
                 \/ StartPass(S, {}, FALSE)
                 \/ ~RunsAtOnce(conn, S, hdr, f) /\ conn' = S
    BY <1>3, Zenon
  <1>5. PICK S : S = PacketIn(conn, hdr, f, A, ackNow, call)
    OBVIOUS
  <1>6. StartPass(S, {}, FALSE) \/ conn' = S
    BY <1>4, <1>5, Zenon
  <1>7. Core(S) /\ S.place = "active" /\ (Lingers(conn) => S.state # "CLOSING")
    <2>1. ackNow \in BOOLEAN
      OBVIOUS
    <2> QED
      BY <1>1, <1>2, <1>5, <2>1, PacketInCore
  <1>8. peer' \in 0 .. MaxRspConnCloseCnt
    BY <1>1, <1>3, CloseAssumption
  <1>9. CASE conn' = S
    BY <1>7, <1>8, <1>9 DEF CInv, DataKept
  <1>10. CASE StartPass(S, {}, FALSE)
    <2>1. Core(conn') /\ conn'.place = "process" /\ conn'.state = S.state
      BY <1>7, <1>10, StartPassCore
    <2> QED
      BY <1>7, <1>8, <2>1 DEF CInv, DataKept
  <1> QED
    BY <1>6, <1>9, <1>10

\* The application's calls.
LEMMA AppCInv ==
    ASSUME CInv, AppClose \/ AppCloseWithError \/ AppSend
    PROVE  CInv' /\ DataKept
  <1>1. /\ Core(conn) /\ conn \in Conn /\ peer' = peer /\ conn.place \in {"active", "wakeup", "due"}
        /\ conn.place = "due" => conn.state = "CLOSED"
    BY DEF CInv, Core, Base, AppClose, AppCloseWithError, AppSend
  <1>2. PICK T : T = conn'
    OBVIOUS
  <1>3. CASE AppClose
    <2>1. T = ConnClose(conn)
      BY <1>2, <1>3 DEF AppClose
    <2>2. /\ Core(T) /\ T.place \in {conn.place, "active"}
          /\ conn.state = "CLOSED" => T.state = "CLOSED"
          /\ Lingers(conn) => Lingers(T)
      BY <1>1, <2>1, ConnCloseCore
    <2> QED
      BY <1>1, <1>2, <2>2 DEF CInv, DataKept, Lingers, Late
  <1>4. CASE AppCloseWithError
    <2>1. T = ConnErr(conn)
      BY <1>2, <1>4 DEF AppCloseWithError
    <2>2. Core(T) /\ T.state = conn.state /\ T.place = conn.place
      BY <1>1, <2>1, ConnErrCore
    <2> QED
      BY <1>1, <1>2, <2>2 DEF CInv, DataKept, Lingers, Late
  <1>5. CASE AppSend
    <2>1. PICK P : P = [conn.pkt EXCEPT !["data"] = "unsent"]
      OBVIOUS
    <2>2. PICK S : S = [conn EXCEPT !.pkt = P]
      OBVIOUS
    <2>3. T = Activate(S) /\ conn.state = "ESTABED"
      BY <1>2, <1>5, <2>1, <2>2 DEF AppSend
    <2>4. P \in [Kind -> Status]
      BY <1>1, <2>1 DEF Conn, Status, Kind
    <2>5. /\ S \in Conn /\ S.type = conn.type /\ S.state = conn.state /\ S.flags = conn.flags
          /\ S.timers = conn.timers /\ S.pkt = P /\ S.closeCnt = conn.closeCnt
          /\ S.closeq = conn.closeq /\ S.asked = conn.asked /\ S.notices = conn.notices
      <3>1. conn \in Conn
        BY <1>1
      <3> QED
        BY <2>2, <2>4, <3>1 DEF Conn
    <2>6. Core(S)
      BY <1>1, <2>3, <2>5 DEF Core, Base, Sound
    <2>7. Core(T) /\ T.state = S.state /\ T.place = "active"
      BY <2>3, <2>6, ActivateCore
    <2> QED
      BY <1>1, <1>2, <2>3, <2>5, <2>7 DEF CInv, DataKept
  <1> QED
    BY <1>3, <1>4, <1>5

\* rqc_engine_main_logic reaches the connection.
LEMMA TickCInv == ASSUME CInv, Tick PROVE CInv' /\ DataKept
  <1>1. PICK D \in SUBSET conn.timers, d \in BOOLEAN : StartPass(conn, D, d) /\ peer' = peer
    BY Zenon DEF Tick, MainLogic
  <1>2. Core(conn) /\ peer \in 0 .. MaxRspConnCloseCnt
    BY DEF CInv
  <1>3. Core(conn') /\ conn'.place = "process" /\ (conn'.state = conn.state \/ conn'.lingered)
    BY <1>1, <1>2, StartPassCore
  <1> QED
    BY <1>1, <1>2, <1>3 DEF CInv, DataKept, Lingers, Late

\* The pass goes on.
LEMMA ProcessCInv == ASSUME CInv, Process PROVE CInv' /\ DataKept
  <1>1. PICK notifyCall \in {"none", "close"}, call \in {"none", "close", "error"},
             writes \in BOOLEAN :
          \E P \in {ProcessConn(conn, notifyCall, call, writes)} :
             conn' = IF P.state = "CLOSED" THEN AfterPass(P) ELSE [P EXCEPT !.place = "send"]
    BY Zenon DEF Process
  <1>2. PICK S, P : S = conn /\ P = ProcessConn(S, notifyCall, call, writes)
    OBVIOUS
  <1>3. PICK T : /\ T = conn'
                 /\ T = IF P.state = "CLOSED" THEN AfterPass(P) ELSE [P EXCEPT !.place = "send"]
    BY <1>1, <1>2
  <1>4. Core(conn) /\ peer' \in 0 .. MaxRspConnCloseCnt
    BY DEF CInv, Process
  <1>5. /\ Core(P)
        /\ "TIME_OUT" \in P.flags => P.state = "CLOSED"
        /\ P.state = "CLOSED" /\ "ERROR" \in P.flags => P.notices = 1
        /\ Lingers(conn) => P.state # "CLOSING" \/ "ERROR" \in P.flags
    <2>1. Core(S)
      BY <1>2, <1>4
    <2>2. Processed(S, P)
      BY <1>2, <2>1, ProcessConnCore
    <2> QED
      BY <1>2, <2>2 DEF Processed
  <1>6. CASE P.state = "CLOSED"
    <2>1. T = AfterPass(P)
      BY <1>3, <1>6
    <2>2. /\ Core(T) /\ T.state = P.state /\ T.flags = P.flags /\ T.notices = P.notices
          /\ T.place \in {"wakeup", "freed", "due"}
      BY <1>5, <2>1, AfterPassCore
    <2> QED
      BY <1>3, <1>4, <1>5, <1>6, <2>2 DEF CInv, DataKept
  <1>7. CASE P.state # "CLOSED"
    <2>1. T = [P EXCEPT !.place = "send"] /\ P \in Conn /\ "send" \in Place
      BY <1>3, <1>5, <1>7 DEF Core, Base, Place
    <2>2. /\ T \in Conn /\ T.type = P.type /\ T.state = P.state /\ T.flags = P.flags
          /\ T.timers = P.timers /\ T.pkt = P.pkt /\ T.closeCnt = P.closeCnt
          /\ T.closeq = P.closeq /\ T.asked = P.asked /\ T.notices = P.notices
          /\ T.place = "send"
      BY <2>1 DEF Conn
    <2>3. Core(T)
      BY <1>5, <2>2, SameCore
    <2> QED
      BY <1>3, <1>4, <1>5, <1>7, <2>2, <2>3 DEF CInv, DataKept
  <1> QED
    BY <1>6, <1>7

\* A pass ends with the sends.
LEMMA SendCInv == ASSUME CInv, Send PROVE CInv' /\ DataKept
  <1>1. PICK X \in SUBSET Sendable(conn), n \in 0 .. conn.closeq,
             socket \in {"ok", "eagain", "error"} :
          conn' = AfterPass(SendPackets(conn, X, n, socket))
    BY Zenon DEF Send
  <1>2. /\ Core(conn) /\ conn.state # "CLOSED" /\ "TIME_OUT" \notin conn.flags
        /\ peer' \in 0 .. MaxRspConnCloseCnt
    BY DEF CInv, Send
  <1>3. PICK S : S = SendPackets(conn, X, n, socket)
    OBVIOUS
  <1>4. /\ Core(S) /\ ("TIME_OUT" \in S.flags => "TIME_OUT" \in conn.flags)
        /\ S.state = conn.state \/ (S.state = "CLOSED" /\ S.sockErr)
    BY <1>2, <1>3, SendPacketsCore
  <1>5. PICK T : T = conn' /\ T = AfterPass(S)
    BY <1>1, <1>3
  <1>6. /\ Core(T) /\ T.state = S.state /\ T.sockErr = S.sockErr
        /\ T.place \in {"wakeup", "freed", "due"}
        /\ T.place \in {"freed", "due"} => S.state = "CLOSED"
    BY <1>2, <1>4, <1>5, AfterPassCore
  <1> QED
    BY <1>2, <1>4, <1>5, <1>6 DEF CInv, DataKept, Lingers, Late

\* Every step keeps the invariant and lingering data.
LEMMA NextCInv ==
    ASSUME ~CloseInCreate, CInv, [Next]_vars
    PROVE  CInv' /\ (DataKept \/ UNCHANGED vars)
  <1>1. CASE UNCHANGED vars
    BY <1>1 DEF vars, CInv
  <1>2. CASE Connect
    BY <1>2, ConnectCInv DEF DataKept
  <1>3. CASE Freed
    BY <1>3 DEF Freed, vars, CInv
  <1> QED
    BY <1>1, <1>2, <1>3, RecvCInv, AppCInv, TickCInv, ProcessCInv, SendCInv DEF Next

\* The invariant holds in every reachable state.
LEMMA AlwaysCInv == ASSUME ~CloseInCreate PROVE Spec => []CInv
  <1>1. CInv /\ [Next]_vars => CInv'
    BY NextCInv
  <1> QED
    BY <1>1, InitCInv, PTL DEF Spec

\* After rqc_conn_close the connection never goes back to work, and in CLOSING and
\* DRAINING nothing but closes and an ACK leaves it: rqc_conn_shutdown empties the
\* queues, and every path to DRAINING without it starts from empty ones.  It is
\* so unless conn_create_notify closes the connection (CloseInCreate).
THEOREM CloseSticksAlways == ASSUME ~CloseInCreate PROVE Spec => []CloseSticks
  <1>1. CInv => CloseSticks
    <2> SUFFICES ASSUME CInv PROVE CloseSticks
      OBVIOUS
    <2>1. conn \in Conn /\ (conn.asked => conn.state \in Late \/ "LINGER" \in conn.flags)
      BY DEF CInv, Core, Base
    <2>2. AtLeast(conn, "CLOSING") <=> conn.state \in Late
      BY <2>1, Stages
    <2>3. conn.after \subseteq {"close", "ack"}
      BY <2>1 DEF Conn, Last
    <2> QED
      BY <2>1, <2>2, <2>3 DEF CloseSticks
  <1> QED
    BY <1>1, AlwaysCInv, PTL

\* conn_closing is called at most once (rqc_conn_closing_notify), and was called
\* when a connection with an error is destroyed without a socket failure: only
\* rqc_engine_process_conn leads there, and it notifies first.
THEOREM NotifiedOnceAlways == ASSUME ~CloseInCreate PROVE Spec => []NotifiedOnce
  <1>1. CInv => NotifiedOnce
    <2> SUFFICES ASSUME CInv PROVE NotifiedOnce
      OBVIOUS
    <2>1. conn \in Conn /\ conn.closeq <= conn.closeCnt
      BY DEF CInv, Core, Base
    <2>2. /\ conn.type \in Types /\ conn.state \in DOMAIN Rank /\ conn.flags \subseteq Flag
          /\ conn.timers \subseteq Timer /\ conn.pkt \in [Kind -> Status]
          /\ conn.closeCnt \in 0 .. MaxRspConnCloseCnt /\ conn.closeq \in Nat
          /\ conn.ackFlag \in BOOLEAN /\ conn.ackq \in BOOLEAN /\ conn.asked \in BOOLEAN
          /\ conn.lingered \in BOOLEAN /\ conn.sockErr \in BOOLEAN /\ conn.destroys \in BOOLEAN
          /\ conn.notices \in {0, 1} /\ conn.after \subseteq Last
          /\ conn.place \in Place
      BY <2>1 DEF Conn
    <2>3. conn.closeq \in 0 .. conn.closeCnt
      BY <2>1, <2>2, CloseAssumption
    <2>4. TypeOK
      BY <2>2, <2>3 DEF TypeOK, CInv, Last
    <2>5. conn.notices <= 1
      BY <2>2
    <2> QED
      BY <2>4, <2>5 DEF NotifiedOnce, CInv
  <1> QED
    BY <1>1, AlwaysCInv, PTL

\* A lingering connection with unacknowledged data starts closing only because
\* the linger timer expired (rqc_timer_linger_close_timeout) or an error was met.
THEOREM LingerKeepsDataAlways == ASSUME ~CloseInCreate PROVE Spec => LingerKeepsData
  <1>1. CInv /\ [Next]_vars =>
          [/\ "LINGER" \in conn.flags
           /\ conn.pkt["data"] # "none"
           /\ ~AtLeast(conn, "CLOSING")
           /\ conn'.state = "CLOSING"
           => conn'.lingered \/ "ERROR" \in conn'.flags]_vars
    <2> SUFFICES ASSUME CInv, [Next]_vars, ~UNCHANGED vars,
                        "LINGER" \in conn.flags, conn.pkt["data"] # "none",
                        ~AtLeast(conn, "CLOSING"), conn'.state = "CLOSING"
                 PROVE  conn'.lingered \/ "ERROR" \in conn'.flags
      OBVIOUS
    <2>1. DataKept
      BY NextCInv
    <2>2. conn \in Conn
      BY DEF CInv, Core, Base
    <2>3. Lingers(conn)
      BY <2>2, Stages DEF Lingers
    <2> QED
      BY <2>1, <2>3 DEF DataKept
  <1> QED
    BY <1>1, AlwaysCInv, PTL DEF Spec, LingerKeepsData
=============================================================================
