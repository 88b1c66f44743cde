----------------------------- MODULE Handshake -----------------------------
(***************************************************************************)
(* How a client and a server come to share a connection, and keep it when  *)
(* the client's address changes.                                           *)
(*                                                                         *)
(* The client names itself and the server with random connection ids       *)
(* (rqc_client.c), repeats its HANDSHAKE frame in INIT packets whose       *)
(* header never changes, and learns the id the server chose from the first *)
(* INIT packet it accepts (rqc_conn_confirm_cid).  The server finds the    *)
(* connection of a packet by the id in it (rqc_engine_packet_process),     *)
(* picks the version, answers, and is established by the first 1-RTT       *)
(* packet.  Afterwards a packet from an unknown address makes it validate  *)
(* that address with PATH_CHALLENGE and PATH_RESPONSE before it sends      *)
(* there.                                                                  *)
(*                                                                         *)
(* The network is a set of datagrams: each is lost, delivered, delivered   *)
(* again or overtaken.  Sending is an action of its own because pacing,    *)
(* the congestion window and a full socket hold packets back; the frames   *)
(* that are repaired when lost (HANDSHAKE, STREAM) are sent again until    *)
(* the peer's ACK of them arrives.  A repeated PATH_RESPONSE is the        *)
(* network's duplicate of the first.                                       *)
(***************************************************************************)
EXTENDS Naturals, FiniteSets, Sequences, Functions

CONSTANTS
    Addrs,              \* addresses the client can have
    Home,               \* the one it connects from
    ClientConfigs,      \* [version, list, alpn] a client may be started with
    ServerList,         \* config.support_version_list of the server engine
    ServerAlpns,        \* application protocols registered with the server
    MaxNet,             \* datagrams in the network at once
    MaxMoves,           \* address changes of the client
    MaxChallenges       \* PATH_CHALLENGE frames of one behaviour

ASSUME HomeIsAddr == Home \in Addrs

\* The versions the header of a packet can be written with
\* (rqc_check_proto_version_valid).
ASSUME ValidVersions == \A cfg \in ClientConfigs : cfg.version \in {1, 2}

VARIABLES
    client,     \* the client's rqc_connection_t
    server,     \* the server's
    created,    \* connections rqc_conn_server_create has made
    addr,       \* the client's address as its NAT shows it
    moves,      \* address changes so far
    net,        \* datagrams in flight
    early,      \* the address changed before the client was established
    reached     \* <<address, challenge>>: the client read it there

vars == <<client, server, created, addr, moves, net, early, reached>>

----------------------------------------------------------------------------
(* Connection ids and versions.                                            *)

CScid == "cli"      \* the client's scid (rqc_client_connect)
ODcid == "orig"     \* the dcid the client made up, original_dcid
NewCid == "srv"     \* the scid a negotiating server generates

\* Wire value of a version number of the enumeration rqc_proto_version_t.
proto_version_value == [v \in {1, 2} |-> IF v = 1 THEN 1 ELSE 29]

\* RQC_IDRAFT_INIT_VER: the server has not chosen yet.
INIT_VER == 0

None == "none"

----------------------------------------------------------------------------
(* Packets and the two connections.                                        *)

Blank == [to |-> "S", type |-> "INIT", dcid |-> ODcid, scid |-> CScid,
          version |-> 0, frame |-> None, alpn |-> None, data |-> 0, acks |-> {},
          addr |-> Home]

\* The frames whose acknowledgement somebody waits for.
Tracked == {"HANDSHAKE", "STREAM"}

\* Datagrams find room in the network or are lost at once.
Sent(flight, pkts) ==
    IF Cardinality(flight \cup pkts) <= MaxNet THEN flight \cup pkts ELSE flight

rqc_state_to_pkt_type(c) == IF c.done THEN "SHORT" ELSE "INIT"

\* A packet of the client, of the header type its state calls for.  The
\* dcid of a 1-RTT packet is that of the path at the time it is sent.
FromClient(c, frame, acks) ==
    [Blank EXCEPT !.type = rqc_state_to_pkt_type(c), !.dcid = c.path_dcid,
                  !.version = proto_version_value[c.version],
                  !.frame = frame, !.acks = acks, !.addr = addr]

\* The INIT packet with the HANDSHAKE frame: a retransmission is a copy, so
\* its header keeps the ids and the version of the first one.
HandshakeOfClient(c) ==
    [Blank EXCEPT !.version = proto_version_value[c.first_version],
                  !.frame = "HANDSHAKE", !.alpn = c.alpn, !.addr = addr]

FromServer(s, frame, acks) ==
    [Blank EXCEPT !.to = "C", !.type = rqc_state_to_pkt_type(s), !.dcid = s.dcid,
                  !.scid = s.scid, !.version = s.version,
                  !.frame = frame, !.acks = acks, !.addr = s.addr]

\* rqc_conn_create for a client that has not connected yet.
NoClient == [state |-> "IDLE", version |-> 1, first_version |-> 1, list |-> <<>>,
             alpn |-> None, dcids |-> {ODcid}, path_dcid |-> ODcid,
             dcid_done |-> FALSE, discard_vn |-> FALSE, done |-> FALSE,
             data |-> "none", acked |-> {}, recv |-> {}, finished |-> 0]

NoServer == [state |-> "NONE", version |-> INIT_VER, scid |-> None, dcid |-> None,
             alpn |-> None, hash |-> {}, dcid_done |-> FALSE, vn |-> FALSE,
             sent |-> FALSE, done |-> FALSE, acked |-> {}, recv |-> {},
             finished |-> 0, addr |-> Home, rebind |-> None, check |-> FALSE,
             challenge |-> 0, valid |-> 0]

Init ==
    /\ client = NoClient
    /\ server = NoServer
    /\ created = 0
    /\ addr = Home
    /\ moves = 0
    /\ net = {}
    /\ early = FALSE
    /\ reached = {}

Alive(c) == c.state \notin {"IDLE", "NONE", "CLOSED"}

----------------------------------------------------------------------------
(* Sending.                                                                *)

\* rqc_connect: the connection is made, its HANDSHAKE frame written, and the
\* first pass of the engine sends it.
Connect(cfg) ==
    /\ client.state = "IDLE"
    /\ LET c == [NoClient EXCEPT !.state = "HANDSHAKE", !.version = cfg.version,
                     !.first_version = cfg.version, !.list = cfg.list, !.alpn = cfg.alpn]
       IN  /\ client' = c
           /\ net' = Sent(net, {HandshakeOfClient(c)})
    /\ UNCHANGED <<server, created, addr, moves, early, reached>>

\* A probe or a retransmission repeats the HANDSHAKE packet.
ResendHandshake ==
    /\ Alive(client) /\ "HANDSHAKE" \notin client.acked
    /\ net' = Sent(net, {HandshakeOfClient(client)})
    /\ UNCHANGED <<client, server, created, addr, moves, early, reached>>

\* rqc_stream_send on the client: before it is established the packet waits in
\* sndq_buff_1rtt_packets.
WriteData ==
    /\ Alive(client) /\ client.data = "none"
    /\ client' = [client EXCEPT !.data = IF client.state = "ESTABED" THEN "sent"
                                                                    ELSE "buffered"]
    /\ UNCHANGED <<server, created, addr, moves, net, early, reached>>

\* The 1-RTT packet with the data is sent, and again while it is not
\* acknowledged; each time rqc_encode_packet_with_pn writes the dcid of the path.
SendData ==
    /\ client.state = "ESTABED" /\ client.data = "sent" /\ "STREAM" \notin client.acked
    /\ net' = Sent(net, {FromClient(client, "STREAM", {})})
    /\ UNCHANGED <<client, server, created, addr, moves, early, reached>>

\* The server's HANDSHAKE packet, sent until it is acknowledged.
SendHandshake ==
    /\ Alive(server) /\ "HANDSHAKE" \in server.recv /\ "HANDSHAKE" \notin server.acked
    /\ net' = Sent(net, {[FromServer(server, "HANDSHAKE", {}) EXCEPT !.type = "INIT"]})
    /\ server' = [server EXCEPT !.sent = TRUE]
    /\ UNCHANGED <<client, created, addr, moves, early, reached>>

\* rqc_conn_send_version_negotiation, in the pass after an unsupported version.
rqc_conn_send_version_negotiation ==
    /\ Alive(server) /\ server.vn
    /\ server' = [server EXCEPT !.vn = FALSE]
    /\ net' = Sent(net, {[FromServer(server, "VERSIONS", {})
                         EXCEPT !.type = "VN", !.scid = ODcid]})
    /\ UNCHANGED <<client, created, addr, moves, early, reached>>

----------------------------------------------------------------------------
(* The client reads a packet.                                              *)

\* Long headers are checked against the known ids once the dcid is confirmed.
KnownCids(done, scids, dcids, p) ==
    done => p.dcid \in scids \cup {ODcid} /\ p.scid \in dcids

\* rqc_packet_parse_version_negotiation: the version in use is compared by its
\* number, the lists by wire value.
VersionsRead(c) ==
    LET offered == ServerList
        common  == SelectSeq(offered, LAMBDA v : v \in Range(c.list))
    IN  IF c.state # "HANDSHAKE" THEN [c EXCEPT !.state = "CLOSED"]
        ELSE IF c.discard_vn \/ c.version \in Range(offered)
             THEN [c EXCEPT !.discard_vn = TRUE]
        ELSE IF common = <<>> THEN [c EXCEPT !.state = "CLOSED"]
        ELSE [c EXCEPT !.discard_vn = TRUE,
                 !.version = CHOOSE v \in DOMAIN proto_version_value :
                                 proto_version_value[v] = common[1]]

\* The pass of the engine after the handshake moves the packets in
\* sndq_buff_1rtt_packets to the send queue.
Flushed(data) == IF data = "buffered" THEN "sent" ELSE data

\* rqc_conn_process_handshake on the client: only the first one counts.
HelloRead(c) ==
    IF c.state = "HANDSHAKE" /\ ~c.done
    THEN [c EXCEPT !.state = "ESTABED", !.done = TRUE, !.finished = @ + 1,
                   !.data = Flushed(@)]
    ELSE c

ClientFrame(c, p) ==
    CASE p.frame = "HANDSHAKE" -> HelloRead(c)
      [] p.frame = "CLOSE"     -> [c EXCEPT !.state = "CLOSED"]
      [] OTHER                 -> c

\* rqc_conn_record_single: an ack-eliciting packet is recorded.  Its ACK follows in
\* a packet of its own (when, and for which packet numbers, is AckExchange's matter).
Record(c, p) == [c EXCEPT !.recv = @ \cup ({p.frame} \cap Tracked)]

Elicits(p) == p.frame \notin {"ACK", "CLOSE", "VERSIONS"}

ConfirmKeepsPath(c, p) ==
    [c EXCEPT !.dcids = @ \cup {p.scid}, !.dcid_done = TRUE]

\* rqc_conn_confirm_cid, after the frames of the first INIT packet.
rqc_conn_confirm_cid(c, p) ==
    IF c.dcid_done THEN c
    ELSE [c EXCEPT !.dcids = @ \cup {p.scid}, !.path_dcid = p.scid, !.dcid_done = TRUE]

\* Which packets the client does not ignore.
ClientAccepts(c, p) ==
    IF p.type = "SHORT" THEN c.done ELSE KnownCids(c.dcid_done, {CScid}, c.dcids, p)

ClientReads(c, p) ==
    LET framed == [ClientFrame(c, p) EXCEPT !.acked = @ \cup p.acks, !.discard_vn = TRUE]
    IN  IF ~ClientAccepts(c, p) THEN c
        ELSE CASE p.type = "VN"    -> VersionsRead(c)
               [] p.type = "INIT"  -> Record(rqc_conn_confirm_cid(framed, p), p)
               [] p.type = "SHORT" -> Record(framed, p)

\* A datagram reaches the client if it still has the address.  A PATH_CHALLENGE is
\* answered at once.  When the handshake finishes the application may write in
\* conn_handshake_finished, and the engine sends at once too: before the dcid of
\* the packet is confirmed.
ToClient(p, rest) ==
    IF p.addr # addr \/ ~Alive(client)
    THEN UNCHANGED <<client, reached>> /\ net' = rest
    ELSE LET c == ClientReads(client, p)
             ack == IF Elicits(p) /\ ClientAccepts(client, p)
                    THEN {FromClient(c, "ACK", c.recv)} ELSE {}
         IN  \/ /\ p.frame = "CHALLENGE" /\ ClientAccepts(client, p)
                /\ client' = c
                /\ net' = Sent(rest, {[FromClient(c, "RESPONSE", {}) EXCEPT !.data = p.data]})
                /\ reached' = reached \cup {<<addr, p.data>>}
             \/ /\ p.frame # "CHALLENGE" \/ ~ClientAccepts(client, p)
                /\ client' = c
                /\ net' = Sent(rest, ack)
                /\ UNCHANGED reached
             \/ /\ c.finished > client.finished /\ c.data = "none"
                /\ client' = [c EXCEPT !.data = "sent"]
                /\ net' = Sent(rest, {[FromClient(c, "STREAM", {})
                                          EXCEPT !.dcid = client.path_dcid]})
                /\ UNCHANGED reached

----------------------------------------------------------------------------
(* The server reads a packet.                                              *)

CreateHashesScidOnly(p, scid) ==
    [NoServer EXCEPT !.state = "INIT", !.scid = scid, !.dcid = p.scid,
                     !.hash = {scid}, !.addr = p.addr]

\* rqc_conn_server_create: the packet's dcid, or an id of its own when it
\* negotiates; both are entered in the table of connections.
rqc_conn_server_create(p, scid) ==
    [NoServer EXCEPT !.state = "INIT", !.scid = scid, !.dcid = p.scid,
                     !.hash = {scid, p.dcid}, !.addr = p.addr]

\* The part of rqc_engine_packet_process on NAT rebinding: the outcomes for a
\* packet from an address, with what is sent.  The challenge data is drawn anew
\* whether or not the socket takes the challenge.
Rebind(s, from) ==
    IF from = s.addr THEN {[s |-> s, out |-> {}]}
    ELSE IF s.rebind = None
    THEN IF s.challenge = MaxChallenges THEN {}
         ELSE LET drawn == [s EXCEPT !.challenge = @ + 1]
              IN  {[s |-> drawn, out |-> {}],
                   [s |-> [drawn EXCEPT !.rebind = from],
                    out |-> {[FromServer(s, "CHALLENGE", {})
                                 EXCEPT !.type = "SHORT", !.addr = from,
                                        !.data = drawn.challenge]}]}
    ELSE {[s |-> [s EXCEPT !.check = s.check \/ from = s.rebind], out |-> {}]}

\* rqc_conn_version_check: the first supported version is kept.
rqc_conn_version_check(s, p) ==
    s.version = INIT_VER => p.version \in Range(ServerList)

\* rqc_conn_server_on_alpn finds the protocol among the registered ones.
Registered(alpn) == alpn \in ServerAlpns

\* rqc_conn_process_handshake on the server: an unknown application protocol is
\* an error that closes the connection.
HelloAnswered(s, p) ==
    IF s.state # "INIT" THEN s
    ELSE IF ~Registered(p.alpn) THEN [s EXCEPT !.state = "CLOSED"]
    ELSE [s EXCEPT !.state = "HANDSHAKE", !.alpn = p.alpn]

AnyResponseRead(s, p) ==
    IF s.rebind # None /\ s.check
    THEN [s EXCEPT !.addr = s.rebind, !.rebind = None, !.check = FALSE,
                     !.valid = s.challenge]
    ELSE s

\* rqc_process_path_response_frame.
ResponseRead(s, p) ==
    IF p.data = s.challenge /\ s.rebind # None /\ s.check
    THEN [s EXCEPT !.addr = s.rebind, !.rebind = None, !.check = FALSE,
                     !.valid = s.challenge]
    ELSE s

ServerFrame(s, p) ==
    CASE p.frame = "HANDSHAKE" -> HelloAnswered(s, p)
      [] p.frame = "RESPONSE"  -> ResponseRead(s, p)
      [] OTHER                 -> s

\* rqc_conn_on_handshake_acked: a 1-RTT packet shows the client has the
\* server's HANDSHAKE frame.
rqc_conn_on_handshake_acked(s) ==
    LET done == [s EXCEPT !.done = TRUE]
    IN  IF s.state = "HANDSHAKE"
        THEN [done EXCEPT !.state = "ESTABED", !.finished = @ + 1] ELSE done

\* Which packets the server does not ignore.
ServerAccepts(s, p) ==
    IF p.type = "SHORT" THEN s.sent /\ p.dcid = s.scid
    ELSE KnownCids(s.dcid_done, {s.scid}, {s.dcid}, p) /\ rqc_conn_version_check(s, p)

ServerReads(s, p) ==
    LET versioned == [s EXCEPT !.version = IF @ = INIT_VER THEN p.version ELSE @]
        framed(t) == [ServerFrame(t, p) EXCEPT !.acked = @ \cup p.acks]
    IN  IF ~ServerAccepts(s, p)
        THEN [s EXCEPT !.vn = @ \/ (p.type = "INIT" /\ ~rqc_conn_version_check(s, p))]
        ELSE IF p.type = "SHORT"
        THEN Record(rqc_conn_on_handshake_acked(framed(s)), p)
        ELSE IF framed(versioned).state = "CLOSED" THEN framed(versioned)
        ELSE Record([framed(versioned) EXCEPT !.dcid_done = TRUE], p)

\* What follows a packet: the ACK, or the CONNECTION_CLOSE of a connection that
\* failed.
Answer(s, t, p) ==
    IF t.state = "CLOSED" THEN {FromServer(t, "CLOSE", {})}
    ELSE IF Elicits(p) /\ ServerAccepts(s, p) THEN {FromServer(t, "ACK", t.recv)}
    ELSE {}

\* rqc_engine_packet_process on the server.
ToServer(p, rest) ==
    \/ /\ p.dcid \in server.hash \/ p.type # "INIT"
       /\ p.dcid \notin server.hash \/ ~Alive(server)
       /\ net' = rest
       /\ UNCHANGED <<server, created>>
    \/ /\ p.dcid \in server.hash /\ Alive(server)
       /\ \E r \in Rebind(server, p.addr) :
             LET t == ServerReads(r.s, p)
             IN  /\ server' = t
                 /\ net' = Sent(rest, r.out \cup Answer(r.s, t, p))
       /\ UNCHANGED created
    \/ /\ p.dcid \notin server.hash /\ p.type = "INIT"
       /\ \E scid \in {p.dcid, NewCid} :
             LET s == rqc_conn_server_create(p, scid)
                 t == ServerReads(s, p)
             IN  /\ server' = t
                 /\ net' = Sent(rest, Answer(s, t, p))
       /\ created' = created + 1

----------------------------------------------------------------------------
(* The network, the NAT and the timer.                                     *)

\* A datagram is delivered and gone, or delivered and still on its way.
Receive(p, rest) ==
    \/ p.to = "C" /\ ToClient(p, rest) /\ UNCHANGED <<server, created, addr, moves, early>>
    \/ p.to = "S" /\ ToServer(p, rest) /\ UNCHANGED <<client, addr, moves, early, reached>>

Deliver(p) == p \in net /\ Receive(p, net \ {p})

Duplicate(p) == p \in net /\ Receive(p, net)

Lose(p) ==
    /\ p \in net
    /\ net' = net \ {p}
    /\ UNCHANGED <<client, server, created, addr, moves, early, reached>>

\* The NAT gives the client another address.
Move(a) ==
    /\ Alive(client) /\ moves < MaxMoves /\ a # addr
    /\ addr' = a
    /\ moves' = moves + 1
    /\ early' = (early \/ ~client.done)
    /\ UNCHANGED <<client, server, created, net, reached>>

TimeoutKeepsAddress ==
    /\ Alive(server) /\ server.rebind # None
    /\ server' = [server EXCEPT !.check = FALSE]
    /\ UNCHANGED <<client, created, addr, moves, net, early, reached>>

\* rqc_timer_nat_rebinding_timeout, three PTOs after the challenge.
NatTimeout ==
    /\ Alive(server) /\ server.rebind # None
    /\ server' = [server EXCEPT !.rebind = None, !.check = FALSE]
    /\ UNCHANGED <<client, created, addr, moves, net, early, reached>>

Next ==
    \/ \E cfg \in ClientConfigs : Connect(cfg)
    \/ ResendHandshake \/ WriteData \/ SendData
    \/ SendHandshake \/ rqc_conn_send_version_negotiation
    \/ \E p \in net : Deliver(p) \/ Duplicate(p) \/ Lose(p)
    \/ \E a \in Addrs : Move(a)
    \/ NatTimeout

Kinds == {<<"S", "HANDSHAKE">>, <<"C", "HANDSHAKE">>, <<"S", "STREAM">>, <<"C", "ACK">>,
          <<"S", "ACK">>, <<"C", "CHALLENGE">>, <<"S", "RESPONSE">>}

DeliverKind(k) == \E p \in net : <<p.to, p.frame>> = k /\ Deliver(p)

Fairness ==
    /\ WF_vars(\E cfg \in ClientConfigs : Connect(cfg))
    /\ SF_vars(ResendHandshake) /\ WF_vars(WriteData)
    /\ SF_vars(SendHandshake) /\ SF_vars(SendData)
    /\ \A k \in Kinds : SF_vars(DeliverKind(k))
    /\ WF_vars(NatTimeout)

Spec == Init /\ [][Next]_vars /\ Fairness

----------------------------------------------------------------------------
(* Properties.                                                             *)

\* One connection per client: a HANDSHAKE packet that is repeated after the
\* server chose its own id finds the connection the first one made.
OneConnection == created <= 1

\* The two ends agree: a client that is established and has confirmed the dcid
\* sends to the id the server listens on and to the protocol it asked for; the
\* server is established only when the client is, with the ids and the version
\* of the client's packets; each application is told once.
EndsAgree ==
    /\ client.state = "ESTABED" /\ client.dcid_done =>
          /\ client.path_dcid = server.scid /\ server.dcid = CScid
          /\ client.alpn = server.alpn
          /\ server.version = proto_version_value[client.version]
    /\ server.state = "ESTABED" => client.done /\ client.dcid_done
    /\ client.finished <= 1 /\ server.finished <= 1

\* The server moves its packets to another address only when the client has
\* read, at that address, the very PATH_CHALLENGE the answer is accepted for.
AddressValidated ==
    server.valid # 0 => <<server.addr, server.valid>> \in reached

\* What the application writes reaches the server and its acknowledgement comes
\* back, whether it was written before, in or after conn_handshake_finished, and
\* though the client's address changes; unless the versions or the protocols do
\* not match, the address changed during the handshake, or the challenges of the
\* model are used up.
DataThrough ==
    <>(\/ "STREAM" \in client.acked
       \/ client.state = "CLOSED" \/ server.state = "CLOSED"
       \/ proto_version_value[client.first_version] \notin Range(ServerList)
       \/ early
       \/ server.challenge = MaxChallenges)
=============================================================================
