-------------------------- MODULE HandshakeProofs --------------------------
(***************************************************************************)
(* Proofs about Handshake for every set of addresses, every configuration  *)
(* of the client, every list of versions and protocols of the server, any  *)
(* number of datagrams, moves and challenges.                              *)
(*                                                                         *)
(* The invariant says of each packet in flight what it could say when it   *)
(* was sent and what cannot have become false since: the client's INIT     *)
(* packets all carry the HANDSHAKE frame, the made up dcid and the first   *)
(* version; its 1-RTT packets mean that it is done; a HANDSHAKE packet of  *)
(* the server means that the server has read the client's.  A PATH_        *)
(* CHALLENGE carries the address it was sent to for as long as its number  *)
(* is the current one (SentTo).                                            *)
(***************************************************************************)
EXTENDS Handshake, TLAPS

----------------------------------------------------------------------------
(* The invariant.                                                          *)

\* The fields of the two connections; most of them need no type.
ClientFields ==
    {"state", "version", "first_version", "list", "alpn", "dcids", "path_dcid", "dcid_done",
     "discard_vn", "done", "data", "acked", "recv", "finished"}

ServerFields ==
    {"state", "version", "scid", "dcid", "alpn", "hash", "dcid_done", "vn", "sent", "done",
     "acked", "recv", "finished", "addr", "rebind", "check", "challenge", "valid"}

IsClient(c) == DOMAIN c = ClientFields

IsServer(s) == DOMAIN s = ServerFields

\* The version of the client's first packet is one of the server's.
Supported(c) == proto_version_value[c.first_version] \in Range(ServerList)

\* The client: the server's HANDSHAKE frame establishes it, and it knows the
\* server's id since.
ClientGood(c, s, n) ==
    /\ IsClient(c)
    /\ c.state \in {"IDLE", "HANDSHAKE", "ESTABED", "CLOSED"}
    /\ c.first_version \in {1, 2}
    /\ c.version = c.first_version \/ ~Supported(c)
    /\ c.state = "IDLE" => n = 0
    /\ c.state = "ESTABED" => c.done
    /\ c.state = "HANDSHAKE" => ~c.done
    /\ c.done => c.dcid_done /\ "HANDSHAKE" \in s.recv
    /\ c.finished = IF c.done THEN 1 ELSE 0
    /\ c.path_dcid = IF c.dcid_done THEN s.scid ELSE ODcid
    /\ c.dcid_done => n = 1

\* The server: a HANDSHAKE packet of the client made it.
ServerGood(c, s, n, R) ==
    /\ IsServer(s)
    /\ n \in {0, 1}
    /\ n = 0 => s = NoServer
    /\ n = 1 => /\ s.state \in {"INIT", "HANDSHAKE", "ESTABED", "CLOSED"}
                /\ s.hash = {s.scid, ODcid} /\ s.dcid = CScid
    /\ s.version = INIT_VER \/ (s.version = proto_version_value[c.first_version] /\ Supported(c))
    /\ s.state \in {"HANDSHAKE", "ESTABED"} => s.alpn = c.alpn
    /\ "HANDSHAKE" \in s.recv => s.alpn = c.alpn /\ s.version # INIT_VER
    /\ s.state = "ESTABED" => c.done
    /\ s.finished = IF s.state = "ESTABED" THEN 1 ELSE 0
    /\ s.vn => ~Supported(c)
    /\ s.challenge \in Nat
    /\ s.valid # 0 => <<s.addr, s.valid>> \in R

\* Challenge d was sent to address a, as far as it still counts.
SentTo(s, a, d) ==
    /\ d \in Nat /\ d <= s.challenge
    /\ d = s.challenge /\ s.rebind # None => a = s.rebind

\* A packet on its way to the server.
ToServerGood(p, c, R) ==
    /\ c.state # "IDLE" /\ p.scid = CScid
    /\ \/ /\ p.type = "INIT" /\ p.dcid = ODcid /\ p.frame = "HANDSHAKE" /\ p.alpn = c.alpn
          /\ p.version = proto_version_value[c.first_version]
       \/ p.type = "SHORT" /\ p.frame # "HANDSHAKE" /\ c.done
    /\ p.frame = "RESPONSE" => \E a : <<a, p.data>> \in R

\* A packet on its way to the client.
ToClientGood(p, c, s, n) ==
    /\ n = 1
    /\ p.type \in {"INIT", "SHORT", "VN"}
    /\ p.frame \in {"HANDSHAKE", "ACK", "CLOSE", "CHALLENGE", "VERSIONS"}
    /\ p.frame = "VERSIONS" <=> p.type = "VN"
    /\ p.frame = "HANDSHAKE" => p.type = "INIT" /\ "HANDSHAKE" \in s.recv
    /\ p.type = "INIT" => p.scid = s.scid
    /\ p.type = "VN" => ~Supported(c)
    /\ p.frame = "CHALLENGE" => p.type = "SHORT" /\ SentTo(s, p.addr, p.data)

\* A packet in flight.
PacketGood(p, c, s, n, R) ==
    /\ p.to = "S" => ToServerGood(p, c, R)
    /\ p.to = "C" => ToClientGood(p, c, s, n)

\* The challenges the client has read.
ReachedGood(R, s) ==
    \A a, d : <<a, d>> \in R => SentTo(s, a, d)

\* The network.
AllGood(N, c, s, n, R) == \A p \in N : PacketGood(p, c, s, n, R)

\* The inductive invariant.
Whole(c, s, n, N, R) ==
    /\ ClientGood(c, s, n)
    /\ ServerGood(c, s, n, R)
    /\ AllGood(N, c, s, n, R)
    /\ ReachedGood(R, s)

HInv == Whole(client, server, created, net, reached)

----------------------------------------------------------------------------
(* The client.                                                             *)

\* What the network holds after a send: at most the packets sent are new.
LEMMA SentWithin == ASSUME NEW F, NEW P PROVE Sent(F, P) \subseteq F \cup P
  BY DEF Sent

\* The header and the frame of the client's HANDSHAKE packet.
LEMMA HandshakeOfClientHas ==
  ASSUME NEW c, NEW p, p = HandshakeOfClient(c)
  PROVE  /\ p.to = "S" /\ p.type = "INIT" /\ p.dcid = ODcid /\ p.scid = CScid
         /\ p.version = proto_version_value[c.first_version]
         /\ p.frame = "HANDSHAKE" /\ p.alpn = c.alpn
  BY DEF HandshakeOfClient, Blank

\* The header of any other packet of the client.
LEMMA FromClientHas ==
  ASSUME NEW c, NEW f, NEW A, NEW p, p = FromClient(c, f, A)
  PROVE  /\ p.to = "S" /\ p.scid = CScid /\ p.frame = f /\ p.dcid = c.path_dcid
         /\ p.type = rqc_state_to_pkt_type(c)
         /\ DOMAIN p = {"to", "type", "dcid", "scid", "version", "frame", "alpn", "data",
                       "acks", "addr"}
  BY DEF FromClient, Blank

\* The header of a packet of the server.
LEMMA FromServerHas ==
  ASSUME NEW s, NEW f, NEW A, NEW p, p = FromServer(s, f, A)
  PROVE  /\ p.to = "C" /\ p.scid = s.scid /\ p.frame = f
         /\ p.type = rqc_state_to_pkt_type(s)
         /\ DOMAIN p = {"to", "type", "dcid", "scid", "version", "frame", "alpn", "data",
                       "acks", "addr"}
  BY DEF FromServer, Blank

\* rqc_conn_process_handshake on the client establishes it.
LEMMA HelloReadGood ==
  ASSUME NEW c, NEW s, NEW n, ClientGood(c, s, n), c.state \in {"HANDSHAKE", "ESTABED"},
         "HANDSHAKE" \in s.recv, n = 1, NEW T, T = HelloRead(c)
  PROVE  /\ IsClient(T) /\ T.state = "ESTABED" /\ T.done
         /\ T.first_version = c.first_version /\ T.alpn = c.alpn /\ T.version = c.version
         /\ T.finished = 1 /\ T.path_dcid = c.path_dcid /\ T.dcid_done = c.dcid_done
  <1>1. CASE c.state = "HANDSHAKE" /\ ~c.done
    <2>1. PICK D : D = Flushed(c.data)
      OBVIOUS
    <2>2. T = [c EXCEPT !.state = "ESTABED", !.done = TRUE, !.finished = c.finished + 1, !.data = D]
      BY <1>1, <2>1 DEF HelloRead
    <2>3. IsClient(c) /\ c.finished = 0
      BY <1>1 DEF ClientGood
    <2> QED BY <2>2, <2>3 DEF IsClient, ClientFields
  <1>2. CASE ~(c.state = "HANDSHAKE" /\ ~c.done)
    <2>1. T = c
      BY <1>2 DEF HelloRead
    <2>2. c.done
      BY <1>2 DEF ClientGood
    <2>3. c.state = "ESTABED"
      BY <1>2, <2>2 DEF ClientGood
    <2> QED BY <2>1, <2>2, <2>3 DEF ClientGood
  <1> QED BY <1>1, <1>2

\* The frames of a packet: only a HANDSHAKE frame in an INIT packet makes the
\* client done.
LEMMA ClientFrameGood ==
  ASSUME NEW c, NEW s, NEW n, ClientGood(c, s, n), c.state \in {"HANDSHAKE", "ESTABED"},
         NEW p, ToClientGood(p, c, s, n), NEW T, T = ClientFrame(c, p)
  PROVE  /\ IsClient(T) /\ T.state \in {"HANDSHAKE", "ESTABED", "CLOSED"}
         /\ T.state = "ESTABED" => T.done
         /\ T.state = "HANDSHAKE" => ~T.done
         /\ T.done => c.done \/ (p.type = "INIT" /\ "HANDSHAKE" \in s.recv)
         /\ c.done => T.done
         /\ p.frame = "HANDSHAKE" => T.done
         /\ T.first_version = c.first_version /\ T.alpn = c.alpn /\ T.version = c.version
         /\ T.finished = (IF T.done THEN 1 ELSE 0)
         /\ T.path_dcid = c.path_dcid /\ T.dcid_done = c.dcid_done
  <1>1. CASE p.frame = "HANDSHAKE"
    <2>1. T = HelloRead(c)
      BY <1>1 DEF ClientFrame
    <2>2. n = 1 /\ "HANDSHAKE" \in s.recv /\ p.type = "INIT"
      BY <1>1 DEF ToClientGood
    <2> QED BY <2>1, <2>2, HelloReadGood
  <1>2. CASE p.frame = "CLOSE"
    <2>1. T = [c EXCEPT !.state = "CLOSED"]
      BY <1>2 DEF ClientFrame
    <2>2. IsClient(c) /\ c.finished = (IF c.done THEN 1 ELSE 0)
      BY DEF ClientGood
    <2>3. /\ IsClient(T) /\ T.state = "CLOSED" /\ T.done = c.done
          /\ T.first_version = c.first_version /\ T.alpn = c.alpn /\ T.version = c.version
          /\ T.finished = c.finished
          /\ T.path_dcid = c.path_dcid /\ T.dcid_done = c.dcid_done
      BY <2>1, <2>2 DEF IsClient, ClientFields
    <2> QED BY <2>2, <2>3, <1>2
  <1>3. CASE p.frame \notin {"HANDSHAKE", "CLOSE"}
    <2>1. T = c
      BY <1>3 DEF ClientFrame
    <2> QED BY <2>1, <1>3 DEF ClientGood
  <1> QED BY <1>1, <1>2, <1>3

\* What the packets in flight and the server's state have to do with the
\* client: these parts of it do not change, or change in one direction only.
ClientLater(c, d) ==
    /\ d.first_version = c.first_version /\ d.alpn = c.alpn
    /\ c.state # "IDLE" => d.state # "IDLE"
    /\ c.done => d.done

\* A Version Negotiation packet changes the version only when the first one is
\* not the server's.
LEMMA VersionsReadGood ==
  ASSUME NEW c, NEW s, NEW n, ClientGood(c, s, n), c.state \in {"HANDSHAKE", "ESTABED"},
         ~Supported(c), NEW T, T = VersionsRead(c)
  PROVE  ClientGood(T, s, n) /\ ClientLater(c, T)
  <1>0. IsClient(c)
    BY DEF ClientGood
  <1>1. PICK v : \/ T = [c EXCEPT !.state = "CLOSED"]
                 \/ T = [c EXCEPT !.discard_vn = TRUE]
                 \/ T = [c EXCEPT !.discard_vn = TRUE, !.version = v]
    BY DEF VersionsRead
  <1>2. /\ IsClient(T) /\ T.state \in {c.state, "CLOSED"} /\ T.done = c.done
        /\ T.first_version = c.first_version /\ T.alpn = c.alpn
        /\ T.finished = c.finished
        /\ T.path_dcid = c.path_dcid /\ T.dcid_done = c.dcid_done
    <2>1. CASE T = [c EXCEPT !.state = "CLOSED"]
      BY <2>1, <1>0 DEF IsClient, ClientFields
    <2>2. CASE T = [c EXCEPT !.discard_vn = TRUE]
      BY <2>2, <1>0 DEF IsClient, ClientFields
    <2>3. CASE T = [c EXCEPT !.discard_vn = TRUE, !.version = v]
      BY <2>3, <1>0 DEF IsClient, ClientFields
    <2> QED BY <1>1, <2>1, <2>2, <2>3
  <1>3. ~Supported(T)
    BY <1>2 DEF Supported
  <1> QED BY <1>2, <1>3 DEF ClientGood, ClientLater

\* Recording a packet changes nothing the invariant reads of the client.
LEMMA RecordHas ==
  ASSUME NEW c, IsClient(c), NEW p, NEW T, T = Record(c, p)
  PROVE  /\ IsClient(T) /\ T.state = c.state /\ T.done = c.done
         /\ T.first_version = c.first_version /\ T.alpn = c.alpn /\ T.version = c.version
         /\ T.finished = c.finished
         /\ T.path_dcid = c.path_dcid /\ T.dcid_done = c.dcid_done
  <1>1. PICK Q : Q = c.recv \cup ({p.frame} \cap Tracked)
    OBVIOUS
  <1>2. T = [c EXCEPT !.recv = Q]
    BY <1>1 DEF Record
  <1> QED BY <1>2 DEF IsClient, ClientFields

\* What the confirmation of the dcid leaves and what it changes.
Confirmed(c, T, scid) ==
    /\ IsClient(T) /\ T.state = c.state /\ T.done = c.done
    /\ T.first_version = c.first_version /\ T.alpn = c.alpn /\ T.version = c.version
    /\ T.finished = c.finished
    /\ c.dcid_done => T.path_dcid = c.path_dcid
    /\ ~c.dcid_done => T.path_dcid = scid
    /\ T.dcid_done

\* rqc_conn_confirm_cid takes the server's id once.
LEMMA ConfirmHas ==
  ASSUME NEW c, IsClient(c), NEW p, NEW T, T = rqc_conn_confirm_cid(c, p)
  PROVE  Confirmed(c, T, p.scid)
  <1>1. CASE c.dcid_done
    BY <1>1 DEF rqc_conn_confirm_cid, Confirmed
  <1>2. CASE ~c.dcid_done
    <2>1. PICK Q, x : Q = c.dcids \cup {p.scid} /\ x = p.scid
      OBVIOUS
    <2>2. T = [c EXCEPT !.dcids = Q, !.path_dcid = x, !.dcid_done = TRUE]
      BY <1>2, <2>1 DEF rqc_conn_confirm_cid
    <2> QED BY <1>2, <2>1, <2>2 DEF IsClient, ClientFields, Confirmed
  <1> QED BY <1>1, <1>2

\* ClientReads, and that a packet it answers finds the client done.
LEMMA ClientReadsGood ==
  ASSUME NEW c, NEW s, NEW n, ClientGood(c, s, n), c.state \in {"HANDSHAKE", "ESTABED"},
         NEW p, ToClientGood(p, c, s, n), NEW T, T = ClientReads(c, p)
  PROVE  /\ ClientGood(T, s, n) /\ ClientLater(c, T)
         /\ ClientAccepts(c, p) /\ Elicits(p) => T.done
         /\ T.finished > c.finished => T.done
  <1>0. IsClient(c) /\ n = 1
    BY DEF ClientGood, ToClientGood
  <1>1. CASE ~ClientAccepts(c, p)
    <2>1. T = c
      BY <1>1 DEF ClientReads
    <2>2. ~(c.finished > c.finished)
      BY DEF ClientGood
    <2> QED BY <1>1, <2>1, <2>2 DEF ClientLater
  <1>2. CASE ClientAccepts(c, p) /\ p.type = "VN"
    <2>1. T = VersionsRead(c)
      BY <1>2 DEF ClientReads
    <2>2. ~Supported(c) /\ p.frame = "VERSIONS"
      BY <1>2 DEF ToClientGood
    <2>3. ClientGood(T, s, n) /\ ClientLater(c, T)
      BY <2>1, <2>2, VersionsReadGood
    <2>4. T.finished > c.finished => T.done
      BY <2>3 DEF ClientGood
    <2> QED BY <2>2, <2>3, <2>4 DEF Elicits
  <1>3. CASE ClientAccepts(c, p) /\ p.type # "VN"
    <2>1. PICK F : F = ClientFrame(c, p)
      OBVIOUS
    <2>2. PICK Q : Q = F.acked \cup p.acks
      OBVIOUS
    <2>3. PICK U : U = [F EXCEPT !.acked = Q, !.discard_vn = TRUE]
      OBVIOUS
    <2>4. p.type \in {"INIT", "SHORT"} /\ p.frame # "VERSIONS"
      BY <1>3 DEF ToClientGood
    <2>5. T = IF p.type = "INIT" THEN Record(rqc_conn_confirm_cid(U, p), p) ELSE Record(U, p)
      BY <1>3, <2>1, <2>2, <2>3, <2>4 DEF ClientReads
    <2>6. IsClient(F)
      BY <2>1, ClientFrameGood
    <2>7. /\ IsClient(U) /\ U.state = F.state /\ U.done = F.done
          /\ U.first_version = F.first_version /\ U.alpn = F.alpn /\ U.version = F.version
          /\ U.finished = F.finished
          /\ U.path_dcid = F.path_dcid /\ U.dcid_done = F.dcid_done
      BY <2>3, <2>6 DEF IsClient, ClientFields
    <2>8. PICK V : V = rqc_conn_confirm_cid(U, p)
      OBVIOUS
    <2>9. CASE p.type = "INIT"
      <3>1. T = Record(V, p)
        BY <2>5, <2>8, <2>9
      <3>2. /\ IsClient(V) /\ V.state = F.state /\ V.done = F.done
            /\ V.first_version = F.first_version /\ V.alpn = F.alpn /\ V.version = F.version
            /\ V.finished = F.finished
            /\ (F.dcid_done => V.path_dcid = F.path_dcid)
            /\ (~F.dcid_done => V.path_dcid = p.scid) /\ V.dcid_done
        <4>1. IsClient(U)
          BY <2>7
        <4>2. Confirmed(U, V, p.scid)
          BY <4>1, <2>8, ConfirmHas
        <4> QED BY <4>2, <2>7 DEF Confirmed
      <3>3. /\ IsClient(T) /\ T.state = F.state /\ T.done = F.done
            /\ T.first_version = F.first_version /\ T.alpn = F.alpn /\ T.version = F.version
            /\ T.finished = F.finished
            /\ (F.dcid_done => T.path_dcid = F.path_dcid)
            /\ (~F.dcid_done => T.path_dcid = p.scid) /\ T.dcid_done
        BY <3>1, <3>2, RecordHas
      <3>4. /\ F.state \in {"HANDSHAKE", "ESTABED", "CLOSED"}
            /\ F.state = "ESTABED" => F.done
            /\ F.state = "HANDSHAKE" => ~F.done
            /\ F.done => c.done \/ (p.type = "INIT" /\ "HANDSHAKE" \in s.recv)
            /\ c.done => F.done
            /\ p.frame = "HANDSHAKE" => F.done
            /\ F.first_version = c.first_version /\ F.alpn = c.alpn /\ F.version = c.version
            /\ F.finished = (IF F.done THEN 1 ELSE 0)
            /\ F.path_dcid = c.path_dcid /\ F.dcid_done = c.dcid_done
        BY <2>1, ClientFrameGood
      <3>5. p.scid = s.scid /\ (p.frame = "CHALLENGE" => p.type = "SHORT")
            /\ p.frame \in {"HANDSHAKE", "ACK", "CLOSE", "CHALLENGE", "VERSIONS"}
        BY <2>9 DEF ToClientGood
      <3>6. T.path_dcid = s.scid
        BY <3>3, <3>4, <3>5 DEF ClientGood
      <3>7. Supported(T) <=> Supported(c)
        BY <3>3, <3>4 DEF Supported
      <3>8. ClientGood(T, s, n)
        BY <1>0, <3>3, <3>4, <3>6, <3>7 DEF ClientGood
      <3>9. ClientLater(c, T)
        BY <3>3, <3>4 DEF ClientLater
      <3>10. Elicits(p) => T.done
        BY <2>4, <2>9, <3>3, <3>4, <3>5 DEF Elicits
      <3>11. T.finished > c.finished => T.done
        BY <3>8 DEF ClientGood
      <3> QED BY <3>8, <3>9, <3>10, <3>11
    <2>10. CASE p.type = "SHORT"
      <3>1. T = Record(U, p)
        BY <2>5, <2>10
      <3>2. c.done
        BY <1>3, <2>10 DEF ClientAccepts
      <3>3. /\ IsClient(T) /\ T.state = F.state /\ T.done = F.done
            /\ T.first_version = F.first_version /\ T.alpn = F.alpn /\ T.version = F.version
            /\ T.finished = F.finished
            /\ T.path_dcid = F.path_dcid /\ T.dcid_done = F.dcid_done
        BY <3>1, <2>7, RecordHas
      <3>4. /\ F.state \in {"HANDSHAKE", "ESTABED", "CLOSED"}
            /\ F.state = "ESTABED" => F.done
            /\ F.state = "HANDSHAKE" => ~F.done
            /\ c.done => F.done
            /\ F.first_version = c.first_version /\ F.alpn = c.alpn /\ F.version = c.version
            /\ F.finished = (IF F.done THEN 1 ELSE 0)
            /\ F.path_dcid = c.path_dcid /\ F.dcid_done = c.dcid_done
        BY <2>1, ClientFrameGood
      <3>5. Supported(T) <=> Supported(c)
        BY <3>3, <3>4 DEF Supported
      <3>6. ClientGood(T, s, n)
        BY <1>0, <3>2, <3>3, <3>4, <3>5 DEF ClientGood
      <3>7. ClientLater(c, T)
        BY <3>3, <3>4 DEF ClientLater
      <3> QED BY <3>2, <3>3, <3>4, <3>6, <3>7
    <2> QED BY <2>4, <2>9, <2>10
  <1> QED BY <1>1, <1>2, <1>3

----------------------------------------------------------------------------
(* The server: single frames.                                              *)

\* What the packets in flight have to do with the server: its id stays, what
\* it has received grows, and a challenge that counts is not redirected.
ServerLater(s, t) ==
    /\ t.scid = s.scid
    /\ "HANDSHAKE" \in s.recv => "HANDSHAKE" \in t.recv
    /\ t.challenge \in Nat
    /\ \/ t.challenge > s.challenge
       \/ t.challenge = s.challenge /\ t.rebind \in {s.rebind, None}

\* A server like s but for the fields that no part of the invariant reads.
Alike(s, t) ==
    /\ IsServer(t)
    /\ t.state = s.state /\ t.hash = s.hash /\ t.scid = s.scid /\ t.dcid = s.dcid
    /\ t.version = s.version /\ t.alpn = s.alpn /\ t.recv = s.recv
    /\ t.finished = s.finished /\ t.vn = s.vn /\ t.challenge = s.challenge
    /\ t.valid = s.valid /\ t.addr = s.addr /\ t.rebind = s.rebind

\* The invariant of the server does not read the other fields.
LEMMA AlikeGood ==
  ASSUME NEW c, NEW s, NEW R, ServerGood(c, s, 1, R), NEW t, Alike(s, t)
  PROVE  ServerGood(c, t, 1, R)
  BY DEF ServerGood, Alike

\* What reading a frame never changes of the server.
Kept(c, s, t, R) ==
    /\ ServerGood(c, t, 1, R) /\ t.scid = s.scid /\ t.recv = s.recv
    /\ t.challenge = s.challenge /\ t.rebind \in {s.rebind, None} /\ t.version = s.version

\* rqc_process_path_response_frame moves to an address only with a challenge
\* that was read there.
LEMMA ResponseReadGood ==
  ASSUME NEW c, NEW s, NEW R, ServerGood(c, s, 1, R), NEW p,
         p.data = s.challenge /\ s.rebind # None => <<s.rebind, s.challenge>> \in R,
         NEW t, t = ResponseRead(s, p)
  PROVE  Kept(c, s, t, R)
  <1>0. IsServer(s)
    BY DEF ServerGood
  <1>1. CASE p.data = s.challenge /\ s.rebind # None /\ s.check
    <2>1. PICK a, d : a = s.rebind /\ d = s.challenge
      OBVIOUS
    <2>2. t = [s EXCEPT !.addr = a, !.rebind = None, !.check = FALSE, !.valid = d]
      BY <1>1, <2>1 DEF ResponseRead
    <2>3. /\ IsServer(t)
          /\ t.state = s.state /\ t.hash = s.hash /\ t.scid = s.scid /\ t.dcid = s.dcid
          /\ t.version = s.version /\ t.alpn = s.alpn /\ t.recv = s.recv
          /\ t.finished = s.finished /\ t.vn = s.vn /\ t.challenge = s.challenge
          /\ t.valid = d /\ t.addr = a /\ t.rebind = None
      BY <1>0, <2>2 DEF IsServer, ServerFields
    <2>4. <<t.addr, t.valid>> \in R
      BY <1>1, <2>1, <2>3
    <2>5. ServerGood(c, t, 1, R)
      BY <2>3, <2>4 DEF ServerGood
    <2> QED BY <2>3, <2>5 DEF Kept
  <1>2. CASE ~(p.data = s.challenge /\ s.rebind # None /\ s.check)
    BY <1>2 DEF ResponseRead, Kept
  <1> QED BY <1>1, <1>2

\* rqc_conn_process_handshake on the server takes the client's protocol.
LEMMA HelloAnsweredGood ==
  ASSUME NEW c, NEW s, NEW R, ServerGood(c, s, 1, R), NEW p, p.alpn = c.alpn,
         NEW t, t = HelloAnswered(s, p)
  PROVE  /\ ServerGood(c, t, 1, R) /\ t.scid = s.scid /\ t.recv = s.recv
         /\ t.challenge = s.challenge /\ t.rebind = s.rebind /\ t.version = s.version
         /\ t.vn = s.vn
         /\ t.state # "CLOSED" => t.alpn = c.alpn
  <1>0. IsServer(s) /\ s.state \in {"INIT", "HANDSHAKE", "ESTABED", "CLOSED"}
    BY DEF ServerGood
  <1>1. CASE s.state # "INIT"
    BY <1>1, <1>0 DEF HelloAnswered, ServerGood
  <1>2. CASE s.state = "INIT" /\ ~Registered(p.alpn)
    <2>1. t = [s EXCEPT !.state = "CLOSED"]
      BY <1>2 DEF HelloAnswered
    <2>2. /\ IsServer(t)
          /\ t.state = "CLOSED" /\ t.hash = s.hash /\ t.scid = s.scid /\ t.dcid = s.dcid
          /\ t.version = s.version /\ t.alpn = s.alpn /\ t.recv = s.recv
          /\ t.finished = s.finished /\ t.vn = s.vn /\ t.challenge = s.challenge
          /\ t.valid = s.valid /\ t.addr = s.addr /\ t.rebind = s.rebind
      BY <1>0, <2>1 DEF IsServer, ServerFields
    <2>3. ServerGood(c, t, 1, R)
      BY <1>2, <2>2 DEF ServerGood
    <2> QED BY <2>2, <2>3
  <1>3. CASE s.state = "INIT" /\ Registered(p.alpn)
    <2>1. PICK a : a = p.alpn
      OBVIOUS
    <2>2. t = [s EXCEPT !.state = "HANDSHAKE", !.alpn = a]
      BY <1>3, <2>1 DEF HelloAnswered
    <2>3. /\ IsServer(t)
          /\ t.state = "HANDSHAKE" /\ t.hash = s.hash /\ t.scid = s.scid /\ t.dcid = s.dcid
          /\ t.version = s.version /\ t.alpn = a /\ t.recv = s.recv
          /\ t.finished = s.finished /\ t.vn = s.vn /\ t.challenge = s.challenge
          /\ t.valid = s.valid /\ t.addr = s.addr /\ t.rebind = s.rebind
      BY <1>0, <2>2 DEF IsServer, ServerFields
    <2>4. ServerGood(c, t, 1, R)
      BY <1>3, <2>1, <2>3 DEF ServerGood
    <2> QED BY <2>1, <2>3, <2>4
  <1> QED BY <1>1, <1>2, <1>3

\* What a packet's frames leave of the server.
Framed(c, s, t, p, R) ==
    /\ Kept(c, s, t, R)
    /\ p.frame = "HANDSHAKE" /\ t.state # "CLOSED" => t.alpn = c.alpn

\* The frames of a packet keep the server in order.
LEMMA ServerFrameGood ==
  ASSUME NEW c, NEW s, NEW R, ServerGood(c, s, 1, R), NEW p,
         p.frame = "HANDSHAKE" => p.alpn = c.alpn,
         p.frame = "RESPONSE" /\ p.data = s.challenge /\ s.rebind # None =>
             <<s.rebind, s.challenge>> \in R,
         NEW t, t = [ServerFrame(s, p) EXCEPT !.acked = @ \cup p.acks]
  PROVE  Framed(c, s, t, p, R)
  <1>1. PICK u : u = ServerFrame(s, p)
    OBVIOUS
  <1>2. Framed(c, s, u, p, R)
    <2>1. CASE p.frame = "HANDSHAKE"
      <3>1. u = HelloAnswered(s, p) /\ p.alpn = c.alpn
        BY <1>1, <2>1 DEF ServerFrame
      <3> QED BY <3>1, HelloAnsweredGood DEF Framed, Kept
    <2>2. CASE p.frame = "RESPONSE"
      <3>1. u = ResponseRead(s, p)
        BY <1>1, <2>2 DEF ServerFrame
      <3>2. p.data = s.challenge /\ s.rebind # None => <<s.rebind, s.challenge>> \in R
        BY <2>2
      <3>3. Kept(c, s, u, R)
        BY <3>1, <3>2, ResponseReadGood
      <3> QED BY <2>2, <3>3 DEF Framed, Kept
    <2>3. CASE p.frame \notin {"HANDSHAKE", "RESPONSE"}
      <3>1. u = s
        BY <1>1, <2>3 DEF ServerFrame
      <3> QED BY <2>3, <3>1 DEF Framed, Kept
    <2> QED BY <2>1, <2>2, <2>3
  <1>3. PICK Q : Q = u.acked \cup p.acks
    OBVIOUS
  <1>4. t = [u EXCEPT !.acked = Q]
    BY <1>1, <1>3
  <1>5. IsServer(u)
    BY <1>2 DEF Framed, Kept, ServerGood
  <1>6. Alike(u, t)
    BY <1>4, <1>5 DEF IsServer, ServerFields, Alike
  <1>7. ServerGood(c, t, 1, R)
    BY <1>2, <1>6, AlikeGood DEF Framed, Kept
  <1> QED BY <1>2, <1>6, <1>7 DEF Framed, Kept, Alike

\* Recording a packet: a recorded HANDSHAKE frame means that protocol and
\* version are chosen.
LEMMA RecordServer ==
  ASSUME NEW c, NEW s, NEW R, ServerGood(c, s, 1, R), NEW p,
         p.frame = "HANDSHAKE" => s.alpn = c.alpn /\ s.version # INIT_VER,
         NEW t, t = Record(s, p)
  PROVE  /\ ServerGood(c, t, 1, R) /\ t.scid = s.scid /\ s.recv \subseteq t.recv
         /\ t.challenge = s.challenge /\ t.rebind = s.rebind
  <1>0. IsServer(s)
    BY DEF ServerGood
  <1>1. PICK Q : Q = s.recv \cup ({p.frame} \cap Tracked)
    OBVIOUS
  <1>2. t = [s EXCEPT !.recv = Q]
    BY <1>1 DEF Record
  <1>3. /\ IsServer(t)
        /\ t.state = s.state /\ t.hash = s.hash /\ t.scid = s.scid /\ t.dcid = s.dcid
        /\ t.version = s.version /\ t.alpn = s.alpn /\ t.recv = Q
        /\ t.finished = s.finished /\ t.vn = s.vn /\ t.challenge = s.challenge
        /\ t.valid = s.valid /\ t.addr = s.addr /\ t.rebind = s.rebind
    BY <1>0, <1>2 DEF IsServer, ServerFields
  <1>4. "HANDSHAKE" \in Q => "HANDSHAKE" \in s.recv \/ p.frame = "HANDSHAKE"
    BY <1>1
  <1>5. ServerGood(c, t, 1, R)
    BY <1>3, <1>4 DEF ServerGood
  <1> QED BY <1>1, <1>3, <1>5

\* rqc_conn_on_handshake_acked: only a packet of a client that is done
\* establishes the server.
LEMMA HandshakeAckedGood ==
  ASSUME NEW c, NEW s, NEW R, ServerGood(c, s, 1, R), c.done,
         NEW t, t = rqc_conn_on_handshake_acked(s)
  PROVE  /\ ServerGood(c, t, 1, R) /\ t.scid = s.scid /\ t.recv = s.recv
         /\ t.challenge = s.challenge /\ t.rebind = s.rebind
  <1>0. IsServer(s)
    BY DEF ServerGood
  <1>1. CASE s.state = "HANDSHAKE"
    <2>1. PICK u : u = [s EXCEPT !.done = TRUE]
      OBVIOUS
    <2>2. Alike(s, u)
      BY <1>0, <2>1 DEF IsServer, ServerFields, Alike
    <2>3. IsServer(u) /\ u.finished = 0
      BY <1>1, <2>2 DEF Alike, ServerGood
    <2>9. PICK f : f = u.finished + 1
      OBVIOUS
    <2>4. t = [u EXCEPT !.state = "ESTABED", !.finished = f]
      BY <1>1, <2>1, <2>9 DEF rqc_conn_on_handshake_acked
    <2>10. f = 1
      BY <2>3, <2>9
    <2>5. /\ IsServer(t)
          /\ t.state = "ESTABED" /\ t.hash = u.hash /\ t.scid = u.scid /\ t.dcid = u.dcid
          /\ t.version = u.version /\ t.alpn = u.alpn /\ t.recv = u.recv
          /\ t.finished = 1 /\ t.vn = u.vn /\ t.challenge = u.challenge
          /\ t.valid = u.valid /\ t.addr = u.addr /\ t.rebind = u.rebind
      BY <2>3, <2>4, <2>10 DEF IsServer, ServerFields
    <2>6. ServerGood(c, u, 1, R)
      BY <2>2, AlikeGood
    <2>7. u.state = "HANDSHAKE"
      BY <1>1, <2>2 DEF Alike
    <2>8. ServerGood(c, t, 1, R)
      BY <2>5, <2>6, <2>7 DEF ServerGood
    <2> QED BY <2>2, <2>5, <2>8 DEF Alike
  <1>2. CASE s.state # "HANDSHAKE"
    <2>1. t = [s EXCEPT !.done = TRUE]
      BY <1>2 DEF rqc_conn_on_handshake_acked
    <2>2. Alike(s, t)
      BY <1>0, <2>1 DEF IsServer, ServerFields, Alike
    <2> QED BY <2>2, AlikeGood DEF Alike
  <1> QED BY <1>1, <1>2

----------------------------------------------------------------------------
(* The server: whole packets, and what is in flight.                       *)

\* A PATH_RESPONSE with the data that counts answers a challenge read at the
\* new address.
LEMMA ResponseKnown ==
  ASSUME NEW c, NEW s, NEW R, NEW p, ToServerGood(p, c, R), ReachedGood(R, s)
  PROVE  p.frame = "RESPONSE" /\ p.data = s.challenge /\ s.rebind # None =>
             <<s.rebind, s.challenge>> \in R
  BY DEF ToServerGood, ReachedGood, SentTo

\* The server after a packet: still in order, and no packet in flight is the
\* worse for it.
Advanced(c, s, t, R) == ServerGood(c, t, 1, R) /\ ServerLater(s, t)

\* A packet of the client keeps the server in order.
LEMMA ServerReadsGood ==
  ASSUME NEW c, NEW s, NEW R, ServerGood(c, s, 1, R), c.first_version \in {1, 2},
         NEW p, ToServerGood(p, c, R), ReachedGood(R, s), NEW t, t = ServerReads(s, p)
  PROVE  Advanced(c, s, t, R)
  <1>0. IsServer(s) /\ s.challenge \in Nat
    BY DEF ServerGood
  <1>1. p.frame = "RESPONSE" /\ p.data = s.challenge /\ s.rebind # None =>
             <<s.rebind, s.challenge>> \in R
    BY ResponseKnown
  <1>2. CASE ~ServerAccepts(s, p)
    <2>1. PICK b : b = (s.vn \/ (p.type = "INIT" /\ ~rqc_conn_version_check(s, p)))
      OBVIOUS
    <2>2. t = [s EXCEPT !.vn = b]
      BY <1>2, <2>1 DEF ServerReads
    <2>3. /\ IsServer(t)
          /\ t.state = s.state /\ t.hash = s.hash /\ t.scid = s.scid /\ t.dcid = s.dcid
          /\ t.version = s.version /\ t.alpn = s.alpn /\ t.recv = s.recv
          /\ t.finished = s.finished /\ t.vn = b /\ t.challenge = s.challenge
          /\ t.valid = s.valid /\ t.addr = s.addr /\ t.rebind = s.rebind
      BY <1>0, <2>2 DEF IsServer, ServerFields
    <2>4. b => ~Supported(c)
      BY <2>1 DEF rqc_conn_version_check, ToServerGood, Supported, ServerGood
    <2>5. ServerGood(c, t, 1, R)
      BY <2>3, <2>4 DEF ServerGood
    <2> QED BY <1>0, <2>3, <2>5 DEF Advanced, ServerLater
  <1>3. CASE ServerAccepts(s, p) /\ p.type = "SHORT"
    <2>1. PICK u : u = [ServerFrame(s, p) EXCEPT !.acked = @ \cup p.acks]
      OBVIOUS
    <2>2. PICK v : v = rqc_conn_on_handshake_acked(u)
      OBVIOUS
    <2>3. t = Record(v, p)
      BY <1>3, <2>1, <2>2 DEF ServerReads
    <2>4. p.frame # "HANDSHAKE" /\ c.done
      BY <1>3 DEF ToServerGood
    <2>5. Framed(c, s, u, p, R)
      BY <1>1, <2>1, <2>4, ServerFrameGood
    <2>6. ServerGood(c, u, 1, R)
      BY <2>5 DEF Framed, Kept
    <2>7. /\ ServerGood(c, v, 1, R) /\ v.scid = u.scid /\ v.recv = u.recv
          /\ v.challenge = u.challenge /\ v.rebind = u.rebind
      BY <2>2, <2>4, <2>6, HandshakeAckedGood
    <2>8. /\ ServerGood(c, t, 1, R) /\ t.scid = v.scid /\ v.recv \subseteq t.recv
          /\ t.challenge = v.challenge /\ t.rebind = v.rebind
      BY <2>3, <2>4, <2>7, RecordServer
    <2> QED BY <1>0, <2>5, <2>7, <2>8 DEF Advanced, ServerLater, Framed, Kept
  <1>4. CASE ServerAccepts(s, p) /\ p.type # "SHORT"
    <2>0. /\ p.type = "INIT" /\ p.frame = "HANDSHAKE" /\ p.alpn = c.alpn
          /\ p.version = proto_version_value[c.first_version] /\ p.version # INIT_VER
      BY <1>4 DEF ToServerGood, proto_version_value, INIT_VER
    <2>1. PICK x : x = IF s.version = INIT_VER THEN p.version ELSE s.version
      OBVIOUS
    <2>2. PICK w : w = [s EXCEPT !.version = x]
      OBVIOUS
    <2>3. x # INIT_VER /\ x = proto_version_value[c.first_version] /\ Supported(c)
      <3>1. rqc_conn_version_check(s, p)
        BY <1>4 DEF ServerAccepts
      <3>2. CASE s.version = INIT_VER
        BY <2>0, <2>1, <3>1, <3>2 DEF rqc_conn_version_check, Supported
      <3>3. CASE s.version # INIT_VER
        BY <2>1, <3>3 DEF ServerGood
      <3> QED BY <3>2, <3>3
    <2>4. /\ IsServer(w)
          /\ w.state = s.state /\ w.hash = s.hash /\ w.scid = s.scid /\ w.dcid = s.dcid
          /\ w.version = x /\ w.alpn = s.alpn /\ w.recv = s.recv
          /\ w.finished = s.finished /\ w.vn = s.vn /\ w.challenge = s.challenge
          /\ w.valid = s.valid /\ w.addr = s.addr /\ w.rebind = s.rebind
      BY <1>0, <2>2 DEF IsServer, ServerFields
    <2>5. ServerGood(c, w, 1, R)
      BY <2>3, <2>4 DEF ServerGood
    <2>6. PICK u : u = [ServerFrame(w, p) EXCEPT !.acked = @ \cup p.acks]
      OBVIOUS
    <2>7. p.frame = "RESPONSE" /\ p.data = w.challenge /\ w.rebind # None =>
             <<w.rebind, w.challenge>> \in R
      BY <2>0
    <2>8. Framed(c, w, u, p, R)
      BY <2>0, <2>5, <2>6, <2>7, ServerFrameGood
    <2>9. t = IF u.state = "CLOSED" THEN u ELSE Record([u EXCEPT !.dcid_done = TRUE], p)
      BY <1>4, <2>1, <2>2, <2>6 DEF ServerReads
    <2>10. ServerGood(c, u, 1, R) /\ u.version # INIT_VER /\ (u.state # "CLOSED" => u.alpn = c.alpn)
      BY <2>0, <2>3, <2>4, <2>8 DEF Framed, Kept
    <2>11. CASE u.state = "CLOSED"
      BY <1>0, <2>4, <2>8, <2>9, <2>10, <2>11 DEF Advanced, ServerLater, Framed, Kept
    <2>12. CASE u.state # "CLOSED"
      <3>1. PICK v : v = [u EXCEPT !.dcid_done = TRUE]
        OBVIOUS
      <3>2. IsServer(u)
        BY <2>10 DEF ServerGood
      <3>3. Alike(u, v)
        BY <3>1, <3>2 DEF IsServer, ServerFields, Alike
      <3>4. ServerGood(c, v, 1, R) /\ v.alpn = c.alpn /\ v.version # INIT_VER
        BY <2>10, <2>12, <3>3, AlikeGood DEF Alike
      <3>5. t = Record(v, p)
        BY <2>9, <2>12, <3>1
      <3>6. /\ ServerGood(c, t, 1, R) /\ t.scid = v.scid /\ v.recv \subseteq t.recv
            /\ t.challenge = v.challenge /\ t.rebind = v.rebind
        BY <3>4, <3>5, RecordServer
      <3>7. /\ v.scid = s.scid /\ v.recv = s.recv /\ v.challenge = s.challenge
            /\ v.rebind \in {s.rebind, None}
        BY <2>4, <2>8, <3>3 DEF Framed, Kept, Alike
      <3> QED BY <1>0, <3>6, <3>7 DEF Advanced, ServerLater
    <2> QED BY <2>11, <2>12
  <1> QED BY <1>2, <1>3, <1>4

\* A challenge stays with the address it was sent to.
LEMMA SentToStays ==
  ASSUME NEW s, NEW t, ServerLater(s, t), s.challenge \in Nat, NEW a, NEW d, SentTo(s, a, d)
  PROVE  SentTo(t, a, d)
  <1>1. CASE t.challenge > s.challenge
    BY <1>1 DEF ServerLater, SentTo
  <1>2. CASE t.challenge = s.challenge /\ t.rebind \in {s.rebind, None}
    BY <1>2 DEF ServerLater, SentTo
  <1> QED BY <1>1, <1>2 DEF ServerLater

\* So do the challenges the client has read.
LEMMA ReachedStays ==
  ASSUME NEW s, NEW t, ServerLater(s, t), s.challenge \in Nat, NEW R, ReachedGood(R, s)
  PROVE  ReachedGood(R, t)
  BY SentToStays DEF ReachedGood

\* A packet on its way to the client stays in order when either end moves on.
LEMMA ToClientStays ==
  ASSUME NEW s, NEW t, ServerLater(s, t), s.challenge \in Nat, NEW c, NEW d, ClientLater(c, d),
         NEW n, NEW p, ToClientGood(p, c, s, n)
  PROVE  ToClientGood(p, d, t, n)
  <1>1. Supported(d) <=> Supported(c)
    BY DEF Supported, ClientLater
  <1>2. SentTo(s, p.addr, p.data) => SentTo(t, p.addr, p.data)
    BY SentToStays
  <1>3. t.scid = s.scid /\ ("HANDSHAKE" \in s.recv => "HANDSHAKE" \in t.recv)
    BY DEF ServerLater
  <1> QED BY <1>1, <1>2, <1>3 DEF ToClientGood

\* So does a packet on its way to the server.
LEMMA ToServerStays ==
  ASSUME NEW c, NEW d, ClientLater(c, d), NEW R, NEW Q, R \subseteq Q,
         NEW p, ToServerGood(p, c, R)
  PROVE  ToServerGood(p, d, Q)
  BY DEF ToServerGood, ClientLater

\* The NAT rebinding part of rqc_engine_packet_process draws a new challenge
\* for the new address and leaves the old address in use.
LEMMA RebindGood ==
  ASSUME NEW c, NEW s, NEW R, ServerGood(c, s, 1, R), NEW from, NEW r \in Rebind(s, from)
  PROVE  /\ Advanced(c, s, r.s, R)
         /\ \A q \in r.out : q.to = "C" /\ ToClientGood(q, c, r.s, 1)
  <1>0. IsServer(s) /\ s.challenge \in Nat
    BY DEF ServerGood
  <1>1. CASE from = s.addr
    <2>1. r = [s |-> s, out |-> {}]
      BY <1>1 DEF Rebind
    <2>2. r.s = s /\ r.out = {}
      BY <2>1
    <2> QED BY <1>0, <2>2 DEF Advanced, ServerLater
  <1>2. CASE from # s.addr /\ s.rebind = None /\ s.challenge # MaxChallenges
    <2>0. PICK k : k = s.challenge + 1
      OBVIOUS
    <2>1. PICK u : u = [s EXCEPT !.challenge = k]
      OBVIOUS
    <2>2. /\ IsServer(u)
          /\ u.state = s.state /\ u.hash = s.hash /\ u.scid = s.scid /\ u.dcid = s.dcid
          /\ u.version = s.version /\ u.alpn = s.alpn /\ u.recv = s.recv
          /\ u.finished = s.finished /\ u.vn = s.vn /\ u.challenge = k
          /\ u.valid = s.valid /\ u.addr = s.addr /\ u.rebind = s.rebind
      BY <1>0, <2>1 DEF IsServer, ServerFields
    <2>3. k \in Nat /\ k > s.challenge
      BY <1>0, <2>0
    <2>4. ServerGood(c, u, 1, R)
      BY <2>2, <2>3 DEF ServerGood
    <2>5. PICK v : v = [u EXCEPT !.rebind = from]
      OBVIOUS
    <2>6. /\ IsServer(v)
          /\ v.state = u.state /\ v.hash = u.hash /\ v.scid = u.scid /\ v.dcid = u.dcid
          /\ v.version = u.version /\ v.alpn = u.alpn /\ v.recv = u.recv
          /\ v.finished = u.finished /\ v.vn = u.vn /\ v.challenge = u.challenge
          /\ v.valid = u.valid /\ v.addr = u.addr /\ v.rebind = from
      BY <2>2, <2>5 DEF IsServer, ServerFields
    <2>7. ServerGood(c, v, 1, R)
      BY <2>4, <2>6 DEF ServerGood
    <2>8. PICK q0 : q0 = FromServer(s, "CHALLENGE", {})
      OBVIOUS
    <2>9. PICK q : q = [q0 EXCEPT !.type = "SHORT", !.addr = from, !.data = k]
      OBVIOUS
    <2>10. r \in {[s |-> u, out |-> {}], [s |-> v, out |-> {q}]}
      BY <1>2, <2>0, <2>1, <2>2, <2>5, <2>8, <2>9 DEF Rebind
    <2>11. Advanced(c, s, u, R)
      BY <2>2, <2>3, <2>4 DEF Advanced, ServerLater
    <2>12. Advanced(c, s, v, R)
      BY <2>2, <2>3, <2>6, <2>7 DEF Advanced, ServerLater
    <2>13. q.to = "C" /\ q.type = "SHORT" /\ q.addr = from /\ q.data = k /\ q.frame = "CHALLENGE"
      BY <2>8, <2>9, FromServerHas
    <2>14. SentTo(v, q.addr, q.data)
      BY <2>2, <2>3, <2>6, <2>13 DEF SentTo
    <2>15. ToClientGood(q, c, v, 1)
      BY <2>13, <2>14 DEF ToClientGood
    <2>16. CASE r = [s |-> u, out |-> {}]
      BY <2>11, <2>16
    <2>17. CASE r = [s |-> v, out |-> {q}]
      BY <2>12, <2>13, <2>15, <2>17
    <2> QED BY <2>10, <2>16, <2>17
  <1>3. CASE from # s.addr /\ s.rebind # None
    <2>1. PICK b : b = (s.check \/ from = s.rebind)
      OBVIOUS
    <2>2. PICK u : u = [s EXCEPT !.check = b]
      OBVIOUS
    <2>3. Alike(s, u)
      BY <1>0, <2>2 DEF IsServer, ServerFields, Alike
    <2>4. r = [s |-> u, out |-> {}]
      BY <1>3, <2>1, <2>2 DEF Rebind
    <2>5. r.s = u /\ r.out = {}
      BY <2>4
    <2>6. ServerGood(c, u, 1, R)
      BY <2>3, AlikeGood
    <2> QED BY <1>0, <2>3, <2>5, <2>6 DEF Advanced, ServerLater, Alike
  <1>4. CASE from # s.addr /\ s.rebind = None /\ s.challenge = MaxChallenges
    BY <1>4 DEF Rebind
  <1> QED BY <1>1, <1>2, <1>3, <1>4

\* The ACK or CONNECTION_CLOSE that follows a packet.
LEMMA AnswerGood ==
  ASSUME NEW c, NEW s, NEW t, NEW p, NEW q \in Answer(s, t, p)
  PROVE  q.to = "C" /\ ToClientGood(q, c, t, 1)
  <1>1. PICK f, A : f \in {"ACK", "CLOSE"} /\ q = FromServer(t, f, A)
    BY DEF Answer
  <1>2. q.to = "C" /\ q.scid = t.scid /\ q.frame = f /\ q.type = rqc_state_to_pkt_type(t)
    BY <1>1, FromServerHas
  <1>3. q.type \in {"INIT", "SHORT"}
    BY <1>2 DEF rqc_state_to_pkt_type
  <1> QED BY <1>1, <1>2, <1>3 DEF ToClientGood

----------------------------------------------------------------------------
(* Steps that send.                                                        *)

\* A step of the server keeps the client in order.
LEMMA ClientKept ==
  ASSUME NEW c, NEW s, NEW n, ClientGood(c, s, n), NEW t, ServerLater(s, t)
  PROVE  ClientGood(c, t, n)
  BY DEF ClientGood, ServerLater

\* A step of the client keeps the server in order.
LEMMA ServerKept ==
  ASSUME NEW c, NEW s, NEW n, NEW R, ServerGood(c, s, n, R), NEW d, ClientLater(c, d),
         NEW Q, R \subseteq Q
  PROVE  ServerGood(d, s, n, Q)
  <1>1. Supported(d) <=> Supported(c)
    BY DEF Supported, ClientLater
  <1> QED BY <1>1 DEF ServerGood, ClientLater

\* An end that does not move.
LEMMA SameLater ==
  ASSUME NEW c, NEW s, s.challenge \in Nat
  PROVE  ClientLater(c, c) /\ ServerLater(s, s)
  BY DEF ClientLater, ServerLater

\* Every packet in flight stays in order.
LEMMA NetKept ==
  ASSUME NEW c, NEW s, NEW n, NEW R, NEW N, AllGood(N, c, s, n, R),
         NEW d, ClientLater(c, d), NEW t, ServerLater(s, t), s.challenge \in Nat,
         NEW Q, R \subseteq Q
  PROVE  AllGood(N, d, t, n, Q)
  <1> SUFFICES ASSUME NEW p \in N PROVE PacketGood(p, d, t, n, Q)
    BY DEF AllGood
  <1>0. PacketGood(p, c, s, n, R)
    BY DEF AllGood
  <1>1. p.to = "S" => ToServerGood(p, d, Q)
    BY <1>0, ToServerStays DEF PacketGood
  <1>2. p.to = "C" => ToClientGood(p, d, t, n)
    BY <1>0, ToClientStays DEF PacketGood
  <1> QED BY <1>1, <1>2 DEF PacketGood

\* A client that is done sends 1-RTT packets.
LEMMA FromDoneClient ==
  ASSUME NEW c, c.done, c.state # "IDLE", NEW f, f \notin {"HANDSHAKE", "RESPONSE"}, NEW A,
         NEW q, q = FromClient(c, f, A), NEW s, NEW n, NEW R
  PROVE  PacketGood(q, c, s, n, R)
  <1>1. q.to = "S" /\ q.scid = CScid /\ q.frame = f /\ q.type = "SHORT"
    BY FromClientHas DEF rqc_state_to_pkt_type
  <1> QED BY <1>1 DEF PacketGood, ToServerGood

\* The client's HANDSHAKE packet, first or repeated.
LEMMA HelloPacket ==
  ASSUME NEW c, c.state # "IDLE", NEW q, q = HandshakeOfClient(c), NEW s, NEW n, NEW R
  PROVE  PacketGood(q, c, s, n, R)
  BY HandshakeOfClientHas DEF PacketGood, ToServerGood

\* Packets added by a step that changes neither end.
LEMMA SendGood ==
  ASSUME NEW c, NEW s, NEW n, NEW N, NEW R, Whole(c, s, n, N, R),
         NEW P, AllGood(P, c, s, n, R), NEW M, M \subseteq N \cup P
  PROVE  Whole(c, s, n, M, R)
  BY DEF Whole, AllGood

\* The client before rqc_connect.
LEMMA NoClientHas ==
    /\ IsClient(NoClient) /\ NoClient.state = "IDLE" /\ NoClient.first_version = 1
    /\ NoClient.version = 1 /\ ~NoClient.done /\ ~NoClient.dcid_done /\ NoClient.finished = 0
    /\ NoClient.path_dcid = ODcid
  BY DEF NoClient, IsClient, ClientFields

\* The server before its connection is made.
LEMMA NoServerHas ==
    /\ IsServer(NoServer) /\ NoServer.state = "NONE" /\ NoServer.version = INIT_VER
    /\ NoServer.recv = {} /\ ~NoServer.vn /\ NoServer.finished = 0 /\ NoServer.hash = {}
    /\ NoServer.challenge = 0 /\ NoServer.valid = 0 /\ NoServer.rebind = None
  BY DEF NoServer, IsServer, ServerFields

\* Without a connection every claim about the server holds.
LEMMA NoServerGood ==
  ASSUME NEW c, NEW R PROVE ServerGood(c, NoServer, 0, R)
  <1>1. 0 \in Nat
    OBVIOUS
  <1> QED BY <1>1, NoServerHas DEF ServerGood

\* The first state is in order.
LEMMA InitGood == Init => HInv
  <1> SUFFICES ASSUME Init PROVE HInv
    OBVIOUS
  <1>1. ClientGood(NoClient, NoServer, 0)
    BY NoClientHas DEF ClientGood
  <1>2. ServerGood(NoClient, NoServer, 0, {})
    BY NoServerGood
  <1>3. ReachedGood({}, NoServer)
    BY DEF ReachedGood
  <1> QED BY <1>1, <1>2, <1>3 DEF HInv, Whole, AllGood, Init

\* rqc_connect.
LEMMA ConnectGood ==
  ASSUME HInv, NEW cfg \in ClientConfigs, Connect(cfg)
  PROVE  HInv'
  <1>1. PICK v, l, a : v = cfg.version /\ l = cfg.list /\ a = cfg.alpn
    OBVIOUS
  <1>2. v \in {1, 2}
    BY <1>1, ValidVersions
  <1>3. PICK d : d = client'
    OBVIOUS
  <1>4. PICK u : u = [NoClient EXCEPT !.state = "HANDSHAKE", !.version = v]
    OBVIOUS
  <1>5. d = [u EXCEPT !.first_version = v, !.list = l, !.alpn = a]
    BY <1>1, <1>3, <1>4 DEF Connect
  <1>6. /\ IsClient(u) /\ u.state = "HANDSHAKE" /\ u.version = v /\ ~u.done
        /\ ~u.dcid_done /\ u.finished = 0 /\ u.path_dcid = ODcid
    BY <1>4, NoClientHas DEF IsClient, ClientFields
  <1>7. /\ IsClient(d) /\ d.state = "HANDSHAKE" /\ d.first_version = v
        /\ d.version = v /\ ~d.done /\ ~d.dcid_done /\ d.finished = 0
        /\ d.path_dcid = ODcid
    BY <1>5, <1>6 DEF IsClient, ClientFields
  <1>8. PICK q : q = HandshakeOfClient(d)
    OBVIOUS
  <1>9. /\ client.state = "IDLE" /\ net' \subseteq net \cup {q}
        /\ server' = server /\ created' = created /\ reached' = reached
    <2>1. client.state = "IDLE" /\ server' = server /\ created' = created /\ reached' = reached
      BY DEF Connect
    <2>2. net' = Sent(net, {HandshakeOfClient(client')})
      BY DEF Connect
    <2>3. net' = Sent(net, {q})
      BY <1>3, <1>8, <2>2
    <2> QED BY <2>1, <2>3, SentWithin
  <1>10. created = 0 /\ server = NoServer
    BY <1>9 DEF HInv, Whole, ClientGood, ServerGood
  <1>11. ClientGood(d, server, created)
    BY <1>2, <1>7, <1>10 DEF ClientGood
  <1>12. ServerGood(d, server, created, reached)
    BY <1>10, NoServerGood
  <1>13. ASSUME NEW p \in net PROVE PacketGood(p, d, server, created, reached)
    <2>1. PacketGood(p, client, server, created, reached)
      BY DEF HInv, Whole, AllGood
    <2> QED BY <1>9, <1>10, <2>1 DEF PacketGood, ToServerGood, ToClientGood
  <1>14. PacketGood(q, d, server, created, reached)
    BY <1>7, <1>8, HelloPacket
  <1>15. Whole(d, server, created, net', reached)
    BY <1>9, <1>11, <1>12, <1>13, <1>14 DEF HInv, Whole, AllGood
  <1> QED BY <1>3, <1>9, <1>15 DEF HInv

\* A repeated HANDSHAKE packet.
LEMMA ResendGood == ASSUME HInv, ResendHandshake PROVE HInv'
  <1>1. PICK q : q = HandshakeOfClient(client)
    OBVIOUS
  <1>2. net' = Sent(net, {q}) /\ client.state # "IDLE"
    BY <1>1 DEF ResendHandshake, Alive
  <1>3. AllGood({q}, client, server, created, reached)
    BY <1>1, <1>2, HelloPacket DEF AllGood
  <1>4. net' \subseteq net \cup {q}
    BY <1>2, SentWithin
  <1>5. Whole(client, server, created, net', reached)
    BY <1>3, <1>4, SendGood DEF HInv
  <1> QED BY <1>5 DEF HInv, ResendHandshake

\* Data of an established client.
LEMMA SendDataGood == ASSUME HInv, SendData PROVE HInv'
  <1>1. PICK q : q = FromClient(client, "STREAM", {})
    OBVIOUS
  <1>2. net' = Sent(net, {q}) /\ client.state = "ESTABED"
    BY <1>1 DEF SendData
  <1>3. client.done
    BY <1>2 DEF HInv, Whole, ClientGood
  <1>4. AllGood({q}, client, server, created, reached)
    BY <1>1, <1>2, <1>3, FromDoneClient DEF AllGood
  <1>5. net' \subseteq net \cup {q}
    BY <1>2, SentWithin
  <1>6. Whole(client, server, created, net', reached)
    BY <1>4, <1>5, SendGood DEF HInv
  <1> QED BY <1>6 DEF HInv, SendData

\* A step of the client alone.
LEMMA ClientStep ==
  ASSUME NEW c, NEW s, NEW n, NEW N, NEW R, Whole(c, s, n, N, R),
         NEW d, ClientGood(d, s, n), ClientLater(c, d), NEW Q, R \subseteq Q, ReachedGood(Q, s),
         NEW P, AllGood(P, d, s, n, Q), NEW M, M \subseteq N \cup P
  PROVE  Whole(d, s, n, M, Q)
  <1>1. s.challenge \in Nat
    BY DEF Whole, ServerGood
  <1>2. ServerLater(s, s)
    BY <1>1, SameLater
  <1>3. ServerGood(d, s, n, Q)
    BY ServerKept DEF Whole
  <1>4. AllGood(N, d, s, n, Q)
    BY <1>1, <1>2, NetKept DEF Whole
  <1>5. AllGood(M, d, s, n, Q)
    BY <1>4 DEF AllGood
  <1> QED BY <1>3, <1>5 DEF Whole

\* A step of the server alone.
LEMMA ServerStep ==
  ASSUME NEW c, NEW s, NEW N, NEW R, Whole(c, s, 1, N, R),
         NEW t, Advanced(c, s, t, R),
         NEW P, AllGood(P, c, t, 1, R), NEW M, M \subseteq N \cup P
  PROVE  Whole(c, t, 1, M, R)
  <1>1. s.challenge \in Nat
    BY DEF Whole, ServerGood
  <1>2. ClientLater(c, c)
    BY DEF ClientLater
  <1>3. ServerGood(c, t, 1, R) /\ ServerLater(s, t)
    BY DEF Advanced
  <1>4. ClientGood(c, t, 1)
    BY <1>3, ClientKept DEF Whole
  <1>5. AllGood(N, c, t, 1, R)
    BY <1>1, <1>2, <1>3, NetKept DEF Whole
  <1>6. AllGood(M, c, t, 1, R)
    BY <1>5 DEF AllGood
  <1>7. ReachedGood(R, t)
    BY <1>1, <1>3, ReachedStays DEF Whole
  <1> QED BY <1>3, <1>4, <1>6, <1>7 DEF Whole

----------------------------------------------------------------------------
(* Steps of one end.                                                       *)

\* rqc_stream_send.
LEMMA WriteDataGood == ASSUME HInv, WriteData PROVE HInv'
  <1>1. PICK c, d, x : c = client /\ d = client' /\ d = [c EXCEPT !.data = x]
    BY DEF WriteData
  <1>2. ClientGood(c, server, created)
    BY <1>1 DEF HInv, Whole
  <1>3. IsClient(c)
    BY <1>2 DEF ClientGood
  <1>4. /\ IsClient(d) /\ d.state = c.state /\ d.done = c.done
        /\ d.first_version = c.first_version /\ d.alpn = c.alpn /\ d.version = c.version
        /\ d.finished = c.finished
        /\ d.path_dcid = c.path_dcid /\ d.dcid_done = c.dcid_done
    BY <1>1, <1>3 DEF IsClient, ClientFields
  <1>5. Supported(d) <=> Supported(c)
    BY <1>4 DEF Supported
  <1>6. ClientGood(d, server, created)
    BY <1>2, <1>4, <1>5 DEF ClientGood
  <1>7. ClientLater(c, d)
    BY <1>4 DEF ClientLater
  <1>8. AllGood({}, d, server, created, reached) /\ ReachedGood(reached, server)
    BY DEF AllGood, HInv, Whole
  <1>9. Whole(c, server, created, net, reached)
    BY <1>1 DEF HInv
  <1>10. Whole(d, server, created, net, reached)
    BY <1>6, <1>7, <1>8, <1>9, ClientStep
  <1> QED BY <1>1, <1>10 DEF HInv, WriteData

\* A server that is alive is the one connection that was made.
LEMMA AliveServer ==
  ASSUME NEW c, NEW s, NEW n, NEW R, ServerGood(c, s, n, R), Alive(s) \/ s.hash # {}
  PROVE  n = 1
  BY NoServerHas DEF ServerGood, Alive

\* A step of the server that touches only the other fields.
LEMMA AlikeLater ==
  ASSUME NEW c, NEW s, NEW R, ServerGood(c, s, 1, R), NEW t, Alike(s, t)
  PROVE  Advanced(c, s, t, R)
  <1>1. ServerGood(c, t, 1, R)
    BY AlikeGood
  <1>2. s.challenge \in Nat
    BY DEF ServerGood
  <1> QED BY <1>1, <1>2 DEF Advanced, ServerLater, Alike

\* The server's HANDSHAKE packet.
LEMMA SendHandshakeGood == ASSUME HInv, SendHandshake PROVE HInv'
  <1>1. PICK s, t : s = server /\ t = server' /\ t = [s EXCEPT !.sent = TRUE]
    BY DEF SendHandshake
  <1>2. PICK q0 : q0 = FromServer(server, "HANDSHAKE", {})
    OBVIOUS
  <1>3. PICK q : q = [q0 EXCEPT !.type = "INIT"]
    OBVIOUS
  <1>4. Alive(s) /\ "HANDSHAKE" \in s.recv /\ net' = Sent(net, {q})
    BY <1>1, <1>2, <1>3 DEF SendHandshake
  <1>5. created = 1 /\ ServerGood(client, s, 1, reached)
    BY <1>1, <1>4, AliveServer DEF HInv, Whole
  <1>6. IsServer(s)
    BY <1>5 DEF ServerGood
  <1>7. Alike(s, t)
    BY <1>1, <1>6 DEF IsServer, ServerFields, Alike
  <1>8. Advanced(client, s, t, reached)
    BY <1>5, <1>7, AlikeLater
  <1>9. q.to = "C" /\ q.type = "INIT" /\ q.scid = s.scid /\ q.frame = "HANDSHAKE"
    BY <1>1, <1>2, <1>3, FromServerHas
  <1>10. AllGood({q}, client, t, 1, reached)
    BY <1>4, <1>7, <1>9 DEF AllGood, PacketGood, ToClientGood, Alike
  <1>11. Whole(client, s, 1, net, reached) /\ net' \subseteq net \cup {q}
    BY <1>1, <1>4, <1>5, SentWithin DEF HInv
  <1>12. Whole(client, t, 1, net', reached)
    BY <1>8, <1>10, <1>11, ServerStep
  <1> QED BY <1>1, <1>5, <1>12 DEF HInv, SendHandshake

\* rqc_conn_send_version_negotiation.
LEMMA VersionsGood == ASSUME HInv, rqc_conn_send_version_negotiation PROVE HInv'
  <1>1. PICK s, t : s = server /\ t = server' /\ t = [s EXCEPT !.vn = FALSE]
    BY DEF rqc_conn_send_version_negotiation
  <1>2. PICK q0 : q0 = FromServer(server, "VERSIONS", {})
    OBVIOUS
  <1>3. PICK q : q = [q0 EXCEPT !.type = "VN", !.scid = ODcid]
    OBVIOUS
  <1>4. Alive(s) /\ s.vn /\ net' = Sent(net, {q})
    BY <1>1, <1>2, <1>3 DEF rqc_conn_send_version_negotiation
  <1>5. created = 1 /\ ServerGood(client, s, 1, reached)
    BY <1>1, <1>4, AliveServer DEF HInv, Whole
  <1>6. IsServer(s) /\ s.challenge \in Nat /\ ~Supported(client)
    BY <1>4, <1>5 DEF ServerGood
  <1>7. /\ IsServer(t)
        /\ t.state = s.state /\ t.hash = s.hash /\ t.scid = s.scid /\ t.dcid = s.dcid
        /\ t.version = s.version /\ t.alpn = s.alpn /\ t.recv = s.recv
        /\ t.finished = s.finished /\ ~t.vn /\ t.challenge = s.challenge
        /\ t.valid = s.valid /\ t.addr = s.addr /\ t.rebind = s.rebind
    BY <1>1, <1>6 DEF IsServer, ServerFields
  <1>8. ServerGood(client, t, 1, reached)
    BY <1>5, <1>7 DEF ServerGood
  <1>9. Advanced(client, s, t, reached)
    BY <1>6, <1>7, <1>8 DEF Advanced, ServerLater
  <1>10. q.to = "C" /\ q.type = "VN" /\ q.frame = "VERSIONS"
    BY <1>1, <1>2, <1>3, FromServerHas
  <1>11. AllGood({q}, client, t, 1, reached)
    BY <1>6, <1>10 DEF AllGood, PacketGood, ToClientGood
  <1>12. Whole(client, s, 1, net, reached) /\ net' \subseteq net \cup {q}
    BY <1>1, <1>4, <1>5, SentWithin DEF HInv
  <1>13. Whole(client, t, 1, net', reached)
    BY <1>9, <1>11, <1>12, ServerStep
  <1> QED BY <1>1, <1>5, <1>13 DEF HInv, rqc_conn_send_version_negotiation

\* rqc_timer_nat_rebinding_timeout gives the new address up.
LEMMA NatTimeoutGood == ASSUME HInv, NatTimeout PROVE HInv'
  <1>1. PICK s, t : s = server /\ t = server' /\ t = [s EXCEPT !.rebind = None, !.check = FALSE]
    BY DEF NatTimeout
  <1>2. Alive(s)
    BY <1>1 DEF NatTimeout
  <1>3. created = 1 /\ ServerGood(client, s, 1, reached)
    BY <1>1, <1>2, AliveServer DEF HInv, Whole
  <1>4. IsServer(s) /\ s.challenge \in Nat
    BY <1>3 DEF ServerGood
  <1>5. /\ IsServer(t)
        /\ t.state = s.state /\ t.hash = s.hash /\ t.scid = s.scid /\ t.dcid = s.dcid
        /\ t.version = s.version /\ t.alpn = s.alpn /\ t.recv = s.recv
        /\ t.finished = s.finished /\ t.vn = s.vn /\ t.challenge = s.challenge
        /\ t.valid = s.valid /\ t.addr = s.addr /\ t.rebind = None
    BY <1>1, <1>4 DEF IsServer, ServerFields
  <1>6. ServerGood(client, t, 1, reached)
    BY <1>3, <1>5 DEF ServerGood
  <1>7. Advanced(client, s, t, reached)
    BY <1>4, <1>5, <1>6 DEF Advanced, ServerLater
  <1>8. AllGood({}, client, t, 1, reached)
    BY DEF AllGood
  <1>9. Whole(client, s, 1, net, reached)
    BY <1>1, <1>3 DEF HInv
  <1>10. Whole(client, t, 1, net, reached)
    BY <1>7, <1>8, <1>9, ServerStep
  <1> QED BY <1>1, <1>3, <1>10 DEF HInv, NatTimeout

\* A datagram at the client.
LEMMA ToClientKept ==
  ASSUME HInv, NEW p \in net, p.to = "C", NEW rest, rest \subseteq net, ToClient(p, rest),
         UNCHANGED <<server, created>>
  PROVE  HInv'
  <1>0. /\ server' = server /\ created' = created
        /\ Whole(client, server, created, net, reached)
    BY DEF HInv
  <1>1. CASE p.addr # addr \/ ~Alive(client)
    <2>1. client' = client /\ reached' = reached /\ net' = rest
      BY <1>1 DEF ToClient
    <2>2. AllGood({}, client, server, created, reached)
      BY DEF AllGood
    <2>3. Whole(client, server, created, net', reached)
      BY <1>0, <2>1, <2>2, SendGood
    <2> QED BY <1>0, <2>1, <2>3 DEF HInv
  <1>2. CASE p.addr = addr /\ Alive(client)
    <2>1. ClientGood(client, server, created) /\ ToClientGood(p, client, server, created)
      BY <1>0 DEF Whole, AllGood, PacketGood
    <2>2. client.state \in {"HANDSHAKE", "ESTABED"}
      BY <1>2, <2>1 DEF ClientGood, Alive
    <2>3. PICK d : d = ClientReads(client, p)
      OBVIOUS
    <2>4. /\ ClientGood(d, server, created) /\ ClientLater(client, d)
          /\ ClientAccepts(client, p) /\ Elicits(p) => d.done
          /\ d.finished > client.finished => d.done
      BY <2>1, <2>2, <2>3, ClientReadsGood
    <2>5. d.state # "IDLE"
      BY <2>2, <2>4 DEF ClientLater
    <2>6. ReachedGood(reached, server)
      BY <1>0 DEF Whole
    <2>7. \/ /\ p.frame = "CHALLENGE" /\ ClientAccepts(client, p)
             /\ client' = d
             /\ net' = Sent(rest, {[FromClient(d, "RESPONSE", {}) EXCEPT !.data = p.data]})
             /\ reached' = reached \cup {<<addr, p.data>>}
          \/ /\ client' = d
             /\ \/ net' = Sent(rest, {})
                \/ /\ Elicits(p) /\ ClientAccepts(client, p)
                   /\ net' = Sent(rest, {FromClient(d, "ACK", d.recv)})
             /\ reached' = reached
          \/ /\ d.finished > client.finished
             /\ client' = [d EXCEPT !.data = "sent"]
             /\ net' = Sent(rest, {[FromClient(d, "STREAM", {}) EXCEPT !.dcid = client.path_dcid]})
             /\ reached' = reached
      BY <1>2, <2>3 DEF ToClient
    <2>8. CASE /\ p.frame = "CHALLENGE" /\ ClientAccepts(client, p)
               /\ client' = d
               /\ net' = Sent(rest, {[FromClient(d, "RESPONSE", {}) EXCEPT !.data = p.data]})
               /\ reached' = reached \cup {<<addr, p.data>>}
      <3>1. PICK q0 : q0 = FromClient(d, "RESPONSE", {})
        OBVIOUS
      <3>2. PICK x : x = p.data
        OBVIOUS
      <3>3. PICK q : q = [q0 EXCEPT !.data = x]
        OBVIOUS
      <3>4. PICK Q : Q = reached \cup {<<addr, x>>}
        OBVIOUS
      <3>5. d.done
        BY <2>4, <2>8 DEF Elicits
      <3>6. q.to = "S" /\ q.scid = CScid /\ q.frame = "RESPONSE" /\ q.type = "SHORT" /\ q.data = x
        BY <3>1, <3>3, <3>5, FromClientHas DEF rqc_state_to_pkt_type
      <3>7. AllGood({q}, d, server, created, Q)
        BY <2>5, <3>4, <3>5, <3>6 DEF AllGood, PacketGood, ToServerGood
      <3>8. SentTo(server, addr, x)
        BY <1>2, <2>1, <2>8, <3>2 DEF ToClientGood
      <3>9. ReachedGood(Q, server)
        BY <2>6, <3>4, <3>8 DEF ReachedGood
      <3>10. net' \subseteq net \cup {q} /\ reached' = Q /\ client' = d /\ reached \subseteq Q
        BY <2>8, <3>1, <3>2, <3>3, <3>4, SentWithin
      <3>11. Whole(d, server, created, net', Q)
        BY <1>0, <2>4, <3>7, <3>9, <3>10, ClientStep
      <3> QED BY <1>0, <3>10, <3>11 DEF HInv
    <2>9. CASE /\ client' = d
               /\ \/ net' = Sent(rest, {})
                  \/ /\ Elicits(p) /\ ClientAccepts(client, p)
                     /\ net' = Sent(rest, {FromClient(d, "ACK", d.recv)})
               /\ reached' = reached
      <3>1. PICK P : /\ net' = Sent(rest, P)
                     /\ P = {} \/ (d.done /\ P = {FromClient(d, "ACK", d.recv)})
        BY <2>4, <2>9
      <3>2. AllGood(P, d, server, created, reached)
        BY <2>5, <3>1, FromDoneClient DEF AllGood
      <3>3. net' \subseteq net \cup P
        BY <3>1, SentWithin
      <3>4. Whole(d, server, created, net', reached)
        BY <1>0, <2>4, <2>6, <3>2, <3>3, ClientStep
      <3> QED BY <1>0, <2>9, <3>4 DEF HInv
    <2>10. CASE /\ d.finished > client.finished
                /\ client' = [d EXCEPT !.data = "sent"]
                /\ net' = Sent(rest, {[FromClient(d, "STREAM", {}) EXCEPT !.dcid = client.path_dcid]})
                /\ reached' = reached
      <3>1. PICK q0 : q0 = FromClient(d, "STREAM", {})
        OBVIOUS
      <3>2. PICK x : x = client.path_dcid
        OBVIOUS
      <3>3. PICK q : q = [q0 EXCEPT !.dcid = x]
        OBVIOUS
      <3>4. PICK e : e = [d EXCEPT !.data = "sent"]
        OBVIOUS
      <3>5. d.done /\ IsClient(d)
        BY <2>4, <2>10 DEF ClientGood
      <3>6. q.to = "S" /\ q.scid = CScid /\ q.frame = "STREAM" /\ q.type = "SHORT"
        BY <3>1, <3>3, <3>5, FromClientHas DEF rqc_state_to_pkt_type
      <3>7. /\ IsClient(e) /\ e.state = d.state /\ e.done = d.done
            /\ e.first_version = d.first_version /\ e.alpn = d.alpn /\ e.version = d.version
            /\ e.finished = d.finished
            /\ e.path_dcid = d.path_dcid /\ e.dcid_done = d.dcid_done
        BY <3>4, <3>5 DEF IsClient, ClientFields
      <3>8. Supported(e) <=> Supported(d)
        BY <3>7 DEF Supported
      <3>9. ClientGood(e, server, created)
        BY <2>4, <3>7, <3>8 DEF ClientGood
      <3>10. ClientLater(client, e)
        BY <2>4, <3>7 DEF ClientLater
      <3>11. AllGood({q}, e, server, created, reached)
        BY <2>5, <3>5, <3>6, <3>7 DEF AllGood, PacketGood, ToServerGood
      <3>12. net' \subseteq net \cup {q} /\ reached' = reached /\ client' = e
        BY <2>10, <3>1, <3>2, <3>3, <3>4, SentWithin
      <3>13. Whole(e, server, created, net', reached)
        BY <1>0, <2>6, <3>9, <3>10, <3>11, <3>12, ClientStep
      <3> QED BY <1>0, <3>12, <3>13 DEF HInv
    <2> QED BY <2>7, <2>8, <2>9, <2>10
  <1> QED BY <1>1, <1>2

----------------------------------------------------------------------------
(* The server's table of connections, and the theorems.                    *)

\* The connection that rqc_conn_server_create makes, before it reads the packet.
LEMMA CreateGood ==
  ASSUME NEW c, NEW N, NEW R, Whole(c, NoServer, 0, N, R), NEW p, ToServerGood(p, c, R),
         p.type = "INIT", NEW scid, NEW s, s = rqc_conn_server_create(p, scid)
  PROVE  Whole(c, s, 1, N, R)
  <1>1. PICK d, H, a : d = p.scid /\ H = {scid, p.dcid} /\ a = p.addr
    OBVIOUS
  <1>2. d = CScid /\ H = {scid, ODcid} /\ c.state # "IDLE"
    BY <1>1 DEF ToServerGood
  <1>3. PICK u : u = [NoServer EXCEPT !.state = "INIT", !.scid = scid, !.dcid = d]
    OBVIOUS
  <1>4. s = [u EXCEPT !.hash = H, !.addr = a]
    BY <1>1, <1>3 DEF rqc_conn_server_create
  <1>5. /\ IsServer(u) /\ u.state = "INIT" /\ u.scid = scid /\ u.dcid = d
        /\ u.version = INIT_VER /\ u.recv = {} /\ ~u.vn /\ u.finished = 0
        /\ u.challenge = 0 /\ u.valid = 0 /\ u.rebind = None
    BY <1>3, NoServerHas DEF IsServer, ServerFields
  <1>6. /\ IsServer(s) /\ s.state = "INIT" /\ s.scid = scid /\ s.dcid = d /\ s.hash = H
        /\ s.version = INIT_VER /\ s.recv = {} /\ ~s.vn /\ s.finished = 0
        /\ s.challenge = 0 /\ s.valid = 0 /\ s.rebind = None
    BY <1>4, <1>5 DEF IsServer, ServerFields
  <1>7. 0 \in Nat
    OBVIOUS
  <1>8. ServerGood(c, s, 1, R)
    <2>1. s.hash = {s.scid, ODcid} /\ s.dcid = CScid
      BY <1>2, <1>6
    <2>2. "HANDSHAKE" \notin s.recv /\ s.state \notin {"HANDSHAKE", "ESTABED"}
      BY <1>6
    <2> QED BY <1>6, <1>7, <2>1, <2>2 DEF ServerGood
  <1>9. ClientGood(c, s, 1)
    <2>1. ClientGood(c, NoServer, 0)
      BY DEF Whole
    <2>2. ~c.done /\ ~c.dcid_done
      BY <2>1 DEF ClientGood
    <2> QED BY <1>2, <2>1, <2>2 DEF ClientGood
  <1>10. ReachedGood(R, s)
    <2>1. s.challenge = NoServer.challenge /\ s.rebind = NoServer.rebind
      BY <1>6, NoServerHas
    <2>2. ASSUME NEW a2, NEW d2, SentTo(NoServer, a2, d2) PROVE SentTo(s, a2, d2)
      BY <2>1, <2>2 DEF SentTo
    <2> QED BY <2>2 DEF Whole, ReachedGood
  <1>11. AllGood(N, c, s, 1, R)
    BY DEF Whole, AllGood, PacketGood, ToClientGood
  <1> QED BY <1>8, <1>9, <1>10, <1>11 DEF Whole

\* A packet read by a connection of the server.
LEMMA ReadStep ==
  ASSUME NEW c, NEW s, NEW N, NEW R, Whole(c, s, 1, N, R), NEW p, ToServerGood(p, c, R),
         NEW t, t = ServerReads(s, p),
         NEW P, AllGood(P, c, s, 1, R), NEW M, M \subseteq N \cup (P \cup Answer(s, t, p))
  PROVE  Whole(c, t, 1, M, R)
  <1>1. Advanced(c, s, t, R)
    BY ServerReadsGood DEF Whole, ClientGood
  <1>2. PICK L : L = N \cup P
    OBVIOUS
  <1>3. Whole(c, s, 1, L, R)
    BY <1>2, SendGood
  <1>4. PICK A : A = Answer(s, t, p)
    OBVIOUS
  <1>5. AllGood(A, c, t, 1, R)
    BY <1>4, AnswerGood DEF AllGood, PacketGood
  <1>6. M \subseteq L \cup A
    BY <1>2, <1>4
  <1> QED BY <1>1, <1>3, <1>5, <1>6, ServerStep

\* A datagram at the server: dropped, read by the connection, or made into one.
LEMMA ToServerKept ==
  ASSUME HInv, NEW p \in net, p.to = "S", NEW rest, rest \subseteq net, ToServer(p, rest),
         UNCHANGED <<client, reached>>
  PROVE  HInv'
  <1>0. /\ client' = client /\ reached' = reached
        /\ Whole(client, server, created, net, reached)
    BY DEF HInv
  <1>1. ToServerGood(p, client, reached)
    BY <1>0 DEF Whole, AllGood, PacketGood
  <1>2. CASE net' = rest /\ UNCHANGED <<server, created>>
    <2>1. AllGood({}, client, server, created, reached)
      BY DEF AllGood
    <2>2. Whole(client, server, created, net', reached)
      BY <1>0, <1>2, <2>1, SendGood
    <2> QED BY <1>0, <1>2, <2>2 DEF HInv
  <1>3. CASE /\ p.dcid \in server.hash /\ Alive(server)
             /\ \E r \in Rebind(server, p.addr) :
                   /\ server' = ServerReads(r.s, p)
                   /\ net' = Sent(rest, r.out \cup Answer(r.s, ServerReads(r.s, p), p))
             /\ UNCHANGED created
    <2>1. created = 1 /\ ServerGood(client, server, 1, reached)
      BY <1>0, <1>3, AliveServer DEF Whole
    <2>2. PICK r \in Rebind(server, p.addr) :
                   /\ server' = ServerReads(r.s, p)
                   /\ net' = Sent(rest, r.out \cup Answer(r.s, ServerReads(r.s, p), p))
      BY <1>3
    <2>3. PICK s, t, P : s = r.s /\ t = ServerReads(s, p) /\ P = r.out
      OBVIOUS
    <2>4. Advanced(client, server, s, reached)
      BY <2>1, <2>2, <2>3, RebindGood
    <2>5. AllGood(P, client, s, 1, reached)
      BY <2>1, <2>2, <2>3, RebindGood DEF AllGood, PacketGood
    <2>6. AllGood({}, client, s, 1, reached)
      BY DEF AllGood
    <2>7. Whole(client, server, 1, net, reached)
      BY <1>0, <2>1
    <2>8. Whole(client, s, 1, net, reached)
      BY <2>4, <2>6, <2>7, ServerStep
    <2>9. server' = t /\ net' = Sent(rest, P \cup Answer(s, t, p))
      BY <2>2, <2>3
    <2>10. net' \subseteq net \cup (P \cup Answer(s, t, p))
      BY <2>9, SentWithin
    <2>11. Whole(client, t, 1, net', reached)
      BY <1>1, <2>3, <2>5, <2>8, <2>10, ReadStep
    <2> QED BY <1>0, <1>3, <2>1, <2>9, <2>11 DEF HInv
  <1>4. CASE /\ p.dcid \notin server.hash /\ p.type = "INIT"
             /\ \E scid \in {p.dcid, NewCid} :
                   /\ server' = ServerReads(rqc_conn_server_create(p, scid), p)
                   /\ net' = Sent(rest, Answer(rqc_conn_server_create(p, scid),
                                 ServerReads(rqc_conn_server_create(p, scid), p), p))
             /\ created' = created + 1
    <2>1. p.dcid = ODcid
      BY <1>1, <1>4 DEF ToServerGood
    <2>2. created = 0 /\ server = NoServer
      BY <1>0, <1>4, <2>1 DEF Whole, ServerGood
    <2>3. PICK scid \in {p.dcid, NewCid} :
                   /\ server' = ServerReads(rqc_conn_server_create(p, scid), p)
                   /\ net' = Sent(rest, Answer(rqc_conn_server_create(p, scid),
                                 ServerReads(rqc_conn_server_create(p, scid), p), p))
      BY <1>4
    <2>4. PICK s : s = rqc_conn_server_create(p, scid)
      OBVIOUS
    <2>5. PICK t : t = ServerReads(s, p)
      OBVIOUS
    <2>6. server' = t /\ net' = Sent(rest, Answer(s, t, p))
      BY <2>3, <2>4, <2>5
    <2>7. Whole(client, NoServer, 0, net, reached)
      BY <1>0, <2>2
    <2>8. Whole(client, s, 1, net, reached)
      BY <1>1, <1>4, <2>4, <2>7, CreateGood
    <2>9. PICK P : P = {}
      OBVIOUS
    <2>10. AllGood(P, client, s, 1, reached)
      BY <2>9 DEF AllGood
    <2>11. net' \subseteq net \cup (P \cup Answer(s, t, p))
      BY <2>6, SentWithin
    <2>12. Whole(client, t, 1, net', reached)
      BY <1>1, <2>5, <2>8, <2>10, <2>11, ReadStep
    <2>13. created' = 0 + 1
      BY <1>4, <2>2, Zenon
    <2>14. created' = 1
      BY <2>13
    <2> QED BY <1>0, <2>6, <2>12, <2>14 DEF HInv
  <1> QED BY <1>2, <1>3, <1>4 DEF ToServer

\* A datagram at either end.
LEMMA ReceiveGood ==
  ASSUME HInv, NEW p \in net, NEW rest, rest \subseteq net, Receive(p, rest)
  PROVE  HInv'
  <1>1. CASE p.to = "C" /\ ToClient(p, rest) /\ UNCHANGED <<server, created, addr, moves, early>>
    BY <1>1, ToClientKept
  <1>2. CASE p.to = "S" /\ ToServer(p, rest) /\ UNCHANGED <<client, addr, moves, early, reached>>
    BY <1>2, ToServerKept
  <1> QED BY <1>1, <1>2 DEF Receive

\* Every step keeps the invariant.
LEMMA NextGood == HInv /\ [Next]_vars => HInv'
  <1> SUFFICES ASSUME HInv, [Next]_vars PROVE HInv'
    OBVIOUS
  <1>1. CASE \E cfg \in ClientConfigs : Connect(cfg)
    BY <1>1, ConnectGood
  <1>2. CASE ResendHandshake
    BY <1>2, ResendGood
  <1>3. CASE WriteData
    BY <1>3, WriteDataGood
  <1>4. CASE SendData
    BY <1>4, SendDataGood
  <1>5. CASE SendHandshake
    BY <1>5, SendHandshakeGood
  <1>6. CASE rqc_conn_send_version_negotiation
    BY <1>6, VersionsGood
  <1>7. CASE \E p \in net : Deliver(p) \/ Duplicate(p) \/ Lose(p)
    <2>1. PICK p \in net : Deliver(p) \/ Duplicate(p) \/ Lose(p)
      BY <1>7
    <2>2. CASE Deliver(p)
      BY <2>2, ReceiveGood DEF Deliver
    <2>3. CASE Duplicate(p)
      BY <2>3, ReceiveGood DEF Duplicate
    <2>4. CASE Lose(p)
      <3>1. AllGood({}, client, server, created, reached)
        BY DEF AllGood
      <3>2. net' \subseteq net /\ UNCHANGED <<client, server, created, reached>>
        BY <2>4 DEF Lose
      <3>3. Whole(client, server, created, net', reached)
        BY <3>1, <3>2, SendGood DEF HInv
      <3> QED BY <3>2, <3>3 DEF HInv
    <2> QED BY <2>1, <2>2, <2>3, <2>4
  <1>8. CASE \E a \in Addrs : Move(a)
    BY <1>8 DEF Move, HInv
  <1>9. CASE NatTimeout
    BY <1>9, NatTimeoutGood
  <1>10. CASE UNCHANGED vars
    BY <1>10 DEF vars, HInv
  <1> QED BY <1>1, <1>2, <1>3, <1>4, <1>5, <1>6, <1>7, <1>8, <1>9, <1>10 DEF Next

\* The invariant holds in every reachable state.
LEMMA AlwaysGood == Spec => []HInv
  BY InitGood, NextGood, PTL DEF Spec

\* However often HANDSHAKE packets are repeated, lost or overtaken, and
\* whichever id the server chooses, rqc_engine_packet_process makes one
\* connection for the client (OneConnection).
THEOREM OneConnectionAlways == Spec => []OneConnection
  <1>1. HInv => OneConnection
    <2> SUFFICES ASSUME HInv PROVE created <= 1
      BY DEF OneConnection
    <2>1. created \in {0, 1}
      BY DEF HInv, Whole, ServerGood
    <2> QED BY <2>1
  <1> QED BY <1>1, AlwaysGood, PTL

\* Ids, version and protocol of an established client are the server's, the
\* server is established only after the client, and conn_handshake_finished
\* runs once at each end (EndsAgree), for every list of versions and protocols.
THEOREM EndsAgreeAlways == Spec => []EndsAgree
  <1>1. HInv => EndsAgree
    <2> SUFFICES ASSUME HInv PROVE EndsAgree
      OBVIOUS
    <2>1. /\ ClientGood(client, server, created)
          /\ ServerGood(client, server, created, reached)
      BY DEF HInv, Whole
    <2>2. ASSUME client.state = "ESTABED", client.dcid_done
          PROVE  /\ client.path_dcid = server.scid /\ server.dcid = CScid
                 /\ client.alpn = server.alpn
                 /\ server.version = proto_version_value[client.version]
      <3>1. client.done /\ created = 1 /\ client.path_dcid = server.scid
        BY <2>1, <2>2 DEF ClientGood
      <3>2. "HANDSHAKE" \in server.recv
        BY <2>1, <3>1 DEF ClientGood
      <3>3. /\ server.dcid = CScid /\ client.alpn = server.alpn /\ Supported(client)
            /\ server.version = proto_version_value[client.first_version]
        BY <2>1, <3>1, <3>2 DEF ServerGood
      <3>4. client.version = client.first_version
        BY <2>1, <3>3 DEF ClientGood
      <3> QED BY <3>1, <3>3, <3>4
    <2>3. server.state = "ESTABED" => client.done /\ client.dcid_done
      BY <2>1 DEF ClientGood, ServerGood
    <2>4. client.finished \in {0, 1} /\ server.finished \in {0, 1}
      BY <2>1, Zenon DEF ClientGood, ServerGood
    <2>5. client.finished <= 1 /\ server.finished <= 1
      BY <2>4
    <2> QED BY <2>2, <2>3, <2>5 DEF EndsAgree
  <1> QED BY <1>1, AlwaysGood, PTL

\* The server sends to a new address only after the client has read there the
\* very challenge whose answer is accepted, whatever is drawn again, delayed or
\* repeated (AddressValidated).
THEOREM AddressValidatedAlways == Spec => []AddressValidated
  <1>1. HInv => AddressValidated
    BY DEF HInv, Whole, ServerGood, AddressValidated
  <1> QED BY <1>1, AlwaysGood, PTL
=============================================================================
