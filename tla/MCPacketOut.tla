---------------------------- MODULE MCPacketOut ----------------------------
(* The packet filler with the sizes of the default settings *)
EXTENDS PacketOut

\* One request of every frame type, with integers on both sides of a length class
MCRequests ==
  { [type |-> "PING"],
    [type |-> "CONNECTION_CLOSE", app |-> FALSE, err |-> 10],
    [type |-> "CONNECTION_CLOSE", app |-> TRUE, err |-> 16384],
    [type |-> "RESET_STREAM", id |-> 0, err |-> 64, final |-> 0],
    [type |-> "STOP_SENDING", id |-> 64, err |-> 1],
    [type |-> "DATA_BLOCKED", limit |-> 63],
    [type |-> "STREAM_DATA_BLOCKED", id |-> 64, limit |-> 16383],
    [type |-> "STREAMS_BLOCKED", bidi |-> TRUE, limit |-> 64],
    [type |-> "STREAMS_BLOCKED", bidi |-> FALSE, limit |-> 64],
    [type |-> "MAX_DATA", limit |-> 1073741824],
    [type |-> "MAX_STREAM_DATA", id |-> 0, limit |-> 1073741823],
    [type |-> "MAX_STREAMS", bidi |-> TRUE, limit |-> 1024],
    [type |-> "MAX_STREAMS", bidi |-> FALSE, limit |-> 1024],
    [type |-> "PATH_CHALLENGE", data |-> 1],
    [type |-> "PATH_RESPONSE", data |-> 2],
    [type |-> "HANDSHAKE", alpn |-> 3, tp |-> 100, ext |-> 0],
    [type |-> "DATAGRAM", len |-> 0],
    [type |-> "DATAGRAM", len |-> 1166],
    [type |-> "DATAGRAM", len |-> 1167] }
=============================================================================
