---------------------------- MODULE MCHandshake ----------------------------
(* Instance of Handshake: clients that match the server, that have to change *)
(* the version, that have none in common, and that ask for another protocol. *)
EXTENDS Handshake

MCClientConfigs ==
    {[version |-> 1, list |-> <<1, 29>>, alpn |-> "rqc"],
     [version |-> 2, list |-> <<1, 29>>, alpn |-> "rqc"],
     [version |-> 2, list |-> <<29>>, alpn |-> "rqc"],
     [version |-> 1, list |-> <<1>>, alpn |-> "other"]}

MCServerList == <<1>>
=============================================================================
