---------------------------- MODULE MCStreamLife ----------------------------
(***************************************************************************)
(* StreamLife for TLC: the calls the application makes.                      *)
(***************************************************************************)
EXTENDS StreamLife

\* A stream of the peer that is used both ways; those of this side are refused
\* credit and closed.
MCCalls == [s \in Streams |-> IF s \in Passive THEN {"recv", "peek", "data", "fin", "close"} ELSE {"eagain", "close"}]

\* Calls for other streams that no loop is hurt by: every callback of the read
\* loop and stream_close_notify may close any stream.
SafeCross == {<<"read", "close">>, <<"close", "close">>}

=============================================================================
