------------------------------- MODULE AckSet -------------------------------
(***************************************************************************)
(* What a receive record promises, without its list of ranges: the set of  *)
(* packet numbers an ACK frame would acknowledge.  At most Cap maximal     *)
(* runs of consecutive numbers are remembered; when a packet would make    *)
(* one more run, the run with the smallest numbers is forgotten, which may *)
(* be the packet itself.                                                   *)
(***************************************************************************)
EXTENDS Integers, FiniteSets

CONSTANTS
    PktNums,    \* the packet numbers the peer may use
    Cap         \* the largest number of runs remembered

VARIABLES
    acked,      \* the packet numbers an ACK frame would acknowledge
    floor       \* packets below it need no acknowledgement any more

vars == <<acked, floor>>

\* The upper ends of the maximal runs of S.
RunTops(S) == {x \in S : x + 1 \notin S}

\* The run of S with the smallest numbers.
LowestRun(S) == {x \in S : \A t \in RunTops(S) : x <= t}

Trim(S) == IF Cardinality(RunTops(S)) > Cap THEN S \ LowestRun(S) ELSE S

Init == acked = {} /\ floor = 0

Receive(pn) ==
    /\ acked' = IF pn \in acked THEN acked ELSE Trim(acked \cup {pn})
    /\ UNCHANGED floor

Forget(from) ==
    /\ from >= floor
    /\ floor' = from
    /\ acked' = {x \in acked : x >= from}

Next ==
    \/ \E pn \in PktNums : Receive(pn)
    \/ \E pn \in PktNums : Forget(pn + 1)

Spec == Init /\ [][Next]_vars
=============================================================================
