--------------------------- MODULE MCFlowControl ---------------------------
(***************************************************************************)
(* FlowControl for TLC: how much the application writes.                     *)
(***************************************************************************)
EXTENDS FlowControl

\* A stream of the sender outgrows its window; the other one shares the
\* connection's.
MCTotal == [s \in Streams |-> IF s \in Own THEN 1 ELSE 3]

=============================================================================
