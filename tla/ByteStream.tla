----------------------------- MODULE ByteStream -----------------------------
(***************************************************************************)
(* What one direction of a stream promises its two applications: bytes are *)
(* accepted, a message at a time, and read once, in order, up to a final   *)
(* length.  The k-th byte of the stream is the number k.                   *)
(***************************************************************************)
EXTENDS Naturals, Sequences

CONSTANT MaxBytes     \* bound: the length of the stream

VARIABLES accepted,   \* bytes the writer was told are accepted
          ended,      \* the writer was told that its FIN is accepted
          read,       \* what the reader got
          endRead     \* the reader was told that this is the end

vars == <<accepted, ended, read, endRead>>

Init ==
    /\ accepted = 0
    /\ ended = FALSE
    /\ read = <<>>
    /\ endRead = FALSE

Write(n, fin) ==
    /\ ~ended
    /\ accepted' = accepted + n
    /\ ended' = fin
    /\ UNCHANGED <<read, endRead>>

Read(n) ==
    /\ Len(read) + n <= accepted
    /\ read' = read \o [i \in 1 .. n |-> Len(read) + i]
    /\ endRead' \in BOOLEAN
    /\ endRead' => ended /\ Len(read') = accepted
    /\ UNCHANGED <<accepted, ended>>

Next ==
    \/ \E n \in 0 .. MaxBytes, fin \in BOOLEAN : Write(n, fin)
    \/ \E n \in 0 .. MaxBytes : Read(n)

Spec == Init /\ [][Next]_vars
=============================================================================
