----------------------------- MODULE StreamData -----------------------------
(***************************************************************************)
(* One direction of a stream, from the writer's calls to the reader's:     *)
(* rqc_stream_send and rqc_stream_sendv_atomic with the remainder it       *)
(* retains, STREAM frames that are repeated, late and out of order, their  *)
(* reassembly, rqc_stream_peek and rqc_stream_recv.                        *)
(*                                                                         *)
(* The k-th byte of the stream is the number k.  How much of a write the   *)
(* windows and the send queue let through, and where packets cut it, is a  *)
(* choice here (FlowControl and PacketOut model them); so is the time of   *)
(* the engine's passes.  Resets and closing are in StreamLife.             *)
(***************************************************************************)
EXTENDS Naturals, Sequences, FiniteSets, SequencesExt

CONSTANTS MaxBytes,        \* bound: the length of the stream
          Blocks,          \* the lengths of the blocks of a message
          RecvSizes,       \* sizes of the reader's buffer
          FixedCapacity,   \* RQC_STREAM_ATOMIC_FIXED_CAPACITY
          MaxDups,         \* bound: frames that arrive with bytes sent before
          None

VARIABLES snd,    \* the sending part of the stream
          wire,   \* STREAM frames sent and, with all their copies, not arrived
          dups,   \* how many arrived twice
          rcv,    \* the receiving part
          app     \* what the two applications were told

vars == <<snd, wire, dups, rcv, app>>

Init ==
    /\ snd = [offset  |-> 0,          \* stream_send_offset
              pending |-> <<>>,       \* atomic_ctx: the retained bytes
              fin     |-> FALSE,      \* atomic_ctx: their FIN
              ready   |-> FALSE,      \* READY_TO_WRITE
              ended   |-> FALSE]      \* FIN_WRITE
    /\ wire = {}
    /\ dups = 0
    /\ rcv = [frames |-> <<>>,        \* frames_tailq: offset, data, next_read_offset
              merged |-> 0,           \* merged_offset_end
              next   |-> 0,           \* next_read_offset
              length |-> None,        \* stream_length, once determined
              ready  |-> FALSE]       \* READY_TO_READ
    /\ app = [accepted |-> 0, ended |-> FALSE,
              read |-> <<>>, endRead |-> FALSE,
              reading |-> FALSE]      \* in its read callback

\* First S, then what Op does to it: two statements in a row.
Then(S, Op(_)) == CHOOSE T \in {Op(x) : x \in {S}} : TRUE

Larger(a, b) == IF a > b THEN a ELSE b
Smaller(a, b) == IF a < b THEN a ELSE b

-----------------------------------------------------------------------------
(* Writing *)

rqc_stream_has_atomic_pending == snd.pending # <<>>

\* STREAM frames for data from offset on, cut after the bytes in cuts; the FIN
\* is in the last one.
Frames(data, offset, cuts, fin) ==
    LET ends == cuts \cup {Len(data)}
        After(e) == {c \in cuts \cup {0} : c < e}
        Start(e) == CHOOSE c \in After(e) \cup {0} : \A d \in After(e) : d <= c
    IN  {[off |-> offset + Start(e), data |-> SubSeq(data, Start(e) + 1, e),
          fin |-> fin /\ e = Len(data)] : e \in ends}

\* The loop of rqc_stream_send_scalar takes n bytes of data and is then blocked,
\* or has written all of it.  A blocked stream stays on the write list.
\* pending and fin are what its caller retains.
rqc_stream_send_scalar(data, n, cuts, fin, pending, retained) ==
    LET all == n = Len(data)
    IN  /\ wire' = wire \cup
             (IF n > 0 \/ (all /\ fin)
              THEN Frames(SubSeq(data, 1, n), snd.offset, cuts, fin /\ all) ELSE {})
        /\ snd' = [offset  |-> snd.offset + n,
                   pending |-> pending,
                   fin     |-> retained,
                   ready   |-> ~all,
                   ended   |-> fin /\ all]

\* Where packets may cut the n first bytes of data.
Cuts(n) == IF n = 0 THEN {{}} ELSE SUBSET (1 .. n - 1)

\* The next n bytes the writer has.
Bytes(n) == [i \in 1 .. n |-> app.accepted + i]

Told(n, fin) == [app EXCEPT !.accepted = @ + n, !.ended = fin]

\* Calls that do not return at once: -RQC_EAGAIN while bytes are retained, 0
\* after the FIN.
MayWrite == ~rqc_stream_has_atomic_pending /\ ~snd.ended

\* rqc_stream_send: len bytes, of which n are taken.  A FIN alone is taken or not.
Send(len, fin) ==
    /\ MayWrite
    /\ app.accepted + len <= MaxBytes
    /\ len > 0 \/ fin
    /\ \/ \E n \in 1 .. len : \E cuts \in Cuts(n) :
            /\ rqc_stream_send_scalar(Bytes(len), n, cuts, fin, <<>>, FALSE)
            /\ app' = Told(n, fin /\ n = len)
       \/ /\ len = 0
          /\ rqc_stream_send_scalar(<<>>, 0, {}, fin, <<>>, FALSE)
          /\ app' = Told(0, TRUE)
       \/ /\ snd' = [snd EXCEPT !.ready = TRUE]      \* blocked at once
          /\ UNCHANGED <<wire, app>>
    /\ UNCHANGED <<dups, rcv>>

\* Offset of block i in a message.
Start(iov, i) == FoldSeq(LAMBDA a, b : a + b, 0, SubSeq(iov, 1, i - 1))
Block(iov, i) == SubSeq(Bytes(Start(iov, i) + iov[i]), Start(iov, i) + 1, Start(iov, i) + iov[i])

\* Mutant: the whole of the block that was cut is retained.
PendingFromBlock(iov, current, skip) ==
    FlattenSeq([i \in 1 .. Len(iov) |-> IF i < current THEN <<>> ELSE Block(iov, i)])

\* What is retained: block current from skip on, and the blocks after it.
rqc_stream_atomic_save_pending(iov, current, skip) ==
    FlattenSeq([i \in 1 .. Len(iov) |->
        IF i < current THEN <<>>
        ELSE SubSeq(Block(iov, i), IF i = current THEN skip + 1 ELSE 1, iov[i])])

\* rqc_stream_sendv_atomic: n bytes are taken, block by block, then a write is
\* blocked.  The rest is retained, unless it is large and there is no memory.
SendV(iov, fin) ==
    LET total == Start(iov, Len(iov) + 1)
        bounds(n) == {Start(iov, i) : i \in 2 .. Len(iov)} \cap (1 .. n - 1)
        current(n) == CHOOSE i \in 1 .. Len(iov) :
                        Start(iov, i) <= n /\ n < Start(iov, i) + iov[i]
        pending(n) == rqc_stream_atomic_save_pending(iov, current(n), n - Start(iov, current(n)))
    IN  /\ MayWrite
        /\ app.accepted + total <= MaxBytes
        /\ \/ \E cuts \in Cuts(total) :
                /\ bounds(total) \subseteq cuts
                /\ rqc_stream_send_scalar(Bytes(total), total, cuts, fin, <<>>, FALSE)
                /\ app' = Told(total, fin)
           \/ \E n \in 1 .. total - 1 : \E cuts \in Cuts(n) :
                /\ bounds(n) \subseteq cuts
                /\ \/ /\ rqc_stream_send_scalar(Bytes(total), n, cuts, fin, pending(n), fin)
                      /\ app' = Told(total, fin)
                   \/ /\ total - n > FixedCapacity
                      /\ rqc_stream_send_scalar(Bytes(total), n, cuts, fin, <<>>, FALSE)
                      /\ app' = Told(n, FALSE)
           \/ /\ snd' = [snd EXCEPT !.ready = TRUE]
              /\ UNCHANGED <<wire, app>>
        /\ UNCHANGED <<dups, rcv>>

\* A pass of rqc_process_write_streams with room for retained bytes
\* (rqc_stream_atomic_drain).  Without retained bytes it calls the writer,
\* whose next call is a Send.
Drain ==
    /\ snd.ready /\ rqc_stream_has_atomic_pending
    /\ \E n \in 1 .. Len(snd.pending) : \E cuts \in Cuts(n) :
         LET rest == SubSeq(snd.pending, n + 1, Len(snd.pending))
         IN  rqc_stream_send_scalar(snd.pending, n, cuts, snd.fin, rest,
                                    snd.fin /\ rest # <<>>)
    /\ UNCHANGED <<dups, rcv, app>>

-----------------------------------------------------------------------------
(* Reassembly *)

End(f) == f.off + Len(f.data)

\* A frame that lies within one of those received, met from the end of the
\* list before the place where it belongs.
Duplicate(frames, f) ==
    LET place == {i \in DOMAIN frames : f.off >= frames[i].off}
    IN  /\ f.data # <<>> /\ place # {}
        /\ \E i \in place : (\A j \in place : j <= i) /\ End(f) <= End(frames[i])

\* Mutant: the frames behind the new one are not looked at.
InsertNoMerge(r, f) ==
    LET low == SelectSeq(r.frames, LAMBDA g : g.off <= f.off)
        high == SelectSeq(r.frames, LAMBDA g : g.off > f.off)
    IN  [r EXCEPT !.frames = low \o <<[off |-> f.off, data |-> f.data, read |-> 0]>> \o high,
                  !.merged = IF @ >= f.off THEN Larger(@, End(f)) ELSE @]

\* The list is sorted by offset: behind the last frame that is not later.  If
\* the frame continues what is contiguous, so may those that follow it.
rqc_insert_stream_frame(r, f) ==
    LET low == SelectSeq(r.frames, LAMBDA g : g.off <= f.off)
        high == SelectSeq(r.frames, LAMBDA g : g.off > f.off)
        Extend(m, g) == IF m >= g.off THEN Larger(m, End(g)) ELSE m
    IN  [r EXCEPT !.frames = low \o <<[off |-> f.off, data |-> f.data, read |-> 0]>> \o high,
                  !.merged = IF @ >= f.off /\ @ < End(f) THEN FoldLeft(Extend, End(f), high)
                             ELSE @]

\* rqc_process_stream_frame.  What ends within the contiguous bytes is dropped,
\* but for a FIN alone while no other length than 0 is known.
rqc_process_stream_frame(r, f) ==
    LET known == IF f.fin THEN [r EXCEPT !.length = End(f)] ELSE r
    IN  IF End(f) <= r.merged /\ ~(f.fin /\ f.data = <<>> /\ r.length \in {None, 0}) THEN r
        ELSE IF Duplicate(r.frames, f) THEN known
        ELSE Then(rqc_insert_stream_frame(known, f), LAMBDA t :
                [t EXCEPT !.ready = @ \/ t.length = t.merged \/ t.next < t.merged])

Deliver(f, again) ==
    /\ f \in wire
    /\ rcv' = rqc_process_stream_frame(rcv, f)
    /\ IF again THEN dups < MaxDups /\ dups' = dups + 1 /\ wire' = wire
       ELSE dups' = dups /\ wire' = wire \ {f}
    /\ UNCHANGED <<snd, app>>

\* Bytes from a to b, all sent before, arrive again cut in another way: rquic
\* repeats its frames as they were, but it takes such frames from a peer.  They
\* leave out the last byte when it was sent with a FIN: a FIN whose bytes have
\* all arrived without it is dropped.
Overlap(a, b) ==
    /\ a < b /\ IF snd.ended THEN b < snd.offset ELSE b <= snd.offset
    /\ dups < MaxDups
    /\ dups' = dups + 1
    /\ rcv' = rqc_process_stream_frame(rcv,
                [off |-> a, data |-> [i \in 1 .. b - a |-> a + i], fin |-> FALSE])
    /\ UNCHANGED <<snd, wire, app>>

-----------------------------------------------------------------------------
(* Reading *)

\* The loop of rqc_stream_recv over the frames: room is left in the buffer, out
\* was copied to it.
RECURSIVE Take(_)
Take(t) ==
    LET r == t.r
        f == Head(r.frames)
        skip == IF f.off < r.next THEN Larger(f.read, r.next - f.off) ELSE f.read
        n == Smaller(Len(f.data) - skip, t.room)
        rest == IF skip + n = Len(f.data) THEN Tail(r.frames)
                ELSE <<[f EXCEPT !.read = skip + n]>> \o Tail(r.frames)
    IN  IF r.frames = <<>> \/ t.room = 0 THEN t
        ELSE IF f.off > r.merged THEN t
        ELSE IF End(f) < r.next THEN Then([t EXCEPT !.r.frames = Tail(@)], Take)
        ELSE Then([r    |-> [r EXCEPT !.frames = rest, !.next = @ + n],
                   room |-> t.room - n,
                   out  |-> t.out \o SubSeq(f.data, skip + 1, skip + n)], Take)

\* rqc_stream_recv: the read notification is answered, whatever is left.
rqc_stream_recv(r, size) ==
    Then(Take([r |-> r, room |-> size, out |-> <<>>]),
         LAMBDA t : [r |-> [t.r EXCEPT !.ready = FALSE], out |-> t.out,
                     fin |-> t.r.next = t.r.length])

\* The reader goes on until -RQC_EAGAIN or the end, once it was called or has begun.
Recv(size) ==
    \E t \in {rqc_stream_recv(rcv, size)} :
      /\ rcv' = t.r
      /\ app' = [app EXCEPT !.read = @ \o t.out,
                            !.endRead = @ \/ t.fin,
                            !.reading = t.out # <<>> /\ ~t.fin]
      /\ UNCHANGED <<snd, wire, dups>>

\* The loop of rqc_stream_peek.
RECURSIVE Copy(_, _, _, _)
Copy(frames, cursor, room, out) ==
    LET f == Head(frames)
        n == Smaller(End(f) - cursor, room)
    IN  IF frames = <<>> THEN out
        ELSE IF End(f) <= cursor THEN Copy(Tail(frames), cursor, room, out)
        ELSE IF f.off > cursor \/ room = 0 THEN out
        ELSE Copy(Tail(frames), cursor + n, room - n,
                  out \o SubSeq(f.data, cursor - f.off + 1, cursor - f.off + n))

\* Mutant: what was read of the first frame is shown again.
PeekWholeFrame(r, size) ==
    Copy(r.frames, IF r.frames = <<>> THEN r.next ELSE Head(r.frames).off, size, <<>>)

rqc_stream_peek(r, size) == Copy(r.frames, r.next, size, <<>>)

Peek ==
    /\ rcv' = [rcv EXCEPT !.ready = FALSE]
    /\ app' = [app EXCEPT !.reading = rcv.merged > rcv.next \/ rcv.merged = rcv.length]
    /\ UNCHANGED <<snd, wire, dups>>

-----------------------------------------------------------------------------
Next ==
    \/ \E fin \in BOOLEAN :
         \/ \E len \in 0 .. MaxBytes : Send(len, fin)
         \/ \E iov \in Blocks : SendV(iov, fin)
    \/ Drain
    \/ \E f \in wire, again \in BOOLEAN : Deliver(f, again)
    \/ \E a, b \in 0 .. MaxBytes : Overlap(a, b)
    \/ \E size \in RecvSizes : Recv(size)
    \/ Peek

\* The reader reads when it is called.
ReadOn == (rcv.ready \/ app.reading) /\ \E size \in RecvSizes : Recv(size)

\* Passes find room again and again (flow control and the send queue see to
\* it); a lost frame is sent until a copy of it arrives; the reader is called
\* and reads on.
Fairness ==
    /\ WF_vars(Drain)
    /\ WF_vars(\E f \in wire : Deliver(f, FALSE))
    /\ WF_vars(ReadOn)

Spec == Init /\ [][Next]_vars /\ Fairness

-----------------------------------------------------------------------------
(* Properties *)

Abstract == INSTANCE ByteStream WITH
    accepted <- app.accepted, ended <- app.ended,
    read <- app.read, endRead <- app.endRead

\* The two applications see a byte stream: every byte that was accepted is read
\* once and in order, bytes retained by rqc_stream_sendv_atomic are not mixed
\* with later writes, and the end is read after the last byte and not before
\* it was accepted, whatever is cut, retained, repeated, overlapping and late.
ImplementsByteStream == Abstract!Spec

\* rqc_stream_peek shows what rqc_stream_recv would read, and as much as it
\* says is readable (else it returns -RQC_ESTATE).
PeekAgrees ==
    \A size \in RecvSizes :
      /\ rqc_stream_peek(rcv, size) = rqc_stream_recv(rcv, size).out
      /\ Len(rqc_stream_peek(rcv, size)) = Smaller(rcv.merged - rcv.next, size)

\* The reader catches up with what was accepted, and with the end, again and
\* again: no retained byte is left behind and no read notification is missed.
EverythingRead == []<>(Len(app.read) = app.accepted /\ app.endRead = app.ended)
=============================================================================
