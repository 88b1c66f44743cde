-------------------------- MODULE StreamLifeProofs --------------------------
(***************************************************************************)
(* Proofs about StreamLife, for any streams and any calls of the             *)
(* application that Cross keeps off the list of the loop they are made from. *)
(***************************************************************************)
EXTENDS MCStreamLife, SequenceTheorems, TLAPS

-----------------------------------------------------------------------------
(* The lists *)

\* A list of streams: a node is in it once.
Lists == {l \in Seq(Streams) : IsInjective(l)}

\* The index of a stream on a list is where it is.
LEMMA IndexIsThere ==
    ASSUME NEW l \in Lists, NEW s \in Range(l)
    PROVE  Index(l, s) \in 1..Len(l) /\ l[Index(l, s)] = s
  <1>1. \E i \in DOMAIN l : l[i] = s
    BY DEF Range
  <1>2. Index(l, s) \in DOMAIN l /\ l[Index(l, s)] = s
    BY <1>1 DEF Index
  <1> QED
    BY <1>2, LenProperties DEF Lists

\* rqc_list_del_init takes one stream off the list and no other.
LEMMA DelList ==
    ASSUME NEW l \in Lists, NEW s
    PROVE  Del(l, s) \in Lists /\ Range(Del(l, s)) = Range(l) \ {s}
  <1>1. CASE s \notin Range(l)
    BY <1>1 DEF Del
  <1>2. CASE s \in Range(l)
    <2>1. PICK k \in 1..Len(l) : k = Index(l, s) /\ l[k] = s
      BY <1>2, IndexIsThere
    <2>2. PICK n \in Nat : n = Len(l)
      BY LenProperties DEF Lists
    <2>3. /\ l \in Seq(Streams) /\ DOMAIN l = 1..n /\ k \in 1..n
          /\ \A i \in 1..n : l[i] \in Streams
          /\ \A i, j \in 1..n : l[i] = l[j] => i = j
      BY <2>1, <2>2, LenProperties, ElementOfSeq DEF Lists, IsInjective
    <2>4. PICK a : a = SubSeq(l, 1, k - 1)
      BY Zenon
    <2>5. PICK b : b = SubSeq(l, k + 1, n)
      BY Zenon
    <2>6. a \in Seq(Streams) /\ Len(a) = k - 1 /\ \A i \in 1..(k - 1) : a[i] = l[i]
      <3>1. \A i \in 1..(k - 1) : l[i] \in Streams
        BY <2>3
      <3> QED
        BY <2>3, <2>4, <3>1, SubSeqProperties, Z3
    <2>7. b \in Seq(Streams) /\ Len(b) = n - k /\ \A i \in 1..(n - k) : b[i] = l[k + i]
      <3>1. \A i \in (k + 1)..n : l[i] \in Streams
        BY <2>3
      <3> QED
        BY <2>3, <2>5, <3>1, SubSeqProperties, Z3
    <2>8. PICK m : m = Del(l, s)
      BY Zenon
    <2>9. m = a \o b
      BY <1>2, <2>1, <2>2, <2>4, <2>5, <2>8, Zenon DEF Del
    <2>10. /\ m \in Seq(Streams) /\ Len(m) = n - 1
           /\ \A i \in 1..(n - 1) : m[i] = IF i < k THEN l[i] ELSE l[i + 1]
      <3>1. /\ m \in Seq(Streams) /\ Len(m) = Len(a) + Len(b)
            /\ \A i \in 1..(Len(a) + Len(b)) : m[i] = IF i <= Len(a) THEN a[i] ELSE b[i - Len(a)]
        BY <2>6, <2>7, <2>9, ConcatProperties, Zenon
      <3>2. Len(m) = n - 1
        BY <2>3, <2>6, <2>7, <3>1
      <3>3. ASSUME NEW i \in 1..(n - 1), i < k PROVE m[i] = l[i]
        <4>1. i \in 1..(k - 1) /\ i \in 1..(Len(a) + Len(b)) /\ i <= Len(a)
          BY <2>3, <2>6, <2>7, <3>3
        <4> QED
          BY <2>6, <3>1, <4>1
      <3>4. ASSUME NEW i \in 1..(n - 1), ~(i < k) PROVE m[i] = l[i + 1]
        <4>1. /\ i \in 1..(Len(a) + Len(b)) /\ ~(i <= Len(a))
              /\ i - Len(a) \in 1..(n - k) /\ k + (i - Len(a)) = i + 1
          BY <2>3, <2>6, <2>7, <3>4
        <4> QED
          BY <2>7, <3>1, <4>1, Zenon
      <3> QED
        BY <3>1, <3>2, <3>3, <3>4
    <2>11. DOMAIN m = 1..(n - 1)
      BY <2>3, <2>10, LenProperties
    <2>12. IsInjective(m)
      <3>1. SUFFICES ASSUME NEW i \in 1..(n - 1), NEW j \in 1..(n - 1), m[i] = m[j]
                     PROVE  i = j
        BY <2>11 DEF IsInjective
      <3>2. PICK p \in 1..n : p = (IF i < k THEN i ELSE i + 1) /\ m[i] = l[p]
        BY <2>3, <2>10
      <3>3. PICK q \in 1..n : q = (IF j < k THEN j ELSE j + 1) /\ m[j] = l[q]
        BY <2>3, <2>10
      <3>4. p = q
        BY <2>3, <3>1, <3>2, <3>3, Zenon
      <3> QED
        BY <2>3, <3>2, <3>3, <3>4
    <2>13. Range(m) \subseteq Range(l) \ {s}
      <3>1. SUFFICES ASSUME NEW i \in 1..(n - 1) PROVE m[i] \in Range(l) \ {s}
        BY <2>11 DEF Range
      <3>2. PICK j \in 1..n : m[i] = l[j] /\ j # k
        BY <2>3, <2>10
      <3> QED
        BY <2>1, <2>3, <3>2 DEF Range
    <2>14. Range(l) \ {s} \subseteq Range(m)
      <3>1. SUFFICES ASSUME NEW j \in 1..n, l[j] # s PROVE l[j] \in Range(m)
        BY <2>3 DEF Range
      <3>2. PICK i \in 1..(n - 1) : m[i] = l[j]
        <4>1. CASE j < k
          <5>1. j \in 1..(n - 1)
            BY <2>3, <4>1
          <5> QED
            BY <2>10, <4>1, <5>1, Zenon
        <4>2. CASE j > k
          <5>1. j - 1 \in 1..(n - 1) /\ ~(j - 1 < k) /\ (j - 1) + 1 = j
            BY <2>3, <4>2
          <5>2. m[j - 1] = l[j]
            BY <2>10, <5>1
          <5> QED
            BY <5>1, <5>2
        <4> QED
          BY <2>1, <2>3, <3>1, <4>1, <4>2
      <3> QED
        BY <2>11, <3>2 DEF Range
    <2> QED
      BY <2>8, <2>10, <2>12, <2>13, <2>14 DEF Lists
  <1> QED
    BY <1>1, <1>2

\* rqc_list_add_tail of a stream that is not on the list.
LEMMA AppendList ==
    ASSUME NEW l \in Lists, NEW s \in Streams, s \notin Range(l)
    PROVE  Append(l, s) \in Lists /\ Range(Append(l, s)) = Range(l) \cup {s}
  <1>1. PICK n \in Nat : n = Len(l)
    BY LenProperties DEF Lists
  <1>2. /\ l \in Seq(Streams) /\ DOMAIN l = 1..n
        /\ \A i, j \in 1..n : l[i] = l[j] => i = j
        /\ \A i \in 1..n : l[i] # s
    BY <1>1, LenProperties DEF Lists, IsInjective, Range
  <1>3. PICK m : m = Append(l, s)
    BY Zenon
  <1>4. /\ m \in Seq(Streams) /\ Len(m) = n + 1
        /\ \A i \in 1..n : m[i] = l[i]
        /\ m[n + 1] = s
    BY <1>1, <1>2, <1>3, AppendProperties
  <1>5. DOMAIN m = 1..(n + 1)
    BY <1>4, LenProperties
  <1>6. \A i \in 1..(n + 1) : i \in 1..n \/ i = n + 1
    OBVIOUS
  <1>7. IsInjective(m)
    BY <1>2, <1>4, <1>5, <1>6 DEF IsInjective
  <1>8. Range(m) = Range(l) \cup {s}
    <2>1. \A i \in 1..n : i \in 1..(n + 1)
      OBVIOUS
    <2>2. n + 1 \in 1..(n + 1)
      OBVIOUS
    <2>3. Range(m) \subseteq Range(l) \cup {s}
      BY <1>2, <1>4, <1>5, <1>6 DEF Range
    <2>4. Range(l) \cup {s} \subseteq Range(m)
      BY <1>2, <1>4, <1>5, <2>1, <2>2 DEF Range
    <2> QED
      BY <2>3, <2>4
  <1> QED
    BY <1>3, <1>4, <1>7, <1>8 DEF Lists

LEMMA AddList ==
    ASSUME NEW l \in Lists, NEW s \in Streams
    PROVE  Add(l, s) \in Lists /\ Range(Add(l, s)) = Range(l) \cup {s}
  BY AppendList DEF Add

\* The successor of a stream on the list is another one, or the list head.
LEMMA SuccOnList ==
    ASSUME NEW l \in Lists, NEW s \in Range(l)
    PROVE  Succ(l, s) \in (Range(l) \ {s}) \cup {End}
  <1>1. PICK k \in 1..Len(l) : k = Index(l, s) /\ l[k] = s
    BY IndexIsThere
  <1>2. PICK n \in Nat : n = Len(l)
    BY LenProperties DEF Lists
  <1>3. /\ DOMAIN l = 1..n /\ k \in 1..n
        /\ \A i, j \in 1..n : l[i] = l[j] => i = j
    BY <1>1, <1>2, LenProperties DEF Lists, IsInjective
  <1>4. CASE k = n
    BY <1>1, <1>2, <1>4 DEF Succ
  <1>5. CASE k # n
    <2>1. k + 1 \in 1..n /\ k + 1 # k
      BY <1>3, <1>5
    <2>2. l[k + 1] \in Range(l) /\ l[k + 1] # s
      BY <1>1, <1>3, <2>1 DEF Range
    <2>3. Succ(l, s) = l[k + 1]
      BY <1>1, <1>2, <1>5 DEF Succ
    <2> QED
      BY <2>2, <2>3
  <1> QED
    BY <1>4, <1>5

\* A loop starts on the list.
LEMMA FirstOnList ==
    ASSUME NEW l \in Lists, l # <<>>
    PROVE  First(l) \in Range(l)
  <1>1. 1 \in DOMAIN l
    BY EmptySeq, LenProperties DEF Lists
  <1> QED
    BY <1>1 DEF First, Range

LEMMA ListOfStreams ==
    ASSUME NEW l \in Lists
    PROVE  Range(l) \subseteq Streams /\ End \notin Range(l)
  <1>1. Range(l) \subseteq Streams
    BY LenProperties, ElementOfSeq DEF Lists, Range
  <1> QED
    BY <1>1, StreamsAssumption DEF End

-----------------------------------------------------------------------------
(* What an operation on one stream leaves alone *)

StreamRec ==
    [life  : {"none", "live", "freed"},
     snd   : {"READY", "SEND", "DATA_SENT", "DATA_RECVD", "RESET_SENT", "RESET_RECVD"},
     rcv   : {"RECV", "SIZE_KNOWN", "DATA_RECVD", "DATA_READ", "RESET_RECVD", "RESET_READ"},
     flags : SUBSET {"APP_CLOSED", "NEED_CLOSE", "FIN_WRITE", "DISCARDED"},
     got   : {0, 1},
     det   : BOOLEAN,
     read  : {0, 1},
     tx    : [Frame -> {"no", "queued", "sent", "acked"}]]

ConnTyped(C) ==
    /\ C = [st |-> C.st, w |-> C.w, r |-> C.r, c |-> C.c,
            timer |-> C.timer, top |-> C.top, hash |-> C.hash, err |-> C.err]
    /\ C.st \in [Streams -> StreamRec]
    /\ C.w \in Lists /\ C.r \in Lists /\ C.c \in Lists

\* D is C after something happened to stream s: the other streams and their
\* places in the lists are as they were.
Touches(C, D, s) ==
    /\ ConnTyped(D)
    /\ \A t \in Streams \ {s} :
          /\ D.st[t] = C.st[t]
          /\ t \in Range(D.w) <=> t \in Range(C.w)
          /\ t \in Range(D.r) <=> t \in Range(C.r)
          /\ t \in Range(D.c) <=> t \in Range(C.c)
    /\ D.top = C.top /\ D.hash = C.hash /\ D.err = C.err

\* The same lists
SameLists(C, D) == D.w = C.w /\ D.r = C.r /\ D.c = C.c

LEMMA TouchesItself ==
    ASSUME NEW C, ConnTyped(C), NEW s
    PROVE  Touches(C, C, s)
  BY DEF Touches

LEMMA TouchesTwice ==
    ASSUME NEW C, NEW D, NEW E, NEW s, Touches(C, D, s), Touches(D, E, s)
    PROVE  Touches(C, E, s)
  BY DEF Touches

Put(C, s, x) == [C EXCEPT !.st[s] = x]

LEMMA PutTouches ==
    ASSUME NEW C, ConnTyped(C), NEW s \in Streams, NEW x \in StreamRec
    PROVE  /\ Touches(C, Put(C, s, x), s) /\ SameLists(C, Put(C, s, x))
           /\ Put(C, s, x).st[s] = x
           /\ Put(C, s, x).timer = C.timer
  <1>1. PICK D : D = Put(C, s, x)
    BY Zenon
  <1>2. /\ D = [st |-> D.st, w |-> D.w, r |-> D.r, c |-> D.c,
                timer |-> D.timer, top |-> D.top, hash |-> D.hash, err |-> D.err]
        /\ D.st = [C.st EXCEPT ![s] = x] /\ D.w = C.w /\ D.r = C.r /\ D.c = C.c
        /\ D.timer = C.timer /\ D.top = C.top /\ D.hash = C.hash /\ D.err = C.err
    BY <1>1 DEF ConnTyped, Put
  <1>3. D.st \in [Streams -> StreamRec] /\ D.st[s] = x /\ \A t \in Streams \ {s} : D.st[t] = C.st[t]
    BY <1>2 DEF ConnTyped
  <1>4. ConnTyped(D)
    BY <1>2, <1>3 DEF ConnTyped
  <1> QED
    BY <1>1, <1>2, <1>3, <1>4 DEF Touches, SameLists

LEMMA PutTwice ==
    ASSUME NEW C, ConnTyped(C), NEW s \in Streams, NEW x, NEW y
    PROVE  Put(Put(C, s, x), s, y) = Put(C, s, y)
  <1>1. [[C.st EXCEPT ![s] = x] EXCEPT ![s] = y] = [C.st EXCEPT ![s] = y]
    BY DEF ConnTyped
  <1>2. PICK D : D = Put(C, s, x)
    BY Zenon
  <1>3. D = [st |-> [C.st EXCEPT ![s] = x], w |-> C.w, r |-> C.r, c |-> C.c,
             timer |-> C.timer, top |-> C.top, hash |-> C.hash, err |-> C.err]
    BY <1>2 DEF Put, ConnTyped
  <1>4. Put(D, s, y) = [st |-> [D.st EXCEPT ![s] = y], w |-> D.w, r |-> D.r, c |-> D.c,
                        timer |-> D.timer, top |-> D.top, hash |-> D.hash, err |-> D.err]
    BY <1>3 DEF Put
  <1>5. Put(C, s, y) = [st |-> [C.st EXCEPT ![s] = y], w |-> C.w, r |-> C.r, c |-> C.c,
                        timer |-> C.timer, top |-> C.top, hash |-> C.hash, err |-> C.err]
    BY DEF Put, ConnTyped
  <1> QED
    BY <1>1, <1>2, <1>3, <1>4, <1>5

\* rqc_stream_shutdown_read, rqc_stream_ready_to_read and the two for writing
LEMMA ShutdownReadTouches ==
    ASSUME NEW C, ConnTyped(C), NEW s \in Streams, NEW D, D = ShutdownRead(C, s)
    PROVE  /\ Touches(C, D, s) /\ D.st = C.st /\ D.w = C.w /\ D.c = C.c
           /\ Range(D.r) = Range(C.r) \ {s}
  <1>1. /\ D = [st |-> D.st, w |-> D.w, r |-> D.r, c |-> D.c,
                timer |-> D.timer, top |-> D.top, hash |-> D.hash, err |-> D.err]
        /\ D.st = C.st /\ D.w = C.w /\ D.r = Del(C.r, s) /\ D.c = C.c
        /\ D.top = C.top /\ D.hash = C.hash /\ D.err = C.err
    BY DEF ConnTyped, ShutdownRead
  <1>2. D.r \in Lists /\ Range(D.r) = Range(C.r) \ {s}
    BY <1>1, DelList DEF ConnTyped
  <1>3. ConnTyped(D)
    BY <1>1, <1>2 DEF ConnTyped
  <1> QED
    BY <1>1, <1>2, <1>3 DEF Touches

LEMMA ReadyToReadTouches ==
    ASSUME NEW C, ConnTyped(C), NEW s \in Streams, NEW D, D = ReadyToRead(C, s)
    PROVE  /\ Touches(C, D, s) /\ D.st = C.st /\ D.w = C.w /\ D.c = C.c
           /\ Range(D.r) = Range(C.r) \cup {s}
  <1>1. /\ D = [st |-> D.st, w |-> D.w, r |-> D.r, c |-> D.c,
                timer |-> D.timer, top |-> D.top, hash |-> D.hash, err |-> D.err]
        /\ D.st = C.st /\ D.w = C.w /\ D.r = Add(C.r, s) /\ D.c = C.c
        /\ D.top = C.top /\ D.hash = C.hash /\ D.err = C.err
    BY DEF ConnTyped, ReadyToRead
  <1>2. D.r \in Lists /\ Range(D.r) = Range(C.r) \cup {s}
    BY <1>1, AddList DEF ConnTyped
  <1>3. ConnTyped(D)
    BY <1>1, <1>2 DEF ConnTyped
  <1> QED
    BY <1>1, <1>2, <1>3 DEF Touches

LEMMA ShutdownWriteTouches ==
    ASSUME NEW C, ConnTyped(C), NEW s \in Streams, NEW D, D = ShutdownWrite(C, s)
    PROVE  /\ Touches(C, D, s) /\ D.st = C.st /\ D.r = C.r /\ D.c = C.c
           /\ Range(D.w) = Range(C.w) \ {s}
  <1>1. /\ D = [st |-> D.st, w |-> D.w, r |-> D.r, c |-> D.c,
                timer |-> D.timer, top |-> D.top, hash |-> D.hash, err |-> D.err]
        /\ D.st = C.st /\ D.r = C.r /\ D.w = Del(C.w, s) /\ D.c = C.c
        /\ D.top = C.top /\ D.hash = C.hash /\ D.err = C.err
    BY DEF ConnTyped, ShutdownWrite
  <1>2. D.w \in Lists /\ Range(D.w) = Range(C.w) \ {s}
    BY <1>1, DelList DEF ConnTyped
  <1>3. ConnTyped(D)
    BY <1>1, <1>2 DEF ConnTyped
  <1> QED
    BY <1>1, <1>2, <1>3 DEF Touches

LEMMA ReadyToWriteTouches ==
    ASSUME NEW C, ConnTyped(C), NEW s \in Streams, NEW D, D = ReadyToWrite(C, s)
    PROVE  /\ Touches(C, D, s) /\ D.st = C.st /\ D.r = C.r /\ D.c = C.c
           /\ Range(D.w) = Range(C.w) \cup {s}
  <1>1. /\ D = [st |-> D.st, w |-> D.w, r |-> D.r, c |-> D.c,
                timer |-> D.timer, top |-> D.top, hash |-> D.hash, err |-> D.err]
        /\ D.st = C.st /\ D.r = C.r /\ D.w = Add(C.w, s) /\ D.c = C.c
        /\ D.top = C.top /\ D.hash = C.hash /\ D.err = C.err
    BY DEF ConnTyped, ReadyToWrite
  <1>2. D.w \in Lists /\ Range(D.w) = Range(C.w) \cup {s}
    BY <1>1, AddList DEF ConnTyped
  <1>3. ConnTyped(D)
    BY <1>1, <1>2 DEF ConnTyped
  <1> QED
    BY <1>1, <1>2, <1>3 DEF Touches

-----------------------------------------------------------------------------
(* The invariant of one stream *)

\* What the two states of stream s say about its data, and why it waits to be
\* closed: it was refused, it was reset, or both parts have ended.
Sound(s, x) ==
    /\ x.life = "none" => x = Stream
    /\ RecvIsReset(x) => SendIsReset(x)
    /\ x.rcv \in {"DATA_RECVD", "DATA_READ"} => x.det /\ x.got = Size
    /\ x.rcv = "DATA_READ" => x.read = Size
    /\ x.snd = "DATA_SENT" => x.tx["fin"] \in {"sent", "acked"} /\ x.tx["data"] # "queued"
    /\ x.snd = "DATA_RECVD" => x.tx["fin"] = "acked" /\ x.tx["data"] \in {"no", "acked"}
    /\ x.tx["fin"] # "no" => "FIN_WRITE" \in x.flags
    /\ "NEED_CLOSE" \in x.flags /\ s \notin SendOnly \cup RecvOnly =>
          \/ "DISCARDED" \in x.flags \/ SendIsReset(x)
          \/ x.snd = "DATA_RECVD" /\ x.rcv = "DATA_READ"

\* The lists stream s is in, or has to be in.
Listed(C, s) ==
    /\ s \in Range(C.w) \cup Range(C.r) \cup Range(C.c) => C.st[s].life = "live"
    /\ s \in Range(C.c) => "NEED_CLOSE" \in C.st[s].flags
    /\ C.st[s].life = "live" /\ s \notin SendOnly /\ C.st[s].rcv = "RESET_RECVD" => s \in Range(C.r)

\* A live stream of which all this holds
At(C, s) ==
    ConnTyped(C) /\ C.st[s].life = "live" /\ Sound(s, C.st[s]) /\ Listed(C, s)

\* An operation on s keeps it so and touches no other stream; a stream that waits
\* to be closed goes on waiting and is not put in the list again.
Keeps(C, D, s) ==
    /\ Touches(C, D, s) /\ At(D, s)
    /\ "NEED_CLOSE" \in C.st[s].flags => "NEED_CLOSE" \in D.st[s].flags /\ D.c = C.c

LEMMA KeepsTwice ==
    ASSUME NEW C, NEW D, NEW E, NEW s, Keeps(C, D, s), Keeps(D, E, s)
    PROVE  Keeps(C, E, s)
  BY TouchesTwice DEF Keeps

\* Writing the fields of a live stream
LEMMA PutKeeps ==
    ASSUME NEW C, NEW s \in Streams, At(C, s),
           NEW x \in StreamRec, x.life = "live", Sound(s, x),
           "NEED_CLOSE" \in C.st[s].flags => "NEED_CLOSE" \in x.flags,
           x.rcv = "RESET_RECVD" => s \in SendOnly \/ C.st[s].rcv = "RESET_RECVD"
    PROVE  Keeps(C, Put(C, s, x), s) /\ Put(C, s, x).st[s] = x
  <1>1. PICK D : D = Put(C, s, x)
    BY Zenon
  <1>2. Touches(C, D, s) /\ SameLists(C, D) /\ D.st[s] = x /\ ConnTyped(D)
    BY <1>1, PutTouches DEF At, Touches
  <1> QED
    BY <1>1, <1>2 DEF Keeps, At, Listed, SameLists

LEMMA PutReadyKeeps ==
    ASSUME NEW C, NEW s \in Streams, At(C, s),
           NEW x \in StreamRec, x.life = "live", Sound(s, x),
           "NEED_CLOSE" \in C.st[s].flags => "NEED_CLOSE" \in x.flags
    PROVE  Keeps(C, ReadyToRead(Put(C, s, x), s), s)
  <1>1. PICK D : D = Put(C, s, x)
    BY Zenon
  <1>2. Touches(C, D, s) /\ SameLists(C, D) /\ D.st[s] = x /\ ConnTyped(D)
    BY <1>1, PutTouches DEF At, Touches
  <1>3. PICK E : E = ReadyToRead(D, s)
    BY Zenon
  <1>4. Touches(D, E, s) /\ E.st = D.st /\ E.w = D.w /\ E.c = D.c /\ Range(E.r) = Range(D.r) \cup {s}
    BY <1>2, <1>3, ReadyToReadTouches
  <1>5. Touches(C, E, s) /\ ConnTyped(E)
    BY <1>2, <1>4, TouchesTwice DEF Touches
  <1> QED
    BY <1>1, <1>2, <1>3, <1>4, <1>5 DEF Keeps, At, Listed, SameLists

LEMMA ReadyToReadKeeps ==
    ASSUME NEW C, NEW s \in Streams, At(C, s)
    PROVE  Keeps(C, ReadyToRead(C, s), s)
  <1>1. PICK E : E = ReadyToRead(C, s)
    BY Zenon
  <1>2. Touches(C, E, s) /\ E.st = C.st /\ E.w = C.w /\ E.c = C.c /\ Range(E.r) = Range(C.r) \cup {s}
    BY <1>1, ReadyToReadTouches DEF At
  <1> QED
    BY <1>1, <1>2 DEF Keeps, At, Listed, Touches

LEMMA ReadyToWriteKeeps ==
    ASSUME NEW C, NEW s \in Streams, At(C, s)
    PROVE  Keeps(C, ReadyToWrite(C, s), s)
  <1>1. PICK E : E = ReadyToWrite(C, s)
    BY Zenon
  <1>2. Touches(C, E, s) /\ E.st = C.st /\ E.r = C.r /\ E.c = C.c /\ Range(E.w) = Range(C.w) \cup {s}
    BY <1>1, ReadyToWriteTouches DEF At
  <1> QED
    BY <1>1, <1>2 DEF Keeps, At, Listed, Touches

LEMMA ShutdownWriteKeeps ==
    ASSUME NEW C, NEW s \in Streams, At(C, s)
    PROVE  Keeps(C, ShutdownWrite(C, s), s) /\ ShutdownWrite(C, s).st = C.st
  <1>1. PICK E : E = ShutdownWrite(C, s)
    BY Zenon
  <1>2. Touches(C, E, s) /\ E.st = C.st /\ E.r = C.r /\ E.c = C.c /\ Range(E.w) = Range(C.w) \ {s}
    BY <1>1, ShutdownWriteTouches DEF At
  <1> QED
    BY <1>1, <1>2 DEF Keeps, At, Listed, Touches

\* A stream is taken off the read list only when no reset waits to be seen.
LEMMA ShutdownReadKeeps ==
    ASSUME NEW C, NEW s \in Streams, At(C, s),
           s \in SendOnly \/ C.st[s].rcv # "RESET_RECVD"
    PROVE  Keeps(C, ShutdownRead(C, s), s) /\ ShutdownRead(C, s).st = C.st
  <1>1. PICK E : E = ShutdownRead(C, s)
    BY Zenon
  <1>2. Touches(C, E, s) /\ E.st = C.st /\ E.w = C.w /\ E.c = C.c /\ Range(E.r) = Range(C.r) \ {s}
    BY <1>1, ShutdownReadTouches DEF At
  <1> QED
    BY <1>1, <1>2 DEF Keeps, At, Listed, Touches

\* rqc_stream_close_discarded_stream and the body of rqc_stream_maybe_need_close:
\* the stream joins the list of closing streams once.
LEMMA NeedCloseKeeps ==
    ASSUME NEW C, NEW s \in Streams, At(C, s), C.st[s].rcv # "RESET_RECVD" \/ s \in SendOnly,
           s \notin SendOnly \cup RecvOnly =>
              \/ "DISCARDED" \in C.st[s].flags \/ SendIsReset(C.st[s])
              \/ C.st[s].snd = "DATA_RECVD" /\ C.st[s].rcv = "DATA_READ"
    PROVE  Keeps(C, NeedClose(C, s), s) /\ NeedClose(C, s).st[s].rcv = C.st[s].rcv
  <1>1. CASE "NEED_CLOSE" \in C.st[s].flags
    BY <1>1, TouchesItself DEF NeedClose, Keeps, At
  <1>2. CASE "NEED_CLOSE" \notin C.st[s].flags
    <2>1. PICK x : x = [C.st[s] EXCEPT !.flags = @ \cup {"NEED_CLOSE"}]
      BY Zenon
    <2>2. C.st[s] \in StreamRec /\ Sound(s, C.st[s]) /\ C.st[s].life = "live"
      BY DEF At, ConnTyped
    <2>3. /\ x \in StreamRec /\ x.life = "live" /\ x.snd = C.st[s].snd /\ x.rcv = C.st[s].rcv
          /\ x.flags = C.st[s].flags \cup {"NEED_CLOSE"}
          /\ x.got = C.st[s].got /\ x.det = C.st[s].det /\ x.read = C.st[s].read /\ x.tx = C.st[s].tx
      BY <2>1, <2>2 DEF StreamRec
    <2>4. Sound(s, x)
      BY <2>2, <2>3 DEF Sound, SendIsReset, RecvIsReset
    <2>5. PICK D : D = [C EXCEPT !.st[s].flags = @ \cup {"NEED_CLOSE"}, !.timer = TRUE, !.c = Append(@, s)]
      BY Zenon
    <2>6. /\ D = [st |-> D.st, w |-> D.w, r |-> D.r, c |-> D.c,
                  timer |-> D.timer, top |-> D.top, hash |-> D.hash, err |-> D.err]
          /\ D.st = [C.st EXCEPT ![s] = x] /\ D.w = C.w /\ D.r = C.r /\ D.c = Append(C.c, s)
          /\ D.top = C.top /\ D.hash = C.hash /\ D.err = C.err
      BY <2>1, <2>5, Zenon DEF At, ConnTyped
    <2>7. D.st \in [Streams -> StreamRec] /\ D.st[s] = x /\ \A t \in Streams \ {s} : D.st[t] = C.st[t]
      BY <2>3, <2>6 DEF At, ConnTyped
    <2>8. D.c \in Lists /\ Range(D.c) = Range(C.c) \cup {s}
      BY <1>2, <2>6, AppendList DEF At, ConnTyped, Listed
    <2>9. ConnTyped(D)
      BY <2>6, <2>7, <2>8 DEF ConnTyped, At
    <2>10. Touches(C, D, s)
      BY <2>6, <2>7, <2>8, <2>9 DEF Touches
    <2>11. Keeps(C, D, s)
      <3>1. Listed(D, s)
        BY <2>3, <2>6, <2>7 DEF At, Listed
      <3> QED
        BY <1>2, <2>3, <2>4, <2>7, <2>9, <2>10, <3>1 DEF Keeps, At
    <2>12. PICK E : E = ShutdownRead(D, s)
      BY Zenon
    <2>13. Keeps(D, E, s) /\ E.st = D.st
      BY <2>3, <2>7, <2>11, <2>12, ShutdownReadKeeps DEF Keeps
    <2>14. PICK F : F = ShutdownWrite(E, s)
      BY Zenon
    <2>15. Keeps(E, F, s) /\ F.st = E.st
      BY <2>13, <2>14, ShutdownWriteKeeps DEF Keeps
    <2>16. NeedClose(C, s) = F
      BY <1>2, <2>5, <2>12, <2>14 DEF NeedClose
    <2>17. Keeps(C, F, s)
      BY <2>11, <2>13, <2>15, KeepsTwice
    <2> QED
      BY <2>3, <2>7, <2>13, <2>15, <2>16, <2>17
  <1> QED
    BY <1>1, <1>2

LEMMA MaybeNeedCloseKeeps ==
    ASSUME NEW C, NEW s \in Streams, At(C, s)
    PROVE  Keeps(C, MaybeNeedClose(C, s), s) /\ MaybeNeedClose(C, s).st[s].rcv = C.st[s].rcv
  <1>1. CASE ~IsTerminal(C, s)
    BY <1>1, TouchesItself DEF MaybeNeedClose, Keeps, At
  <1>2. CASE IsTerminal(C, s)
    <2>1. C.st[s].rcv # "RESET_RECVD" \/ s \in SendOnly
      BY <1>2 DEF IsTerminal, RecvDone
    <2>2. s \notin SendOnly \cup RecvOnly =>
              \/ "DISCARDED" \in C.st[s].flags \/ SendIsReset(C.st[s])
              \/ C.st[s].snd = "DATA_RECVD" /\ C.st[s].rcv = "DATA_READ"
      BY <1>2 DEF IsTerminal, RecvDone, SendDone, SendIsReset, RecvIsReset, At, Sound
    <2> QED
      BY <1>2, <2>1, <2>2, NeedCloseKeeps DEF MaybeNeedClose
  <1> QED
    BY <1>1, <1>2

-----------------------------------------------------------------------------
(* The operations on a live stream *)

LEMMA StreamTyped ==
    ASSUME NEW C, NEW s \in Streams, At(C, s)
    PROVE  C.st[s] \in StreamRec /\ Sound(s, C.st[s]) /\ C.st[s].life = "live"
  BY DEF At, ConnTyped

\* A stream record is its eight fields.
LEMMA StreamFields ==
    ASSUME NEW x \in StreamRec
    PROVE  x = [life |-> x.life, snd |-> x.snd, rcv |-> x.rcv, flags |-> x.flags,
                got |-> x.got, det |-> x.det, read |-> x.read, tx |-> x.tx]
  BY DEF StreamRec

LEMMA ReadResetKeeps ==
    ASSUME NEW C, NEW s \in Streams, At(C, s), RecvIsReset(C.st[s])
    PROVE  Keeps(C, ReadReset(C, s), s)
  <1>0. PICK x0 \in StreamRec : x0 = C.st[s] /\ x0.life = "live" /\ Sound(s, x0)
    BY StreamTyped
  <1>1. PICK x : x = [C.st[s] EXCEPT !.rcv = "RESET_READ"]
    BY Zenon
  <1>2. /\ x \in StreamRec /\ x.life = "live" /\ x.snd = x0.snd /\ x.rcv = "RESET_READ"
        /\ x.flags = x0.flags /\ x.tx = x0.tx
    BY <1>0, <1>1 DEF StreamRec
  <1>3. Sound(s, x)
    BY <1>0, <1>2 DEF Sound, SendIsReset, RecvIsReset
  <1>4. PICK D : D = Put(C, s, x)
    BY Zenon
  <1>5. Keeps(C, D, s) /\ D.st[s] = x
    BY <1>0, <1>2, <1>3, <1>4, PutKeeps
  <1>6. PICK E : E = ShutdownRead(D, s)
    BY Zenon
  <1>7. Keeps(D, E, s)
    BY <1>2, <1>5, <1>6, ShutdownReadKeeps DEF Keeps
  <1>8. PICK F : F = MaybeNeedClose(E, s)
    BY Zenon
  <1>9. Keeps(E, F, s)
    BY <1>7, <1>8, MaybeNeedCloseKeeps DEF Keeps
  <1>10. ReadReset(C, s) = F
    BY <1>1, <1>4, <1>6, <1>8 DEF ReadReset, Put
  <1> QED
    BY <1>5, <1>7, <1>9, <1>10, KeepsTwice

\* rqc_stream_recv
LEMMA RecvKeeps ==
    ASSUME NEW C, NEW s \in Streams, At(C, s)
    PROVE  Keeps(C, Recv(C, s), s)
  <1>1. CASE RecvIsReset(C.st[s])
    BY <1>1, ReadResetKeeps DEF Recv
  <1>2. CASE ~RecvIsReset(C.st[s])
    <2>0. PICK x0 \in StreamRec : x0 = C.st[s] /\ x0.life = "live" /\ Sound(s, x0)
      BY StreamTyped
    <2>1. PICK x : x = [x0 EXCEPT !.read = x0.got]
      BY Zenon
    <2>2. /\ x \in StreamRec /\ x.life = "live" /\ x.snd = x0.snd /\ x.rcv = x0.rcv
          /\ x.flags = x0.flags /\ x.tx = x0.tx
          /\ x.got = x0.got /\ x.det = x0.det /\ x.read = x0.got
      BY <2>0, <2>1 DEF StreamRec
    <2>3. Sound(s, x)
      BY <2>0, <2>2 DEF Sound, SendIsReset, RecvIsReset
    <2>4. PICK D : D = Put(C, s, x)
      BY Zenon
    <2>5. Keeps(C, D, s) /\ D.st[s] = x
      BY <2>0, <2>2, <2>3, <2>4, PutKeeps
    <2>6. D = [C EXCEPT !.st[s].read = C.st[s].got]
      BY <2>0, <2>1, <2>4 DEF Put
    <2>7. CASE x.det /\ x.read = Size /\ x.rcv = "DATA_RECVD"
      <3>1. PICK y : y = [x EXCEPT !.rcv = "DATA_READ"]
        BY Zenon
      <3>2. /\ y \in StreamRec /\ y.life = "live" /\ y.snd = x.snd /\ y.rcv = "DATA_READ"
            /\ y.flags = x.flags /\ y.tx = x.tx
            /\ y.got = x.got /\ y.det = x.det /\ y.read = x.read
        BY <2>2, <3>1 DEF StreamRec
      <3>3. Sound(s, y)
        BY <2>3, <2>7, <3>2 DEF Sound, SendIsReset, RecvIsReset
      <3>4. PICK E : E = Put(D, s, y)
        BY Zenon
      <3>5. Keeps(D, E, s) /\ E.st[s] = y
        BY <2>5, <3>2, <3>3, <3>4, PutKeeps DEF Keeps
      <3>6. E = [D EXCEPT !.st[s].rcv = "DATA_READ"]
        BY <2>5, <3>1, <3>4 DEF Put
      <3>7. PICK F : F = MaybeNeedClose(E, s)
        BY Zenon
      <3>8. Keeps(E, F, s) /\ F.st[s].rcv = "DATA_READ"
        BY <3>2, <3>5, <3>7, MaybeNeedCloseKeeps DEF Keeps
      <3>9. PICK G : G = ShutdownRead(F, s)
        BY Zenon
      <3>10. Keeps(F, G, s)
        BY <3>8, <3>9, ShutdownReadKeeps DEF Keeps
      <3>11. Recv(C, s) = G
        BY <1>2, <2>5, <2>6, <2>7, <3>6, <3>7, <3>9, Zenon DEF Recv
      <3>12. Keeps(C, F, s)
        BY <2>5, <3>5, <3>8, KeepsTwice
      <3> QED
        BY <3>10, <3>11, <3>12, KeepsTwice
    <2>8. CASE ~(x.det /\ x.read = Size /\ x.rcv = "DATA_RECVD")
      <3>1. Recv(C, s) = ShutdownRead(D, s)
        BY <1>2, <2>5, <2>6, <2>8, Zenon DEF Recv
      <3>2. Keeps(D, ShutdownRead(D, s), s)
        <4>1. At(D, s) /\ D.st[s].rcv # "RESET_RECVD"
          BY <1>2, <2>0, <2>2, <2>5 DEF Keeps, RecvIsReset
        <4> QED
          BY <4>1, ShutdownReadKeeps
      <3> QED
        BY <2>5, <3>1, <3>2, KeepsTwice
    <2> QED
      BY <2>7, <2>8
  <1> QED
    BY <1>1, <1>2

\* rqc_stream_peek
LEMMA PeekKeeps ==
    ASSUME NEW C, NEW s \in Streams, At(C, s)
    PROVE  Keeps(C, Peek(C, s), s)
  <1>1. CASE RecvIsReset(C.st[s])
    BY <1>1, ReadResetKeeps DEF Peek
  <1>2. CASE ~RecvIsReset(C.st[s])
    BY <1>2, ShutdownReadKeeps DEF Peek, RecvIsReset
  <1> QED
    BY <1>1, <1>2

\* rqc_stream_send: FIN is the last thing a stream queues.
Queue(x, k) ==
    [x EXCEPT !.tx[k] = "queued", !.flags = IF k = "fin" THEN @ \cup {"FIN_WRITE"} ELSE @]

LEMMA QueueSound ==
    ASSUME NEW s, NEW x \in StreamRec, x.life = "live", Sound(s, x),
           ~SendIsReset(x), "FIN_WRITE" \notin x.flags,
           NEW k \in {"data", "fin"}, NEW y, y = Queue(x, k)
    PROVE  /\ y \in StreamRec /\ y.life = "live" /\ Sound(s, y)
           /\ y.rcv = x.rcv /\ x.flags \subseteq y.flags
  <1> DEFINE F == IF k = "fin" THEN x.flags \cup {"FIN_WRITE"} ELSE x.flags
  <1>1. PICK T : T = [x.tx EXCEPT ![k] = "queued"]
    BY Zenon
  <1>2. x.tx \in [Frame -> {"no", "queued", "sent", "acked"}] /\ k \in Frame /\ "fin" \in Frame
    BY DEF StreamRec, Frame
  <1>3. T \in [Frame -> {"no", "queued", "sent", "acked"}] /\ T[k] = "queued" /\ (k # "fin" => T["fin"] = x.tx["fin"])
    BY <1>1, <1>2
  <1>4. /\ F \in SUBSET {"APP_CLOSED", "NEED_CLOSE", "FIN_WRITE", "DISCARDED"}
        /\ x.flags \subseteq F /\ (k = "fin" => "FIN_WRITE" \in F)
        /\ (F # x.flags => k = "fin") /\ F \subseteq x.flags \cup {"FIN_WRITE"}
    BY DEF StreamRec
  <1>5. y = [x EXCEPT !.tx = T, !.flags = F]
    BY <1>1 DEF Queue
  <1> HIDE DEF F
  <1>6. /\ y \in StreamRec /\ y.life = "live" /\ y.snd = x.snd /\ y.rcv = x.rcv
        /\ y.flags = F /\ y.tx = T
        /\ y.got = x.got /\ y.det = x.det /\ y.read = x.read
    <2>1. y = [life |-> x.life, snd |-> x.snd, rcv |-> x.rcv, flags |-> F,
               got |-> x.got, det |-> x.det, read |-> x.read, tx |-> T]
      BY <1>5, StreamFields, Zenon
    <2> QED
      BY <1>3, <1>4, <2>1 DEF StreamRec
  <1>7. x.tx["fin"] = "no" /\ x.snd \notin {"DATA_SENT", "DATA_RECVD"}
    BY DEF Sound
  <1>8. Sound(s, y)
    BY <1>3, <1>4, <1>6, <1>7 DEF Sound, SendIsReset, RecvIsReset
  <1> QED
    BY <1>4, <1>6, <1>8

LEMMA SendKeeps ==
    ASSUME NEW C, NEW s \in Streams, At(C, s), NEW k \in {"data", "fin"}, NEW fits \in BOOLEAN
    PROVE  Keeps(C, Send(C, s, k, fits), s)
  <1>1. PICK x \in StreamRec : x = C.st[s] /\ x.life = "live" /\ Sound(s, x)
    BY StreamTyped
  <1>2. CASE SendIsReset(x) \/ "FIN_WRITE" \in x.flags
    BY <1>1, <1>2, ShutdownWriteKeeps DEF Send
  <1>3. CASE ~SendIsReset(x) /\ "FIN_WRITE" \notin x.flags /\ x.tx[k] # "no"
    BY <1>1, <1>3, TouchesItself DEF Send, Keeps, At
  <1>4. CASE ~SendIsReset(x) /\ "FIN_WRITE" \notin x.flags /\ x.tx[k] = "no" /\ ~fits
    BY <1>1, <1>4, ReadyToWriteKeeps DEF Send
  <1>5. CASE ~SendIsReset(x) /\ "FIN_WRITE" \notin x.flags /\ x.tx[k] = "no" /\ fits
    <2>2. PICK y : y = Queue(x, k)
      BY Zenon
    <2>3. y \in StreamRec /\ y.life = "live" /\ Sound(s, y) /\ y.rcv = x.rcv /\ x.flags \subseteq y.flags
      BY <1>1, <1>5, <2>2, QueueSound
    <2>4. PICK D : D = Put(C, s, y)
      BY Zenon
    <2>5. Keeps(C, D, s)
      BY <1>1, <2>3, <2>4, PutKeeps
    <2>6. Send(C, s, k, fits) = ShutdownWrite(D, s)
      BY <1>1, <1>5, <2>2, <2>4 DEF Send, Put, Queue
    <2>7. Keeps(D, ShutdownWrite(D, s), s)
      BY <2>5, ShutdownWriteKeeps DEF Keeps
    <2> QED
      BY <2>5, <2>6, <2>7, KeepsTwice
  <1> QED
    BY <1>2, <1>3, <1>4, <1>5

\* rqc_write_reset_stream_to_packet, after the stream's frames were dropped or not
Dropped(x) == [x EXCEPT !.tx = [@ EXCEPT !["data"] = "no", !["fin"] = "no"]]

Resetting(x) == [x EXCEPT !.snd = "RESET_SENT", !.tx["reset"] = "queued"]

LEMMA ResetSound ==
    ASSUME NEW s, NEW x \in StreamRec, x.life = "live", Sound(s, x),
           NEW y, y = Resetting(x)
    PROVE  /\ y \in StreamRec /\ y.life = "live" /\ Sound(s, y) /\ SendIsReset(y)
           /\ y.rcv = x.rcv /\ y.flags = x.flags
  <1>1. PICK T : T = [x.tx EXCEPT !["reset"] = "queued"]
    BY Zenon
  <1>2. x.tx \in [Frame -> {"no", "queued", "sent", "acked"}] /\ "reset" \in Frame /\ "fin" \in Frame
    BY DEF StreamRec, Frame
  <1>3. T \in [Frame -> {"no", "queued", "sent", "acked"}] /\ T["fin"] = x.tx["fin"]
    BY <1>1, <1>2
  <1>4. y = [x EXCEPT !.snd = "RESET_SENT", !.tx = T]
    BY <1>1 DEF Resetting
  <1>5. /\ y \in StreamRec /\ y.life = "live" /\ y.snd = "RESET_SENT" /\ y.rcv = x.rcv
        /\ y.flags = x.flags /\ y.tx = T
        /\ y.got = x.got /\ y.det = x.det /\ y.read = x.read
    <2>1. y = [life |-> x.life, snd |-> "RESET_SENT", rcv |-> x.rcv, flags |-> x.flags,
               got |-> x.got, det |-> x.det, read |-> x.read, tx |-> T]
      <3>1. x = [life |-> x.life, snd |-> x.snd, rcv |-> x.rcv, flags |-> x.flags,
                 got |-> x.got, det |-> x.det, read |-> x.read, tx |-> x.tx]
        BY StreamFields
      <3> QED
        BY <1>4, <3>1, Zenon
    <2>2. /\ y.life = x.life /\ y.snd = "RESET_SENT" /\ y.rcv = x.rcv /\ y.flags = x.flags
          /\ y.got = x.got /\ y.det = x.det /\ y.read = x.read /\ y.tx = T
      BY <2>1
    <2>3. y \in StreamRec
      BY <1>3, <2>1 DEF StreamRec
    <2> QED
      BY <2>2, <2>3
  <1>6. Sound(s, y)
    BY <1>3, <1>5 DEF Sound, SendIsReset, RecvIsReset
  <1> QED
    BY <1>5, <1>6 DEF SendIsReset

LEMMA DropResetSound ==
    ASSUME NEW s, NEW x \in StreamRec, x.life = "live", Sound(s, x),
           NEW z, z = Dropped(x), NEW y, y = Resetting(z)
    PROVE  /\ y \in StreamRec /\ y.life = "live" /\ Sound(s, y) /\ SendIsReset(y)
           /\ y.rcv = x.rcv /\ y.flags = x.flags
           /\ z \in StreamRec
  <1>1. PICK T : T = [x.tx EXCEPT !["data"] = "no", !["fin"] = "no"]
    BY Zenon
  <1>2. PICK U : U = [T EXCEPT !["reset"] = "queued"]
    BY Zenon
  <1>3. x.tx \in [Frame -> {"no", "queued", "sent", "acked"}] /\ Frame = {"data", "fin", "reset"}
    BY DEF StreamRec, Frame
  <1>4. T \in [Frame -> {"no", "queued", "sent", "acked"}] /\ T["fin"] = "no"
    BY <1>1, <1>3
  <1>5. U \in [Frame -> {"no", "queued", "sent", "acked"}] /\ U["fin"] = "no"
    BY <1>2, <1>3, <1>4
  <1>6. /\ z \in StreamRec /\ z.life = "live" /\ z.snd = x.snd /\ z.rcv = x.rcv
        /\ z.flags = x.flags /\ z.tx = T
        /\ z.got = x.got /\ z.det = x.det /\ z.read = x.read
    BY <1>1, <1>4 DEF StreamRec, Dropped
  <1>7. y = [z EXCEPT !.snd = "RESET_SENT", !.tx = U]
    BY <1>2, <1>6, Zenon DEF Resetting
  <1>8. /\ y \in StreamRec /\ y.life = "live" /\ y.snd = "RESET_SENT" /\ y.rcv = z.rcv
        /\ y.flags = z.flags /\ y.tx = U
        /\ y.got = z.got /\ y.det = z.det /\ y.read = z.read
    <2>1. y = [life |-> z.life, snd |-> "RESET_SENT", rcv |-> z.rcv, flags |-> z.flags,
               got |-> z.got, det |-> z.det, read |-> z.read, tx |-> U]
      BY <1>6, <1>7, StreamFields, Zenon
    <2> QED
      BY <1>5, <1>6, <2>1 DEF StreamRec
  <1>9. Sound(s, y)
    BY <1>5, <1>6, <1>8 DEF Sound, SendIsReset, RecvIsReset
  <1> QED
    BY <1>6, <1>8, <1>9 DEF SendIsReset

LEMMA DropResetKeeps ==
    ASSUME NEW C, NEW s \in Streams, At(C, s), NEW D, D = WriteReset(Drop(C, s), s)
    PROVE  Keeps(C, D, s) /\ SendIsReset(D.st[s]) /\ D.st[s].rcv = C.st[s].rcv /\ SameLists(C, D)
  <1>1. PICK x \in StreamRec : x = C.st[s] /\ x.life = "live" /\ Sound(s, x)
    BY StreamTyped
  <1>2. PICK z : z = Dropped(x)
    BY Zenon
  <1>3. PICK y : y = Resetting(z)
    BY Zenon
  <1>4. /\ y \in StreamRec /\ y.life = "live" /\ Sound(s, y) /\ SendIsReset(y)
        /\ y.rcv = x.rcv /\ y.flags = x.flags /\ z \in StreamRec
    BY <1>1, <1>2, <1>3, DropResetSound
  <1>5. Drop(C, s) = Put(C, s, z)
    BY <1>1, <1>2 DEF Drop, Put, Dropped
  <1>6. Put(C, s, z).st[s] = z
    BY <1>4, PutTouches DEF At
  <1>7. D = Put(Put(C, s, z), s, y)
    BY <1>3, <1>5, <1>6, Zenon DEF WriteReset, Put, Resetting
  <1>8. D = Put(C, s, y)
    BY <1>7, PutTwice DEF At
  <1>9. Keeps(C, D, s) /\ D.st[s] = y
    BY <1>1, <1>4, <1>8, PutKeeps
  <1>10. SameLists(C, D)
    BY <1>4, <1>8, PutTouches DEF At
  <1> QED
    BY <1>1, <1>4, <1>9, <1>10

\* rqc_stream_close
LEMMA CloseKeeps ==
    ASSUME NEW C, NEW s \in Streams, At(C, s), NEW E, E = Close(C, s)
    PROVE  Keeps(C, E, s) /\ s \in Range(E.r) /\ E.c = C.c
  <1>1. PICK x \in StreamRec : x = C.st[s] /\ x.life = "live" /\ Sound(s, x)
    BY StreamTyped
  <1>2. PICK y : y = [x EXCEPT !.flags = x.flags \cup {"APP_CLOSED"}]
    BY Zenon
  <1>3. /\ y \in StreamRec /\ y.life = "live" /\ y.snd = x.snd /\ y.rcv = x.rcv
        /\ y.flags = x.flags \cup {"APP_CLOSED"} /\ y.tx = x.tx
        /\ y.got = x.got /\ y.det = x.det /\ y.read = x.read
    BY <1>2, <1>1 DEF StreamRec
  <1>4. Sound(s, y)
    BY <1>1, <1>3, Zenon DEF Sound, SendIsReset, RecvIsReset
  <1>5. PICK C1 : C1 = Put(C, s, y)
    BY Zenon
  <1>6. Keeps(C, C1, s) /\ SameLists(C, C1)
    BY <1>1, <1>3, <1>4, <1>5, PutKeeps, PutTouches, Zenon DEF At
  <1>7. C1 = [C EXCEPT !.st[s].flags = @ \cup {"APP_CLOSED"}]
    BY <1>1, <1>2, <1>5 DEF Put
  <1>8. PICK C2 : C2 = IF SendIsReset(C1.st[s]) THEN C1 ELSE WriteReset(Drop(C1, s), s)
    BY Zenon
  <1>9. Keeps(C1, C2, s) /\ SameLists(C1, C2)
    <2>1. At(C1, s)
      BY <1>6 DEF Keeps
    <2>2. CASE SendIsReset(C1.st[s])
      BY <1>8, <2>1, <2>2, TouchesItself DEF Keeps, At, SameLists
    <2>3. CASE ~SendIsReset(C1.st[s])
      BY <1>8, <2>1, <2>3, DropResetKeeps
    <2> QED
      BY <2>2, <2>3
  <1>10. PICK C3 : C3 = ShutdownWrite(C2, s)
    BY Zenon
  <1>11. Keeps(C2, C3, s) /\ C3.c = C2.c
    <2>1. At(C2, s) /\ ConnTyped(C2)
      BY <1>9 DEF Keeps, At
    <2>2. Keeps(C2, C3, s)
      BY <1>10, <2>1, ShutdownWriteKeeps
    <2>3. C3.c = C2.c
      BY <1>10, <2>1, ShutdownWriteTouches
    <2> QED
      BY <2>2, <2>3
  <1>12. E = ReadyToRead(C3, s)
    BY <1>7, <1>8, <1>10 DEF Close
  <1>13. Keeps(C3, E, s) /\ E.c = C3.c /\ s \in Range(E.r)
    <2>1. At(C3, s) /\ ConnTyped(C3)
      BY <1>11 DEF Keeps, At
    <2>2. Keeps(C3, E, s)
      BY <1>12, <2>1, ReadyToReadKeeps
    <2>3. E.c = C3.c /\ Range(E.r) = Range(C3.r) \cup {s}
      BY <1>12, <2>1, ReadyToReadTouches
    <2> QED
      BY <2>2, <2>3
  <1>14. Keeps(C, C2, s)
    BY <1>6, <1>9, KeepsTwice
  <1>15. Keeps(C, C3, s)
    BY <1>11, <1>14, KeepsTwice
  <1> QED
    BY <1>6, <1>9, <1>11, <1>13, <1>15, KeepsTwice DEF SameLists

LEMMA NothingKeeps ==
    ASSUME NEW C, NEW s \in Streams, At(C, s)
    PROVE  Keeps(C, C, s)
  BY TouchesItself DEF Keeps, At

\* Any call of the application
LEMMA ApplyKeeps ==
    ASSUME NEW C, NEW s \in Streams, At(C, s),
           NEW call \in {"none", "recv", "peek", "data", "fin", "eagain", "close"}
    PROVE  Keeps(C, Apply(C, s, call), s)
  <1>1. CASE call = "none"
    BY <1>1, NothingKeeps DEF Apply
  <1>2. CASE call = "recv"
    BY <1>2, RecvKeeps DEF Apply
  <1>3. CASE call = "peek"
    BY <1>3, PeekKeeps DEF Apply
  <1>4. CASE call = "data"
    <2>1. Apply(C, s, call) = Send(C, s, "data", TRUE)
      BY <1>4 DEF Apply
    <2> QED
      BY <2>1, SendKeeps, Zenon
  <1>5. CASE call = "fin"
    <2>1. Apply(C, s, call) = Send(C, s, "fin", TRUE)
      BY <1>5 DEF Apply
    <2> QED
      BY <2>1, SendKeeps, Zenon
  <1>6. CASE call = "eagain"
    <2>1. Apply(C, s, call) = Send(C, s, "data", FALSE)
      BY <1>6 DEF Apply
    <2> QED
      BY <2>1, SendKeeps, Zenon
  <1>7. CASE call = "close"
    BY <1>7, CloseKeeps DEF Apply
  <1> QED
    BY <1>1, <1>2, <1>3, <1>4, <1>5, <1>6, <1>7

\* rqc_stream_drain_read
LEMMA DrainReadKeeps ==
    ASSUME NEW C, NEW s \in Streams, At(C, s)
    PROVE  Keeps(C, DrainRead(C, s), s)
  <1>1. CASE s \in SendOnly \/ RecvDone(C.st[s])
    <2>1. s \in SendOnly \/ C.st[s].rcv # "RESET_RECVD"
      BY <1>1 DEF RecvDone
    <2> QED
      BY <1>1, <2>1, ShutdownReadKeeps DEF DrainRead
  <1>2. CASE ~(s \in SendOnly \/ RecvDone(C.st[s]))
    BY <1>2, RecvKeeps DEF DrainRead
  <1> QED
    BY <1>1, <1>2

\* rqc_process_reset_stream_frame
LEMMA OnResetKeeps ==
    ASSUME NEW C, NEW s \in Streams, At(C, s)
    PROVE  Keeps(C, OnReset(C, s), s)
  <1>1. PICK D : D = IF SendIsReset(C.st[s]) THEN C ELSE WriteReset(Drop(C, s), s)
    BY Zenon
  <1>2. Keeps(C, D, s) /\ SendIsReset(D.st[s]) /\ D.st[s].rcv = C.st[s].rcv
    BY <1>1, NothingKeeps, DropResetKeeps
  <1>3. CASE RecvIsReset(C.st[s])
    BY <1>1, <1>2, <1>3 DEF OnReset
  <1>4. CASE ~RecvIsReset(C.st[s])
    <2>1. At(D, s)
      BY <1>2 DEF Keeps
    <2>2. PICK x \in StreamRec : x = D.st[s] /\ x.life = "live" /\ Sound(s, x)
      BY <2>1, StreamTyped
    <2>3. PICK y : y = [x EXCEPT !.rcv = "RESET_RECVD"]
      BY Zenon
    <2>4. /\ y \in StreamRec /\ y.life = "live" /\ y.snd = x.snd /\ y.rcv = "RESET_RECVD"
          /\ y.flags = x.flags /\ y.tx = x.tx
      BY <2>2, <2>3 DEF StreamRec
    <2>5. Sound(s, y)
      BY <1>2, <2>2, <2>4, Zenon DEF Sound, SendIsReset, RecvIsReset
    <2>6. Keeps(D, ReadyToRead(Put(D, s, y), s), s)
      BY <2>1, <2>2, <2>4, <2>5, PutReadyKeeps
    <2>7. OnReset(C, s) = ReadyToRead(Put(D, s, y), s)
      BY <1>1, <1>4, <2>2, <2>3 DEF OnReset, Put
    <2> QED
      BY <1>2, <2>6, <2>7, KeepsTwice
  <1> QED
    BY <1>3, <1>4

\* rqc_process_stop_sending_frame
LEMMA OnStopKeeps ==
    ASSUME NEW C, NEW s \in Streams, At(C, s)
    PROVE  Keeps(C, OnStop(C, s), s)
  <1>1. CASE SendIsReset(C.st[s])
    BY <1>1, NothingKeeps DEF OnStop
  <1>2. CASE ~SendIsReset(C.st[s])
    <2>1. PICK x \in StreamRec : x = C.st[s] /\ x.life = "live" /\ Sound(s, x)
      BY StreamTyped
    <2>2. PICK y : y = Resetting(x)
      BY Zenon
    <2>3. y \in StreamRec /\ y.life = "live" /\ Sound(s, y) /\ y.rcv = x.rcv /\ y.flags = x.flags
      BY <2>1, <2>2, ResetSound
    <2>4. OnStop(C, s) = Put(C, s, y)
      BY <1>2, <2>1, <2>2 DEF OnStop, WriteReset, Put, Resetting
    <2> QED
      BY <2>1, <2>3, <2>4, PutKeeps
  <1> QED
    BY <1>1, <1>2

\* The FIN and the byte of a STREAM frame, as the stream record takes them
Determined(x) == [x EXCEPT !.det = TRUE, !.rcv = IF @ = "RECV" THEN "SIZE_KNOWN" ELSE @]
Filled(x) == [x EXCEPT !.got = 1]
Complete(x) == [x EXCEPT !.rcv = IF @ = "SIZE_KNOWN" THEN "DATA_RECVD" ELSE @]

LEMMA DeterminedSound ==
    ASSUME NEW s, NEW x \in StreamRec, x.life = "live", Sound(s, x), ~RecvIsReset(x),
           NEW y, y = Determined(x)
    PROVE  /\ y \in StreamRec /\ y.life = "live" /\ Sound(s, y) /\ ~RecvIsReset(y)
           /\ y.flags = x.flags /\ y.det /\ y.got = x.got /\ y.read = x.read
  <1>1. PICK R : R = IF x.rcv = "RECV" THEN "SIZE_KNOWN" ELSE x.rcv
    BY Zenon
  <1>2. /\ R \in {"RECV", "SIZE_KNOWN", "DATA_RECVD", "DATA_READ", "RESET_RECVD", "RESET_READ"}
        /\ R \notin {"RESET_RECVD", "RESET_READ"}
        /\ R \in {"DATA_RECVD", "DATA_READ"} => R = x.rcv
    BY <1>1 DEF StreamRec, RecvIsReset
  <1>3. x = [life |-> x.life, snd |-> x.snd, rcv |-> x.rcv, flags |-> x.flags,
             got |-> x.got, det |-> x.det, read |-> x.read, tx |-> x.tx]
    BY StreamFields
  <1>4. y = [life |-> x.life, snd |-> x.snd, rcv |-> R, flags |-> x.flags,
             got |-> x.got, det |-> TRUE, read |-> x.read, tx |-> x.tx]
    BY <1>1, <1>3, Zenon DEF Determined
  <1>5. /\ y.life = x.life /\ y.snd = x.snd /\ y.rcv = R /\ y.flags = x.flags
        /\ y.got = x.got /\ y.det /\ y.read = x.read /\ y.tx = x.tx
    BY <1>4
  <1>6. y \in StreamRec
    BY <1>2, <1>4 DEF StreamRec
  <1>7. Sound(s, y)
    BY <1>1, <1>2, <1>5 DEF Sound, SendIsReset, RecvIsReset
  <1> QED
    BY <1>2, <1>5, <1>6, <1>7 DEF RecvIsReset

LEMMA FilledSound ==
    ASSUME NEW s, NEW x \in StreamRec, x.life = "live", Sound(s, x), Size = 1,
           NEW y, y = Filled(x)
    PROVE  /\ y \in StreamRec /\ y.life = "live" /\ Sound(s, y)
           /\ y.flags = x.flags /\ y.rcv = x.rcv /\ y.det = x.det /\ y.read = x.read
  <1>1. /\ y \in StreamRec
        /\ y.life = x.life /\ y.snd = x.snd /\ y.rcv = x.rcv /\ y.flags = x.flags
        /\ y.got = 1 /\ y.det = x.det /\ y.read = x.read /\ y.tx = x.tx
    BY DEF Filled, StreamRec
  <1>2. Sound(s, y)
    BY <1>1 DEF Sound, SendIsReset, RecvIsReset
  <1> QED
    BY <1>1, <1>2

LEMMA CompleteSound ==
    ASSUME NEW s, NEW x \in StreamRec, x.life = "live", Sound(s, x), x.det, x.got = Size, ~RecvIsReset(x),
           NEW y, y = Complete(x)
    PROVE  y \in StreamRec /\ y.life = "live" /\ Sound(s, y) /\ y.flags = x.flags
  <1>1. PICK R : R = IF x.rcv = "SIZE_KNOWN" THEN "DATA_RECVD" ELSE x.rcv
    BY Zenon
  <1>2. /\ R \in {"RECV", "SIZE_KNOWN", "DATA_RECVD", "DATA_READ", "RESET_RECVD", "RESET_READ"}
        /\ R \notin {"RESET_RECVD", "RESET_READ"}
        /\ R = "DATA_READ" <=> x.rcv = "DATA_READ"
    BY <1>1 DEF StreamRec, RecvIsReset
  <1>3. y = [x EXCEPT !.rcv = R]
    BY <1>1 DEF Complete
  <1>4. /\ y \in StreamRec
        /\ y.life = x.life /\ y.snd = x.snd /\ y.rcv = R /\ y.flags = x.flags
        /\ y.got = x.got /\ y.det = x.det /\ y.read = x.read /\ y.tx = x.tx
    BY <1>2, <1>3, Zenon DEF StreamRec
  <1>5. Sound(s, y)
    BY <1>2, <1>4 DEF Sound, SendIsReset, RecvIsReset
  <1> QED
    BY <1>4, <1>5

\* The last part of rqc_process_stream_frame wakes the reader.
Deliver(E, s) ==
    IF E.st[s].det /\ E.st[s].got = Size
    THEN ReadyToRead([E EXCEPT !.st[s].rcv = IF @ = "SIZE_KNOWN" THEN "DATA_RECVD" ELSE @], s)
    ELSE IF E.st[s].read < E.st[s].got THEN ReadyToRead(E, s) ELSE E

LEMMA ByteFrame ==
    ASSUME NEW C, NEW s
    PROVE  OnStream(C, s, FALSE) =
               IF RecvIsReset(C.st[s]) \/ C.st[s].got = 1 THEN C
               ELSE IF "DISCARDED" \in C.st[s].flags THEN C
               ELSE Deliver([C EXCEPT !.st[s].got = 1], s)
  BY SMT DEF OnStream, Deliver

LEMMA FinFrame ==
    ASSUME NEW C, NEW s
    PROVE  OnStream(C, s, TRUE) =
               LET D == [C EXCEPT !.st[s] = [C.st[s] EXCEPT !.det = TRUE,
                                       !.rcv = IF @ = "RECV" THEN "SIZE_KNOWN" ELSE @]] IN
               IF RecvIsReset(C.st[s]) \/ (C.st[s].got = Size /\ C.st[s].det /\ Size > 0) THEN C
               ELSE IF "DISCARDED" \in C.st[s].flags THEN NeedClose(D, s)
               ELSE Deliver(D, s)
  BY SMT DEF OnStream, Deliver

LEMMA DeliverKeeps ==
    ASSUME NEW C, NEW s \in Streams, At(C, s), ~RecvIsReset(C.st[s])
    PROVE  Keeps(C, Deliver(C, s), s)
  <1>1. PICK x \in StreamRec : x = C.st[s] /\ x.life = "live" /\ Sound(s, x)
    BY StreamTyped
  <1>2. CASE x.det /\ x.got = Size
    <2>1. PICK y : y = Complete(x)
      BY Zenon
    <2>2. y \in StreamRec /\ y.life = "live" /\ Sound(s, y) /\ y.flags = x.flags
      BY <1>1, <1>2, <2>1, CompleteSound
    <2>3. Deliver(C, s) = ReadyToRead(Put(C, s, y), s)
      BY <1>1, <1>2, <2>1 DEF Put, Complete, Deliver
    <2> QED
      BY <1>1, <2>2, <2>3, PutReadyKeeps
  <1>3. CASE ~(x.det /\ x.got = Size)
    <2>1. Deliver(C, s) = ReadyToRead(C, s) \/ Deliver(C, s) = C
      BY <1>1, <1>3 DEF Deliver
    <2> QED
      BY <2>1, ReadyToReadKeeps, NothingKeeps
  <1> QED
    BY <1>2, <1>3

\* rqc_process_stream_frame
LEMMA ByteKeeps ==
    ASSUME NEW C, NEW s \in Streams, At(C, s), Size = 1
    PROVE  Keeps(C, OnStream(C, s, FALSE), s)
  <1>1. PICK x \in StreamRec : x = C.st[s] /\ x.life = "live" /\ Sound(s, x)
    BY StreamTyped
  <1>2. CASE RecvIsReset(x) \/ x.got = 1 \/ "DISCARDED" \in x.flags
    <2>1. OnStream(C, s, FALSE) = C
      BY <1>1, <1>2, ByteFrame, Zenon
    <2> QED
      BY <2>1, NothingKeeps, Zenon
  <1>3. CASE ~(RecvIsReset(x) \/ x.got = 1 \/ "DISCARDED" \in x.flags)
    <2>1. PICK y : y = Filled(x)
      BY Zenon
    <2>2. y \in StreamRec /\ y.life = "live" /\ Sound(s, y) /\ y.flags = x.flags /\ y.rcv = x.rcv
      BY <1>1, <2>1, FilledSound
    <2>3. PICK E : E = Put(C, s, y)
      BY Zenon
    <2>4. Keeps(C, E, s) /\ E.st[s] = y
      BY <1>1, <2>2, <2>3, PutKeeps
    <2>5. OnStream(C, s, FALSE) = Deliver([C EXCEPT !.st[s].got = 1], s)
      BY <1>1, <1>3, ByteFrame, Zenon
    <2>6. E = [C EXCEPT !.st[s].got = 1]
      BY <1>1, <2>1, <2>3 DEF Put, Filled
    <2>7. Keeps(E, Deliver(E, s), s)
      BY <1>3, <2>2, <2>4, DeliverKeeps DEF Keeps, RecvIsReset
    <2> QED
      BY <2>4, <2>5, <2>6, <2>7, KeepsTwice, Zenon
  <1> QED
    BY <1>2, <1>3, Zenon

LEMMA FinKeeps ==
    ASSUME NEW C, NEW s \in Streams, At(C, s)
    PROVE  Keeps(C, OnStream(C, s, TRUE), s)
  <1>1. PICK x \in StreamRec : x = C.st[s] /\ x.life = "live" /\ Sound(s, x)
    BY StreamTyped
  <1>2. CASE RecvIsReset(x) \/ (x.got = Size /\ x.det /\ Size > 0)
    <2>1. OnStream(C, s, TRUE) = C
      BY <1>1, <1>2, FinFrame, Zenon
    <2> QED
      BY <2>1, NothingKeeps, Zenon
  <1>3. CASE ~(RecvIsReset(x) \/ (x.got = Size /\ x.det /\ Size > 0))
    <2>1. PICK y : y = Determined(x)
      BY Zenon
    <2>2. y \in StreamRec /\ y.life = "live" /\ Sound(s, y) /\ y.flags = x.flags /\ ~RecvIsReset(y)
      BY <1>1, <1>3, <2>1, DeterminedSound
    <2>3. PICK E : E = Put(C, s, y)
      BY Zenon
    <2>4. Keeps(C, E, s) /\ E.st[s] = y
      BY <1>1, <2>2, <2>3, PutKeeps DEF RecvIsReset
    <2>5. E = [C EXCEPT !.st[s] = [C.st[s] EXCEPT !.det = TRUE,
                                   !.rcv = IF @ = "RECV" THEN "SIZE_KNOWN" ELSE @]]
      BY <1>1, <2>1, <2>3 DEF Put, Determined
    <2>6. OnStream(C, s, TRUE) = IF "DISCARDED" \in x.flags THEN NeedClose(E, s) ELSE Deliver(E, s)
      BY <1>1, <1>3, <2>5, FinFrame, Zenon
    <2>7. At(E, s)
      BY <2>4 DEF Keeps
    <2>8. Keeps(E, Deliver(E, s), s)
      BY <2>2, <2>4, <2>7, DeliverKeeps
    <2>9. ASSUME "DISCARDED" \in x.flags PROVE Keeps(E, NeedClose(E, s), s)
      BY <2>2, <2>4, <2>7, <2>9, NeedCloseKeeps DEF RecvIsReset
    <2>10. Keeps(E, OnStream(C, s, TRUE), s)
      BY <2>6, <2>8, <2>9, Zenon
    <2> QED
      BY <2>4, <2>10, KeepsTwice, Zenon
  <1> QED
    BY <1>2, <1>3, Zenon

\* A frame of the stream leaves; FIN leaves after the data.
LeavesAs(x, k) ==
    [x EXCEPT !.tx[k] = "sent",
              !.snd = IF k = "fin" /\ @ \in {"READY", "SEND"} THEN "DATA_SENT"
                      ELSE IF k = "data" /\ @ = "READY" THEN "SEND" ELSE @]

LEMMA SentSound ==
    ASSUME NEW s, NEW x \in StreamRec, x.life = "live", Sound(s, x),
           NEW k \in Frame, x.tx[k] = "queued", k # "data" => x.tx["data"] # "queued",
           NEW y, y = LeavesAs(x, k)
    PROVE  y \in StreamRec /\ y.life = "live" /\ Sound(s, y) /\ y.flags = x.flags /\ y.rcv = x.rcv
  <1>1. PICK T : T = [x.tx EXCEPT ![k] = "sent"]
    BY Zenon
  <1>2. PICK R : R = IF k = "fin" /\ x.snd \in {"READY", "SEND"} THEN "DATA_SENT"
                     ELSE IF k = "data" /\ x.snd = "READY" THEN "SEND" ELSE x.snd
    OBVIOUS
  <1>3. /\ x.tx \in [Frame -> {"no", "queued", "sent", "acked"}]
        /\ x.snd \in {"READY", "SEND", "DATA_SENT", "DATA_RECVD", "RESET_SENT", "RESET_RECVD"}
    BY DEF StreamRec
  <1>4. R \in {"READY", "SEND", "DATA_SENT", "DATA_RECVD", "RESET_SENT", "RESET_RECVD"}
    BY <1>2, <1>3
  <1>5. /\ T \in [Frame -> {"no", "queued", "sent", "acked"}] /\ T[k] = "sent"
        /\ \A j \in Frame : j # k => T[j] = x.tx[j]
    BY <1>1, <1>3
  <1>6. x = [life |-> x.life, snd |-> x.snd, rcv |-> x.rcv, flags |-> x.flags,
             got |-> x.got, det |-> x.det, read |-> x.read, tx |-> x.tx]
    BY StreamFields
  <1>7. y = [life |-> x.life, snd |-> R, rcv |-> x.rcv, flags |-> x.flags,
             got |-> x.got, det |-> x.det, read |-> x.read, tx |-> T]
    BY <1>1, <1>2, <1>6, Zenon DEF LeavesAs
  <1>8. /\ y.life = x.life /\ y.snd = R /\ y.rcv = x.rcv /\ y.flags = x.flags
        /\ y.got = x.got /\ y.det = x.det /\ y.read = x.read /\ y.tx = T
    BY <1>7
  <1>9. y \in StreamRec
    BY <1>4, <1>5, <1>7 DEF StreamRec
  <1>10. Sound(s, y)
    <2>1. T["fin"] # "no" => "FIN_WRITE" \in x.flags
      BY <1>5 DEF Sound, Frame
    <2>2. R = "DATA_SENT" => T["fin"] \in {"sent", "acked"} /\ T["data"] # "queued"
      BY <1>2, <1>5 DEF Sound, Frame
    <2>3. R = "DATA_RECVD" => T["fin"] = "acked" /\ T["data"] \in {"no", "acked"}
      BY <1>2, <1>5 DEF Sound, Frame
    <2>4. /\ R \in {"RESET_SENT", "RESET_RECVD"} <=> x.snd \in {"RESET_SENT", "RESET_RECVD"}
          /\ x.snd = "DATA_RECVD" => R = "DATA_RECVD"
      BY <1>2
    <2> QED
      BY <1>8, <2>1, <2>2, <2>3, <2>4 DEF Sound, SendIsReset, RecvIsReset
  <1> QED
    BY <1>8, <1>9, <1>10

LEMMA AckedSound ==
    ASSUME NEW s, NEW x \in StreamRec, x.life = "live", Sound(s, x),
           NEW k \in Frame, x.tx[k] = "sent", NEW y, y = [x EXCEPT !.tx[k] = "acked"]
    PROVE  y \in StreamRec /\ y.life = "live" /\ Sound(s, y) /\ y.flags = x.flags /\ y.rcv = x.rcv
  <1>1. PICK T : T = [x.tx EXCEPT ![k] = "acked"]
    BY Zenon
  <1>2. x.tx \in [Frame -> {"no", "queued", "sent", "acked"}]
    BY DEF StreamRec
  <1>3. /\ T \in [Frame -> {"no", "queued", "sent", "acked"}] /\ T[k] = "acked"
        /\ \A j \in Frame : j # k => T[j] = x.tx[j]
    BY <1>1, <1>2
  <1>4. y = [x EXCEPT !.tx = T]
    BY <1>1
  <1>5. /\ y \in StreamRec
        /\ y.life = x.life /\ y.snd = x.snd /\ y.rcv = x.rcv /\ y.flags = x.flags
        /\ y.got = x.got /\ y.det = x.det /\ y.read = x.read /\ y.tx = T
    BY <1>3, <1>4 DEF StreamRec
  <1>6. Sound(s, y)
    <2>1. T["fin"] # "no" => "FIN_WRITE" \in x.flags
      BY <1>3 DEF Sound, Frame
    <2>2. x.snd = "DATA_SENT" => T["fin"] \in {"sent", "acked"} /\ T["data"] # "queued"
      BY <1>3 DEF Sound, Frame
    <2>3. x.snd = "DATA_RECVD" => T["fin"] = "acked" /\ T["data"] \in {"no", "acked"}
      BY <1>3 DEF Sound, Frame
    <2> QED
      BY <1>5, <2>1, <2>2, <2>3 DEF Sound, SendIsReset, RecvIsReset
  <1> QED
    BY <1>5, <1>6

\* rqc_conn_decrease_unacked_stream_ref, rqc_send_ctl_on_reset_stream_acked
LEMMA AckedKeeps ==
    ASSUME NEW C, NEW s \in Streams, At(C, s), NEW k \in Frame, C.st[s].tx[k] = "sent"
    PROVE  Keeps(C, Acked(C, s, k), s)
  <1>1. PICK x \in StreamRec : x = C.st[s] /\ x.life = "live" /\ Sound(s, x)
    BY StreamTyped
  <1>2. PICK y : y = [x EXCEPT !.tx[k] = "acked"]
    BY Zenon
  <1>3. y \in StreamRec /\ y.life = "live" /\ Sound(s, y) /\ y.flags = x.flags /\ y.rcv = x.rcv
    BY <1>1, <1>2, AckedSound
  <1>4. PICK D : D = Put(C, s, y)
    BY Zenon
  <1>5. Keeps(C, D, s) /\ D.st[s] = y
    BY <1>1, <1>3, <1>4, PutKeeps
  <1>6. At(D, s)
    BY <1>5 DEF Keeps
  <1>7. D = [C EXCEPT !.st[s].tx[k] = "acked"]
    BY <1>1, <1>2, <1>4 DEF Put
  <1>8. ASSUME NEW R \in {"DATA_RECVD", "RESET_RECVD"}, NEW z, z = [y EXCEPT !.snd = R], Sound(s, z)
        PROVE  Keeps(C, MaybeNeedClose([D EXCEPT !.st[s].snd = R], s), s)
    <2>1. z \in StreamRec /\ z.life = "live" /\ z.flags = y.flags /\ z.rcv = y.rcv
      BY <1>3, <1>8 DEF StreamRec
    <2>2. PICK E : E = Put(D, s, z)
      BY Zenon
    <2>3. Keeps(D, E, s)
      BY <1>5, <1>6, <1>8, <2>1, <2>2, PutKeeps, Zenon
    <2>4. E = [D EXCEPT !.st[s].snd = R]
      BY <1>5, <1>8, <2>2 DEF Put
    <2>5. Keeps(E, MaybeNeedClose(E, s), s)
      BY <2>3, MaybeNeedCloseKeeps DEF Keeps
    <2>6. Keeps(C, E, s)
      BY <1>5, <2>3, KeepsTwice
    <2> QED
      BY <2>4, <2>5, <2>6, KeepsTwice
  <1>9. CASE k # "reset" /\ y.snd = "DATA_SENT" /\ "sent" \notin {y.tx["data"], y.tx["fin"]}
    <2>1. PICK z : z = [y EXCEPT !.snd = "DATA_RECVD"]
      BY Zenon
    <2>2. /\ z.life = y.life /\ z.snd = "DATA_RECVD" /\ z.rcv = y.rcv /\ z.flags = y.flags
          /\ z.got = y.got /\ z.det = y.det /\ z.read = y.read /\ z.tx = y.tx
      BY <1>3, <2>1 DEF StreamRec
    <2>3. y.tx["data"] \in {"no", "queued", "sent", "acked"}
      BY <1>3 DEF StreamRec, Frame
    <2>4. y.tx["fin"] = "acked" /\ y.tx["data"] \in {"no", "acked"}
      BY <1>3, <1>9, <2>3 DEF Sound
    <2>5. Sound(s, z)
      BY <1>3, <1>9, <2>2, <2>4 DEF Sound, SendIsReset, RecvIsReset
    <2>6. Acked(C, s, k) = MaybeNeedClose([D EXCEPT !.st[s].snd = "DATA_RECVD"], s)
      BY <1>5, <1>7, <1>9, Zenon DEF Acked
    <2> QED
      BY <1>8, <2>1, <2>5, <2>6
  <1>10. CASE k = "reset" /\ y.snd = "RESET_SENT"
    <2>1. PICK z : z = [y EXCEPT !.snd = "RESET_RECVD"]
      BY Zenon
    <2>2. /\ z.life = y.life /\ z.snd = "RESET_RECVD" /\ z.rcv = y.rcv /\ z.flags = y.flags
          /\ z.got = y.got /\ z.det = y.det /\ z.read = y.read /\ z.tx = y.tx
      BY <1>3, <2>1 DEF StreamRec
    <2>3. Sound(s, z)
      BY <1>3, <1>10, <2>2 DEF Sound, SendIsReset, RecvIsReset
    <2>4. Acked(C, s, k) = MaybeNeedClose([D EXCEPT !.st[s].snd = "RESET_RECVD"], s)
      BY <1>5, <1>7, <1>10, Zenon DEF Acked
    <2> QED
      BY <1>8, <2>1, <2>3, <2>4
  <1>11. CASE /\ ~(k # "reset" /\ y.snd = "DATA_SENT" /\ "sent" \notin {y.tx["data"], y.tx["fin"]})
              /\ ~(k = "reset" /\ y.snd = "RESET_SENT")
    <2>1. Acked(C, s, k) = D
      BY <1>5, <1>7, <1>11, Zenon DEF Acked
    <2> QED
      BY <1>5, <2>1
  <1> QED
    BY <1>9, <1>10, <1>11

-----------------------------------------------------------------------------
(* The invariant of the connection *)

\* A stream of the peer that was created has a number that was seen, and one that
\* was destroyed is not in the hash of those that may be created.
Remembered(C, s) ==
    s \in Passive => /\ C.st[s].life # "none" => s <= C.top
                     /\ C.st[s].life = "freed" => s \notin C.hash

Inv(C) ==
    /\ ConnTyped(C) /\ C.err = FALSE /\ C.top \in Int
    /\ \A s \in Streams : Sound(s, C.st[s]) /\ Listed(C, s) /\ Remembered(C, s)

\* The same streams are destroyed.
SameEnds(C, D) == \A s \in Streams : C.st[s].life = "freed" <=> D.st[s].life = "freed"

\* What happens to one stream that is there, or is created, keeps the invariant.
LEMMA TouchInv ==
    ASSUME NEW C, Inv(C), NEW s \in Streams, NEW D, Touches(C, D, s), At(D, s),
           C.st[s].life # "freed", s \in Passive => s <= C.top
    PROVE  Inv(D) /\ SameEnds(C, D)
  <1>1. ConnTyped(D) /\ D.err = FALSE /\ D.top \in Int /\ D.top = C.top /\ D.hash = C.hash
    BY DEF Touches, Inv
  <1>2. ASSUME NEW t \in Streams
        PROVE  /\ Sound(t, D.st[t]) /\ Listed(D, t) /\ Remembered(D, t)
               /\ C.st[t].life = "freed" <=> D.st[t].life = "freed"
    <2>1. CASE t = s
      BY <1>1, <2>1 DEF At, Remembered
    <2>2. CASE t # s
      <3>1. /\ D.st[t] = C.st[t]
            /\ t \in Range(D.w) <=> t \in Range(C.w)
            /\ t \in Range(D.r) <=> t \in Range(C.r)
            /\ t \in Range(D.c) <=> t \in Range(C.c)
        BY <2>2 DEF Touches
      <3>2. Sound(t, C.st[t]) /\ Listed(C, t) /\ Remembered(C, t)
        BY DEF Inv
      <3>3. Listed(D, t)
        BY <3>1, <3>2 DEF Listed
      <3>4. Remembered(D, t)
        BY <1>1, <3>1, <3>2 DEF Remembered
      <3> QED
        BY <3>1, <3>2, <3>3, <3>4
    <2> QED
      BY <2>1, <2>2
  <1> QED
    BY <1>1, <1>2 DEF Inv, SameEnds

LEMMA LiveAt ==
    ASSUME NEW C, Inv(C), NEW s \in Streams, C.st[s].life = "live"
    PROVE  At(C, s) /\ (s \in Passive => s <= C.top)
  BY DEF Inv, At, Remembered

LEMMA KeepsInv ==
    ASSUME NEW C, Inv(C), NEW s \in Streams, C.st[s].life = "live", NEW D, Keeps(C, D, s)
    PROVE  Inv(D) /\ SameEnds(C, D) /\ D.st[s].life = "live"
  <1>1. s \in Passive => s <= C.top
    BY LiveAt
  <1> QED
    BY <1>1, TouchInv DEF Keeps, At

\* What a callback leaves when Cross lets it only close other streams, and not
\* from the write loop.
LEMMA CallbackKeeps ==
    ASSUME Cross \subseteq SafeCross,
           NEW C, Inv(C), NEW s \in Streams, C.st[s].life = "live",
           \A t \in Live : C.st[t].life = "live",
           NEW kind, NEW D \in Callback(C, kind, s)
    PROVE  /\ Inv(D) /\ SameEnds(C, D) /\ D.st[s].life = "live"
           /\ Range(C.r) \ {s} \subseteq Range(D.r)
           /\ Range(C.c) \ {s} \subseteq Range(D.c)
           /\ kind = "write" => Range(C.w) \ {s} \subseteq Range(D.w)
           /\ "NEED_CLOSE" \in C.st[s].flags /\ s \notin Range(C.c) => s \notin Range(D.c)
  <1>1. Range(C.w) \cup Range(C.r) \cup Range(C.c) \subseteq Streams
    BY ListOfStreams DEF Inv, ConnTyped
  <1>2. ASSUME NEW call \in Calls[s] \cup {"none"}, NEW E, E = Apply(C, s, call)
        PROVE  Keeps(C, E, s) /\ Inv(E) /\ SameEnds(C, E) /\ E.st[s].life = "live"
    <2>1. call \in {"none", "recv", "peek", "data", "fin", "eagain", "close"}
      BY StreamsAssumption
    <2>2. Keeps(C, E, s)
      BY <1>2, <2>1, LiveAt, ApplyKeeps
    <2> QED
      BY <2>2, KeepsInv
  <1>3. CASE \E call \in Calls[s] \cup {"none"} : D = Apply(C, s, call)
    <2>1. Keeps(C, D, s) /\ Inv(D) /\ SameEnds(C, D) /\ D.st[s].life = "live"
      BY <1>2, <1>3
    <2> QED
      BY <1>1, <2>1, Zenon DEF Keeps, Touches
  <1>4. CASE \E call \in Calls[s] \cup {"none"} :
               \E o \in (Live \ {s}) \X {c[2] : c \in {d \in Cross : d[1] = kind}} :
                   D = Apply(Apply(C, s, call), o[1], o[2])
    <2>1. PICK call \in Calls[s] \cup {"none"},
               o \in (Live \ {s}) \X {c[2] : c \in {d \in Cross : d[1] = kind}} :
                   D = Apply(Apply(C, s, call), o[1], o[2])
      BY <1>4
    <2>2. PICK t \in Live \ {s}, d \in Cross : t = o[1] /\ o[2] = d[2] /\ d[1] = kind
      BY <2>1
    <2>3. o[2] = "close" /\ kind # "write"
      BY <2>2 DEF SafeCross
    <2>4. PICK E : E = Apply(C, s, call)
      BY Zenon
    <2>5. Keeps(C, E, s) /\ Inv(E) /\ SameEnds(C, E) /\ E.st[s].life = "live"
      BY <1>2, <2>4
    <2>6. t \in Streams /\ t # s /\ E.st[t].life = "live"
      BY <2>2, <2>5 DEF Live, Keeps, Touches
    <2>7. D = Close(E, t)
      BY <2>1, <2>2, <2>3, <2>4, Zenon DEF Apply
    <2>8. Keeps(E, D, t) /\ t \in Range(D.r) /\ D.c = E.c
      BY <2>5, <2>6, <2>7, LiveAt, CloseKeeps, Zenon
    <2>9. Inv(D) /\ SameEnds(E, D)
      BY <2>5, <2>6, <2>8, KeepsInv
    <2>10. SameEnds(C, D) /\ D.st[s].life = "live"
      BY <2>5, <2>6, <2>8, <2>9, Zenon DEF SameEnds, Keeps, Touches
    <2>11. Range(C.r) \ {s} \subseteq Range(D.r)
      BY <1>1, <2>5, <2>6, <2>8, Zenon DEF Keeps, Touches
    <2>12. Range(C.c) \ {s} \subseteq Range(D.c)
      BY <1>1, <2>5, <2>8, Zenon DEF Keeps, Touches
    <2>13. "NEED_CLOSE" \in C.st[s].flags /\ s \notin Range(C.c) => s \notin Range(D.c)
      BY <2>5, <2>8 DEF Keeps
    <2> QED
      BY <2>3, <2>9, <2>10, <2>11, <2>12, <2>13
  <1> QED
    BY <1>3, <1>4 DEF Callback

\* The connection in which a frame is looked at has the stream, and a stream that
\* was destroyed is not looked up or created.
LEMMA FoundInv ==
    ASSUME NEW C, Inv(C), NEW s \in Streams, NEW D \in Found(C, s)
    PROVE  Inv(D) /\ SameEnds(C, D) /\ D.st[s].life = "live"
  <1>1. CASE C.st[s].life = "live"
    BY <1>1 DEF Found, SameEnds
  <1>2. CASE C.st[s].life # "live"
    <2>1. s \in Passive /\ D \in Passively(C, s)
      BY <1>2 DEF Found
    <2>2. PICK K : K = IF s > C.top
                       THEN [C EXCEPT !.hash = @ \cup {t \in Passive : C.top < t /\ t <= s}, !.top = s]
                       ELSE C
      BY Zenon
    <2>3. PICK F \in Answers(s) : s \in K.hash /\ D = [K EXCEPT !.st[s] = [Stream EXCEPT !.life = "live", !.flags = F]]
      BY <2>1, <2>2, Zenon DEF Passively
    <2>4. /\ K = [st |-> K.st, w |-> K.w, r |-> K.r, c |-> K.c,
                  timer |-> K.timer, top |-> K.top, hash |-> K.hash, err |-> K.err]
          /\ K.st = C.st /\ K.w = C.w /\ K.r = C.r /\ K.c = C.c /\ K.err = C.err
          /\ K.top = (IF s > C.top THEN s ELSE C.top)
          /\ K.hash = (IF s > C.top THEN C.hash \cup {t \in Passive : C.top < t /\ t <= s} ELSE C.hash)
      BY <2>2, Zenon DEF Inv, ConnTyped
    <2>5. ConnTyped(K)
      BY <2>4 DEF Inv, ConnTyped
    <2>6. s \in Nat /\ C.top \in Int /\ Passive \subseteq Nat
      BY StreamsAssumption DEF Inv
    <2>7. K.top \in Int /\ C.top <= K.top /\ s <= K.top
      BY <2>4, <2>6
    <2>8. \A t \in Streams : Listed(K, t)
      BY <2>4 DEF Inv, Listed
    <2>9. ASSUME NEW t \in Streams PROVE Remembered(K, t)
      <3>1. Remembered(C, t)
        BY DEF Inv
      <3> QED
        BY <2>4, <2>6, <2>7, <3>1 DEF Remembered
    <2>10. Inv(K)
      BY <2>4, <2>5, <2>7, <2>8, <2>9 DEF Inv
    <2>11. K.st[s].life # "freed"
      BY <2>1, <2>3, <2>9 DEF Remembered
    <2>12. PICK x : x = [Stream EXCEPT !.life = "live", !.flags = F]
      BY Zenon
    <2>13. F \subseteq {"DISCARDED"}
      BY <2>3 DEF Answers
    <2>14. /\ x \in StreamRec /\ x.life = "live" /\ x.snd = "READY" /\ x.rcv = "RECV"
           /\ x.flags = F /\ x.tx["fin"] = "no"
      BY <2>12, <2>13, Zenon DEF Stream, StreamRec, Frame
    <2>15. Sound(s, x)
      BY <2>13, <2>14 DEF Sound, SendIsReset, RecvIsReset
    <2>16. Touches(K, D, s) /\ SameLists(K, D) /\ D.st[s] = x
      BY <2>3, <2>5, <2>12, <2>14, PutTouches DEF Put
    <2>17. s \notin Range(K.c)
      BY <1>2, <2>4, <2>8 DEF Listed
    <2>18. Listed(D, s)
      BY <2>14, <2>16, <2>17 DEF Listed, SameLists
    <2>19. At(D, s)
      BY <2>14, <2>15, <2>16, <2>18 DEF At, Touches
    <2>20. Inv(D) /\ SameEnds(K, D)
      BY <2>7, <2>10, <2>11, <2>16, <2>19, TouchInv
    <2> QED
      BY <2>4, <2>14, <2>16, <2>20 DEF SameEnds
  <1> QED
    BY <1>1, <1>2

\* rqc_destroy_stream
LEMMA DestroyInv ==
    ASSUME NEW C, Inv(C), NEW s \in Streams, C.st[s].life = "live", s \notin Range(C.c),
           NEW D, D = Destroy(C, s)
    PROVE  /\ Inv(D) /\ D.c = C.c /\ D.st[s].life = "freed"
           /\ \A t \in Streams \ {s} : D.st[t] = C.st[t]
  <1>1. PICK x : x = [Stream EXCEPT !.life = "freed"]
    BY Zenon
  <1>2. /\ x \in StreamRec /\ x.life = "freed" /\ x.snd = "READY" /\ x.rcv = "RECV"
        /\ x.flags = {} /\ x.tx["fin"] = "no"
    BY <1>1, Zenon DEF Stream, StreamRec, Frame
  <1>3. Sound(s, x)
    BY <1>2 DEF Sound, SendIsReset, RecvIsReset
  <1>4. PICK E : E = Put(C, s, x)
    BY Zenon
  <1>5. Touches(C, E, s) /\ SameLists(C, E) /\ E.st[s] = x
    <2>1. ConnTyped(C)
      BY DEF Inv
    <2> QED
      BY <1>2, <1>4, <2>1, PutTouches, Zenon
  <1>6. PICK F : F = ShutdownWrite(E, s)
    BY Zenon
  <1>7. Touches(E, F, s) /\ F.st = E.st /\ F.r = E.r /\ F.c = E.c /\ Range(F.w) = Range(E.w) \ {s}
    <2>1. ConnTyped(E)
      BY <1>5 DEF Touches
    <2> QED
      BY <1>6, <2>1, ShutdownWriteTouches
  <1>8. PICK G : G = ShutdownRead(F, s)
    BY Zenon
  <1>9. Touches(F, G, s) /\ G.st = F.st /\ G.w = F.w /\ G.c = F.c /\ Range(G.r) = Range(F.r) \ {s}
    <2>1. ConnTyped(F)
      BY <1>7 DEF Touches
    <2> QED
      BY <1>8, <2>1, ShutdownReadTouches
  <1>10. Touches(C, G, s)
    BY <1>5, <1>7, <1>9, TouchesTwice
  <1>11. D = Unhash(G, s)
    BY <1>1, <1>4, <1>6, <1>8 DEF Destroy, Put
  <1>12. /\ D = [st |-> D.st, w |-> D.w, r |-> D.r, c |-> D.c,
                 timer |-> D.timer, top |-> D.top, hash |-> D.hash, err |-> D.err]
         /\ D.st = G.st /\ D.w = G.w /\ D.r = G.r /\ D.c = G.c
         /\ D.top = G.top /\ D.hash = G.hash \ {s} /\ D.err = G.err
    BY <1>10, <1>11, Zenon DEF Unhash, Touches, ConnTyped
  <1>13. ConnTyped(D)
    BY <1>10, <1>12 DEF Touches, ConnTyped
  <1>14. D.top = C.top /\ D.hash = C.hash \ {s} /\ D.err = C.err
    BY <1>10, <1>12 DEF Touches
  <1>15. /\ D.st[s] = x /\ s \notin Range(D.w) /\ s \notin Range(D.r) /\ s \notin Range(D.c)
         /\ D.c = C.c
    BY <1>5, <1>7, <1>9, <1>12 DEF SameLists
  <1>16. ASSUME NEW t \in Streams
         PROVE  Sound(t, D.st[t]) /\ Listed(D, t) /\ Remembered(D, t) /\ (t # s => D.st[t] = C.st[t])
    <2>1. CASE t = s
      <3>1. Listed(D, s)
        BY <1>2, <1>15 DEF Listed
      <3>2. Remembered(D, s)
        BY <1>14 DEF Inv, Remembered
      <3> QED
        BY <1>3, <1>15, <2>1, <3>1, <3>2
    <2>2. CASE t # s
      <3>1. /\ D.st[t] = C.st[t]
            /\ t \in Range(D.w) <=> t \in Range(C.w)
            /\ t \in Range(D.r) <=> t \in Range(C.r)
            /\ t \in Range(D.c) <=> t \in Range(C.c)
        BY <1>10, <1>12, <2>2 DEF Touches
      <3>2. Sound(t, C.st[t]) /\ Listed(C, t) /\ Remembered(C, t)
        BY DEF Inv
      <3>3. Listed(D, t)
        BY <3>1, <3>2, Zenon DEF Listed
      <3>4. Remembered(D, t)
        BY <1>14, <3>1, <3>2, Zenon DEF Remembered
      <3> QED
        BY <3>1, <3>2, <3>3, <3>4
    <2> QED
      BY <2>1, <2>2
  <1> QED
    BY <1>2, <1>13, <1>14, <1>15, <1>16 DEF Inv

\* The loop that runs stands on a stream of its list, and the successor it saved
\* is another stream of the list, or its head.
Cursor(l) == walk.pos \in Range(l) /\ walk.next \in (Range(l) \ {walk.pos}) \cup {End}

WInv ==
    /\ walk = [kind |-> walk.kind, pos |-> walk.pos, next |-> walk.next,
               due |-> walk.due, later |-> walk.later]
    /\ walk.kind \in {"none", "read", "write", "close"}
    /\ walk.kind = "read" => Cursor(conn.r)
    /\ walk.kind = "write" => Cursor(conn.w)
    /\ walk.kind = "close" => Cursor(conn.c)

SInv == Inv(conn) /\ WInv

LEMMA InitSInv == Init => SInv
  <1> SUFFICES ASSUME Init PROVE SInv
    OBVIOUS
  <1>1. /\ Stream \in StreamRec /\ Stream.life = "none" /\ Stream.snd = "READY" /\ Stream.rcv = "RECV"
        /\ Stream.flags = {} /\ Stream.tx["fin"] = "no"
    BY DEF Stream, StreamRec, Frame
  <1>2. <<>> \in Lists /\ Range(<<>>) = {}
    BY DEF Lists, IsInjective, Range
  <1>3. /\ conn = [st |-> conn.st, w |-> conn.w, r |-> conn.r, c |-> conn.c,
                   timer |-> conn.timer, top |-> conn.top, hash |-> conn.hash, err |-> conn.err]
        /\ conn.st = [s \in Streams |-> Stream] /\ conn.w = <<>> /\ conn.r = <<>> /\ conn.c = <<>>
        /\ conn.top = -1 /\ conn.hash = {} /\ conn.err = FALSE
    BY DEF Init
  <1>4. ConnTyped(conn) /\ \A s \in Streams : conn.st[s] = Stream
    BY <1>1, <1>2, <1>3 DEF ConnTyped
  <1>5. \A s \in Streams : Sound(s, Stream)
    BY <1>1 DEF Sound, SendIsReset, RecvIsReset
  <1>6. \A s \in Streams : Listed(conn, s) /\ Remembered(conn, s)
    BY <1>1, <1>2, <1>3, <1>4 DEF Listed, Remembered
  <1>7. Inv(conn)
    BY <1>3, <1>4, <1>5, <1>6 DEF Inv
  <1>8. WInv
    BY DEF Init, NoWalk, WInv
  <1> QED
    BY <1>7, <1>8 DEF SInv

\* Outside the loops only the connection has to be looked at.
LEMMA IdleSInv ==
    ASSUME SInv, Idle, UNCHANGED walk, Inv(conn')
    PROVE  SInv'
  BY DEF SInv, WInv, Idle

LEMMA CreateSInv ==
    ASSUME SInv, NEW s \in Streams, Create(s)
    PROVE  SInv' /\ SameEnds(conn, conn')
  <1>1. PICK F \in Answers(s) :
            conn' = ReadyToWrite([conn EXCEPT !.st[s] = [@ EXCEPT !.life = "live", !.flags = F]], s)
    BY Zenon DEF Create
  <1>2. Inv(conn) /\ ConnTyped(conn) /\ s \notin Passive /\ conn.st[s].life = "none" /\ Idle /\ UNCHANGED walk
    BY DEF Create, SInv, Inv
  <1>3. conn.st[s] = Stream /\ s \notin Range(conn.r) \cup Range(conn.c)
    BY <1>2, Zenon DEF Inv, Sound, Listed
  <1>4. PICK x : x = [Stream EXCEPT !.life = "live", !.flags = F]
    BY Zenon
  <1>5. F \subseteq {"DISCARDED"}
    BY <1>1 DEF Answers
  <1>6. /\ x \in StreamRec /\ x.life = "live" /\ x.snd = "READY" /\ x.rcv = "RECV"
        /\ x.flags = F /\ x.tx["fin"] = "no"
    BY <1>4, <1>5, Zenon DEF Stream, StreamRec, Frame
  <1>7. Sound(s, x)
    BY <1>5, <1>6 DEF Sound, SendIsReset, RecvIsReset
  <1>8. PICK D : D = Put(conn, s, x)
    BY Zenon
  <1>9. Touches(conn, D, s) /\ SameLists(conn, D) /\ D.st[s] = x
    BY <1>2, <1>6, <1>8, PutTouches, Zenon
  <1>10. conn' = ReadyToWrite(D, s)
    BY <1>1, <1>3, <1>4, <1>8 DEF Put
  <1>11. Touches(D, conn', s) /\ conn'.st = D.st /\ conn'.r = D.r /\ conn'.c = D.c
    <2>1. ConnTyped(D)
      BY <1>9 DEF Touches
    <2> QED
      BY <1>10, <2>1, ReadyToWriteTouches
  <1>12. Touches(conn, conn', s)
    BY <1>9, <1>11, TouchesTwice
  <1>13. At(conn', s)
    BY <1>3, <1>6, <1>7, <1>9, <1>11, <1>12, Zenon DEF At, Listed, SameLists, Touches
  <1>14. Inv(conn') /\ SameEnds(conn, conn')
    BY <1>2, <1>12, <1>13, TouchInv
  <1> QED
    BY <1>2, <1>14, IdleSInv

LEMMA AppCallSInv ==
    ASSUME SInv, NEW s \in Streams, AppCall(s)
    PROVE  SInv' /\ SameEnds(conn, conn')
  <1>1. PICK call \in Calls[s] : conn' = Apply(conn, s, call)
    BY DEF AppCall
  <1>2. Inv(conn) /\ conn.st[s].life = "live" /\ Idle /\ UNCHANGED walk
    BY DEF AppCall, SInv, Live
  <1>3. call \in {"none", "recv", "peek", "data", "fin", "eagain", "close"}
    BY StreamsAssumption
  <1>4. Keeps(conn, conn', s)
    BY <1>1, <1>2, <1>3, LiveAt, ApplyKeeps
  <1>5. Inv(conn') /\ SameEnds(conn, conn')
    BY <1>2, <1>4, KeepsInv
  <1> QED
    BY <1>2, <1>5, IdleSInv

LEMMA SameEndsTwice ==
    ASSUME NEW C, NEW D, NEW E, SameEnds(C, D), SameEnds(D, E)
    PROVE  SameEnds(C, E)
  BY DEF SameEnds

LEMMA FrameSInv ==
    ASSUME SInv, NEW s \in Streams, RecvData(s) \/ RecvFin(s) \/ RecvReset(s) \/ RecvStop(s)
    PROVE  SInv' /\ SameEnds(conn, conn')
  <1>1. Inv(conn) /\ Idle /\ UNCHANGED walk
    BY Zenon DEF RecvData, RecvFin, RecvReset, RecvStop, SInv
  <1>2. SUFFICES ASSUME NEW C \in Found(conn, s), At(C, s) => Keeps(C, conn', s)
                 PROVE  SInv' /\ SameEnds(conn, conn')
    <2>1. CASE RecvData(s)
      <3>1. PICK C \in Found(conn, s) : conn' = OnStream(C, s, FALSE)
        BY <2>1, Zenon DEF RecvData
      <3>2. At(C, s) => Keeps(C, conn', s)
        BY <2>1, <3>1, ByteKeeps, Zenon DEF RecvData
      <3> QED
        BY <1>2, <3>2
    <2>2. CASE RecvFin(s)
      <3>1. PICK C \in Found(conn, s) : conn' = OnStream(C, s, TRUE)
        BY <2>2, Zenon DEF RecvFin
      <3>2. At(C, s) => Keeps(C, conn', s)
        BY <3>1, FinKeeps, Zenon
      <3> QED
        BY <1>2, <3>2
    <2>3. CASE RecvReset(s)
      <3>1. PICK C \in Found(conn, s), call \in {"none", "close"} : conn' = OnReset(Apply(C, s, call), s)
        BY <2>3 DEF RecvReset
      <3>2. ASSUME At(C, s) PROVE Keeps(C, conn', s)
        <4>1. PICK D : D = Apply(C, s, call)
          BY Zenon
        <4>2. Keeps(C, D, s)
          BY <3>2, <4>1, ApplyKeeps
        <4>3. Keeps(D, conn', s)
          BY <3>1, <4>1, <4>2, OnResetKeeps, Zenon DEF Keeps
        <4> QED
          BY <4>2, <4>3, KeepsTwice
      <3> QED
        BY <1>2, <3>2
    <2>4. CASE RecvStop(s)
      <3>1. PICK C \in Found(conn, s) : conn' = OnStop(C, s)
        BY <2>4 DEF RecvStop
      <3>2. At(C, s) => Keeps(C, conn', s)
        BY <3>1, OnStopKeeps
      <3> QED
        BY <1>2, <3>2
    <2> QED
      BY <2>1, <2>2, <2>3, <2>4
  <1>3. Inv(C) /\ SameEnds(conn, C) /\ C.st[s].life = "live"
    BY <1>1, FoundInv
  <1>4. Keeps(C, conn', s)
    BY <1>2, <1>3, LiveAt
  <1>5. Inv(conn') /\ SameEnds(C, conn')
    BY <1>3, <1>4, KeepsInv
  <1>6. SameEnds(conn, conn')
    BY <1>3, <1>5, SameEndsTwice
  <1> QED
    BY <1>1, <1>5, <1>6, IdleSInv

LEMMA SendSInv ==
    ASSUME SInv, NEW s \in Streams, NEW k \in Frame, Sent(s, k) \/ RecvAck(s, k)
    PROVE  SInv' /\ SameEnds(conn, conn')
  <1>1. Inv(conn) /\ conn.st[s].life = "live" /\ Idle /\ UNCHANGED walk
    BY DEF Sent, RecvAck, SInv, Live
  <1>2. At(conn, s)
    BY <1>1, LiveAt
  <1>3. CASE RecvAck(s, k)
    <2>1. Keeps(conn, conn', s)
      BY <1>2, <1>3, AckedKeeps DEF RecvAck
    <2>2. Inv(conn') /\ SameEnds(conn, conn')
      BY <1>1, <2>1, KeepsInv, Zenon
    <2> QED
      BY <1>1, <2>2, IdleSInv
  <1>4. CASE Sent(s, k)
    <2>1. PICK x \in StreamRec : x = conn.st[s] /\ x.life = "live" /\ Sound(s, x)
      BY <1>2, StreamTyped
    <2>2. PICK y : y = LeavesAs(x, k)
      BY Zenon
    <2>3. x.tx[k] = "queued" /\ (k # "data" => x.tx["data"] # "queued")
      BY <1>4, <2>1 DEF Sent
    <2>4. y \in StreamRec /\ y.life = "live" /\ Sound(s, y) /\ y.flags = x.flags /\ y.rcv = x.rcv
      BY <2>1, <2>2, <2>3, SentSound
    <2>5. conn' = Put(conn, s, y)
      BY <1>4, <2>1, <2>2 DEF Sent, Put, LeavesAs
    <2>6. Keeps(conn, conn', s)
      BY <1>2, <2>1, <2>4, <2>5, PutKeeps, Zenon
    <2>7. Inv(conn') /\ SameEnds(conn, conn')
      BY <1>1, <2>6, KeepsInv, Zenon
    <2> QED
      BY <1>1, <2>7, IdleSInv
  <1> QED
    BY <1>3, <1>4

-----------------------------------------------------------------------------
(* The loops *)

LEMMA BeginOnList ==
    ASSUME NEW kind, NEW l \in Lists, l # <<>>, NEW due, Begin(kind, l, due)
    PROVE  /\ walk' = [kind |-> walk'.kind, pos |-> walk'.pos, next |-> walk'.next,
                       due |-> walk'.due, later |-> walk'.later]
           /\ walk'.kind = kind
           /\ walk'.pos \in Range(l) /\ walk'.next \in (Range(l) \ {walk'.pos}) \cup {End}
  <1>1. First(l) \in Range(l)
    BY FirstOnList
  <1>2. Succ(l, First(l)) \in (Range(l) \ {First(l)}) \cup {End}
    BY <1>1, SuccOnList
  <1> QED
    BY <1>1, <1>2 DEF Begin

LEMMA StartSInv ==
    ASSUME SInv, StartRead \/ StartWrite \/ StartClose
    PROVE  SInv' /\ SameEnds(conn, conn')
  <1>1. Inv(conn) /\ conn.w \in Lists /\ conn.r \in Lists /\ conn.c \in Lists
    BY DEF SInv, Inv, ConnTyped
  <1>2. UNCHANGED conn
    BY DEF StartRead, StartWrite, StartClose
  <1>3. Inv(conn') /\ SameEnds(conn, conn')
    BY <1>1, <1>2 DEF SameEnds
  <1>4. WInv'
    <2>1. CASE StartRead
      <3>1. conn.r # <<>> /\ Begin("read", conn.r, {})
        BY <2>1 DEF StartRead
      <3>2. /\ walk' = [kind |-> walk'.kind, pos |-> walk'.pos, next |-> walk'.next,
                        due |-> walk'.due, later |-> walk'.later]
            /\ walk'.kind = "read"
            /\ walk'.pos \in Range(conn.r) /\ walk'.next \in (Range(conn.r) \ {walk'.pos}) \cup {End}
        BY <1>1, <3>1, BeginOnList
      <3> QED
        BY <1>2, <3>2 DEF WInv, Cursor
    <2>2. CASE StartWrite
      <3>1. conn.w # <<>> /\ Begin("write", conn.w, {})
        BY <2>2 DEF StartWrite
      <3>2. /\ walk' = [kind |-> walk'.kind, pos |-> walk'.pos, next |-> walk'.next,
                        due |-> walk'.due, later |-> walk'.later]
            /\ walk'.kind = "write"
            /\ walk'.pos \in Range(conn.w) /\ walk'.next \in (Range(conn.w) \ {walk'.pos}) \cup {End}
        BY <1>1, <3>1, BeginOnList
      <3> QED
        BY <1>2, <3>2 DEF WInv, Cursor
    <2>3. CASE StartClose
      <3>1. PICK due \in (SUBSET Range(conn.c)) \ {{}} : Begin("close", conn.c, due)
        BY <2>3 DEF StartClose
      <3>2. conn.c # <<>>
        <4>1. Range(<<>>) = {}
          BY DEF Range
        <4> QED
          BY <3>1, <4>1
      <3>3. /\ walk' = [kind |-> walk'.kind, pos |-> walk'.pos, next |-> walk'.next,
                        due |-> walk'.due, later |-> walk'.later]
            /\ walk'.kind = "close"
            /\ walk'.pos \in Range(conn.c) /\ walk'.next \in (Range(conn.c) \ {walk'.pos}) \cup {End}
        BY <1>1, <3>1, <3>2, BeginOnList
      <3> QED
        BY <1>2, <3>3 DEF WInv, Cursor
    <2> QED
      BY <2>1, <2>2, <2>3
  <1> QED
    BY <1>3, <1>4 DEF SInv

\* A loop moves on to the successor it saved, which is still on the list when
\* the turn took no other stream off it.
LEMMA AdvanceOnList ==
    ASSUME WInv, NEW l, NEW m \in Lists, Cursor(l), Range(l) \ {walk.pos} \subseteq Range(m),
           NEW later, walk' = Advance(m, later)
    PROVE  \/ walk' = NoWalk
           \/ /\ walk' = [kind |-> walk'.kind, pos |-> walk'.pos, next |-> walk'.next,
                          due |-> walk'.due, later |-> walk'.later]
              /\ walk'.kind = walk.kind
              /\ walk'.pos \in Range(m) /\ walk'.next \in (Range(m) \ {walk'.pos}) \cup {End}
  <1>1. CASE walk.next = End
    BY <1>1 DEF Advance
  <1>2. CASE walk.next # End
    <2>1. walk.next \in Range(m)
      BY <1>2 DEF Cursor
    <2>2. Succ(m, walk.next) \in (Range(m) \ {walk.next}) \cup {End}
      BY <2>1, SuccOnList
    <2>3. walk' = [walk EXCEPT !.pos = walk.next, !.next = Succ(m, walk.next), !.later = later]
      BY <1>2 DEF Advance
    <2>4. /\ walk' = [kind |-> walk'.kind, pos |-> walk'.pos, next |-> walk'.next,
                      due |-> walk'.due, later |-> walk'.later]
          /\ walk'.kind = walk.kind /\ walk'.pos = walk.next /\ walk'.next = Succ(m, walk.next)
      BY <2>3, Zenon DEF WInv
    <2> QED
      BY <2>1, <2>2, <2>4
  <1> QED
    BY <1>1, <1>2

\* The streams on the lists are live streams.
LEMMA OnListIsLive ==
    ASSUME NEW C, Inv(C), NEW s \in Range(C.w) \cup Range(C.r) \cup Range(C.c)
    PROVE  s \in Streams /\ C.st[s].life = "live" /\ (s \in Range(C.c) => "NEED_CLOSE" \in C.st[s].flags)
  <1>1. s \in Streams
    BY ListOfStreams DEF Inv, ConnTyped
  <1> QED
    BY <1>1, Zenon DEF Inv, Listed

LEMMA ReadStepSInv ==
    ASSUME Cross \subseteq SafeCross, SInv, ReadStep
    PROVE  SInv' /\ SameEnds(conn, conn')
  <1>1. PICK s : s = walk.pos
    BY Zenon
  <1>2. Inv(conn) /\ WInv /\ walk.kind = "read" /\ Cursor(conn.r) /\ s \in Range(conn.r)
    BY <1>1 DEF SInv, WInv, ReadStep, Cursor
  <1>3. s \in Streams /\ conn.st[s].life = "live"
    BY <1>2, OnListIsLive
  <1>4. /\ Inv(conn') /\ SameEnds(conn, conn')
        /\ Range(conn.r) \ {s} \subseteq Range(conn'.r)
    <2>1. CASE "APP_CLOSED" \in conn.st[s].flags
      <3>1. conn' = DrainRead(conn, s)
        BY <1>1, <1>2, <2>1 DEF ReadStep
      <3>2. Keeps(conn, conn', s)
        BY <1>2, <1>3, <3>1, LiveAt, DrainReadKeeps
      <3>3. Inv(conn') /\ SameEnds(conn, conn')
        BY <1>2, <1>3, <3>2, KeepsInv
      <3>4. Range(conn.r) \subseteq Streams
        BY <1>2, ListOfStreams DEF Inv, ConnTyped
      <3> QED
        BY <3>2, <3>3, <3>4, Zenon DEF Keeps, Touches
    <2>2. CASE "APP_CLOSED" \notin conn.st[s].flags
      <3>1. conn' \in Callback(conn, "read", s)
        BY <1>1, <1>2, <2>2 DEF ReadStep
      <3>2. \A t \in Live : conn.st[t].life = "live"
        BY DEF Live
      <3> QED
        BY <1>2, <1>3, <3>1, <3>2, CallbackKeeps, Zenon
    <2> QED
      BY <2>1, <2>2
  <1>5. conn'.r \in Lists /\ conn'.err = FALSE
    BY <1>4 DEF Inv, ConnTyped
  <1>6. walk' = Advance(conn'.r, FALSE)
    BY <1>5, Zenon DEF ReadStep
  <1>7. \/ walk' = NoWalk
        \/ /\ walk' = [kind |-> walk'.kind, pos |-> walk'.pos, next |-> walk'.next,
                       due |-> walk'.due, later |-> walk'.later]
           /\ walk'.kind = walk.kind
           /\ walk'.pos \in Range(conn'.r) /\ walk'.next \in (Range(conn'.r) \ {walk'.pos}) \cup {End}
    BY <1>1, <1>2, <1>4, <1>5, <1>6, AdvanceOnList, Zenon
  <1>8. WInv'
    <2>1. CASE walk' = NoWalk
      BY <2>1 DEF WInv, NoWalk
    <2>2. CASE walk' # NoWalk
      BY <1>2, <1>7, <2>2 DEF WInv, Cursor
    <2> QED
      BY <2>1, <2>2
  <1> QED
    BY <1>4, <1>8 DEF SInv

LEMMA WriteStepSInv ==
    ASSUME Cross \subseteq SafeCross, SInv, WriteStep
    PROVE  SInv' /\ SameEnds(conn, conn')
  <1>1. PICK s : s = walk.pos
    BY Zenon
  <1>2. Inv(conn) /\ WInv /\ walk.kind = "write" /\ Cursor(conn.w) /\ s \in Range(conn.w)
    BY <1>1, Zenon DEF SInv, WInv, WriteStep, Cursor
  <1>3. s \in Streams /\ conn.st[s].life = "live"
    BY <1>2, OnListIsLive
  <1>4. /\ Inv(conn') /\ SameEnds(conn, conn')
        /\ Range(conn.w) \ {s} \subseteq Range(conn'.w)
    <2>1. CASE "APP_CLOSED" \in conn.st[s].flags
      <3>1. conn' = ShutdownWrite(conn, s)
        BY <1>1, <1>2, <2>1 DEF WriteStep
      <3>2. Keeps(conn, conn', s)
        BY <1>2, <1>3, <3>1, LiveAt, ShutdownWriteKeeps
      <3>3. Inv(conn') /\ SameEnds(conn, conn')
        BY <1>2, <1>3, <3>2, KeepsInv
      <3>4. Range(conn.w) \subseteq Streams
        BY <1>2, ListOfStreams DEF Inv, ConnTyped
      <3> QED
        BY <3>2, <3>3, <3>4, Zenon DEF Keeps, Touches
    <2>2. CASE "APP_CLOSED" \notin conn.st[s].flags
      <3>1. conn' \in Callback(conn, "write", s)
        BY <1>1, <1>2, <2>2 DEF WriteStep
      <3>2. \A t \in Live : conn.st[t].life = "live"
        BY DEF Live
      <3> QED
        BY <1>2, <1>3, <3>1, <3>2, CallbackKeeps, Zenon
    <2> QED
      BY <2>1, <2>2
  <1>5. conn'.w \in Lists
    BY <1>4 DEF Inv, ConnTyped
  <1>6. walk' = Advance(conn'.w, FALSE)
    BY DEF WriteStep
  <1>7. \/ walk' = NoWalk
        \/ /\ walk' = [kind |-> walk'.kind, pos |-> walk'.pos, next |-> walk'.next,
                       due |-> walk'.due, later |-> walk'.later]
           /\ walk'.kind = walk.kind
           /\ walk'.pos \in Range(conn'.w) /\ walk'.next \in (Range(conn'.w) \ {walk'.pos}) \cup {End}
    BY <1>1, <1>2, <1>4, <1>5, <1>6, AdvanceOnList, Zenon
  <1>8. WInv'
    <2>1. CASE walk' = NoWalk
      BY <2>1 DEF WInv, NoWalk
    <2>2. CASE walk' # NoWalk
      BY <1>2, <1>7, <2>2 DEF WInv, Cursor
    <2> QED
      BY <2>1, <2>2
  <1> QED
    BY <1>4, <1>8 DEF SInv

\* The list of closing streams and the timer do not matter to a stream.
LEMMA OtherListInv ==
    ASSUME NEW C, Inv(C), NEW l \in Lists, Range(l) \subseteq Range(C.c),
           NEW D, D = [C EXCEPT !.c = l]
    PROVE  Inv(D) /\ D.st = C.st /\ D.c = l
  <1>1. /\ D = [st |-> D.st, w |-> D.w, r |-> D.r, c |-> D.c,
                timer |-> D.timer, top |-> D.top, hash |-> D.hash, err |-> D.err]
        /\ D.st = C.st /\ D.w = C.w /\ D.r = C.r /\ D.c = l
        /\ D.top = C.top /\ D.hash = C.hash /\ D.err = C.err
    BY DEF Inv, ConnTyped
  <1>2. ConnTyped(D)
    BY <1>1 DEF Inv, ConnTyped
  <1>3. \A s \in Streams : Listed(D, s) /\ Remembered(D, s)
    BY <1>1 DEF Inv, Listed, Remembered
  <1> QED
    BY <1>1, <1>2, <1>3 DEF Inv

LEMMA TimerInv ==
    ASSUME NEW C, Inv(C), NEW b, NEW D, D = [C EXCEPT !.timer = b]
    PROVE  Inv(D) /\ D.st = C.st /\ D.c = C.c
  <1>1. /\ D = [st |-> D.st, w |-> D.w, r |-> D.r, c |-> D.c,
                timer |-> D.timer, top |-> D.top, hash |-> D.hash, err |-> D.err]
        /\ D.st = C.st /\ D.w = C.w /\ D.r = C.r /\ D.c = C.c
        /\ D.top = C.top /\ D.hash = C.hash /\ D.err = C.err
    BY DEF Inv, ConnTyped
  <1>2. ConnTyped(D)
    BY <1>1 DEF Inv, ConnTyped
  <1>3. \A s \in Streams : Listed(D, s) /\ Remembered(D, s)
    BY <1>1 DEF Inv, Listed, Remembered
  <1> QED
    BY <1>1, <1>2, <1>3 DEF Inv

\* Streams are destroyed for good, and only those that wait to be closed.
Reaped ==
    \A t \in Streams :
        /\ conn.st[t].life = "freed" => conn'.st[t].life = "freed"
        /\ conn'.st[t].life = "freed" /\ conn.st[t].life # "freed" => "NEED_CLOSE" \in conn.st[t].flags

LEMMA CloseStepSInv ==
    ASSUME Cross \subseteq SafeCross, SInv, CloseStep
    PROVE  SInv' /\ Reaped
  <1>1. PICK s : s = walk.pos
    BY Zenon
  <1>2. Inv(conn) /\ WInv /\ walk.kind = "close" /\ Cursor(conn.c) /\ s \in Range(conn.c) /\ conn.c \in Lists
    BY <1>1 DEF SInv, WInv, CloseStep, Cursor, Inv, ConnTyped
  <1>3. s \in Streams /\ conn.st[s].life = "live" /\ "NEED_CLOSE" \in conn.st[s].flags
    BY <1>2, OnListIsLive
  <1>4. PICK later : later = (walk.later \/ s \notin walk.due)
    BY Zenon
  <1>5. SUFFICES ASSUME NEW D, Inv(D), Range(conn.c) \ {s} \subseteq Range(D.c),
                        \A t \in Streams \ {s} : conn.st[t].life = "freed" <=> D.st[t].life = "freed",
                        conn' = IF walk.next = End THEN [D EXCEPT !.timer = KeepTimer(later)] ELSE D
                 PROVE  SInv' /\ Reaped
    <2>1. CASE s \notin walk.due
      <3>1. conn' = IF walk.next = End THEN [conn EXCEPT !.timer = KeepTimer(later)] ELSE conn
        BY <1>1, <1>4, <2>1 DEF CloseStep
      <3> QED
        BY <1>2, <1>5, <3>1
    <2>2. CASE s \in walk.due
      <3>1. PICK l : l = Del(conn.c, s)
        BY Zenon
      <3>2. l \in Lists /\ Range(l) = Range(conn.c) \ {s}
        BY <1>2, <3>1, DelList
      <3>3. PICK C : C = [conn EXCEPT !.c = l]
        BY Zenon
      <3>4. Inv(C) /\ C.st = conn.st /\ C.c = l
        BY <1>2, <3>2, <3>3, OtherListInv
      <3>5. PICK E \in IF "DISCARDED" \in C.st[s].flags THEN {C} ELSE Callback(C, "close", s) :
                conn' = IF walk.next = End THEN [Destroy(E, s) EXCEPT !.timer = KeepTimer(later)]
                        ELSE Destroy(E, s)
        BY <1>1, <1>4, <2>2, <3>1, <3>3, Zenon DEF CloseStep
      <3>6. /\ Inv(E) /\ SameEnds(conn, E) /\ E.st[s].life = "live"
            /\ Range(conn.c) \ {s} \subseteq Range(E.c) /\ s \notin Range(E.c)
        <4>1. CASE E = C
          BY <1>3, <3>2, <3>4, <4>1 DEF SameEnds
        <4>2. CASE E \in Callback(C, "close", s)
          <5>1. \A t \in Live : C.st[t].life = "live"
            BY <3>4 DEF Live
          <5>2. C.st[s].life = "live" /\ "NEED_CLOSE" \in C.st[s].flags /\ s \notin Range(C.c)
            BY <1>3, <3>2, <3>4
          <5>3. /\ Inv(E) /\ SameEnds(C, E) /\ E.st[s].life = "live"
                /\ Range(C.c) \ {s} \subseteq Range(E.c) /\ s \notin Range(E.c)
            BY <1>3, <3>4, <4>2, <5>1, <5>2, CallbackKeeps
          <5> QED
            BY <3>2, <3>4, <5>3 DEF SameEnds
        <4> QED
          BY <3>5, <4>1, <4>2
      <3>7. PICK D : D = Destroy(E, s)
        BY Zenon
      <3>8. Inv(D) /\ D.c = E.c /\ \A t \in Streams \ {s} : D.st[t] = E.st[t]
        BY <1>3, <3>6, <3>7, DestroyInv
      <3>9. \A t \in Streams \ {s} : conn.st[t].life = "freed" <=> D.st[t].life = "freed"
        BY <3>6, <3>8 DEF SameEnds
      <3>10. Range(conn.c) \ {s} \subseteq Range(D.c)
        BY <3>6, <3>8
      <3>11. conn' = IF walk.next = End THEN [D EXCEPT !.timer = KeepTimer(later)] ELSE D
        BY <3>5, <3>7
      <3> QED
        BY <1>5, <3>8, <3>9, <3>10, <3>11
    <2> QED
      BY <2>1, <2>2
  <1>6. Inv(conn') /\ conn'.st = D.st /\ conn'.c = D.c
    BY <1>5, TimerInv
  <1>7. conn'.c \in Lists /\ Range(conn.c) \ {s} \subseteq Range(conn'.c)
    BY <1>5, <1>6 DEF Inv, ConnTyped
  <1>8. walk' = Advance(conn'.c, later)
    BY <1>1, <1>4 DEF CloseStep
  <1>9. \/ walk' = NoWalk
        \/ /\ walk' = [kind |-> walk'.kind, pos |-> walk'.pos, next |-> walk'.next,
                       due |-> walk'.due, later |-> walk'.later]
           /\ walk'.kind = walk.kind
           /\ walk'.pos \in Range(conn'.c) /\ walk'.next \in (Range(conn'.c) \ {walk'.pos}) \cup {End}
    <2>1. Range(conn.c) \ {walk.pos} \subseteq Range(conn'.c)
      BY <1>1, <1>7
    <2> QED
      BY <1>2, <1>7, <1>8, <2>1, AdvanceOnList, Zenon
  <1>10. WInv'
    <2>1. CASE walk' = NoWalk
      BY <2>1 DEF WInv, NoWalk
    <2>2. CASE walk' # NoWalk
      BY <1>2, <1>9, <2>2 DEF WInv, Cursor
    <2> QED
      BY <2>1, <2>2
  <1>11. Reaped
    BY <1>3, <1>5, <1>6 DEF Reaped
  <1> QED
    BY <1>6, <1>10, <1>11 DEF SInv

-----------------------------------------------------------------------------
(* The theorems *)

\* Every step keeps the invariant and destroys only streams that wait for it.
LEMMA NextSInv ==
    ASSUME Cross \subseteq SafeCross, SInv, [Next]_vars
    PROVE  SInv' /\ Reaped
  <1>1. ASSUME SameEnds(conn, conn') PROVE Reaped
    BY <1>1 DEF SameEnds, Reaped
  <1>2. CASE UNCHANGED vars
    BY <1>2, Zenon DEF vars, SInv, WInv, Cursor, Reaped
  <1>3. ASSUME NEW s \in Streams, Create(s) \/ AppCall(s) PROVE SInv' /\ Reaped
    BY <1>1, <1>3, CreateSInv, AppCallSInv
  <1>4. ASSUME NEW s \in Streams, RecvData(s) \/ RecvFin(s) \/ RecvReset(s) \/ RecvStop(s)
        PROVE  SInv' /\ Reaped
    BY <1>1, <1>4, FrameSInv
  <1>5. ASSUME NEW s \in Streams, NEW k \in Frame, Sent(s, k) \/ RecvAck(s, k)
        PROVE  SInv' /\ Reaped
    BY <1>1, <1>5, SendSInv
  <1>6. CASE StartRead \/ StartWrite \/ StartClose
    BY <1>1, <1>6, StartSInv
  <1>7. CASE ReadStep
    BY <1>1, <1>7, ReadStepSInv
  <1>8. CASE WriteStep
    BY <1>1, <1>8, WriteStepSInv
  <1>9. CASE CloseStep
    BY <1>9, CloseStepSInv
  <1> QED
    BY <1>2, <1>3, <1>4, <1>5, <1>6, <1>7, <1>8, <1>9 DEF Next

LEMMA AlwaysSInv == ASSUME Cross \subseteq SafeCross PROVE Spec => []SInv
  <1>1. SInv /\ [Next]_vars => SInv'
    BY NextSInv
  <1> QED
    BY <1>1, InitSInv, PTL DEF Spec

\* Whatever the application calls, for any streams, the loops of
\* rqc_process_read_streams, rqc_process_write_streams and
\* rqc_timer_stream_close_timeout stand on their list, if the calls made for
\* other streams are calls of rqc_stream_close, and not from stream_write_notify.
THEOREM CursorAlwaysOnList ==
    ASSUME Cross \subseteq SafeCross PROVE Spec => []CursorOnList
  <1>1. SInv => CursorOnList
    <2> SUFFICES ASSUME SInv PROVE CursorOnList
      OBVIOUS
    <2>1. Inv(conn) /\ WInv
      BY DEF SInv
    <2>2. conn.err = FALSE /\ conn.w \in Lists /\ conn.r \in Lists /\ conn.c \in Lists
      BY <2>1 DEF Inv, ConnTyped
    <2>3. Range(conn.w) \cup Range(conn.r) \cup Range(conn.c) \subseteq Live
      BY <2>1, OnListIsLive DEF Live
    <2>4. \A l \in {conn.w, conn.r, conn.c} : Range(l) \subseteq Live /\ IsInjective(l)
      BY <2>2, <2>3 DEF Lists
    <2> QED
      BY <2>1, <2>2, <2>4 DEF CursorOnList, WInv, Cursor
  <1> QED
    BY <1>1, AlwaysSInv, PTL

\* A RESET_STREAM that the application has not seen always keeps the stream in
\* the read list, whatever recv, peek, close and the loops do.
THEOREM ResetAlwaysHeard ==
    ASSUME Cross \subseteq SafeCross PROVE Spec => []ResetIsHeard
  <1>1. SInv => ResetIsHeard
    BY DEF SInv, Inv, Listed, ResetIsHeard, Live
  <1> QED
    BY <1>1, AlwaysSInv, PTL

\* A stream nobody reset or refused is destroyed only after both directions have
\* ended, and is not created again.
THEOREM StreamEndsOnce ==
    ASSUME Cross \subseteq SafeCross PROVE Spec => EndsOnce
  <1>1. SInv /\ [Next]_vars =>
          [/\ \A s \in Streams : conn.st[s].life = "freed" => conn'.st[s].life = "freed"
           /\ \A s \in Live \ (SendOnly \cup RecvOnly) :
                 LET x == conn.st[s] IN
                 conn'.st[s].life = "freed" =>
                     \/ SendIsReset(x) \/ "DISCARDED" \in x.flags
                     \/ /\ x.tx["fin"] = "acked" /\ x.tx["data"] \in {"no", "acked"}
                        /\ x.det /\ x.read = Size]_vars
    <2> SUFFICES ASSUME SInv, [Next]_vars
                 PROVE  /\ \A s \in Streams : conn.st[s].life = "freed" => conn'.st[s].life = "freed"
                        /\ \A s \in Live \ (SendOnly \cup RecvOnly) :
                              conn'.st[s].life = "freed" =>
                                 \/ SendIsReset(conn.st[s]) \/ "DISCARDED" \in conn.st[s].flags
                                 \/ /\ conn.st[s].tx["fin"] = "acked"
                                    /\ conn.st[s].tx["data"] \in {"no", "acked"}
                                    /\ conn.st[s].det /\ conn.st[s].read = Size
      BY Zenon
    <2>1. Reaped
      BY NextSInv
    <2>2. SUFFICES ASSUME NEW s \in Streams, conn.st[s].life = "live", conn'.st[s].life = "freed",
                          s \notin SendOnly \cup RecvOnly
                   PROVE  \/ SendIsReset(conn.st[s]) \/ "DISCARDED" \in conn.st[s].flags
                          \/ /\ conn.st[s].tx["fin"] = "acked"
                             /\ conn.st[s].tx["data"] \in {"no", "acked"}
                             /\ conn.st[s].det /\ conn.st[s].read = Size
      BY <2>1 DEF Reaped, Live
    <2>3. "NEED_CLOSE" \in conn.st[s].flags
      BY <2>1, <2>2 DEF Reaped
    <2>4. Sound(s, conn.st[s])
      BY DEF SInv, Inv
    <2> QED
      BY <2>2, <2>3, <2>4, Zenon DEF Sound
  <1> QED
    BY <1>1, AlwaysSInv, PTL DEF Spec, EndsOnce
=============================================================================
