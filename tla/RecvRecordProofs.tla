-------------------------- MODULE RecvRecordProofs --------------------------
(***************************************************************************)
(* Proofs about the receive record, for every set of packet numbers and    *)
(* every limit on the number of ranges: the shape of the list, the         *)
(* refinement of AckSet, and the ACK frame.                                *)
(***************************************************************************)
EXTENDS MCRecvRecord, SequenceTheorems, FiniteSetTheorems, TLAPS

\* t is s with e in place of what is after i and before j.
IsSplice(t, s, i, j, e) == t = SubSeq(s, 1, i) \o <<e>> \o SubSeq(s, j, Len(s))

\* t is s with e before its element k.
IsInsert(t, s, k, e) == IsSplice(t, s, k - 1, k, e)

\* m is l with the nodes k - 1 and k joined.
IsJoin(m, l, k) == IsSplice(m, l, k - 2, k + 1, Node(l[k].low, l[k - 1].high))

\* Then what is before and after e stays in order.
Spliced(S, t, s, i, j, e) ==
    /\ t \in Seq(S)
    /\ Len(t) = Len(s) + i + 2 - j
    /\ \A x \in 1..i : t[x] = s[x]
    /\ t[i + 1] = e
    /\ \A x \in (i + 2)..Len(t) : x + j - i - 2 \in 1..Len(s) /\ t[x] = s[x + j - i - 2]

\* The elements of a spliced sequence.
LEMMA SpliceProperties ==
    ASSUME NEW S, NEW s \in Seq(S), NEW i \in 0..Len(s), NEW j \in (i + 1)..(Len(s) + 1),
           NEW e \in S, NEW t, IsSplice(t, s, i, j, e)
    PROVE  Spliced(S, t, s, i, j, e)
  <1>1. Len(s) \in Nat /\ i \in Nat /\ j \in Nat /\ \A x \in 1..Len(s) : s[x] \in S
    BY LenProperties, ElementOfSeq
  <1>2. PICK a : a = SubSeq(s, 1, i)
    OBVIOUS
  <1>3. PICK b : b = SubSeq(s, j, Len(s))
    OBVIOUS
  <1>4. /\ a \in Seq(S)
        /\ Len(a) = i
        /\ \A x \in 1..i : a[x] = s[x]
    <2>1. \A x \in 1..i : s[x] \in S
      BY <1>1
    <2> QED
      BY <1>1, <1>2, <2>1, SubSeqProperties, Z3
  <1>5. /\ b \in Seq(S)
        /\ Len(b) = Len(s) - j + 1
        /\ \A x \in 1..(Len(s) - j + 1) : b[x] = s[j + x - 1]
    <2>1. \A x \in j..Len(s) : s[x] \in S
      BY <1>1
    <2> QED
      BY <1>1, <1>3, <2>1, SubSeqProperties, Z3
  <1>6. <<e>> \in Seq(S) /\ Len(<<e>>) = 1 /\ <<e>>[1] = e
    OBVIOUS
  <1>7. PICK m : m = a \o <<e>>
    OBVIOUS
  <1>8. /\ m \in Seq(S)
        /\ Len(m) = i + 1
        /\ \A x \in 1..i : m[x] = s[x]
        /\ m[i + 1] = e
    <2>1. /\ m \in Seq(S)
          /\ Len(m) = Len(a) + 1
          /\ \A x \in 1..(Len(a) + 1) :
                m[x] = IF x <= Len(a) THEN a[x] ELSE <<e>>[x - Len(a)]
      BY <1>4, <1>6, <1>7, ConcatProperties
    <2>2. \A x \in 1..i : m[x] = s[x]
      BY <1>1, <1>4, <2>1
    <2>3. m[i + 1] = e
      <3>1. i + 1 \in 1..(Len(a) + 1) /\ ~(i + 1 <= Len(a)) /\ (i + 1) - Len(a) = 1
        BY <1>1, <1>4
      <3> QED
        BY <1>6, <2>1, <3>1
    <2> QED
      BY <1>4, <2>1, <2>2, <2>3
  <1>9. /\ t \in Seq(S)
        /\ Len(t) = Len(m) + Len(b)
        /\ \A x \in 1..(Len(m) + Len(b)) : t[x] = IF x <= Len(m) THEN m[x] ELSE b[x - Len(m)]
    <2>1. t = m \o b
      BY <1>2, <1>3, <1>7 DEF IsSplice
    <2> QED
      BY <1>5, <1>8, <2>1, ConcatProperties
  <1>10. Len(t) = Len(s) + i + 2 - j
    BY <1>1, <1>5, <1>8, <1>9
  <1>11. (\A x \in 1..i : t[x] = s[x]) /\ t[i + 1] = e
    <2>1. ASSUME NEW x \in 1..(i + 1) PROVE t[x] = m[x]
      <3>1. x \in 1..(Len(m) + Len(b)) /\ x <= Len(m)
        BY <1>1, <1>5, <1>8
      <3> QED
        BY <1>9, <3>1
    <2> QED
      BY <1>1, <1>8, <2>1
  <1>12. ASSUME NEW x \in (i + 2)..Len(t)
         PROVE  x + j - i - 2 \in 1..Len(s) /\ t[x] = s[x + j - i - 2]
    <2>1. PICK y \in 1..(Len(s) - j + 1) : y = x - (i + 1)
      BY <1>1, <1>10
    <2>2. t[x] = b[y]
      BY <1>1, <1>5, <1>8, <1>9, <2>1
    <2>3. j + y - 1 = x + j - i - 2 /\ j + y - 1 \in 1..Len(s)
      BY <1>1, <2>1
    <2> QED
      BY <1>5, <2>1, <2>2, <2>3
  <1> QED
    BY <1>9, <1>10, <1>11, <1>12 DEF Spliced

\* The elements of a sequence that e was inserted into.
Inserted(S, t, s, k, e) ==
    /\ t \in Seq(S)
    /\ Len(t) = Len(s) + 1
    /\ \A x \in 1..(Len(s) + 1) :
         t[x] = IF x < k THEN s[x] ELSE IF x = k THEN e ELSE s[x - 1]

\* Inserting a node before node k.
LEMMA InsertShape ==
    ASSUME NEW S, NEW s \in Seq(S), NEW k \in 1..(Len(s) + 1), NEW e \in S,
           NEW t, IsInsert(t, s, k, e)
    PROVE  Inserted(S, t, s, k, e)
  <1>1. Len(s) \in Nat
    BY LenProperties
  <1>2. PICK i \in 0..Len(s) : i = k - 1
    BY <1>1
  <1>3. k \in (i + 1)..(Len(s) + 1) /\ IsSplice(t, s, i, k, e)
    BY <1>1, <1>2 DEF IsInsert
  <1>4. /\ t \in Seq(S)
        /\ Len(t) = Len(s) + i + 2 - k
        /\ \A x \in 1..i : t[x] = s[x]
        /\ t[i + 1] = e
        /\ \A x \in (i + 2)..Len(t) : x + k - i - 2 \in 1..Len(s) /\ t[x] = s[x + k - i - 2]
    <2>1. Spliced(S, t, s, i, k, e)
      BY <1>3, SpliceProperties
    <2> QED
      BY <2>1 DEF Spliced
  <1>5. Len(t) = Len(s) + 1
    BY <1>1, <1>2, <1>4
  <1>6. ASSUME NEW x \in 1..(Len(s) + 1)
        PROVE  t[x] = IF x < k THEN s[x] ELSE IF x = k THEN e ELSE s[x - 1]
    <2>1. CASE x < k
      <3>1. x \in 1..i
        BY <1>1, <1>2, <2>1
      <3> QED
        BY <1>4, <2>1, <3>1
    <2>2. CASE x = k
      <3>1. x = i + 1 /\ ~(x < k)
        BY <1>1, <1>2, <2>2
      <3> QED
        BY <1>4, <2>2, <3>1
    <2>3. CASE x > k
      <3>1. x \in (i + 2)..Len(t) /\ x + k - i - 2 = x - 1
        BY <1>1, <1>2, <1>5, <2>3
      <3> QED
        BY <1>4, <2>3, <3>1
    <2> QED
      BY <1>1, <2>1, <2>2, <2>3
  <1> QED
    BY <1>4, <1>5, <1>6 DEF Inserted

-----------------------------------------------------------------------------
(* One lemma per way a list of ranges can change.                              *)

Sound(l, S) == l \in Seq(PktnoRange) /\ Apart(l) /\ Within(l, S)

\* In a list of ranges every bound is a natural number.
LEMMA BoundsAreNat ==
    ASSUME NEW l \in Seq(PktnoRange)
    PROVE  /\ Len(l) \in Nat
           /\ \A i \in 1..Len(l) : l[i].low \in Nat /\ l[i].high \in Nat
  <1>1. Len(l) \in Nat
    BY LenProperties
  <1>2. ASSUME NEW i \in 1..Len(l)
        PROVE  l[i].low \in Nat /\ l[i].high \in Nat
    <2>1. l[i] \in PktnoRange
      BY ElementOfSeq
    <2> QED
      BY <2>1 DEF PktnoRange
  <1> QED
    BY <1>1, <1>2

\* A node is a range of naturals.
LEMMA NodeIsRange ==
    ASSUME NEW a \in Nat, NEW b \in Nat
    PROVE  Node(a, b) \in PktnoRange /\ Node(a, b).low = a /\ Node(a, b).high = b
  BY DEF Node, PktnoRange

\* Where the walk stops: the nodes before k are above pn, the others below it,
\* and by two at least when pn does not merge with them.
LEMMA StopSplits ==
    ASSUME NEW l \in Seq(PktnoRange), Apart(l), NEW pn \in Nat,
           NEW k \in 1..(Len(l) + 1), StopsAt(l, pn, k)
    PROVE  /\ \A i \in 1..(k - 1) : pn < l[i].low
           /\ \A i \in k..Len(l) : l[i].high < pn
           /\ ~MergesPrev(l, pn, k) => \A i \in 1..(k - 1) : pn + 1 < l[i].low
           /\ ~MergesNext(l, pn, k) => \A i \in k..Len(l) : l[i].high + 1 < pn
  <1>1. /\ Len(l) \in Nat
        /\ \A i \in 1..Len(l) : l[i].low \in Nat /\ l[i].high \in Nat
    BY BoundsAreNat
  <1>2. \A i \in 1..(k - 1) : pn < l[i].low
    BY DEF StopsAt
  <1>3. ASSUME NEW i \in k..Len(l)
        PROVE  /\ l[i].high < pn
               /\ ~MergesNext(l, pn, k) => l[i].high + 1 < pn
    <2>1. k \in 1..Len(l) /\ i \in 1..Len(l) /\ l[k].high < pn
      BY <1>1 DEF StopsAt
    <2>2. ~MergesNext(l, pn, k) => l[k].high + 1 < pn
      BY <1>1, <2>1 DEF MergesNext
    <2>3. i = k \/ (i > k /\ l[i].high + 1 < l[k].low /\ l[k].low <= l[k].high)
      BY <1>1, <2>1 DEF Apart
    <2> QED
      BY <1>1, <2>1, <2>2, <2>3
  <1>4. ASSUME NEW i \in 1..(k - 1), ~MergesPrev(l, pn, k)
        PROVE  pn + 1 < l[i].low
    <2>1. k - 1 \in 1..Len(l) /\ i \in 1..Len(l) /\ pn < l[k - 1].low /\ pn < l[i].low
      BY <1>1, <1>2
    <2>2. pn + 1 < l[k - 1].low
      <3>1. k > 1 /\ l[k - 1].low \in Nat
        BY <1>1, <2>1
      <3>2. l[k - 1].low - 1 # pn
        BY <1>4, <3>1 DEF MergesPrev
      <3> QED
        BY <2>1, <3>1, <3>2
    <2>3. i = k - 1 \/ (i < k - 1 /\ l[k - 1].high + 1 < l[i].low /\ l[k - 1].low <= l[k - 1].high)
      BY <1>1, <2>1 DEF Apart
    <2> QED
      BY <1>1, <2>1, <2>2, <2>3
  <1> QED
    BY <1>2, <1>3, <1>4

\* Replacing one node by one that adds pn and stays clear of its neighbours.
LEMMA WidenSound ==
    ASSUME NEW l, NEW S, Sound(l, S), NEW pn \in Nat, NEW k \in 1..Len(l),
           NEW lo \in Nat, NEW hi \in Nat,
           lo <= hi, \A q \in lo..hi : q = pn \/ q \in l[k].low..l[k].high,
           \A i \in 1..Len(l) : i < k => hi + 1 < l[i].low,
           \A i \in 1..Len(l) : k < i => l[i].high + 1 < lo
    PROVE  /\ Sound([l EXCEPT ![k] = Node(lo, hi)], S \cup {pn})
           /\ Len([l EXCEPT ![k] = Node(lo, hi)]) = Len(l)
  <1> DEFINE m == [l EXCEPT ![k] = Node(lo, hi)]
  <1>1. /\ Len(l) \in Nat
        /\ \A i \in 1..Len(l) : l[i].low \in Nat /\ l[i].high \in Nat
    BY BoundsAreNat DEF Sound
  <1>2. /\ m \in Seq(PktnoRange)
        /\ Len(m) = Len(l)
        /\ \A i \in 1..Len(l) : m[i] = IF i = k THEN Node(lo, hi) ELSE l[i]
    BY NodeIsRange, ExceptSeq DEF Sound
  <1>3. ASSUME NEW i \in 1..Len(l)
        PROVE  /\ i # k => m[i].low = l[i].low /\ m[i].high = l[i].high
               /\ i = k => m[i].low = lo /\ m[i].high = hi
    BY <1>2, NodeIsRange
  <1> HIDE DEF m
  <1>4. \A i \in 1..Len(m) : m[i].low <= m[i].high
    BY <1>1, <1>2, <1>3 DEF Sound, Apart
  <1>5. ASSUME NEW i \in 1..Len(m), NEW j \in 1..Len(m), i < j
        PROVE  m[j].high + 1 < m[i].low
    <2>1. i \in 1..Len(l) /\ j \in 1..Len(l) /\ l[j].high + 1 < l[i].low
      BY <1>2, <1>5 DEF Sound, Apart
    <2>2. CASE i = k
      BY <1>1, <1>3, <1>5, <2>1, <2>2
    <2>3. CASE j = k
      BY <1>1, <1>3, <1>5, <2>1, <2>3
    <2>4. CASE i # k /\ j # k
      BY <1>3, <2>1, <2>4
    <2> QED
      BY <2>2, <2>3, <2>4
  <1>6. ASSUME NEW i \in 1..Len(m), NEW q \in m[i].low..m[i].high
        PROVE  q \in S \cup {pn}
    <2>1. i \in 1..Len(l) /\ \A x \in l[i].low..l[i].high : x \in S
      BY <1>2 DEF Sound, Within
    <2>2. CASE i = k
      <3>1. q \in lo..hi
        BY <1>3, <2>1, <2>2
      <3>2. q = pn \/ q \in l[i].low..l[i].high
        BY <2>2, <3>1
      <3> QED
        BY <2>1, <3>2
    <2>3. CASE i # k
      BY <1>3, <2>1, <2>3
    <2> QED
      BY <2>2, <2>3
  <1>7. Sound(m, S \cup {pn})
    BY <1>2, <1>4, <1>5, <1>6 DEF Sound, Apart, Within
  <1> QED
    BY <1>2, <1>7 DEF m

\* A new node for pn between the nodes above it and the nodes below it.
LEMMA InsertSound ==
    ASSUME NEW l, NEW S, Sound(l, S), NEW pn \in Nat, NEW k \in 1..(Len(l) + 1),
           \A i \in 1..(k - 1) : pn + 1 < l[i].low,
           \A i \in k..Len(l) : l[i].high + 1 < pn,
           NEW m \in Seq(PktnoRange), Len(m) = Len(l) + 1,
           \A i \in 1..(Len(l) + 1) :
              m[i] = IF i < k THEN l[i] ELSE IF i = k THEN Node(pn, pn) ELSE l[i - 1]
    PROVE  Sound(m, S \cup {pn})
  <1>1. /\ Len(l) \in Nat
        /\ \A i \in 1..Len(l) : l[i].low \in Nat /\ l[i].high \in Nat
    BY BoundsAreNat DEF Sound
  <1>2. ASSUME NEW i \in 1..Len(m)
        PROVE  \/ i < k /\ i \in 1..(k - 1) /\ i \in 1..Len(l) /\ m[i] = l[i]
               \/ i = k /\ m[i].low = pn /\ m[i].high = pn
               \/ i > k /\ i - 1 \in k..Len(l) /\ i - 1 \in 1..Len(l) /\ m[i] = l[i - 1]
    BY <1>1, NodeIsRange
  <1>3. ASSUME NEW i \in 1..Len(m) PROVE m[i].low <= m[i].high
    <2>1. \A j \in 1..Len(l) : l[j].low <= l[j].high
      BY DEF Sound, Apart
    <2>2. CASE i = k
      BY <1>1, <1>2, <2>2
    <2>3. CASE i # k
      BY <1>1, <1>2, <2>1, <2>3
    <2> QED
      BY <2>2, <2>3
  <1>4. ASSUME NEW i \in 1..Len(m), NEW j \in 1..Len(m), i < j
        PROVE  m[j].high + 1 < m[i].low
    <2>1. CASE i < k /\ j < k
      BY <1>1, <1>2, <1>4, <2>1, SMTT(90) DEF Sound, Apart
    <2>2. CASE i < k /\ j = k
      BY <1>1, <1>2, <1>4, <2>2
    <2>3. CASE i < k /\ j > k
      <3>1. /\ i \in 1..Len(l) /\ m[i] = l[i]
            /\ j - 1 \in 1..Len(l) /\ m[j] = l[j - 1]
        BY <1>1, <1>2, <2>3
      <3>2. l[j - 1].high + 1 < l[i].low
        BY <1>1, <2>3, <3>1 DEF Sound, Apart
      <3> QED
        BY <3>1, <3>2
    <2>4. CASE i = k /\ j > k
      BY <1>1, <1>2, <1>4, <2>4
    <2>5. CASE i > k /\ j > k
      <3>1. /\ i - 1 \in 1..Len(l) /\ m[i] = l[i - 1]
            /\ j - 1 \in 1..Len(l) /\ m[j] = l[j - 1]
        BY <1>1, <1>2, <2>5
      <3>2. i - 1 < j - 1
        BY <1>1, <1>4
      <3>3. l[j - 1].high + 1 < l[i - 1].low
        BY <3>1, <3>2 DEF Sound, Apart
      <3> QED
        BY <3>1, <3>3
    <2> QED
      BY <1>1, <1>4, <2>1, <2>2, <2>3, <2>4, <2>5
  <1>5. ASSUME NEW i \in 1..Len(m), NEW q \in m[i].low..m[i].high
        PROVE  q \in S \cup {pn}
    <2>1. CASE i < k
      BY <1>1, <1>2, <1>5, <2>1 DEF Sound, Within
    <2>2. CASE i = k
      BY <1>1, <1>2, <1>5, <2>2
    <2>3. CASE i > k
      BY <1>1, <1>2, <1>5, <2>3, SMTT(90) DEF Sound, Within
    <2> QED
      BY <1>1, <2>1, <2>2, <2>3
  <1> QED
    BY <1>3, <1>4, <1>5 DEF Sound, Apart, Within

\* The nodes of a list in which two became one.
Joined(m, l, k) ==
    /\ m \in Seq(PktnoRange) /\ Len(m) = Len(l) - 1
    /\ m[k - 1].low = l[k].low /\ m[k - 1].high = l[k - 1].high
    /\ \A x \in 1..Len(m) :
          \/ x < k - 1 /\ x \in 1..Len(l) /\ m[x] = l[x]
          \/ x = k - 1
          \/ x > k - 1 /\ x + 1 \in 1..Len(l) /\ m[x] = l[x + 1]

\* The list after two nodes became one.
LEMMA JoinShape ==
    ASSUME NEW l \in Seq(PktnoRange), NEW k \in 2..Len(l), NEW m, IsJoin(m, l, k)
    PROVE  Joined(m, l, k)
  <1>1. /\ Len(l) \in Nat
        /\ \A x \in 1..Len(l) : l[x].low \in Nat /\ l[x].high \in Nat
    BY BoundsAreNat
  <1>2. k - 1 \in 1..Len(l) /\ k \in 1..Len(l)
    BY <1>1
  <1>3. PICK e : e = Node(l[k].low, l[k - 1].high)
    OBVIOUS
  <1>4. e \in PktnoRange /\ e.low = l[k].low /\ e.high = l[k - 1].high
    BY <1>1, <1>2, <1>3, NodeIsRange
  <1>5. PICK i \in 0..Len(l), j \in 1..(Len(l) + 1) : i = k - 2 /\ j = k + 1
    BY <1>1
  <1>6. j \in (i + 1)..(Len(l) + 1) /\ IsSplice(m, l, i, j, e)
    BY <1>1, <1>3, <1>5 DEF IsJoin
  <1>7. /\ m \in Seq(PktnoRange)
        /\ Len(m) = Len(l) + i + 2 - j
        /\ \A x \in 1..i : m[x] = l[x]
        /\ m[i + 1] = e
        /\ \A x \in (i + 2)..Len(m) : x + j - i - 2 \in 1..Len(l) /\ m[x] = l[x + j - i - 2]
    <2>1. Spliced(PktnoRange, m, l, i, j, e)
      BY <1>4, <1>6, SpliceProperties
    <2> QED
      BY <2>1 DEF Spliced
  <1>8. Len(m) = Len(l) - 1 /\ m[k - 1] = e
    <2>1. i + 1 = k - 1 /\ Len(l) + i + 2 - j = Len(l) - 1
      BY <1>1, <1>5
    <2> QED
      BY <1>7, <2>1
  <1>9. ASSUME NEW x \in 1..Len(m)
        PROVE  \/ x < k - 1 /\ x \in 1..Len(l) /\ m[x] = l[x]
               \/ x = k - 1
               \/ x > k - 1 /\ x + 1 \in 1..Len(l) /\ m[x] = l[x + 1]
    <2>1. CASE x < k - 1
      <3>1. x \in 1..i /\ x \in 1..Len(l)
        BY <1>1, <1>5, <1>8, <2>1
      <3> QED
        BY <1>7, <2>1, <3>1
    <2>2. CASE x > k - 1
      <3>1. x \in (i + 2)..Len(m) /\ x + j - i - 2 = x + 1
        BY <1>1, <1>5, <1>8, <2>2
      <3> QED
        BY <1>7, <2>2, <3>1
    <2> QED
      BY <1>1, <1>8, <2>1, <2>2
  <1> QED
    BY <1>4, <1>7, <1>8, <1>9 DEF Joined

\* Closing the hole pn between two nodes.
LEMMA JoinSound ==
    ASSUME NEW l, NEW S, Sound(l, S), NEW pn \in Nat, NEW k \in 2..Len(l),
           l[k - 1].low - 1 = pn, l[k].high + 1 = pn, NEW m, IsJoin(m, l, k)
    PROVE  Sound(m, S \cup {pn}) /\ Len(m) = Len(l) - 1
  <1>1. /\ Len(l) \in Nat
        /\ \A i \in 1..Len(l) : l[i].low \in Nat /\ l[i].high \in Nat
    BY BoundsAreNat DEF Sound
  <1>2. k - 1 \in 1..Len(l) /\ k \in 1..Len(l) /\ k > 1
    BY <1>1
  <1>3. /\ m \in Seq(PktnoRange)
        /\ Len(m) = Len(l) - 1
        /\ m[k - 1].low = l[k].low /\ m[k - 1].high = l[k - 1].high
        /\ \A i \in 1..Len(m) :
                 \/ i < k - 1 /\ i \in 1..Len(l) /\ m[i] = l[i]
                 \/ i = k - 1
                 \/ i > k - 1 /\ i + 1 \in 1..Len(l) /\ m[i] = l[i + 1]
    <2>1. l \in Seq(PktnoRange)
      BY DEF Sound
    <2>2. Joined(m, l, k)
      BY <2>1, JoinShape
    <2> QED
      BY <2>2 DEF Joined
  <1>4. ASSUME NEW i \in 1..Len(m) PROVE m[i].low <= m[i].high
    <2>1. l[k].low <= l[k].high /\ l[k - 1].low <= l[k - 1].high
      BY <1>2 DEF Sound, Apart
    <2>2. l[k].low <= l[k - 1].high
      <3>1. /\ l[k].low \in Nat /\ l[k].high \in Nat
            /\ l[k - 1].low \in Nat /\ l[k - 1].high \in Nat
        BY <1>1, <1>2
      <3>2. \A a, b, c, d \in Nat :
                a <= b /\ c <= d /\ b + 1 = pn /\ c - 1 = pn => a <= d
        OBVIOUS
      <3> QED
        BY <2>1, <3>1, <3>2, Zenon
    <2> QED
      BY <1>3, <2>2 DEF Sound, Apart
  <1>5. ASSUME NEW i \in 1..Len(m), NEW j \in 1..Len(m), i < j
        PROVE  m[j].high + 1 < m[i].low
    <2> DEFINE a == IF i < k - 1 THEN i ELSE i + 1
               b == IF j <= k - 1 THEN j ELSE j + 1
    <2>1. a \in 1..Len(l) /\ m[i].low = l[a].low
      <3>1. CASE i < k - 1
        <4>1. ~(i > k - 1) /\ i # k - 1 /\ a = i
          BY <1>1, <1>2, <1>3, <3>1
        <4>2. i \in 1..Len(l) /\ m[i] = l[i]
          BY <1>3, <4>1
        <4> QED
          BY <4>1, <4>2
      <3>2. CASE i = k - 1
        <4>1. i + 1 = k /\ m[i].low = l[k].low
          BY <1>2, <1>3, <3>2
        <4> QED
          BY <1>2, <3>2, <4>1
      <3>3. CASE i > k - 1
        <4>1. ~(i < k - 1) /\ ~(i <= k - 1) /\ i # k - 1 /\ a = i + 1
          BY <1>1, <1>2, <1>3, <3>3
        <4>2. i + 1 \in 1..Len(l) /\ m[i] = l[i + 1]
          BY <1>3, <4>1
        <4> QED
          BY <4>1, <4>2
      <3> QED
        BY <1>1, <1>2, <1>3, <3>1, <3>2, <3>3
    <2>2. b \in 1..Len(l) /\ m[j].high = l[b].high
      <3>1. CASE j < k - 1
        <4>1. ~(j > k - 1) /\ j # k - 1 /\ b = j
          BY <1>1, <1>2, <1>3, <3>1
        <4>2. j \in 1..Len(l) /\ m[j] = l[j]
          BY <1>3, <4>1
        <4> QED
          BY <4>1, <4>2
      <3>2. CASE j = k - 1
        <4>1. b = j /\ m[j].high = l[j].high
          BY <1>2, <1>3, <3>2
        <4> QED
          BY <1>2, <3>2, <4>1
      <3>3. CASE j > k - 1
        <4>1. ~(j < k - 1) /\ ~(j <= k - 1) /\ j # k - 1 /\ b = j + 1
          BY <1>1, <1>2, <1>3, <3>3
        <4>2. j + 1 \in 1..Len(l) /\ m[j] = l[j + 1]
          BY <1>3, <4>1
        <4> QED
          BY <4>1, <4>2
      <3> QED
        BY <1>1, <1>2, <1>3, <3>1, <3>2, <3>3
    <2>3. a < b
      BY <1>1, <1>2, <1>3, <1>5
    <2> HIDE DEF a, b
    <2> QED
      BY <2>1, <2>2, <2>3 DEF Sound, Apart
  <1>6. ASSUME NEW i \in 1..Len(m), NEW q \in m[i].low..m[i].high
        PROVE  q \in S \cup {pn}
    <2>1. CASE i # k - 1
      BY <1>3, <1>6, <2>1 DEF Sound, Within
    <2>2. CASE i = k - 1
      <3>1. q \in l[k].low..l[k - 1].high
        BY <1>3, <2>2
      <3>2. q = pn \/ q \in l[k].low..l[k].high \/ q \in l[k - 1].low..l[k - 1].high
        BY <1>1, <1>2, <3>1, SMTT(90)
      <3> QED
        BY <1>2, <3>2 DEF Sound, Within
    <2> QED
      BY <2>1, <2>2
  <1>7. Sound(m, S \cup {pn})
    BY <1>3, <1>4, <1>5, <1>6 DEF Sound, Apart, Within
  <1> QED
    BY <1>3, <1>7

\* The first nodes of a sound list are a sound list.
LEMMA PrefixSound ==
    ASSUME NEW l, NEW S, Sound(l, S), NEW n \in 0..Len(l)
    PROVE  Sound(SubSeq(l, 1, n), S) /\ Len(SubSeq(l, 1, n)) = n
  <1> DEFINE m == SubSeq(l, 1, n)
  <1>1. Len(l) \in Nat /\ \A i \in 1..Len(l) : l[i] \in PktnoRange
    BY LenProperties, ElementOfSeq DEF Sound
  <1>2. /\ m \in Seq(PktnoRange)
        /\ Len(m) = n
        /\ \A i \in 1..n : m[i] = l[i]
    <2>1. \A i \in 1..n : l[i] \in PktnoRange
      BY <1>1
    <2> QED
      BY <1>1, <2>1, SubSeqProperties, Z3
  <1> HIDE DEF m
  <1>3. \A i \in 1..Len(m) : i \in 1..Len(l) /\ m[i] = l[i]
    BY <1>1, <1>2
  <1>4. Sound(m, S)
    BY <1>2, <1>3 DEF Sound, Apart, Within
  <1> QED
    BY <1>2, <1>4 DEF m

\* Pruning keeps a prefix of the nodes and raises low bounds within them.
LEMMA PruneSound ==
    ASSUME NEW l, NEW S, Sound(l, S), NEW from \in Nat, NEW k \in 0..Len(l),
           KeepsUpTo(l, from, k), NEW m,
           m = [i \in 1..k |-> Node(IF l[i].low < from THEN from ELSE l[i].low, l[i].high)]
    PROVE  Sound(m, S) /\ Len(m) = k
  <1>1. /\ Len(l) \in Nat
        /\ \A i \in 1..Len(l) : l[i].low \in Nat /\ l[i].high \in Nat
    BY BoundsAreNat DEF Sound
  <1>2. ASSUME NEW i \in 1..k
        PROVE  /\ i \in 1..Len(l)
               /\ m[i] \in PktnoRange
               /\ m[i].low \in Nat
               /\ l[i].low <= m[i].low
               /\ m[i].low <= m[i].high
               /\ m[i].high = l[i].high
    <2> DEFINE lo == IF l[i].low < from THEN from ELSE l[i].low
    <2>1. i \in 1..Len(l) /\ l[i].high >= from /\ l[i].low <= l[i].high
      BY <1>1 DEF KeepsUpTo, Sound, Apart
    <2>2. lo \in Nat /\ l[i].low <= lo /\ lo <= l[i].high
      BY <1>1, <2>1
    <2>3. m[i] = Node(lo, l[i].high)
      OBVIOUS
    <2> HIDE DEF lo
    <2> QED
      BY <1>1, <2>1, <2>2, <2>3, NodeIsRange
  <1>3. m \in Seq(PktnoRange) /\ Len(m) = k
    <2>1. k \in Nat /\ m \in [1..k -> PktnoRange]
      BY <1>1, <1>2
    <2> QED
      BY <2>1
  <1>4. ASSUME NEW i \in 1..k, NEW j \in 1..k, i < j
        PROVE  m[j].high + 1 < m[i].low
    <2>1. l[j].high + 1 < l[i].low
      BY <1>2, <1>4 DEF Sound, Apart
    <2> QED
      BY <1>1, <1>2, <2>1, SMTT(90)
  <1>5. ASSUME NEW i \in 1..k, NEW q \in m[i].low..m[i].high
        PROVE  q \in S
    <2>1. q \in l[i].low..l[i].high
      <3>1. /\ l[i].low \in Nat /\ l[i].high \in Nat /\ m[i].low \in Nat
            /\ l[i].low <= m[i].low /\ m[i].high = l[i].high
        BY <1>1, <1>2
      <3> QED
        BY <3>1
    <2> QED
      BY <1>2, <2>1 DEF Sound, Within
  <1> QED
    BY <1>2, <1>3, <1>4, <1>5 DEF Sound, Apart, Within

-----------------------------------------------------------------------------
(* The inductive invariant.  The type, the gaps between the ranges and what    *)
(* they hold are proved together: a merge keeps to the received packets only   *)
(* because the ranges are apart, and they stay apart only because of where the *)
(* walk stops in a list that is.                                               *)

IInv ==
    /\ Sound(list, received)
    /\ rr_del_from \in Nat
    /\ node_count = Len(list)
    /\ node_count <= MaxAckRangeCnt
    /\ received \subseteq Nat

\* The empty record of a new path satisfies the invariant.
LEMMA InitIInv == RRInit => IInv
  BY MaxAckRangeCntAssumption DEF RRInit, IInv, Sound, Apart, Within

\* A node of its own: the list it is put into, and what is left of it.
LEMMA AddNodeInserts ==
    ASSUME NEW pn, NEW k, AddNode(pn, k), node_count \in Nat
    PROVE  \E longer :
              /\ IsInsert(longer, list, k, Node(pn, pn))
              /\ node_count + 1 <= MaxAckRangeCnt =>
                    list' = longer /\ node_count' = node_count + 1
              /\ node_count + 1 > MaxAckRangeCnt =>
                    list' = SubSeq(longer, 1, Len(list)) /\ node_count' = node_count
  <1>1. MaxAckRangeCnt \in Nat
    BY MaxAckRangeCntAssumption
  <1> DEFINE longer == SubSeq(list, 1, k - 1) \o <<Node(pn, pn)>> \o SubSeq(list, k, Len(list))
  <1>2. IsInsert(longer, list, k, Node(pn, pn))
    BY DEF IsInsert, IsSplice
  <1>3. \/ /\ node_count + 1 <= MaxAckRangeCnt
           /\ list' = longer
           /\ node_count' = node_count + 1
        \/ /\ node_count + 1 > MaxAckRangeCnt
           /\ list' = SubSeq(longer, 1, Len(list))
           /\ node_count' = node_count
    BY DEF AddNode
  <1> HIDE DEF longer
  <1> QED
    BY <1>1, <1>2, <1>3

\* rqc_recv_record_add preserves the invariant, whichever branch it takes.
LEMMA AddIInv ==
    ASSUME IInv, NEW pn \in PktNums, Add(pn)
    PROVE  IInv'
  <1>1. pn \in Nat /\ MaxAckRangeCnt \in Nat /\ Len(list) \in Nat
    BY PktNumsAssumption, MaxAckRangeCntAssumption, BoundsAreNat DEF IInv, Sound
  <1>2. \A i \in 1..Len(list) : list[i].low \in Nat /\ list[i].high \in Nat
    BY BoundsAreNat DEF IInv, Sound
  <1>3. received' = received \cup {pn} /\ rr_del_from' = rr_del_from
    BY DEF Add
  <1>4. SUFFICES Sound(list', received') /\ node_count' = Len(list') /\ node_count' <= MaxAckRangeCnt
    BY <1>1, <1>3 DEF IInv
  <1>5. Sound(list, received')
    BY <1>3 DEF IInv, Sound, Within
  <1>6. CASE AddDup(pn)
    BY <1>5, <1>6 DEF AddDup, IInv
  <1>7. CASE \E k \in 1..(Len(list) + 1) :
            /\ StopsAt(list, pn, k)
            /\ \/ AddJoin(pn, k) \/ AddBelow(pn, k) \/ AddAbove(pn, k)
               \/ AddNode(pn, k) \/ AddTail(pn, k)
    <2>1. PICK k \in 1..(Len(list) + 1) :
            /\ StopsAt(list, pn, k)
            /\ \/ AddJoin(pn, k) \/ AddBelow(pn, k) \/ AddAbove(pn, k)
               \/ AddNode(pn, k) \/ AddTail(pn, k)
      BY <1>7
    <2>2. /\ \A i \in 1..(k - 1) : pn < list[i].low
          /\ \A i \in k..Len(list) : list[i].high < pn
          /\ ~MergesPrev(list, pn, k) => \A i \in 1..(k - 1) : pn + 1 < list[i].low
          /\ ~MergesNext(list, pn, k) => \A i \in k..Len(list) : list[i].high + 1 < pn
      BY <1>1, <2>1, StopSplits DEF IInv, Sound
    <2>3. CASE AddJoin(pn, k)
      <3>1. k \in 2..Len(list) /\ list[k - 1].low - 1 = pn /\ list[k].high + 1 = pn
        BY <1>1, <2>3 DEF AddJoin, MergesPrev, MergesNext
      <3>2. Sound(list', received') /\ Len(list') = Len(list) - 1
        <4>1. IsJoin(list', list, k)
          BY <2>3 DEF AddJoin, IsJoin, IsSplice
        <4>2. Sound(list, received)
          BY DEF IInv
        <4> QED
          BY <1>1, <1>3, <3>1, <4>1, <4>2, JoinSound
      <3> QED
        <4>1. node_count' = node_count - 1
          BY <2>3 DEF AddJoin
        <4> QED
          BY <1>1, <3>2, <4>1 DEF IInv
    <2>4. CASE AddBelow(pn, k)
      <3>1. k - 1 \in 1..Len(list) /\ list[k - 1].low - 1 = pn
        BY <1>1, <2>4 DEF AddBelow, MergesPrev
      <3>2. \A i \in 1..Len(list) : i < k - 1 => list[k - 1].high + 1 < list[i].low
        BY <1>1, <3>1 DEF IInv, Sound, Apart
      <3>3. \A i \in 1..Len(list) : k - 1 < i => list[i].high + 1 < pn
        BY <1>1, <2>2, <2>4 DEF AddBelow
      <3>4. pn + 1 = list[k - 1].low /\ list[k - 1].high \in Nat
        BY <1>1, <1>2, <3>1
      <3>5. Sound(list', received') /\ Len(list') = Len(list)
        <4>1. list' = [list EXCEPT ![k - 1] = Node(pn, list[k - 1].high)]
          BY <2>4 DEF AddBelow
        <4>2. Sound(list, received)
          BY DEF IInv
        <4>3. /\ Sound([list EXCEPT ![k - 1] = Node(pn, list[k - 1].high)], received \cup {pn})
              /\ Len([list EXCEPT ![k - 1] = Node(pn, list[k - 1].high)]) = Len(list)
          <5>1. PICK h \in 1..Len(list) : h = k - 1
            BY <3>1
          <5>2. /\ pn + 1 = list[h].low /\ list[h].high \in Nat
                /\ \A i \in 1..Len(list) : i < h => list[h].high + 1 < list[i].low
                /\ \A i \in 1..Len(list) : h < i => list[i].high + 1 < pn
            BY <3>2, <3>3, <3>4, <5>1
          <5>3. /\ Sound([list EXCEPT ![h] = Node(pn, list[h].high)], received \cup {pn})
                /\ Len([list EXCEPT ![h] = Node(pn, list[h].high)]) = Len(list)
            <6>1. PICK hi \in Nat : hi = list[h].high
              BY <5>2
            <6>2. pn <= hi /\ \A q \in pn..hi : q = pn \/ q \in list[h].low..list[h].high
              <7>1. list[h].low <= list[h].high
                BY DEF IInv, Sound, Apart
              <7> QED
                BY <1>1, <5>2, <6>1, <7>1
            <6>3. \A i \in 1..Len(list) : i < h => hi + 1 < list[i].low
              BY <5>2, <6>1
            <6>4. /\ Sound([list EXCEPT ![h] = Node(pn, hi)], received \cup {pn})
                  /\ Len([list EXCEPT ![h] = Node(pn, hi)]) = Len(list)
              BY <1>1, <4>2, <5>2, <6>2, <6>3, WidenSound, SMTT(90)
            <6> QED
              BY <6>1, <6>4
          <5> QED
            BY <5>1, <5>3
        <4> QED
          BY <1>3, <4>1, <4>3
      <3> QED
        BY <2>4, <3>5 DEF AddBelow, IInv
    <2>5. CASE AddAbove(pn, k)
      <3>1. k \in 1..Len(list) /\ list[k].high + 1 = pn
        BY <1>1, <2>5 DEF AddAbove, MergesNext
      <3>2. \A i \in 1..Len(list) : i < k => pn + 1 < list[i].low
        BY <1>1, <2>2, <2>5 DEF AddAbove
      <3>3. \A i \in 1..Len(list) : k < i => list[i].high + 1 < list[k].low
        BY <1>1, <3>1 DEF IInv, Sound, Apart
      <3>4. Sound(list', received') /\ Len(list') = Len(list)
        <4>1. list' = [list EXCEPT ![k] = Node(list[k].low, pn)]
          BY <2>5 DEF AddAbove
        <4>2. Sound(list, received) /\ list[k].low \in Nat
          BY <1>2, <3>1 DEF IInv
        <4>3. /\ Sound([list EXCEPT ![k] = Node(list[k].low, pn)], received \cup {pn})
              /\ Len([list EXCEPT ![k] = Node(list[k].low, pn)]) = Len(list)
          <5>1. list[k].low <= list[k].high
            BY <3>1 DEF IInv, Sound, Apart
          <5>2. list[k].low <= pn /\ \A q \in list[k].low..pn : q = pn \/ q \in list[k].low..list[k].high
            BY <1>1, <1>2, <3>1, <5>1
          <5> QED
            BY <1>1, <3>1, <3>2, <3>3, <4>2, <5>2, WidenSound, SMTT(90)
        <4> QED
          BY <1>3, <4>1, <4>3
      <3> QED
        BY <2>5, <3>4 DEF AddAbove, IInv
    <2>6. CASE AddNode(pn, k)
      <3>1. PICK longer :
              /\ IsInsert(longer, list, k, Node(pn, pn))
              /\ node_count + 1 <= MaxAckRangeCnt =>
                    list' = longer /\ node_count' = node_count + 1
              /\ node_count + 1 > MaxAckRangeCnt =>
                    list' = SubSeq(longer, 1, Len(list)) /\ node_count' = node_count
        BY <1>1, <2>6, AddNodeInserts DEF IInv
      <3>2. /\ longer \in Seq(PktnoRange)
            /\ Len(longer) = Len(list) + 1
            /\ \A i \in 1..(Len(list) + 1) :
                  longer[i] = IF i < k THEN list[i]
                              ELSE IF i = k THEN Node(pn, pn) ELSE list[i - 1]
        <4>1. list \in Seq(PktnoRange) /\ Node(pn, pn) \in PktnoRange
          BY <1>1, NodeIsRange DEF IInv, Sound
        <4>2. Inserted(PktnoRange, longer, list, k, Node(pn, pn))
          BY <3>1, <4>1, InsertShape
        <4> QED
          BY <4>2 DEF Inserted
      <3>3. Sound(longer, received')
        <4>1. /\ \A i \in 1..(k - 1) : pn + 1 < list[i].low
              /\ \A i \in k..Len(list) : list[i].high + 1 < pn
          BY <2>2, <2>6 DEF AddNode
        <4> QED
          BY <1>1, <1>3, <3>2, <4>1, InsertSound DEF IInv
      <3>4. CASE node_count + 1 <= MaxAckRangeCnt
        BY <3>1, <3>2, <3>3, <3>4 DEF IInv
      <3>5. CASE node_count + 1 > MaxAckRangeCnt
        <4>1. Sound(list', received') /\ Len(list') = Len(list)
          <5>1. PICK n \in 0..Len(longer) : n = Len(list)
            BY <1>1, <3>2
          <5>2. Sound(SubSeq(longer, 1, n), received') /\ Len(SubSeq(longer, 1, n)) = n
            BY <3>3, PrefixSound
          <5> QED
            BY <3>1, <3>5, <5>1, <5>2
        <4> QED
          BY <3>1, <3>5, <4>1 DEF IInv
      <3> QED
        BY <2>6, <3>4, <3>5 DEF AddNode
    <2>7. CASE AddTail(pn, k)
      <3> DEFINE longer == Append(list, Node(pn, pn))
      <3>1. k = Len(list) + 1
        BY <2>7 DEF AddTail
      <3>2. /\ longer \in Seq(PktnoRange)
            /\ Len(longer) = Len(list) + 1
            /\ \A i \in 1..(Len(list) + 1) :
                  longer[i] = IF i < k THEN list[i]
                              ELSE IF i = k THEN Node(pn, pn) ELSE list[i - 1]
        BY <1>1, <3>1, NodeIsRange, AppendProperties DEF IInv, Sound
      <3>3. Sound(longer, received')
        <4> HIDE DEF longer
        <4>1. /\ \A i \in 1..(k - 1) : pn + 1 < list[i].low
              /\ \A i \in k..Len(list) : list[i].high + 1 < pn
          BY <1>1, <2>2, <2>7, <3>1 DEF AddTail
        <4> QED
          BY <1>1, <1>3, <3>2, <4>1, InsertSound DEF IInv
      <3>4. CASE node_count < MaxAckRangeCnt
        <4>1. list' = longer /\ node_count' = node_count + 1
          BY <1>1, <2>7, <3>4 DEF AddTail, IInv
        <4> HIDE DEF longer
        <4> QED
          BY <1>1, <3>2, <3>3, <3>4, <4>1 DEF IInv
      <3>5. CASE node_count >= MaxAckRangeCnt
        BY <1>1, <1>5, <2>7, <3>5 DEF AddTail, IInv
      <3> QED
        BY <2>7, <3>4, <3>5 DEF AddTail
    <2> QED
      BY <2>1, <2>3, <2>4, <2>5, <2>6, <2>7
  <1> QED
    BY <1>6, <1>7 DEF Add

\* rqc_recv_record_del preserves the invariant.
LEMMA DelIInv ==
    ASSUME IInv, NEW from \in Nat, Del(from)
    PROVE  IInv'
  <1>1. MaxAckRangeCnt \in Nat /\ Len(list) \in Nat
    BY MaxAckRangeCntAssumption, BoundsAreNat DEF IInv, Sound
  <1>2. PICK k \in 0..Len(list) :
            /\ KeepsUpTo(list, from, k)
            /\ node_count' = node_count - (Len(list) - k)
            /\ list' = [i \in 1..k |->
                          Node(IF list[i].low < from THEN from ELSE list[i].low, list[i].high)]
    BY DEF Del
  <1>3. received' = received /\ rr_del_from' = from
    BY DEF Del
  <1>4. Sound(list', received) /\ Len(list') = k
    BY <1>2, PruneSound DEF IInv
  <1>5. node_count' = Len(list') /\ node_count' <= MaxAckRangeCnt
    <2>1. node_count = Len(list) /\ node_count <= MaxAckRangeCnt
      BY DEF IInv
    <2>2. node_count' = node_count - (Len(list) - k)
      BY <1>2
    <2> QED
      BY <1>1, <1>4, <2>1, <2>2
  <1> QED
    BY <1>3, <1>4, <1>5 DEF IInv

\* Every step of the record preserves the invariant.
LEMMA NextIInv == IInv /\ [RRNext]_rrVars => IInv'
  <1> SUFFICES ASSUME IInv, [RRNext]_rrVars PROVE IInv'
    OBVIOUS
  <1>1. CASE \E pn \in PktNums : Add(pn)
    BY <1>1, AddIInv
  <1>2. CASE \E pn \in PktNums : Del(pn + 1)
    <2>1. PICK pn \in PktNums : Del(pn + 1)
      BY <1>2
    <2>2. pn + 1 \in Nat
      BY PktNumsAssumption
    <2> QED
      BY <2>1, <2>2, DelIInv
  <1>3. CASE UNCHANGED rrVars
    BY <1>3 DEF rrVars, IInv, Sound, Apart, Within
  <1> QED
    BY <1>1, <1>2, <1>3 DEF RRNext

\* The receive record is well typed after any sequence of rqc_recv_record_add
\* and rqc_recv_record_del: node_count is the length of the list and never
\* exceeds RQC_MAX_ACK_RANGE_CNT.
THEOREM RecordTyped == RRSpec => []RRTypeOK
  <1>1. IInv => RRTypeOK
    BY DEF IInv, Sound, RRTypeOK
  <1> QED
    BY <1>1, InitIInv, NextIInv, PTL DEF RRSpec

\* The ranges stay non-empty, descending and not adjacent, so the unsigned gap
\* that rqc_gen_ack_frame computes between two of them never wraps.
THEOREM RecordApart == RRSpec => []RangesApart
  <1>1. IInv => RangesApart
    BY DEF IInv, Sound, RangesApart
  <1> QED
    BY <1>1, InitIInv, NextIInv, PTL DEF RRSpec

\* No merge, eviction or pruning ever makes the record acknowledge a packet
\* that was not received.
THEOREM RecordAcksOnlyReceived == RRSpec => []AcksOnlyReceived
  <1>1. IInv => AcksOnlyReceived
    BY DEF IInv, Sound, AcksOnlyReceived
  <1> QED
    BY <1>1, InitIInv, NextIInv, PTL DEF RRSpec

-----------------------------------------------------------------------------
(* The record as a set.  A sound list and the set of the numbers it          *)
(* acknowledges have the same runs: ranges and maximal runs correspond one to  *)
(* one, so the list that drops its last node is the set that drops its lowest  *)
(* run.                                                                        *)

\* What a list of ranges acknowledges.
Acked(l) == {pn \in PktNums : Covers(l, pn)}

\* Every number in a sound list is one of the numbers the peer uses.
LEMMA CoveredIsKnown ==
    ASSUME NEW l, NEW S, Sound(l, S), S \subseteq PktNums, NEW pn \in Int, Covers(l, pn)
    PROVE  pn \in Acked(l)
  <1>1. PICK i \in 1..Len(l) : l[i].low <= pn /\ pn <= l[i].high
    BY DEF Covers
  <1>2. l[i].low \in Nat /\ l[i].high \in Nat
    BY BoundsAreNat DEF Sound
  <1>3. pn \in l[i].low..l[i].high
    BY <1>1, <1>2
  <1> QED
    BY <1>3 DEF Sound, Within, Acked

\* The maximal runs of the numbers acknowledged are the ranges of the list: the
\* upper ends of the ones are the upper ends of the others.
LEMMA TopsAreHighs ==
    ASSUME NEW l, NEW S, Sound(l, S), S \subseteq PktNums
    PROVE  /\ \A i \in 1..Len(l) : l[i].high \in Promise!RunTops(Acked(l))
           /\ \A x \in Promise!RunTops(Acked(l)) : \E i \in 1..Len(l) : x = l[i].high
  <1>1. /\ Len(l) \in Nat
        /\ \A i \in 1..Len(l) : l[i].low \in Nat /\ l[i].high \in Nat
    BY BoundsAreNat DEF Sound
  <1>2. ASSUME NEW i \in 1..Len(l)
        PROVE  l[i].high \in Promise!RunTops(Acked(l))
    <2>1. PICK h \in Nat : h = l[i].high
      BY <1>1
    <2>2. h \in Acked(l)
      <3>1. Covers(l, h)
        BY <1>1, <2>1 DEF Covers, Sound, Apart
      <3> QED
        BY <3>1, CoveredIsKnown
    <2>3. ASSUME h + 1 \in Acked(l) PROVE FALSE
      <3>1. PICK j \in 1..Len(l) : l[j].low <= h + 1 /\ h + 1 <= l[j].high
        BY <2>3 DEF Acked, Covers
      <3>2. j # i
        BY <1>1, <2>1, <3>1
      <3>3. i < j \/ j < i
        BY <1>1, <3>2
      <3>4. i < j => l[j].high + 1 < l[i].low /\ l[i].low <= l[i].high
        BY DEF Sound, Apart
      <3>5. j < i => l[i].high + 1 < l[j].low
        BY DEF Sound, Apart
      <3>6. l[j].low \in Nat /\ l[j].high \in Nat /\ l[i].low \in Nat
        BY <1>1
      <3> QED
        BY <2>1, <3>1, <3>3, <3>4, <3>5, <3>6
    <2> QED
      BY <2>1, <2>2, <2>3 DEF Promise!RunTops
  <1>3. ASSUME NEW x \in Promise!RunTops(Acked(l))
        PROVE  \E i \in 1..Len(l) : x = l[i].high
    <2>1. x \in Acked(l) /\ x + 1 \notin Acked(l)
      BY DEF Promise!RunTops
    <2>2. x \in Nat /\ Covers(l, x)
      BY <2>1, PktNumsAssumption DEF Acked
    <2>3. PICK i \in 1..Len(l) : l[i].low <= x /\ x <= l[i].high
      BY <2>2 DEF Covers
    <2>4. ASSUME x # l[i].high PROVE FALSE
      <3>1. l[i].low <= x + 1 /\ x + 1 <= l[i].high
        BY <1>1, <2>2, <2>3, <2>4
      <3>2. Covers(l, x + 1)
        BY <3>1 DEF Covers
      <3> QED
        BY <2>1, <2>2, <3>2, CoveredIsKnown
    <2> QED
      BY <2>4
  <1> QED
    BY <1>2, <1>3

\* There are as many runs as ranges.
LEMMA RunsCounted ==
    ASSUME NEW l, NEW S, Sound(l, S), S \subseteq PktNums
    PROVE  Cardinality(Promise!RunTops(Acked(l))) = Len(l)
  <1>1. /\ Len(l) \in Nat
        /\ \A i \in 1..Len(l) : l[i].low \in Nat /\ l[i].high \in Nat
    BY BoundsAreNat DEF Sound
  <1> DEFINE T == Promise!RunTops(Acked(l))
             f == [i \in 1..Len(l) |-> l[i].high]
  <1>2. /\ \A i \in 1..Len(l) : l[i].high \in T
        /\ \A x \in T : \E i \in 1..Len(l) : x = l[i].high
    BY TopsAreHighs
  <1> HIDE DEF T
  <1>3. \A i, j \in 1..Len(l) : i # j => l[i].high # l[j].high
    <2> SUFFICES ASSUME NEW i \in 1..Len(l), NEW j \in 1..Len(l), i < j
                 PROVE  l[i].high # l[j].high
      BY <1>1
    <2>1. l[j].high + 1 < l[i].low /\ l[i].low <= l[i].high
      BY DEF Sound, Apart
    <2> QED
      BY <1>1, <2>1
  <1>4. f \in Bijection(1..Len(l), T)
    <2>1. f \in [1..Len(l) -> T]
      BY <1>2
    <2>2. f \in Injection(1..Len(l), T)
      BY <1>3, <2>1 DEF Injection, IsInjective
    <2>3. f \in Surjection(1..Len(l), T)
      BY <1>2, <2>1 DEF Surjection
    <2> QED
      BY <2>2, <2>3 DEF Bijection
  <1>5. ExistsBijection(1..Len(l), T)
    BY <1>4 DEF ExistsBijection
  <1>6. IsFiniteSet(1..Len(l)) /\ Cardinality(1..Len(l)) = Len(l)
    <2>1. PICK n \in Nat : n = Len(l)
      BY <1>1
    <2>2. IsFiniteSet(1..n) /\ Cardinality(1..n) = IF 1 > n THEN 0 ELSE n - 1 + 1
      <3>1. 1 \in Int /\ n \in Int
        OBVIOUS
      <3> QED
        BY <3>1, FS_Interval, Zenon
    <2>3. (IF 1 > n THEN 0 ELSE n - 1 + 1) = n
      OBVIOUS
    <2> QED
      BY <2>1, <2>2, <2>3
  <1> QED
    BY <1>5, <1>6, FS_Bijection DEF T

\* The lowest run is the last range of the list.
LEMMA LowestIsLast ==
    ASSUME NEW l, NEW S, Sound(l, S), S \subseteq PktNums, Len(l) > 0, NEW x \in Acked(l)
    PROVE  x \in Promise!LowestRun(Acked(l)) <=> x <= l[Len(l)].high
  <1>1. /\ Len(l) \in Nat
        /\ \A i \in 1..Len(l) : l[i].low \in Nat /\ l[i].high \in Nat
    BY BoundsAreNat DEF Sound
  <1>2. Len(l) \in 1..Len(l) /\ x \in Nat
    BY <1>1, PktNumsAssumption DEF Acked
  <1>3. /\ \A i \in 1..Len(l) : l[i].high \in Promise!RunTops(Acked(l))
        /\ \A t \in Promise!RunTops(Acked(l)) : \E i \in 1..Len(l) : t = l[i].high
    BY TopsAreHighs
  <1>4. ASSUME NEW i \in 1..Len(l) PROVE l[Len(l)].high <= l[i].high
    <2>1. i = Len(l) \/ i < Len(l)
      BY <1>1
    <2>2. i < Len(l) => l[Len(l)].high + 1 < l[i].low /\ l[i].low <= l[i].high
      BY <1>2 DEF Sound, Apart
    <2> QED
      BY <1>1, <1>2, <2>1, <2>2
  <1>5. x <= l[Len(l)].high => \A i \in 1..Len(l) : x <= l[i].high
    BY <1>1, <1>2, <1>4
  <1> QED
    BY <1>2, <1>3, <1>5 DEF Promise!LowestRun

\* AckSet counts with the same Cardinality.
LEMMA SameCardinality == \A T : Promise!Cardinality(T) = Cardinality(T)
  BY DEF Promise!Cardinality, Cardinality

\* At the limit, the list without its last range is the set without its lowest run.
LEMMA TrimDropsLast ==
    ASSUME NEW l, NEW m, NEW S, Sound(m, S), S \subseteq PktNums,
           l \in Seq(PktnoRange), Len(l) = MaxAckRangeCnt, Len(m) = Len(l) + 1,
           \A i \in 1..Len(l) : l[i] = m[i]
    PROVE  Promise!Trim(Acked(m)) = Acked(l)
  <1>1. /\ Len(m) \in Nat /\ Len(l) \in Nat /\ Len(m) > 0 /\ Len(m) \in 1..Len(m)
        /\ \A i \in 1..Len(m) : m[i].low \in Nat /\ m[i].high \in Nat
    BY BoundsAreNat DEF Sound
  <1>2. Cardinality(Promise!RunTops(Acked(m))) > MaxAckRangeCnt
    BY <1>1, RunsCounted
  <1>3. Promise!Trim(Acked(m)) = Acked(m) \ Promise!LowestRun(Acked(m))
    BY <1>2, SameCardinality DEF Promise!Trim
  <1>4. ASSUME NEW x \in PktNums
        PROVE  Covers(l, x) <=> Covers(m, x) /\ ~(x <= m[Len(m)].high)
    <2>1. x \in Nat
      BY PktNumsAssumption
    <2>2. ASSUME Covers(l, x) PROVE Covers(m, x) /\ ~(x <= m[Len(m)].high)
      <3>1. PICK i \in 1..Len(l) : l[i].low <= x /\ x <= l[i].high
        BY <2>2 DEF Covers
      <3>2. i \in 1..Len(m) /\ i < Len(m) /\ m[i].low <= x /\ x <= m[i].high
        BY <1>1, <3>1
      <3>3. m[Len(m)].high + 1 < m[i].low
        BY <1>1, <3>2 DEF Sound, Apart
      <3>4. m[Len(m)].high \in Nat /\ m[i].low \in Nat
        BY <1>1, <3>2
      <3> QED
        BY <2>1, <3>2, <3>3, <3>4 DEF Covers
    <2>3. ASSUME Covers(m, x), ~(x <= m[Len(m)].high) PROVE Covers(l, x)
      <3>1. PICK i \in 1..Len(m) : m[i].low <= x /\ x <= m[i].high
        BY <2>3 DEF Covers
      <3>2. i # Len(m)
        BY <2>3, <3>1
      <3>3. i \in 1..Len(l) /\ l[i] = m[i]
        BY <1>1, <3>2
      <3> QED
        BY <3>1, <3>3 DEF Covers
    <2> QED
      BY <2>2, <2>3
  <1>5. \A x \in Acked(m) : x \in Promise!LowestRun(Acked(m)) <=> x <= m[Len(m)].high
    BY <1>1, LowestIsLast
  <1> QED
    BY <1>3, <1>4, <1>5 DEF Acked

\* Below the limit nothing is trimmed.
LEMMA TrimKeepsAll ==
    ASSUME NEW m, NEW S, Sound(m, S), S \subseteq PktNums, Len(m) <= MaxAckRangeCnt
    PROVE  Promise!Trim(Acked(m)) = Acked(m)
  <1>1. Len(m) \in Nat /\ MaxAckRangeCnt \in Nat
    BY BoundsAreNat, MaxAckRangeCntAssumption DEF Sound
  <1>2. ~(Cardinality(Promise!RunTops(Acked(m))) > MaxAckRangeCnt)
    BY <1>1, RunsCounted
  <1> QED
    BY <1>2, SameCardinality DEF Promise!Trim

-----------------------------------------------------------------------------
(* What each change of the list does to the numbers it acknowledges.           *)

\* m acknowledges what l does, and pn.
Gains(l, m, pn) == \A x \in PktNums : Covers(m, x) <=> Covers(l, x) \/ x = pn

\* One node takes pn in.
LEMMA WidenGains ==
    ASSUME NEW l \in Seq(PktnoRange), NEW pn \in Nat, NEW k \in 1..Len(l),
           NEW lo \in Nat, NEW hi \in Nat, NEW m, m = [l EXCEPT ![k] = Node(lo, hi)],
           \A x \in Nat : (lo <= x /\ x <= hi) <=> ((l[k].low <= x /\ x <= l[k].high) \/ x = pn)
    PROVE  Gains(l, m, pn)
  <1>1. /\ m \in Seq(PktnoRange)
        /\ Len(m) = Len(l)
        /\ \A i \in 1..Len(l) : m[i] = IF i = k THEN Node(lo, hi) ELSE l[i]
    BY NodeIsRange, ExceptSeq
  <1>2. m[k].low = lo /\ m[k].high = hi /\ \A i \in 1..Len(l) : i # k => m[i] = l[i]
    BY <1>1, NodeIsRange
  <1>3. ASSUME NEW x \in PktNums
        PROVE  Covers(m, x) <=> Covers(l, x) \/ x = pn
    <2>1. x \in Nat
      BY PktNumsAssumption
    <2>2. (m[k].low <= x /\ x <= m[k].high) <=> ((l[k].low <= x /\ x <= l[k].high) \/ x = pn)
      BY <1>2, <2>1
    <2>3. ASSUME Covers(m, x) PROVE Covers(l, x) \/ x = pn
      <3>1. PICK i \in 1..Len(l) : m[i].low <= x /\ x <= m[i].high
        BY <1>1, <2>3 DEF Covers
      <3> QED
        BY <1>2, <2>2, <3>1 DEF Covers
    <2>4. ASSUME Covers(l, x) PROVE Covers(m, x)
      <3>1. PICK i \in 1..Len(l) : l[i].low <= x /\ x <= l[i].high
        BY <2>4 DEF Covers
      <3>2. m[i].low <= x /\ x <= m[i].high
        BY <1>2, <2>2, <3>1
      <3> QED
        BY <1>1, <3>2 DEF Covers
    <2>5. ASSUME x = pn PROVE Covers(m, x)
      BY <1>1, <2>2, <2>5 DEF Covers
    <2> QED
      BY <2>3, <2>4, <2>5
  <1> QED
    BY <1>3 DEF Gains

\* A node of its own for pn.
LEMMA InsertGains ==
    ASSUME NEW l \in Seq(PktnoRange), NEW pn \in Nat, NEW k \in 1..(Len(l) + 1),
           NEW m \in Seq(PktnoRange), Len(m) = Len(l) + 1,
           \A i \in 1..(Len(l) + 1) :
              m[i] = IF i < k THEN l[i] ELSE IF i = k THEN Node(pn, pn) ELSE l[i - 1]
    PROVE  Gains(l, m, pn)
  <1>1. Len(l) \in Nat /\ Node(pn, pn).low = pn /\ Node(pn, pn).high = pn
    BY LenProperties, NodeIsRange
  <1>2. ASSUME NEW x \in PktNums, Covers(m, x) PROVE Covers(l, x) \/ x = pn
    <2>1. x \in Nat
      BY PktNumsAssumption
    <2>2. PICK i \in 1..(Len(l) + 1) : m[i].low <= x /\ x <= m[i].high
      BY <1>2 DEF Covers
    <2>3. CASE i < k
      <3>1. i \in 1..Len(l) /\ m[i] = l[i]
        BY <1>1, <2>3
      <3> QED
        BY <2>2, <3>1 DEF Covers
    <2>4. CASE i = k
      <3>1. m[i] = Node(pn, pn)
        BY <2>4
      <3> QED
        BY <1>1, <2>1, <2>2, <3>1
    <2>5. CASE i > k
      <3>1. i - 1 \in 1..Len(l) /\ m[i] = l[i - 1]
        BY <1>1, <2>5
      <3> QED
        BY <2>2, <3>1 DEF Covers
    <2> QED
      BY <1>1, <2>3, <2>4, <2>5
  <1>3. ASSUME NEW x \in PktNums, Covers(l, x) PROVE Covers(m, x)
    <2>1. PICK i \in 1..Len(l) : l[i].low <= x /\ x <= l[i].high
      BY <1>3 DEF Covers
    <2>2. CASE i < k
      <3>1. i \in 1..Len(m) /\ m[i] = l[i]
        BY <1>1, <2>2
      <3> QED
        BY <2>1, <3>1 DEF Covers
    <2>3. CASE i >= k
      <3>1. i + 1 \in 1..Len(m) /\ ~(i + 1 < k) /\ i + 1 # k /\ (i + 1) - 1 = i
        BY <1>1, <2>3
      <3>2. m[i + 1] = l[i]
        BY <1>1, <3>1
      <3> QED
        BY <2>1, <3>1, <3>2 DEF Covers
    <2> QED
      BY <1>1, <2>2, <2>3
  <1>4. Covers(m, pn)
    <2>1. k \in 1..Len(m) /\ m[k] = Node(pn, pn)
      BY <1>1
    <2> QED
      BY <1>1, <2>1 DEF Covers
  <1> QED
    BY <1>2, <1>3, <1>4 DEF Gains

\* Two nodes and the hole between them become one.
LEMMA JoinGains ==
    ASSUME NEW l, NEW S, Sound(l, S), NEW pn \in Nat, NEW k \in 2..Len(l),
           l[k - 1].low - 1 = pn, l[k].high + 1 = pn, NEW m, IsJoin(m, l, k)
    PROVE  Gains(l, m, pn)
  <1>1. /\ Len(l) \in Nat
        /\ \A i \in 1..Len(l) : l[i].low \in Nat /\ l[i].high \in Nat
    BY BoundsAreNat DEF Sound
  <1>2. k - 1 \in 1..Len(l) /\ k \in 1..Len(l) /\ k > 1
    BY <1>1
  <1>3. /\ Len(m) = Len(l) - 1
        /\ m[k - 1].low = l[k].low /\ m[k - 1].high = l[k - 1].high
        /\ \A i \in 1..Len(m) :
                 \/ i < k - 1 /\ i \in 1..Len(l) /\ m[i] = l[i]
                 \/ i = k - 1
                 \/ i > k - 1 /\ i + 1 \in 1..Len(l) /\ m[i] = l[i + 1]
    <2>1. l \in Seq(PktnoRange)
      BY DEF Sound
    <2>2. Joined(m, l, k)
      BY <2>1, JoinShape
    <2> QED
      BY <2>2 DEF Joined
  <1>4. l[k].low <= l[k].high /\ l[k - 1].low <= l[k - 1].high
    BY <1>2 DEF Sound, Apart
  <1>5. ASSUME NEW x \in Nat
        PROVE  (m[k - 1].low <= x /\ x <= m[k - 1].high) <=>
                  \/ (l[k].low <= x /\ x <= l[k].high) \/ x = pn
                  \/ (l[k - 1].low <= x /\ x <= l[k - 1].high)
    <2>1. /\ l[k].low \in Nat /\ l[k].high \in Nat
          /\ l[k - 1].low \in Nat /\ l[k - 1].high \in Nat
      BY <1>1, <1>2
    <2>2. PICK a \in Nat, b \in Nat, c \in Nat, d \in Nat :
             a = l[k].low /\ b = l[k].high /\ c = l[k - 1].low /\ d = l[k - 1].high
      BY <2>1
    <2>3. a <= b /\ c <= d /\ b + 1 = pn /\ c - 1 = pn
      BY <1>4, <2>2
    <2>4. (a <= x /\ x <= d) <=> ((a <= x /\ x <= b) \/ x = pn \/ (c <= x /\ x <= d))
      BY <2>3
    <2> QED
      BY <1>3, <2>2, <2>4
  <1>6. ASSUME NEW x \in PktNums, Covers(m, x) PROVE Covers(l, x) \/ x = pn
    <2>1. x \in Nat
      BY PktNumsAssumption
    <2>2. PICK i \in 1..Len(m) : m[i].low <= x /\ x <= m[i].high
      BY <1>6 DEF Covers
    <2>3. CASE i = k - 1
      <3>1. \/ (l[k].low <= x /\ x <= l[k].high) \/ x = pn
            \/ (l[k - 1].low <= x /\ x <= l[k - 1].high)
        <4>1. m[k - 1].low <= x /\ x <= m[k - 1].high
          BY <2>2, <2>3
        <4> QED
          BY <1>5, <2>1, <4>1, Zenon
      <3> QED
        BY <1>2, <3>1 DEF Covers
    <2>4. CASE i < k - 1
      <3>1. i \in 1..Len(l) /\ m[i] = l[i]
        <4>1. ~(i > k - 1) /\ i # k - 1
          BY <1>1, <2>4
        <4> QED
          BY <1>3, <4>1
      <3> QED
        BY <2>2, <3>1 DEF Covers
    <2>5. CASE i > k - 1
      <3>1. i + 1 \in 1..Len(l) /\ m[i] = l[i + 1]
        <4>1. ~(i < k - 1) /\ i # k - 1
          BY <1>1, <1>3, <2>5
        <4> QED
          BY <1>3, <4>1
      <3> QED
        BY <2>2, <3>1 DEF Covers
    <2> QED
      BY <1>1, <1>3, <2>3, <2>4, <2>5
  <1>7. ASSUME NEW x \in PktNums, Covers(l, x) \/ x = pn PROVE Covers(m, x)
    <2>1. x \in Nat
      BY PktNumsAssumption
    <2>2. (m[k - 1].low <= x /\ x <= m[k - 1].high) => Covers(m, x)
      BY <1>3 DEF Covers
    <2>3. CASE x = pn
      BY <1>5, <2>1, <2>2, <2>3
    <2>4. CASE Covers(l, x)
      <3>1. PICK i \in 1..Len(l) : l[i].low <= x /\ x <= l[i].high
        BY <2>4 DEF Covers
      <3>2. CASE i = k \/ i = k - 1
        BY <1>5, <2>1, <2>2, <3>1, <3>2
      <3>3. CASE i < k - 1
        <4>1. i \in 1..Len(m) /\ ~(i > k - 1) /\ i # k - 1
          BY <1>1, <1>2, <1>3, <3>3
        <4>2. m[i] = l[i]
          BY <1>3, <4>1
        <4> QED
          BY <3>1, <4>1, <4>2 DEF Covers
      <3>4. CASE i > k
        <4>1. i - 1 \in 1..Len(m) /\ i - 1 >= k /\ (i - 1) + 1 = i
          BY <1>1, <1>2, <1>3, <3>4
        <4>2. m[i - 1] = l[i]
          BY <1>3, <4>1
        <4> QED
          BY <3>1, <4>1, <4>2 DEF Covers
      <3> QED
        BY <1>1, <3>2, <3>3, <3>4
    <2> QED
      BY <1>7, <2>3, <2>4
  <1> QED
    BY <1>6, <1>7 DEF Gains

\* m acknowledges the numbers of l from from on.
Loses(l, m, from) == \A x \in PktNums : Covers(m, x) <=> Covers(l, x) /\ x >= from

\* Pruning takes the numbers below from and no other.
LEMMA PruneLoses ==
    ASSUME NEW l, NEW S, Sound(l, S), NEW from \in Nat, NEW k \in 0..Len(l),
           KeepsUpTo(l, from, k), NEW m,
           m = [i \in 1..k |-> Node(IF l[i].low < from THEN from ELSE l[i].low, l[i].high)]
    PROVE  Loses(l, m, from)
  <1>1. /\ Len(l) \in Nat
        /\ \A i \in 1..Len(l) : l[i].low \in Nat /\ l[i].high \in Nat
    BY BoundsAreNat DEF Sound
  <1>2. Len(m) = k
    BY PruneSound
  <1>3. ASSUME NEW i \in 1..k
        PROVE  /\ i \in 1..Len(l)
               /\ m[i].low = IF l[i].low < from THEN from ELSE l[i].low
               /\ m[i].high = l[i].high
    <2> DEFINE lo == IF l[i].low < from THEN from ELSE l[i].low
    <2>1. i \in 1..Len(l) /\ lo \in Nat /\ l[i].high \in Nat
      BY <1>1
    <2>2. m[i] = Node(lo, l[i].high)
      OBVIOUS
    <2> HIDE DEF lo
    <2>3. m[i].low = lo /\ m[i].high = l[i].high
      <3>1. Node(lo, l[i].high).low = lo /\ Node(lo, l[i].high).high = l[i].high
        BY <2>1, NodeIsRange
      <3> QED
        BY <2>2, <3>1, Zenon
    <2> QED
      BY <2>1, <2>3 DEF lo
  <1>4. \A i \in 1..Len(l) : l[i].high >= from <=> i <= k
    BY DEF KeepsUpTo
  <1>5. ASSUME NEW x \in PktNums, Covers(m, x) PROVE Covers(l, x) /\ x >= from
    <2>1. x \in Nat
      BY PktNumsAssumption
    <2>2. PICK i \in 1..k : m[i].low <= x /\ x <= m[i].high
      BY <1>2, <1>5 DEF Covers
    <2>3. /\ i \in 1..Len(l) /\ l[i].low \in Nat
          /\ m[i].low = IF l[i].low < from THEN from ELSE l[i].low
          /\ m[i].high = l[i].high
      BY <1>1, <1>3
    <2>4. l[i].low <= x /\ x <= l[i].high /\ x >= from
      BY <2>1, <2>2, <2>3
    <2> QED
      BY <2>3, <2>4 DEF Covers
  <1>6. ASSUME NEW x \in PktNums, Covers(l, x), x >= from PROVE Covers(m, x)
    <2>1. x \in Nat
      BY PktNumsAssumption
    <2>2. PICK i \in 1..Len(l) : l[i].low <= x /\ x <= l[i].high
      BY <1>6 DEF Covers
    <2>3. l[i].low \in Nat /\ l[i].high \in Nat
      BY <1>1
    <2>4. i \in 1..k
      <3>1. l[i].high >= from
        BY <1>6, <2>1, <2>2, <2>3
      <3> QED
        BY <1>1, <1>4, <3>1
    <2>5. m[i].low <= x /\ x <= m[i].high
      <3>1. /\ m[i].low = IF l[i].low < from THEN from ELSE l[i].low
            /\ m[i].high = l[i].high
        BY <1>3, <2>4
      <3> QED
        BY <1>6, <2>1, <2>2, <2>3, <3>1
    <2> QED
      BY <1>2, <2>4, <2>5 DEF Covers
  <1> QED
    BY <1>5, <1>6 DEF Loses

-----------------------------------------------------------------------------
(* The refinement.  It needs, beside the inductive invariant, that nothing was *)
(* received but the numbers the peer uses.                                     *)

PInv == IInv /\ received \subseteq PktNums

\* Every step preserves it.
LEMMA NextPInv == PInv /\ [RRNext]_rrVars => PInv'
  <1> SUFFICES ASSUME PInv, [RRNext]_rrVars PROVE PInv'
    OBVIOUS
  <1>1. IInv'
    BY NextIInv DEF PInv
  <1>2. received' \subseteq PktNums
    BY DEF PInv, RRNext, Add, Del, rrVars
  <1> QED
    BY <1>1, <1>2 DEF PInv

\* A list that gained pn within the limit is the set that received it.
LEMMA GainReceives ==
    ASSUME PInv, PInv', NEW pn \in PktNums, ~Covers(list, pn), UNCHANGED rr_del_from,
           Gains(list, list', pn)
    PROVE  Promise!Receive(pn)
  <1>1. pn \notin Acked(list) /\ Acked(list') = Acked(list) \cup {pn}
    BY DEF Gains, Acked
  <1>2. Promise!Trim(Acked(list')) = Acked(list')
    BY TrimKeepsAll DEF PInv, IInv
  <1> QED
    BY <1>1, <1>2 DEF Promise!Receive, Acked

\* A list that would gain pn over the limit, and drops its last node.
LEMMA TrimReceives ==
    ASSUME PInv, PInv', NEW pn \in PktNums, ~Covers(list, pn), UNCHANGED rr_del_from,
           NEW m, Sound(m, received'), Gains(list, m, pn),
           Len(list') = MaxAckRangeCnt, Len(m) = Len(list') + 1,
           \A i \in 1..Len(list') : list'[i] = m[i]
    PROVE  Promise!Receive(pn)
  <1>1. pn \notin Acked(list) /\ Acked(m) = Acked(list) \cup {pn}
    BY DEF Gains, Acked
  <1>2. received' \subseteq PktNums /\ list' \in Seq(PktnoRange)
    BY DEF PInv, IInv, Sound
  <1>3. Promise!Trim(Acked(m)) = Acked(list')
    BY <1>2, TrimDropsLast
  <1> QED
    BY <1>1, <1>3 DEF Promise!Receive, Acked

\* rqc_recv_record_add does what AckSet says of a packet received.
LEMMA AddReceives ==
    ASSUME PInv, PInv', NEW pn \in PktNums, Add(pn)
    PROVE  Promise!Receive(pn)
  <1>1. /\ pn \in Nat /\ MaxAckRangeCnt \in Nat /\ Len(list) \in Nat
        /\ list \in Seq(PktnoRange) /\ Sound(list, received) /\ Apart(list)
        /\ Node(pn, pn) \in PktnoRange
    BY PktNumsAssumption, MaxAckRangeCntAssumption, BoundsAreNat, NodeIsRange DEF PInv, IInv, Sound
  <1>2. \A i \in 1..Len(list) : list[i].low \in Nat /\ list[i].high \in Nat
    BY <1>1, BoundsAreNat
  <1>3. received' = received \cup {pn} /\ UNCHANGED rr_del_from
    BY DEF Add
  <1>4. node_count = Len(list) /\ node_count <= MaxAckRangeCnt
    BY DEF PInv, IInv
  <1>5. CASE AddDup(pn)
    BY <1>3, <1>5 DEF AddDup, Promise!Receive
  <1>6. CASE \E k \in 1..(Len(list) + 1) :
            /\ StopsAt(list, pn, k)
            /\ \/ AddJoin(pn, k) \/ AddBelow(pn, k) \/ AddAbove(pn, k)
               \/ AddNode(pn, k) \/ AddTail(pn, k)
    <2>1. PICK k \in 1..(Len(list) + 1) :
            /\ StopsAt(list, pn, k)
            /\ \/ AddJoin(pn, k) \/ AddBelow(pn, k) \/ AddAbove(pn, k)
               \/ AddNode(pn, k) \/ AddTail(pn, k)
      BY <1>6
    <2>2. /\ \A i \in 1..(k - 1) : pn < list[i].low
          /\ \A i \in k..Len(list) : list[i].high < pn
          /\ ~MergesPrev(list, pn, k) => \A i \in 1..(k - 1) : pn + 1 < list[i].low
          /\ ~MergesNext(list, pn, k) => \A i \in k..Len(list) : list[i].high + 1 < pn
      BY <1>1, <2>1, StopSplits
    <2>3. ~Covers(list, pn)
      <3> SUFFICES ASSUME NEW i \in 1..Len(list), list[i].low <= pn, pn <= list[i].high
                   PROVE  FALSE
        BY DEF Covers
      <3>1. i \in 1..(k - 1) \/ i \in k..Len(list)
        BY <1>1
      <3>2. list[i].low \in Nat /\ list[i].high \in Nat
        BY <1>2
      <3> QED
        BY <1>1, <2>2, <3>1, <3>2
    <2>4. CASE AddJoin(pn, k)
      <3>1. k \in 2..Len(list) /\ list[k - 1].low - 1 = pn /\ list[k].high + 1 = pn
        BY <1>1, <2>4 DEF AddJoin, MergesPrev, MergesNext
      <3>2. IsJoin(list', list, k)
        BY <2>4 DEF AddJoin, IsJoin, IsSplice
      <3>3. Gains(list, list', pn)
        BY <1>1, <3>1, <3>2, JoinGains
      <3> QED
        BY <1>3, <2>3, <3>3, GainReceives
    <2>5. CASE AddBelow(pn, k)
      <3>1. PICK h \in 1..Len(list) : h = k - 1 /\ list[h].low - 1 = pn
        BY <1>1, <2>5 DEF AddBelow, MergesPrev
      <3>2. PICK lo \in Nat, hi \in Nat : lo = list[h].low /\ hi = list[h].high
        BY <1>2
      <3>3. lo - 1 = pn /\ lo <= hi
        BY <1>1, <3>1, <3>2 DEF Apart
      <3>4. \A x \in Nat : (pn <= x /\ x <= hi) <=> ((lo <= x /\ x <= hi) \/ x = pn)
        BY <1>1, <3>3
      <3>5. list' = [list EXCEPT ![h] = Node(pn, hi)]
        BY <2>5, <3>1, <3>2 DEF AddBelow
      <3>6. Gains(list, list', pn)
        BY <1>1, <3>2, <3>4, <3>5, WidenGains
      <3> QED
        BY <1>3, <2>3, <3>6, GainReceives
    <2>6. CASE AddAbove(pn, k)
      <3>1. k \in 1..Len(list) /\ list[k].high + 1 = pn
        BY <1>1, <2>6 DEF AddAbove, MergesNext
      <3>2. PICK lo \in Nat, hi \in Nat : lo = list[k].low /\ hi = list[k].high
        BY <1>2, <3>1
      <3>3. hi + 1 = pn /\ lo <= hi
        BY <1>1, <3>1, <3>2 DEF Apart
      <3>4. \A x \in Nat : (lo <= x /\ x <= pn) <=> ((lo <= x /\ x <= hi) \/ x = pn)
        BY <1>1, <3>3
      <3>5. list' = [list EXCEPT ![k] = Node(lo, pn)]
        BY <2>6, <3>1, <3>2 DEF AddAbove
      <3>6. Gains(list, list', pn)
        BY <1>1, <3>1, <3>2, <3>4, <3>5, WidenGains
      <3> QED
        BY <1>3, <2>3, <3>6, GainReceives
    <2>7. CASE AddNode(pn, k)
      <3>1. PICK m :
              /\ IsInsert(m, list, k, Node(pn, pn))
              /\ node_count + 1 <= MaxAckRangeCnt => list' = m
              /\ node_count + 1 > MaxAckRangeCnt => list' = SubSeq(m, 1, Len(list))
        BY <1>1, <1>4, <2>7, AddNodeInserts
      <3>2. /\ m \in Seq(PktnoRange)
            /\ Len(m) = Len(list) + 1
            /\ \A i \in 1..(Len(list) + 1) :
                  m[i] = IF i < k THEN list[i]
                              ELSE IF i = k THEN Node(pn, pn) ELSE list[i - 1]
        <4>1. Inserted(PktnoRange, m, list, k, Node(pn, pn))
          BY <1>1, <3>1, InsertShape
        <4> QED
          BY <4>1 DEF Inserted
      <3>3. Gains(list, m, pn)
        BY <1>1, <3>2, InsertGains
      <3>4. CASE node_count + 1 <= MaxAckRangeCnt
        <4>1. list' = m
          BY <3>1, <3>4
        <4> QED
          BY <1>3, <2>3, <3>3, <4>1, GainReceives
      <3>5. CASE node_count + 1 > MaxAckRangeCnt
        <4>1. list' = SubSeq(m, 1, Len(list))
          BY <3>1, <3>5
        <4>2. Sound(m, received')
          <5>1. /\ \A i \in 1..(k - 1) : pn + 1 < list[i].low
                /\ \A i \in k..Len(list) : list[i].high + 1 < pn
            BY <2>2, <2>7 DEF AddNode
          <5> QED
            BY <1>1, <1>3, <3>2, <5>1, InsertSound
        <4>3. Len(list') = Len(list) /\ \A i \in 1..Len(list) : list'[i] = m[i]
          <5>1. \A i \in 1..Len(list) : m[i] \in PktnoRange
            BY <1>1, <3>2, ElementOfSeq
          <5> QED
            BY <1>1, <3>2, <4>1, <5>1, SubSeqProperties, Z3
        <4>4. Len(list) = MaxAckRangeCnt
          BY <1>1, <1>4, <3>5
        <4> QED
          BY <1>3, <2>3, <3>2, <3>3, <4>2, <4>3, <4>4, TrimReceives
      <3> QED
        BY <2>7, <3>4, <3>5 DEF AddNode
    <2>8. CASE AddTail(pn, k)
      <3>1. PICK m : m = Append(list, Node(pn, pn))
        OBVIOUS
      <3>2. k = Len(list) + 1
        BY <2>8 DEF AddTail
      <3>3. /\ m \in Seq(PktnoRange)
            /\ Len(m) = Len(list) + 1
            /\ \A i \in 1..(Len(list) + 1) :
                  m[i] = IF i < k THEN list[i]
                              ELSE IF i = k THEN Node(pn, pn) ELSE list[i - 1]
        BY <1>1, <3>1, <3>2, AppendProperties
      <3>4. Gains(list, m, pn)
        BY <1>1, <3>3, InsertGains
      <3>5. CASE node_count < MaxAckRangeCnt
        <4>1. list' = m
          BY <1>1, <1>4, <2>8, <3>1, <3>5 DEF AddTail
        <4> QED
          BY <1>3, <2>3, <3>4, <4>1, GainReceives
      <3>6. CASE node_count >= MaxAckRangeCnt
        <4>1. list' = list
          BY <1>1, <1>4, <2>8, <3>6 DEF AddTail
        <4>2. Sound(m, received')
          <5>1. /\ \A i \in 1..(k - 1) : pn + 1 < list[i].low
                /\ \A i \in k..Len(list) : list[i].high + 1 < pn
            BY <1>1, <2>2, <2>8, <3>2 DEF AddTail
          <5> QED
            BY <1>1, <1>3, <3>3, <5>1, InsertSound
        <4>3. Len(list) = MaxAckRangeCnt /\ \A i \in 1..Len(list) : list[i] = m[i]
          BY <1>1, <1>4, <3>2, <3>3, <3>6
        <4> QED
          BY <1>3, <2>3, <3>3, <3>4, <4>1, <4>2, <4>3, TrimReceives
      <3> QED
        BY <2>8, <3>5, <3>6 DEF AddTail
    <2> QED
      BY <2>1, <2>4, <2>5, <2>6, <2>7, <2>8
  <1> QED
    BY <1>5, <1>6 DEF Add

\* rqc_recv_record_del does what AckSet says of forgetting.
LEMMA DelForgets ==
    ASSUME PInv, NEW from \in Nat, Del(from)
    PROVE  Promise!Forget(from)
  <1>1. PICK k \in 0..Len(list) :
            /\ KeepsUpTo(list, from, k)
            /\ list' = [i \in 1..k |->
                          Node(IF list[i].low < from THEN from ELSE list[i].low, list[i].high)]
    BY DEF Del
  <1>2. from >= rr_del_from /\ rr_del_from' = from
    BY DEF Del
  <1>3. Loses(list, list', from)
    BY <1>1, PruneLoses DEF PInv, IInv
  <1>4. Acked(list') = {x \in Acked(list) : x >= from}
    BY <1>3 DEF Loses, Acked
  <1> QED
    BY <1>2, <1>4 DEF Promise!Forget, Acked

\* The list of ranges implements the set of acknowledged packets, for every set
\* of packet numbers and every limit: rqc_recv_record_add and rqc_recv_record_del
\* lose nothing but the lowest run at RQC_MAX_ACK_RANGE_CNT and what is pruned.
THEOREM RecordImplementsAckSet == RRSpec => ImplementsAckSet
  <1>1. RRInit => PInv
    BY InitIInv DEF PInv, RRInit
  <1>2. RRInit => Promise!Init
    BY DEF RRInit, Promise!Init, Covers
  <1>3. PInv /\ PInv' /\ [RRNext]_rrVars => [Promise!Next]_(Promise!vars)
    <2> SUFFICES ASSUME PInv, PInv', [RRNext]_rrVars
                 PROVE  [Promise!Next]_(Promise!vars)
      OBVIOUS
    <2>1. CASE \E pn \in PktNums : Add(pn)
      BY <2>1, AddReceives DEF Promise!Next
    <2>2. CASE \E pn \in PktNums : Del(pn + 1)
      <3>1. PICK pn \in PktNums : Del(pn + 1)
        BY <2>2
      <3>2. pn + 1 \in Nat
        BY PktNumsAssumption
      <3> QED
        BY <3>1, <3>2, DelForgets DEF Promise!Next
    <2>3. CASE UNCHANGED rrVars
      BY <2>3 DEF rrVars, Promise!vars
    <2> QED
      BY <2>1, <2>2, <2>3 DEF RRNext
  <1> QED
    BY <1>1, <1>2, <1>3, NextPInv, PTL DEF RRSpec, ImplementsAckSet, Promise!Spec

-----------------------------------------------------------------------------
(* Induction *)

\* Induction over the naturals, for a set.
LEMMA SetInduction ==
    ASSUME NEW B, 0 \in B, \A n \in Nat : n \in B => n + 1 \in B
    PROVE  Nat \subseteq B
  <1> SUFFICES ASSUME Nat \ B # {} PROVE FALSE
    OBVIOUS
  <1>1. PICK x \in Nat \ B : \A y \in Nat \ B : ~(<<y, x>> \in OpToRel(<, Nat))
    BY NatLessThanWellFounded, WFMin, Zenon
  <1>2. \A y \in Nat \ B : ~(y < x)
    BY <1>1 DEF OpToRel
  <1>3. x # 0 /\ x - 1 \in Nat /\ (x - 1) + 1 = x /\ x - 1 < x
    OBVIOUS
  <1>4. x - 1 \in B
    BY <1>2, <1>3
  <1> QED
    BY <1>3, <1>4

-----------------------------------------------------------------------------
(* The ACK frame.  The loop of rqc_parse_ack_frame is a function that refers to *)
(* itself; the list that was written obeys its rule, so it is what is read.     *)

NodeRule(f, g) ==
    [i \in 1..(Len(f.ranges) + 1) |->
            IF i = 1
            THEN [low |-> f.largest - f.first, high |-> f.largest]
            ELSE LET top == g[i - 1].low - f.ranges[i - 1].gap - 2
                 IN  [low |-> top - f.ranges[i - 1].acks, high |-> top]]

Nodes(f) == CHOOSE g : g = NodeRule(f, g)

\* What is read is the first nodes of the function.
LEMMA ParseIsNodes ==
    ASSUME NEW f
    PROVE  ParseAckFrame(f) = [i \in 1..(IF Len(f.ranges) < MaxAckRangeCnt
                                         THEN Len(f.ranges) + 1 ELSE MaxAckRangeCnt)
                                 |-> Nodes(f)[i]]
  BY DEF ParseAckFrame, Nodes, NodeRule

\* If any function obeys the rule, the one meant does.
LEMMA NodesObey ==
    ASSUME NEW f, NEW g, g = NodeRule(f, g)
    PROVE  Nodes(f) = NodeRule(f, Nodes(f))
  BY DEF Nodes

\* The fields of the frame.
LEMMA FrameFields ==
    ASSUME NEW l \in Seq(PktnoRange), Len(l) \in 1..MaxAckRangeCnt, NEW f, f = GenAckFrame(l)
    PROVE  /\ f.largest = l[1].high /\ f.first = l[1].high - l[1].low
           /\ Len(f.ranges) = Len(l) - 1
           /\ \A i \in 1..(Len(l) - 1) :
                 /\ f.ranges[i].gap = l[i].low - l[i + 1].high - 2
                 /\ f.ranges[i].acks = l[i + 1].high - l[i + 1].low
  <1>1. Len(l) \in Nat /\ Len(l) - 1 \in Nat /\ MaxAckRangeCnt \in Nat
    BY LenProperties, MaxAckRangeCntAssumption
  <1> DEFINE r == [i \in 1..(Len(l) - 1) |->
                     [ gap  |-> l[i].low - l[i + 1].high - 2,
                       acks |-> l[i + 1].high - l[i + 1].low ]]
  <1>2. (IF Len(l) <= MaxAckRangeCnt THEN Len(l) ELSE MaxAckRangeCnt) = Len(l)
    BY <1>1
  <1>3. f = [largest |-> l[1].high, first |-> l[1].high - l[1].low, ranges |-> r]
    BY <1>2 DEF GenAckFrame
  <1>4. Len(r) = Len(l) - 1
    BY <1>1
  <1>5. \A i \in 1..(Len(l) - 1) :
           /\ r[i].gap = l[i].low - l[i + 1].high - 2
           /\ r[i].acks = l[i + 1].high - l[i + 1].low
    OBVIOUS
  <1> HIDE DEF r
  <1>6. f.largest = l[1].high /\ f.first = l[1].high - l[1].low /\ f.ranges = r
    BY <1>3
  <1> QED
    BY <1>4, <1>5, <1>6

\* A list of ranges that fits a frame is read back as it was written.
LEMMA RoundTrip ==
    ASSUME NEW l \in Seq(PktnoRange), Len(l) \in 1..MaxAckRangeCnt
    PROVE  ParseAckFrame(GenAckFrame(l)) = l
  <1>1. PICK f : f = GenAckFrame(l)
    OBVIOUS
  <1>2. /\ f.largest = l[1].high /\ f.first = l[1].high - l[1].low
        /\ Len(f.ranges) = Len(l) - 1
        /\ \A i \in 1..(Len(l) - 1) :
              /\ f.ranges[i].gap = l[i].low - l[i + 1].high - 2
              /\ f.ranges[i].acks = l[i + 1].high - l[i + 1].low
    BY <1>1, FrameFields
  <1>3. /\ Len(l) \in Nat /\ MaxAckRangeCnt \in Nat /\ Len(l) >= 1 /\ Len(l) <= MaxAckRangeCnt
        /\ \A i \in 1..Len(l) : l[i].low \in Nat /\ l[i].high \in Nat /\ l[i] \in PktnoRange
        /\ l = [i \in 1..Len(l) |-> l[i]]
    BY BoundsAreNat, ElementOfSeq, LenProperties, MaxAckRangeCntAssumption
  <1>4. \A i \in 1..Len(l) : l[i] = [low |-> l[i].low, high |-> l[i].high]
    BY <1>3 DEF PktnoRange
  <1> DEFINE Rule(g, i) == IF i = 1
                           THEN [low |-> f.largest - f.first, high |-> f.largest]
                           ELSE LET top == g[i - 1].low - f.ranges[i - 1].gap - 2
                                IN  [low |-> top - f.ranges[i - 1].acks, high |-> top]
  <1>5. ASSUME NEW g, NEW i \in 1..Len(l), i > 1 => g[i - 1] = l[i - 1]
        PROVE  Rule(g, i) = l[i]
    <2>1. CASE i = 1
      <3>1. f.largest - f.first = l[1].low /\ f.largest = l[1].high
        <4>1. PICK lo \in Nat, hi \in Nat : lo = l[1].low /\ hi = l[1].high
          BY <1>3, <2>1
        <4>2. hi - (hi - lo) = lo
          BY <4>1
        <4> QED
          BY <1>2, <4>1, <4>2, Zenon
      <3>2. Rule(g, i) = [low |-> f.largest - f.first, high |-> f.largest]
        BY <2>1
      <3> QED
        BY <1>4, <2>1, <3>1, <3>2
    <2>2. CASE i > 1
      <3>1. PICK j \in 1..(Len(l) - 1) : j = i - 1
        BY <1>3, <2>2
      <3>2. /\ j \in 1..Len(l) /\ i = j + 1 /\ i # 1 /\ g[j] = l[j]
            /\ l[j].low \in Nat /\ l[i].low \in Nat /\ l[i].high \in Nat
        BY <1>3, <1>5, <2>2, <3>1
      <3>3. /\ f.ranges[j].gap = l[j].low - l[i].high - 2
            /\ f.ranges[j].acks = l[i].high - l[i].low
        BY <1>2, <3>2
      <3>4. PICK top : top = g[j].low - f.ranges[j].gap - 2
        OBVIOUS
      <3>5. top = l[i].high /\ top - f.ranges[j].acks = l[i].low
        BY <3>2, <3>3, <3>4
      <3>6. Rule(g, i) = [low |-> top - f.ranges[j].acks, high |-> top]
        BY <3>1, <3>2, <3>4
      <3> QED
        BY <1>4, <3>5, <3>6
    <2> QED
      BY <1>3, <2>1, <2>2
  <1>6. /\ Len(f.ranges) + 1 = Len(l)
        /\ (IF Len(f.ranges) < MaxAckRangeCnt THEN Len(f.ranges) + 1 ELSE MaxAckRangeCnt) = Len(l)
    <2>1. PICK n \in Nat, c \in Nat : n = Len(l) /\ c = MaxAckRangeCnt /\ n >= 1 /\ n <= c
      BY <1>3
    <2>2. n - 1 + 1 = n /\ (IF n - 1 < c THEN n - 1 + 1 ELSE c) = n
      BY <2>1
    <2> QED
      BY <1>2, <2>1, <2>2, Zenon
  <1>7. \A g : NodeRule(f, g) = [i \in 1..Len(l) |-> Rule(g, i)]
    <2> SUFFICES ASSUME NEW g PROVE NodeRule(f, g) = [i \in 1..Len(l) |-> Rule(g, i)]
      OBVIOUS
    <2>1. NodeRule(f, g) = [i \in 1..(Len(f.ranges) + 1) |-> Rule(g, i)]
      BY DEF NodeRule
    <2> QED
      BY <1>6, <2>1, Zenon
  <1> HIDE DEF Rule
  <1>8. l = NodeRule(f, l)
    <2>1. \A i \in 1..Len(l) : Rule(l, i) = l[i]
      BY <1>5
    <2> QED
      <3>1. [i \in 1..Len(l) |-> Rule(l, i)] = [i \in 1..Len(l) |-> l[i]]
        BY <2>1
      <3> QED
        BY <1>3, <1>7, <3>1, Zenon
  <1>9. PICK h : h = Nodes(f)
    OBVIOUS
  <1>10. h = NodeRule(f, h)
    BY <1>8, <1>9, NodesObey
  <1>11. \A i \in 1..Len(l) : h[i] = Rule(h, i)
    BY <1>7, <1>10
  <1>12. \A i \in 1..Len(l) : h[i] = l[i]
    <2> DEFINE B == {n \in Nat : n \in 1..Len(l) => h[n] = l[n]}
    <2>1. 0 \in B
      OBVIOUS
    <2>2. ASSUME NEW n \in Nat, n \in B PROVE n + 1 \in B
      <3> SUFFICES ASSUME n + 1 \in 1..Len(l) PROVE h[n + 1] = l[n + 1]
        OBVIOUS
      <3>1. (n + 1) - 1 = n
        OBVIOUS
      <3>2. n + 1 > 1 => h[n] = l[n]
        BY <1>3, <2>2
      <3>3. Rule(h, n + 1) = l[n + 1]
        BY <1>5, <3>1, <3>2
      <3> QED
        BY <1>11, <3>3
    <2> HIDE DEF B
    <2>3. Nat \subseteq B
      BY <2>1, <2>2, SetInduction
    <2> QED
      BY <1>3, <2>3 DEF B
  <1>13. ParseAckFrame(f) = [i \in 1..Len(l) |-> h[i]]
    <2>1. PICK c : c = IF Len(f.ranges) < MaxAckRangeCnt THEN Len(f.ranges) + 1 ELSE MaxAckRangeCnt
      OBVIOUS
    <2>2. ParseAckFrame(f) = [i \in 1..c |-> Nodes(f)[i]]
      BY <2>1, ParseIsNodes, Zenon
    <2> QED
      BY <1>6, <1>9, <2>1, <2>2, Zenon
  <1> QED
    BY <1>1, <1>3, <1>12, <1>13

\* What the peer's rqc_parse_ack_frame reads from the frame rqc_gen_ack_frame
\* writes is the list of ranges, whatever ranges the record has come to hold:
\* neither loop cuts it, because the record never has more than
\* RQC_MAX_ACK_RANGE_CNT ranges.
THEOREM FrameRoundTrip == RRSpec => []AckFrameRoundTrip
  <1>1. IInv => AckFrameRoundTrip
    <2> SUFFICES ASSUME IInv, list # <<>> PROVE ParseAckFrame(GenAckFrame(list)) = list
      BY DEF AckFrameRoundTrip
    <2>1. list \in Seq(PktnoRange) /\ Len(list) <= MaxAckRangeCnt /\ Len(list) # 0
      BY DEF IInv, Sound
    <2>2. Len(list) \in 1..MaxAckRangeCnt
      BY <2>1, MaxAckRangeCntAssumption, LenProperties
    <2> QED
      BY <2>1, <2>2, RoundTrip
  <1> QED
    BY <1>1, InitIInv, NextIInv, PTL DEF RRSpec
=============================================================================
