----------------------------- MODULE RecvRecord -----------------------------
(***************************************************************************)
(* The receive record of one packet number space (rqc_recv_record.c) and   *)
(* the ACK frame written from it (rqc_frame_parser.c).                     *)
(*                                                                         *)
(* The record is a list of ranges of packet numbers, highest first.        *)
(* rqc_recv_record_add puts a received packet into it, rqc_recv_record_del *)
(* prunes what the peer is known to have seen acknowledged, and            *)
(* rqc_gen_ack_frame turns it into the gap encoding of an ACK frame.       *)
(***************************************************************************)
EXTENDS Integers, Sequences, Functions

CONSTANTS
    PktNums,            \* the packet numbers the peer uses in the instance
    MaxAckRangeCnt      \* RQC_MAX_ACK_RANGE_CNT

ASSUME PktNumsAssumption == PktNums \subseteq Nat

ASSUME MaxAckRangeCntAssumption == MaxAckRangeCnt \in Nat \ {0}

VARIABLES
    list,           \* rqc_recv_record_t.list_head
    rr_del_from,    \* rqc_recv_record_t.rr_del_from
    node_count,     \* rqc_recv_record_t.node_count
    received        \* history: every packet number given to rqc_recv_record_add

rrVars == <<list, rr_del_from, node_count, received>>

PktnoRange == [low : Nat, high : Nat]

Node(low, high) == [low |-> low, high |-> high]

Covers(l, pn) == \E i \in 1..Len(l) : l[i].low <= pn /\ pn <= l[i].high

RRInit ==
    /\ list = <<>>
    /\ rr_del_from = 0
    /\ node_count = 0
    /\ received = {}

-----------------------------------------------------------------------------
(* rqc_recv_record_add *)

\* The list walk stops at k, the first node wholly below pn, or runs off the
\* end; every node it passed is wholly above pn.
StopsAt(l, pn, k) ==
    /\ k \in 1..(Len(l) + 1)
    /\ \A i \in 1..(k - 1) : pn < l[i].low
    /\ k <= Len(l) => pn > l[k].high

\* Mutant: rqc_pktno_range_can_merge never merges upwards.
NeverMergesPrev(l, pn, k) == FALSE

MergesPrev(l, pn, k) == k > 1 /\ l[k - 1].low - 1 = pn

MergesNext(l, pn, k) == k <= Len(l) /\ l[k].high + 1 = pn

AddDup(pn) == Covers(list, pn) /\ UNCHANGED <<list, node_count>>

\* pn closes the hole between two nodes: the lower one is absorbed.
AddJoin(pn, k) ==
    /\ MergesPrev(list, pn, k)
    /\ MergesNext(list, pn, k)
    /\ list' = SubSeq(list, 1, k - 2) \o <<Node(list[k].low, list[k - 1].high)>>
                 \o SubSeq(list, k + 1, Len(list))
    /\ node_count' = node_count - 1

AddBelow(pn, k) ==
    /\ MergesPrev(list, pn, k)
    /\ ~MergesNext(list, pn, k)
    /\ list' = [list EXCEPT ![k - 1] = Node(pn, list[k - 1].high)]
    /\ UNCHANGED node_count

AddAbove(pn, k) ==
    /\ ~MergesPrev(list, pn, k)
    /\ MergesNext(list, pn, k)
    /\ list' = [list EXCEPT ![k] = Node(list[k].low, pn)]
    /\ UNCHANGED node_count

\* A node of its own before node k; the last node goes when there are too many.
AddNode(pn, k) ==
    LET longer == SubSeq(list, 1, k - 1) \o <<Node(pn, pn)>> \o SubSeq(list, k, Len(list)) IN
    /\ ~MergesPrev(list, pn, k)
    /\ ~MergesNext(list, pn, k)
    /\ k <= Len(list)
    /\ \/ /\ node_count + 1 <= MaxAckRangeCnt
          /\ list' = longer
          /\ node_count' = node_count + 1
       \/ /\ node_count + 1 > MaxAckRangeCnt
          /\ list' = SubSeq(longer, 1, Len(list))
          /\ UNCHANGED node_count

\* A node of its own at the tail, or nothing when the list is full.
AddTail(pn, k) ==
    /\ ~MergesPrev(list, pn, k)
    /\ k = Len(list) + 1
    /\ \/ /\ node_count < MaxAckRangeCnt
          /\ list' = Append(list, Node(pn, pn))
          /\ node_count' = node_count + 1
       \/ /\ node_count >= MaxAckRangeCnt
          /\ UNCHANGED <<list, node_count>>

Add(pn) ==
    /\ received' = received \cup {pn}
    /\ UNCHANGED rr_del_from
    /\ \/ AddDup(pn)
       \/ \E k \in 1..(Len(list) + 1) :
            /\ StopsAt(list, pn, k)
            /\ \/ AddJoin(pn, k)
               \/ AddBelow(pn, k)
               \/ AddAbove(pn, k)
               \/ AddNode(pn, k)
               \/ AddTail(pn, k)

-----------------------------------------------------------------------------
(* rqc_recv_record_del *)

\* Mutant: a node that straddles from is freed.
KeepsWhole(l, from, k) ==
    /\ k \in 0..Len(l)
    /\ \A i \in 1..Len(l) : l[i].low >= from <=> i <= k

\* The nodes 1..k reach from or more and stay, the others are freed.
KeepsUpTo(l, from, k) ==
    /\ k \in 0..Len(l)
    /\ \A i \in 1..Len(l) : l[i].high >= from <=> i <= k

Del(from) ==
    /\ from >= rr_del_from
    /\ rr_del_from' = from
    /\ \E k \in 0..Len(list) :
        /\ KeepsUpTo(list, from, k)
        /\ node_count' = node_count - (Len(list) - k)
        /\ list' = [i \in 1..k |->
                       Node(IF list[i].low < from THEN from ELSE list[i].low,
                            list[i].high)]
    /\ UNCHANGED received

-----------------------------------------------------------------------------
(* rqc_recv_record_largest, rqc_gen_ack_frame, rqc_parse_ack_frame *)

Largest(l) == IF l = <<>> THEN 0 ELSE l[1].high

\* Mutant: the gap is written as the number of missing packets.
GenAckFrameGap(l) ==
    [ largest |-> l[1].high,
      first   |-> l[1].high - l[1].low,
      ranges  |-> [i \in 1..(Len(l) - 1) |->
                     [ gap  |-> l[i].low - l[i + 1].high - 1,
                       acks |-> l[i + 1].high - l[i + 1].low ]] ]

\* The fields of the frame: the first range, then the gap below the previous
\* range and the length of each further one, at most MaxAckRangeCnt - 1 of them.
GenAckFrame(l) ==
    LET n == IF Len(l) <= MaxAckRangeCnt THEN Len(l) ELSE MaxAckRangeCnt IN
    [ largest |-> l[1].high,
      first   |-> l[1].high - l[1].low,
      ranges  |-> [i \in 1..(n - 1) |->
                     [ gap  |-> l[i].low - l[i + 1].high - 2,
                       acks |-> l[i + 1].high - l[i + 1].low ]] ]

ParseAckFrame(f) ==
    LET node[i \in 1..(Len(f.ranges) + 1)] ==
            IF i = 1
            THEN [low |-> f.largest - f.first, high |-> f.largest]
            ELSE LET top == node[i - 1].low - f.ranges[i - 1].gap - 2
                 IN  [low |-> top - f.ranges[i - 1].acks, high |-> top]
        n == IF Len(f.ranges) < MaxAckRangeCnt THEN Len(f.ranges) + 1
                                               ELSE MaxAckRangeCnt
    IN  [i \in 1..n |-> node[i]]

-----------------------------------------------------------------------------
RRNext ==
    \/ \E pn \in PktNums : Add(pn)
    \/ \E pn \in PktNums : Del(pn + 1)

RRSpec == RRInit /\ [][RRNext]_rrVars

-----------------------------------------------------------------------------
(* Properties *)

\* The record is a list of ranges of naturals and the counter counts its nodes,
\* never more than RQC_MAX_ACK_RANGE_CNT of them.
RRTypeOK ==
    /\ list \in Seq(PktnoRange)
    /\ rr_del_from \in Nat
    /\ node_count = Len(list)
    /\ node_count <= MaxAckRangeCnt
    /\ received \subseteq Nat

\* Non-empty, descending, and a number missing between any two.
Apart(l) ==
    /\ \A i \in 1..Len(l) : l[i].low <= l[i].high
    /\ \A i, j \in 1..Len(l) : i < j => l[j].high + 1 < l[i].low

\* The ranges of l hold only numbers of S.
Within(l, S) == \A i \in 1..Len(l) : \A pn \in l[i].low..l[i].high : pn \in S

\* The ranges are non-empty and strictly descending with at least one missing
\* number between any two: rqc_gen_ack_frame computes the gap as
\* prev_low - high - 2 in unsigned arithmetic and relies on it.
RangesApart == Apart(list)

\* An ACK frame acknowledges only packets that rqc_recv_record_add was given,
\* however the ranges were merged, evicted and pruned.
AcksOnlyReceived == Within(list, received)

=============================================================================
