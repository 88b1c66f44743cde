---------------------------- MODULE MCRecvRecord ----------------------------
(***************************************************************************)
(* The receive record for TLC, with what it promises (AckSet).             *)
(***************************************************************************)
EXTENDS RecvRecord, FiniteSets

Promise == INSTANCE AckSet WITH
    Cap   <- MaxAckRangeCnt,
    acked <- {pn \in PktNums : Covers(list, pn)},
    floor <- rr_del_from

\* Adding and pruning ranges (rqc_recv_record_add, rqc_recv_record_del) does to
\* the set of acknowledged packets what AckSet says: nothing is lost but the
\* lowest run at the limit and what is pruned.
ImplementsAckSet == Promise!Spec

\* What the peer's rqc_parse_ack_frame reads from the frame that
\* rqc_gen_ack_frame writes is the list of ranges of the record.
AckFrameRoundTrip ==
    list # <<>> => ParseAckFrame(GenAckFrame(list)) = list
=============================================================================
