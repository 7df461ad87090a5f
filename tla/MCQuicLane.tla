----------------------------- MODULE MCQuicLane -----------------------------
(* QuicLane, with the sets of connection IDs visited in some order. *)
EXTENDS QuicLane, SequencesExt

MCOrder == [S \in SUBSET Dcids |-> SetToSeq(S)]
=============================================================================
