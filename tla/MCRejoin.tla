------------------------------ MODULE MCRejoin ------------------------------
(* Two accounts of two events; one returns with a third, after ticks that  *)
(* carry event time past the TTL.                                          *)
EXTENDS Rejoin

MCAmount == [s \in Seqs |-> IF s % 2 = 0 THEN 0 - 3^s ELSE 3^s]
MCTotal == [S \in SUBSET Seqs |-> MapThenSumSet(LAMBDA s : MCAmount[s], S)]

MCEventTs == [s \in Seqs |-> IF s = MaxSeq THEN 9 ELSE s]
MCTicks == <<5, 7, 9>>

(* The instance is one the theorems about every drill speak of.            *)
ASSUME MCRejoinAssumption == InTime /\ LongEnough
=============================================================================
