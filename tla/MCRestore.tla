----------------------------- MODULE MCRestore -----------------------------
(* Restore on small topics of one account and the heartbeat.               *)
EXTENDS Restore

MCAmount == [s \in Seqs |-> IF s % 2 = 0 THEN 0 - 3^s ELSE 3^s]

MCTotal == [S \in SUBSET Seqs |-> MapThenSumSet(LAMBDA s : MCAmount[s], S)]

MCEventTs == [s \in Seqs |-> s]

R(s) == [seq |-> s, ts |-> s]
HB(t) == [seq |-> 0, ts |-> t]

(* A reordering that fills its hole, in up to three batches; a hole that   *)
(* the heartbeat confirms.                                                 *)
MCTopics == { <<R(2), R(1), R(3)>>, <<R(2), HB(6)>> }

(* The hypotheses of RestoreProofs!ReplayAlwaysConverges.                  *)
ASSUME MCRestoreAssumption == Policy = "FLAG_AND_CONTINUE" /\ Punctual /\ Predictable
=============================================================================
