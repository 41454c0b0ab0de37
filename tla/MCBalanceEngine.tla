-------------------------- MODULE MCBalanceEngine --------------------------
(* BalanceEngine on a small instance; amounts and event times are those of *)
(* MCSequencer.                                                            *)
EXTENDS BalanceEngine

MCAmount == [s \in Seqs |-> IF s % 2 = 0 THEN 0 - 3^s ELSE 3^s]

MCTotal == [S \in SUBSET Seqs |-> MapThenSumSet(LAMBDA s : MCAmount[s], S)]

MCEventTs == [s \in Seqs |-> (s + 1) \div 2]

(* Event times in step with the sequence numbers. *)
MCEventTsInStep == [s \in Seqs |-> s]
=============================================================================
