---------------------------- MODULE MCSequencer ----------------------------
(* Sequencer on a small instance: signed amounts of which no two different *)
(* multisets of at most two copies have the same sum, and event times that *)
(* do not follow the sequence numbers strictly.                            *)
EXTENDS Sequencer

MCAmount == [s \in Seqs |-> IF s % 2 = 0 THEN 0 - 3^s ELSE 3^s]

MCTotal == [S \in SUBSET Seqs |-> MapThenSumSet(LAMBDA s : MCAmount[s], S)]

(* Two events share a timestamp and the last one is the earliest. *)
MCEventTs == [s \in Seqs |-> IF s = MaxSeq THEN 1 ELSE (s + 1) \div 2]

(* Event times in step with the sequence numbers, three apart. *)
MCEventTsInStep == [s \in Seqs |-> 3 * s]
=============================================================================
