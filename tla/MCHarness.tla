----------------------------- MODULE MCHarness -----------------------------
(* Harness on small instances: streams of the generator and the injector.  *)
EXTENDS Harness

MCAmount == [s \in Seqs |-> IF s % 2 = 0 THEN 0 - 3^s ELSE 3^s]

MCTotal == [S \in SUBSET Seqs |-> MapThenSumSet(LAMBDA s : MCAmount[s], S)]

MCEventTs == [s \in Seqs |-> s]

Args(n, gaps, dups, burst, window) ==
    [perAccount |-> n, gaps |-> gaps, dups |-> dups, burst |-> burst, window |-> window]

OneAccount == <<"a1">>

(* The account and the heartbeat in partitions of their own, the third is  *)
(* empty and left out: every batch of a topic that is read in publish      *)
(* order is among the batches.                                             *)
MCPartitions == {0, 1}

MCPartitionOf == [k \in {"a1", Heartbeat} |-> IF k = Heartbeat THEN 1 ELSE 0]

ShuffledStreams == UNION {GeneratorStreams(OneAccount, Args(3, {}, dups, 0, 4)) : dups \in {{}, {2}}}

OneAccountStreams ==
    UNION {GeneratorStreams(OneAccount, args) : args \in {
               Args(4, {2}, {3}, 0, 3), Args(4, {1}, {}, 2, 1), Args(4, {2, 3}, {}, 0, 1)}}
    \cup BurstStreams("a1", 2, 3, {1}) \cup ShuffledStreams

TwoHoles == GeneratorStreams(OneAccount, Args(4, {1, 3}, {}, 0, 1))

=============================================================================
