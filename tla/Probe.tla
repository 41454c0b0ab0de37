------------------------------- MODULE Probe -------------------------------
(***************************************************************************)
(* scripts/gap_timing_probe.py: the gap signals of a run against the lines *)
(* of progress.jsonl, which it reads without regard to their query.        *)
(***************************************************************************)
EXTENDS Progress

(* The lines of batches, of which only the first eligible one counts.      *)
Lines == {file[i] : i \in {j \in DOMAIN file : file[j].event = "batch"}}

(* One signal per gap, the earliest announced.                             *)
Deduped ==
    {s \in signals : \A r \in signals : r.alarm = s.alarm => s.batch <= r.batch}

(* The batches of lines whose watermark has passed the alarm; the first of *)
(* them is the first eligible one.                                         *)
Eligible(alarm) == {line.batch : line \in {l \in Lines : l.wm >= alarm}}

NotBefore(s) ==
    /\ s.wm >= s.alarm
    /\ Eligible(s.alarm) # {} => s.batch >= Min(Eligible(s.alarm))

ProbePasses(expected) ==
    /\ signals # {}
    /\ \A s \in Deduped : NotBefore(s)
    /\ Cardinality(Deduped) = expected

(* --expect-no-gaps: the control on a stream that withholds nothing.       *)
Silent == Deduped = {}

(* What the oracle expects of the stream published.                        *)
Due == {a \in Alarms : a <= published}

(* The poller was never overtaken: every batch committed has its line.     *)
EveryBatchHasItsLine ==
    {file[i].batch : i \in BatchLines(Sequencer)} = 0..query[Sequencer].batch

(* Once nothing is left to read and no line is missing, the probe passes   *)
(* with the number of gaps that the delivery log withholds, however often  *)
(* the engine died and ran a batch again; where it withholds none, the     *)
(* control passes.                                                         *)
DrainedRunPasses ==
    /\ Up /\ query[Sequencer].active /\ ~query[Sequencer].run.on
    /\ ~Work(Sequencer) /\ EveryBatchHasItsLine
    => IF Due = {} THEN Silent ELSE ProbePasses(Cardinality(Due))

(***************************************************************************)
(* Statements of the repository that the code does not keep: README,       *)
(* section 4.                                                              *)
(***************************************************************************)

(* gap_timing_probe.py:133, "(a) not-before and (b) not-never still hold   *)
(* and are still checked" after a crash: no signal is blamed for having    *)
(* been early, as none was.                                                *)
ProbeBlamesNoOne == \A s \in Deduped : NotBefore(s)
=============================================================================
