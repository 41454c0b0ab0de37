# A verification development for balance-velocity-engine

The repository is a streaming ledger: Avro account events on Kafka, one Spark
job that puts each account's events back into `seq_no` order and keeps a
balance, windowed velocity sums beside it, Delta tables and Kafka topics as
output, and a set of scripts that generate the traffic, stop, kill, snapshot
and restore the engine, and judge its tables. This directory holds TLA+ modules
translated from that code, TLC configurations that check them on small
instances, and TLAPS proofs about them. Paths below are relative to the
repository.

## 1. Inventory

| Part | State it keeps | Operations | Hard behaviours |
|---|---|---|---|
| Sequencer core: `spark/engine/sequencer.py`, `gap_policy.py`, `statecore.py` | per account: `last_applied_seq`, `balance_minor`, buffer of early events, `last_seen_ms`; one timeout slot | `step` on a batch's rows (in order, early, overflow, duplicate), `step` on a timeout (gap, TTL flush, stale alarm), `compute_alarm`, re-seed of a cold account | reordering, re-delivery at any time, full buffer, one slot for two alarms, late event after the verdict, release and rejoin |
| Balance-engine job: `spark/jobs/balance_engine.py` | checkpoint (offsets, state version, watermark), `run/engine.pid` | plan, run and commit a micro-batch; join the balances table; start, SIGTERM, restart | a batch run again against newer tables; keys with rows never time out; a pid file shared by processes |
| Sinks: `spark/engine/sinks.py` | balances table, integrity table, topics integrity / dlq / signals, the marker of the armed failure | guarded MERGE, append, three topic writes in order, early return | dying between any two writes or inside one |
| Velocity: `spark/engine/velocity.py`, `scripts/velocity_recompute.py` | windowed sums, their table | aggregate, append, announce, commit; recompute in batch | late rows, window boundaries, a batch appended and run again |
| Decoder: `spark/utils/avro_deserializer.py` | schema cache | decode a record, fetch its schema | a record that fails its batch for ever, a registry that is away |
| Progress file: `spark/utils/progress.py`, `scripts/wait_for_drain.py`, `gap_timing_probe.py` | `logs/progress.jsonl` | poll `lastProgress`, append a line; wait for an idle engine; time the gaps | a poller that misses batches, lines of an earlier process, silence taken for idleness |
| Parity oracle: `scripts/oracle.py`, `parity_balance.py`, `buffer_proof.py`, `late_arrival_proof.py`, `release_head_drill.sh` | none (delivery log in, prediction out) | predict balance, gaps, DLQ; derive the applied count; compare | order-independence, indeterminate overflow, re-delivery after eviction |
| Generator: `scripts/event_generator.py`, `inject_burst.py` | delivery log | shuffle, duplicate, withhold, burst, heartbeat | what order and event time reach the engine; a record refused after it was logged; three partitions that are read to different places |
| Snapshot / restore / upgrade: `scripts/snapshot_state.sh`, `restore_from_snapshot.sh`, `upgrade_dual_run.sh`, `corrupt_checkpoint.sh`, `airflow/dags/state_snapshot.py` | copies of the checkpoint | mirror, retry, prune, restore, dual run, replay from earliest | copying while the engine writes, or while the drill corrupts what is copied; a checkpoint older than the tables |
| Eviction drill: `scripts/stage6_proof.sh`, `rejoin_proof.py`, `state_growth.py` | `logs/before_ttl.json` | record, tick past the TTL, return, judge | an early answer lets the return race the eviction |
| Engine processes: `scripts/stage_run.sh`, `recovery_drill.sh`, `sink_replay_drill.sh`, `stop_engine.sh`, `replay_evidence.py` | processes, pid file, marker | launch, wait, TERM, KILL, pkill, reset, judge | two engines on one checkpoint, an engine nobody stops |
| Metrics, configuration, session, test harness, verifiers, infrastructure | reports | - | - |

How they interact. Kafka feeds the job; the job calls the sequencer once per
key and batch, with the key's rows, or with none when its timeout has expired;
the sequencer's output rows go to the sink, which writes the balances table
first; the balances table flows back to the sequencer through the join that
seeds a cold account. The watermark is global, so any account (in practice the
generator's heartbeat account) decides when another account's alarm expires.
The scripts see the engine through four things only: the tables and topics, the
delivery log, `progress.jsonl`, and the pid file; a snapshot is a copy of the
checkpoint taken behind the engine's back.

What makes each part right:

- core: the balance is the sum of distinct events, no seq is passed over in
  silence, a reported loss stays a loss, no event vanishes without a record,
  the buffer keeps its bound and the largest early events, alarms are armed
  when needed, ahead of the watermark and never stale;
- job and sinks: the table is such a ledger too under any crash, a batch run
  again computes the same, the audit trail of a committed batch is whole;
- velocity: a settled window is what a batch computes, a breach is announced;
- decoder: every event reaches the operator once, no bad record is passed;
- oracle and verdicts: what they claim to know of a drained engine is so;
- restore: state, table and oracle agree after a replay in other batches;
- progress file: it is the history of the checkpoint; a waiter is told the
  truth;
- processes: the engine that recovers writes alone, the pid file is that of the
  right engine, none is left behind.

## 2. Modules

| Module | Role |
|---|---|
| `SequencerCore` | operators: one row, one gap, the alarm, the re-seed, the MERGE guard |
| `Ledger` | abstract specification: what is promised of one account |
| `Sequencer` | one account, row by row, with its alarm, watermark and balances row; implements `Ledger` |
| `BatchCore` | a whole invocation as a function of state, rows and watermark |
| `BalanceEngine` | several accounts, micro-batches, sink steps, crashes and restarts; its table implements `Ledger` |
| `Oracle` | operators: the prediction, the derived count, the comparisons of the parity script and of two proofs |
| `Generator` | operators: the streams the generator and the injector may publish |
| `Harness` | generator, log, broker, engine, heartbeats and oracle composed into one run |
| `Restore` | a checkpoint path, its snapshots, and an engine started on one of them |
| `Rejoin` | the eviction drill: engine, ticks, the return, and the two judges |
| `Velocity` | one windowed query with its sink and checkpoint, and the recomputation |
| `Decoder` | decoder, registry and query |
| `Progress` | the queries of a process, the poller, the file, the process's death |
| `DrainWait`, `Probe` | the waiter (a process of its own) and the timing probe over `Progress` |
| `Lifecycle` | the engine's processes beside the scripts that drive them |
| `MC*` | instances for TLC |
| `BatchProofs` | lemmas about the operators of `SequencerCore` and `BatchCore` |
| `SequencerProofs`, `BalanceEngineProofs`, `HarnessProofs`, `RestoreProofs`, `VelocityProofs` | TLAPS proofs about the module of the name |
| `DrillProofs` | TLAPS proofs about the drills on one machine: `Lifecycle` and `Rejoin` |
| `QueryProofs` | TLAPS proofs about what the queries report and read: `Progress`, `DrainWait`, `Probe` and `Decoder` |

`Sequencer`, `BalanceEngine`, `Harness`, `Restore` and `Rejoin` are built from
the same operators: `SequencerCore` holds the branches of `step`, and
`BatchCore` runs them over the rows of an invocation (`Runs`, a recursive
function, so that its result can be reasoned about). Each of the five keeps
the part of the system its questions are about in detail, and takes the rest as
one step: `BalanceEngine` cuts a batch into its writes, `Harness`, `Restore` and
`Rejoin` do not, because `BalanceEngine` shows that a batch that was cut
off and run again ends as one that was not.

What is left: the
plateau check and the capped/uncapped contrast of `state_growth.py`.

## 3. How the models correspond to the code

### SequencerCore, Sequencer

An event is its `seq_no`. A re-delivery carries the same amount and event time
(the generator republishes the same record), so both are functions of
`seq_no`; amounts occur only as `Total[S]`, the sum over a set of events.

| Code | Model |
|---|---|
| state tuple (`statecore.py:53-61`); `buffer_size` is `len(buf)` | `acct = [last, bal, buf, seen]` |
| `GroupState.exists`, `setTimeoutTimestamp` | `exists`, `alarm` |
| `getCurrentWatermarkMs` | `watermark` |
| the row of the account in the balances table | `row` |
| rows of the current invocation | `rows` (copies per event), `phase` |
| `sequencer.py:179-209` gathering rows, cold start, re-seed | `BeginRows`, `Reseeded` |
| branch 1, 2, 3, 4b, 4 of `step` | `ApplyInOrder`, `BufferEarly`, `EvictLowest`, `DropBuffered`, `DropReplayed` |
| `sequencer.py:147-171,211-241` and the batch's MERGE | `FinishRows` |
| timeout with a non-empty buffer, `gap_policy.on_gap`, `advance` | `ConfirmGap` |
| timeout with an empty buffer: TTL flush and `state.remove()`, or re-arm | `ExpireEmpty` |
| `compute_alarm` | `Alarm` |
| `whenMatchedUpdateAll` of `sinks.py:100-103` | `Merged` |

`delivered`, `applied`, `announced`, `shed`, `dropped` and `asserted` are
history: what happened to each event. No action reads them.

Abstractions, with their reason:

- The drain loop and the gap step are atomic; nothing can see them half done.
- A batch ends with the MERGE of its row (`FinishRows`, `ConfirmGap`,
  `ExpireEmpty`); the writes in between, and crashes, are `BalanceEngine`'s.
- Watermark and rows are independent inputs: the watermark moves by other
  accounts. The order of an expired timeout and a batch with rows is left
  open, which covers both Spark (a key with rows is called with them and times
  out in a later batch) and the harness of the tests (timeout first).
- `DropLate` chooses whether rows at or below the watermark reach the
  operator. Spark drops them before an operator with an event-time timeout,
  the harness of the tests does not. FALSE allows more behaviours and is what
  the passing runs of the account use; the two runs that show a disagreement,
  `rejoin` and `restore` use TRUE, so that none of their behaviours needs a late row.
- `sequencer.py:139-140` (a TTL flush in an invocation with rows) is
  unreachable: a timed-out invocation has no rows. The third case of the
  timeout comment, a stale alarm, is in the model and shown unreachable
  (`NoStaleAlarm`, proved).
- Not modelled: 64-bit overflow of the balance, the `ValueError` of an unknown
  policy, the pickled form of the buffer, the text of `detail`.

### BatchCore, BalanceEngine

| Code | Model |
|---|---|
| `offsets/N` | `plan` |
| `commits/N`, state version N, `batchWatermarkMs` | `keys`, `nextWatermark`, set by `CommitBatch` |
| stream-static join with the balances table (`balance_engine.py:119-124`) | `table[a]` read by `Invocation` when the batch runs, not when it is planned |
| one call of the operator per key: with its rows, or for an expired timeout, or none | `Invoke`: `WithRows` (`Start`, then `WithRow` for each row in turn), `TimedOut`, `NoResult` |
| `sorted(..., key=seq_no)` (`sequencer.py:78`) | `InSeqOrder`, where rows reach the operator in another order |
| `write_batch` up to the MERGE | `MergeBalances`; a batch without integrity rows returns (`AfterMerge`) |
| append to the integrity table; topic integrity; topic dlq; topic signals | `AppendIntegrity`, `PublishIntegrity`, `PublishOverflow`, `PublishGaps` |
| SIGKILL, `_maybe_fail_once`, a partly landed Kafka write | `Crash`, `Landing` |
| restart: the batch in `offsets/` without a commit is run again | `Restart`, then `ExecuteBatch` |

`trail` holds what the audit sinks received of the batch in flight, as sets:
the sinks are append-only and at-least-once, their readers compare sets of
(account, kind, seq). A gap record is known by its first seq. The heartbeat is
the `tick` of a batch. `posted` is the history of the events each row of the
table is made of, `first` what the first attempt at the batch computed.

Assumed of Spark, Kafka and Delta (external): `offsets/N` is durable before the
batch runs and replays the same rows; the state version becomes current with
the commit only; a Delta commit is atomic; a Kafka write may land in part.

Not modelled: the metrics call (its exceptions are swallowed and nothing reads
it), the overwrite branch of `sinks.py:79-80` (the table exists since
`ensure_balances_table`), the `row_number` insurance (one row per key and
batch). The velocity queries are `Velocity`, the pid file is `Lifecycle`.

### Oracle, Generator, Harness

| Code | Model |
|---|---|
| `event_generator.py`: round robin, withheld and duplicated events, bursts, windowed shuffle | `RoundRobin`, `GapsAndDups`, `Burst`, `Shuffles`, `GeneratorStreams` |
| `inject_burst.py` | `BurstStreams` |
| logical event time, heartbeat every tick, `--trailing-heartbeats` | `Frontier`, `PublishConfirmed`, `SendTrailing` |
| `produce` callback with an error, the log line written before it | `errors`: a record that is in `log` and not in `unread` |
| `oracle.py`: multiset of deliveries, missing, evicted, `determinate` | `Repeated`, `Missing`, `PredictedEvicted`, `Determinate`, `Prediction` |
| `derive_applied_count` with its clipping | `DerivedCount` |
| the comparisons and flags of `parity_balance.py` | `Mismatches(.., ask)`, `ask` one Boolean per flag |
| `buffer_proof.py`, `late_arrival_proof.py`, `release_head_drill.sh` | `BurstKeepsTheCap`, `ReleasedHeadIsDropped`, `ReleaseHead` |

| `topics.sh:32`, three partitions; the record's key is its account (`event_generator.py:212-216`) | `Partitions`, `PartitionOf`, `Produced`; `unread[p]` |
| `maxOffsetsPerTrigger` over the partitions | `Cuts`, `Took`, `Rest` |

The streams are computed as the scripts compute them, with every outcome of the
random choices. The topic is a sequence per partition. The engine of `Harness`
reads any prefix of each as its next batch, so that it may be far ahead in one
partition (the heartbeats', or another account's) while the events of an account
lie unread in its own; the watermark is that of all. Spark spreads the bound of
a batch over the partitions in proportion to what each holds, which is one of
these choices and not a promise that they are read evenly. Log and table are
compared as the scripts read them, after the deduplication of the integrity
rows.

### Restore

| Code | Model |
|---|---|
| `checkpoints/<tag>/{offsets,commits,state}` | `paths[tag]`: the sequence of ends and watermarks, the number committed, the state versions |
| a batch: `offsets/N`, state version, `commits/N` | `Plan`, `Execute`, `Commit` |
| `mc mirror`, its listing order, its retry in the DAG | `MirrorCommits`, `MirrorOffsets`, `MirrorStates`, `MirrorFails` |
| `prune_old_snapshots` | `Prune` |
| `ls | tail -1`, stop, copy to a fresh tag, start | `ChooseLatest`, `StopEngine`, `Seed`, `StartFresh` |
| `corrupt_checkpoint.sh` overwriting state files of the live path; its exit when there are none | `Corrupt`, `NothingToCorrupt`; `corrupt`, the paths that have such a file |
| replay from earliest on a new tag | `Rebuild` |
| a version or commit that is missing or there already, a state file of garbage | `Fail` |

A mirror step copies as much of a directory as the engine has written by then;
the engine runs on between the steps. What is corrupted stays so: the engine may
go on beside it (the executor holds the state, or the file is of a version it
never loads) or fail at any batch, a mirror that reads the state after it has
the garbage too (`spoiled`), and so has the fresh path, if the drill seeds it
from that mirror. `restore_from_snapshot.sh:64` chooses the newest name before
it corrupts anything, and the name is there as soon as the first object is.

### Rejoin

The drill is a sequence of phases; `EngineBatch` runs beside each. The wait
between two phases may answer early (`early`), except the first. `Own`, `Peak`,
`Final` and `CurveVerdict` are `state_growth.py`, a verdict `Return` reads once
and the property at every moment; `DeltaSeq`, `DeltaBal`, `Replaced` and
`ProofPasses` are `rejoin_proof.py`. The lines of the velocity query, which
shares the file, appear between those of the sequencer.

### Velocity

| Code | Model |
|---|---|
| `window(event_ts, size, slide)` | `Starts` |
| `withWatermark`, late rows, evicted windows | `Late`, `Kept` |
| `groupBy.agg` in update mode | `Emitted`: the windows that changed, with kept plus taken |
| append to Delta, breaches to the signals topic, commit | `Write`, `Announce`, `Commit`, with `Crash` between any two |
| `velocity_recompute.py`: the last row of a window against the batch, settled windows only | `StreamSide`, `BatchSide`, `Settled`, `ParityPasses` |

### Decoder

A record is of one of four kinds. `Decode` passes an event whose schema is
cached or can be fetched and skips a short record, `Raise` ends the query with
the batch uncommitted, `Restart` runs it again with an empty cache; `Outage`
and `Recover` are the registry.

### Progress, DrainWait, Probe

| Code | Model |
|---|---|
| a query's batch and `lastProgress` | `Plan`, `Emit` (its gap signals), `Commit`, `query[q].progress` |
| the poller's pass over the queries, `seen`, the one-time STOPPED line | `BeginPass`, `Visit`, `Stopped` |
| `awaitAnyTermination`, the `finally` block; SIGKILL | `Fail`, `Exit`; `Kill` |
| `wait_for_drain.py`: last line of the sequencer, CAUGHT UP / drained / stopped / timeout | `Look`, `SaysCaughtUp`, `SaysDrained`, `SaysStopped`, `TimesOut` |
| `gap_timing_probe.py`: deduplicate signals, not-before, not-never; the control `--expect-no-gaps` | `Deduped`, `NotBefore`, `ProbePasses`; `Silent` |

The poller's memory dies with the process, the file does not. A record's
offset stands for its event time. The file is a sequence; what its readers see
of it is a set of positions (`BatchLines`) or of lines (`Lines`), as neither the
waiter's last batch nor the probe's first eligible one depends on the order in
which two queries write.

### Lifecycle

A script is the list of its commands: `Launch`, `Ready`, `Publish`, `Drain`,
`Kill`, `Term`, `Await`, `RemoveFile`, `Pkill`, `Reset`, `Judge`. A step that may
give up has a second action (`NeverReady`, `NotPublished`, `NothingToKill`), which
goes on to the commands of the script's EXIT trap (`Abort`). The recovery drill
is a loop: `TryAgain` begins the next of its `Attempts` (stop, three seconds,
reset, launch, kill, launch), `JudgeAttempt` ends it. Engines are processes in
the order of launch: `Boot` writes the pid file, `Exit` removes it whoever wrote
it, as `balance_engine.py:46` does. Sleeps and bounded waits may end at any
moment. `WriteBatch` holds the armed failure of `sinks.py:158` with its marker
and the early return before it.

## 4. Runs

| Run | Question | Instance |
|---|---|---|
| `seq_flag` | one account under FLAG_AND_CONTINUE with TTL and rejoin: books, alarms, verdicts, the refinement of `Ledger`, every gap resolves, idle state is released; the proof's invariant `IInv` itself | 4 events, buffer 2, 2 rows an invocation; 76,496 states |
| `seq_hold` | HOLD: a prefix only, and every open hole is asserted | 4 events, buffer 2; about 298,000 states |
| `seq_hold_cadence` | disagreement: two assertions closer than `gap_realert_ms` | violated |
| `be_one` | one account and the heartbeat, two crashes in any step: state, table, audit, refinement of `Ledger`, every batch commits | 3 events, buffer 1, 3 rows a batch; 354,743 states |
| `be_gap` | disagreement: an expired gap of a busy account stays open | violated |
| `harness` | whole runs of generator, broker, engine and oracle: what the verdicts claim, which gaps a reordering may cause, and the tail | 4 events, buffer 1, two partitions, one refused record, one released head; 100,724 states |
| `restore` | snapshots of a running engine, pruned, corrupted, restored, upgraded to, replayed from earliest | 3 events, 2 snapshots of which 1 is kept; 986,106 states |
| `drain_wait` | file, waiter and probe over two processes | one query, one event, one gap; 204,084 states |
| `velocity` | any cut of four streams into batches, two crashes | windows of 4 sliding by 2; 8,735 states |
| `rejoin` | the eviction drill and its judges | two accounts, 3 events, three ticks; 1,234,680 states |
| `lifecycle` | each script on its own, aborted or not, the recovery drill with two attempts | 3 batches; 78,313 states |
| `decoder` | four topics, three outages | 891 states |

What the passing runs show of the scripts. `harness`: whenever an account is
`Predictable` (nothing happened to it that the delivery log cannot tell) the
oracle is right in every column; a `--strict` pass is never given to a run
that lost or left out an event; the derived count is the real one as long as
no evicted event got in by a second delivery; a gap over an event that was
published and accepted is reported only when what was read, of either partition,
was a watermark delay past some event still to be read. `restore`: a snapshot
complete before the corruption, though copied in parts, is one an engine can
start on, because the mirror copies `commits/` before `offsets/` before `state/`;
an engine seeded from a snapshot fails only if the drill chose it half copied,
and it stayed so or took the garbage; the table never goes back; state, table and oracle agree in the end, and this is proved for any topics
that meet its hypotheses. `drain_wait`: the file never
runs ahead of the checkpoint and no batch has two lines; CAUGHT UP is true of
everything published before; the probe passes on a drained run with all its
lines, and so does its control where the stream withholds nothing. `rejoin`: a proof that passes saw a cold account re-seeded, even where
a wait answered early. `lifecycle`: from the SIGKILL of an attempt to its verdict
the engine that recovers writes alone; the armed failure leaves its evidence; no
engine is left. That two engines never write at once is not so, and not claimed.
The recovery drill stops the engine of an attempt with SIGTERM, sleeps three
seconds, resets the lake and launches the next: the old one may still be writing,
to the new checkpoint, beside the new one (`overlapped`). What saves the drill's
verdict is that `kill_engine.sh` kills by name as well as by pid
file (the mutant of `RecoversAlone` kills one process). The same happens to
`stage_run.sh` after a script that gave its engine up: told to end by `pkill`, it
is not waited for.

What the two disagreements say:

- **`seq_hold_cadence`.** HOLD defers its alarm only in the invocation that
  announced the gap. A row for the account in the next batch re-arms it for
  the next watermark, and the same hole is announced again. The bound of
  `conf/engine_config.yml:35-38` holds for an account that has gone quiet,
  which is what `test_gap_policy.py:173-183` tests.
- **`be_gap`.** An account with rows in every batch re-arms the alarm of its
  gap each time and never times out, so "watermark + one trigger" bounds the
  detection only for accounts that pause.

### Statements the code does not keep

The modules state the following sentences of the repository as predicates, each
under the heading that names this section. TLC refutes each when it is
put into the configuration named, under `Spec` (`WaitSpec` in
`MCDrainWait.cfg`, `FairSpec` for `HeartbeatsSuffice`), with the constants that
differ given.

| Predicate | Sentence | What happens |
|---|---|---|
| `RecoveryAddsNoDuplicates` (`MCBalanceEngine.cfg`) | `recovery_drill.sh:15-18` | a batch run again after its MERGE seeds a cold account from the row its own first attempt wrote; events delivered once get DUP_DROPPED records. Balance, row and state are right |
| `PassMeansEqual` (`MCHarness.cfg`) | `parity_balance.py:323`, "engine state == oracle for all N account(s)" | an indeterminate account is skipped, and counted |
| `EveryRedeliveryIsDropped` (`MCHarness.cfg`) | `oracle.py:54` | the second copy of an evicted event is buffered or applied and leaves no DUP_DROPPED row |
| `OverdueGapsAreSettled` (`MCHarness.cfg`, `MaxBuffer = 2`, `Streams <- TwoHoles`) | `engine_config.yml:4-5`, "bounded by watermark + trigger" | an alarm confirms one hole, and the next alarm is set one millisecond past the watermark, also when the watermark has passed the successors of the second hole already. If one batch reads all that is left of the topic, trailing heartbeats included, nothing moves event time after it: the second hole stays open. `TailIsConfirmed` therefore speaks of the first one |
| `HeadWithheldIsPredicted` (`MCHarness.cfg`, `Delay = 0`) | `release_head_drill.sh:106-108` | the head's gap is confirmed in the middle of the burst, the buffer drains, fewer events are evicted than predicted |
| `HeartbeatsSuffice` (`MCHarness.cfg`) | `event_generator.py:259-261`, "Trailing heartbeats keep event time moving after the main stream ends" | the heartbeats have one partition, which batches may read to its end while the partition of an account still holds its tail; event time has then stopped, and the gap of the tail is never confirmed. `TailIsConfirmed` claims it of runs in which a heartbeat is left to read as long as an event is |
| `EndedMirrorRestores` (`MCRestore.cfg`) | `checkpoint_corruption.md:21`, "A snapshot IS a point-in-time copy of the durable checkpoint" | the mirror under way when the drill takes its name ends after `corrupt_checkpoint.sh` has run, with the corrupted files in it; the engine seeded from it fails |
| `EveryRereadIsDropped` (`MCRestore.cfg`) | `upgrade_dual_run.sh:111-113` | re-read events are new to the older state and are applied to it again; the guard of the MERGE keeps the table right |
| `LagIsReplayWindow` (`MCRestore.cfg`) | `checkpoint_corruption.md:47-48` | snapshots go on mirroring the configured tag's path after the engine has moved to another |
| `ParityMeansRecovered` (`MCRestore.cfg`) | `checkpoint_corruption.md:84` | an engine seeded from a partial snapshot passes parity on the old tables and fails at its first batch |
| `AnswerIsAfterThePublish` (`MCDrainWait.cfg`) | `stage6_proof.sh:125` | the waiter has no baseline: the last line of before the publish answers CAUGHT UP |
| `StoppedMeansStopped` (`MCDrainWait.cfg`) | `wait_for_drain.py:57` | the STOPPED line of an earlier process is taken for this one's |
| `SlowBatchIsNotDrained` (`MCDrainWait.cfg`) | `wait_for_drain.py:41` | the silence allowed for is three times the last batch, not this one |
| `DeathIsRecorded` (`MCDrainWait.cfg`) | `progress.py:84` | the poller ends with the process that the query's death brings down, before its next look |
| `ProbeBlamesNoOne` (`MCDrainWait.cfg`, two queries, `MaxEvents = 2`, `Alarms = {2}`) | `gap_timing_probe.py:133` | the probe takes the other query's lines for the sequencer's |
| `LowerMeansUndrained` (`MCVelocity.cfg`) | `velocity_recompute.py:148` | rows dropped as late make a drained stream lower |
| `ReplacedMeansLost` (`MCRejoin.cfg`, amounts 5, -5, 7) | `rejoin_proof.py:97` | an opening balance of zero is called lost |
| `TermCheckpointsCleanly` (`MCLifecycle.cfg`) | `stage_run.sh:62` | SIGTERM comes between plan, write and commit |
| `StoppedMeansGone` (`MCLifecycle.cfg`, `Scripts = {"stage_run", "stop_engine"}`, `MaxScripts = 2`) | `stop_engine.sh:18` | a process told to end by pkill is not waited for |
| `ObservedMeansReplay` (`MCLifecycle.cfg`, `MaxCopies = 2`) | `replay_evidence.py:66` | one batch with an event twice leaves two equal rows |

### Bounds

The comments where constants are declared say which are bounds of the model
(`MaxBuffer`, `Delay`, `Keep`, `Stable`, `Timeout` and the like are the
program's own parameters). Why they are enough:

- `Sequencer`, `BalanceEngine`. With buffer 1 an overflow evicts the resident
  or the arrival, with buffer 2 a drain has two to apply; with four events a
  second hole behind the first and an eviction followed by a re-delivery occur.
  Three rows in a batch allow a duplicate and an overflow in one invocation.
  Watermarks reach past the latest event time plus the TTL, so release, rejoin
  and a second release happen. One crash reaches every step of an attempt, two
  a crash of the second attempt. Amounts have alternating signs and no two of
  the multisets the bounds allow have the same sum. In both two
  events share an event time, and in `seq_flag` the last one is the earliest.
- `Harness`. Four events and buffer 1 make a withheld head, an overflow behind
  it, a duplicate and a shuffle wider than the watermark delay; one refused
  record and one released head are what the drills have. Four trailing ticks
  are more than the delay of two.
  Two partitions are what one account and the heartbeat can be told apart by,
  and let each be read ahead of the other; reading the topic in the order of
  publication is among the cuts.
  The same properties were checked by hand under HOLD (107,584 states) and with
  two accounts of two and three events, one of which shares its partition with
  the heartbeat (14,007 states). Under HOLD a strict
  pass says nothing of a record lost behind a hole, since nothing behind it is
  applied: `StrictPassIsEarned` claims that part for FLAG_AND_CONTINUE only.
- `Restore`. Two snapshots and `Keep = 1` let the one that was chosen be
  pruned. The topics are a reordering that fills its hole in up to three
  batches, and a hole the heartbeat confirms; larger topics (6.3 and 1.6
  million states) were checked by hand with the same result.
- `DrainWait`. Two processes have a line of the first read beside the second.
  `Regular` says that in a tick the poller looks and work is begun, and that
  no batch outlasts the silence the waiter allows for; without it no waiter
  can be promised an answer. `FALSE` was checked by hand for the safety
  properties.
- `Velocity`. Windows that overlap, a debit on a boundary, one a whole window
  late, two crashes in one batch or in two.
- `Rejoin`. Two accounts make the peak, three ticks carry the watermark past
  the TTL one batch at a time or all in one.
- `Lifecycle`. Three batches put the armed failure into a batch with rows
  after one without; two attempts of the recovery drill launch up to four
  engines, of which the third may start beside the second. Two
  scripts one after another, with two batches, were checked by hand (2,555,204
  states).
- `Decoder`. A topic for each kind of bad record; three outages come before,
  within and after a batch.

`CHECK_DEADLOCK FALSE` is said where the system really ends: the stream is
read, the script is over, or the watermark has reached its bound.

### Fairness

- `Sequencer`: `WF` on the row steps, `FinishRows`, and on the two timeouts: an
  invocation runs to its end, and a trigger serves expired alarms once no rows
  of the account come first. Hence the bound `LastDelivery`: the liveness of
  gaps is claimed for accounts that pause, and `be_gap` shows why. `SF` on
  `AdvanceWatermark`: the heartbeat account moves event time whatever this
  account does. The engine itself does not provide this; without any traffic
  no gap is confirmed and no state is released.
- `BalanceEngine`: `WF` on the driver's steps and on `Restart`, with finitely
  many crashes: a supervisor or an operator restarts the engine. Planning is
  not fair: a topic may be idle.
- `Harness`: the generator publishes its stream and its trailing ticks, and the
  trigger runs while there is something to read or the watermark to move.
- `Restore`: the driver runs, and a drill once begun goes through its steps, the
  corruption (or the exit when there is nothing to corrupt) included; nothing
  makes anyone take a snapshot or begin a drill, and nothing makes a corrupted
  engine fail.
- `DrainWait`: triggers, commits, the poller, the waiter and the clock go on; no
  fairness for failures.
- `Lifecycle`: a script goes on to its next command, an engine that was told to
  end ends. Nothing makes an engine come up: the scripts give it up.
- `Decoder`: the query runs, is restarted, and the registry comes back.

## 5. Proofs

All theorems hold for every value of the constants that meets the named
assumptions.

### SequencerProofs

- `TypeCorrect`, `BalanceIsSound`, `SkipsAreAnnounced`, `VerdictIsFinal`,
  `NothingIsLost`, `LargestAreKept`, `BufferIsBounded`, `TableIsCurrent`,
  `AlarmsAreFresh`, `HoldAppliesAPrefix`, `OpenGapsAreArmed` (invariants),
- `LedgerIsMonotone`, `GapsWaitForWatermark`, `AlarmsAreAhead` (what a step may
  never do),
- `AccountImplementsLedger`: `Spec => ImplementsLedger`, the refinement.

All rest on `InductiveInvariant`, `Spec => []IInv`. The safety properties are
not inductive by themselves: the balance of a rejoining account is that of its
row, so `RowFollowsLedger` ties the row to the ledger (never ahead, equal at
equal seq, current between batches, and 0 when nothing can have been
released); `AlarmFollowsState` says what an armed alarm was computed from, so
that an expired one tells gap from TTL; `StateShape` says that a released key
holds nothing. Under HOLD a lemma needs no strengthening: what was applied is
1..position at every step. The argument has one lemma per action
(`AdvanceKeeps`, `BeginKeeps`, `InOrderKeeps`, ...), over lemmas that say what
an action does to the pieces (`InOrderEffect`, `OverflowEffect`, `GapEffect`,
`AlarmFact`, `MergeFact`) and what the operators return (`MinFact`,
`DrainFact`, `MovedFact`). For the refinement, `SettleFact` turns "new events
above the old position, the last one at the new position" into a step of
`Ledger`; the balance follows because `BalanceIsAppliedSum` holds on both
sides and sums of disjoint sets add. `OpenGapsAreArmed` is preserved given
`IInv` (`NextKeepsArmed`): every invocation that leaves the gap open sets the
alarm anew, and a later watermark only moves the bound it is compared with
(`MaxGrows`).

`seq_flag` checks `IInv` itself on its instance.

### BatchProofs

What one invocation does to a key, whatever its rows. `Induction` (a set of
numbers that holds 0 and with each number the next holds all of them) carries
what one row preserves (`RowKeeps`) over `Runs`: the account stays
sound, it moves forward only, its balance changes by the sum of what was
applied, and what was applied is new.

### BalanceEngineProofs

- `TableComesFirst`: each topic write happens at a program counter that only the
  append leads to, and what lands of a cut-off write is part of it. The
  contents of a batch play no part.
- `StateAndTableAgree`, `ReplayIsIdentical`, `TableIsLedger` rest on `BatchInv`.
  Between batches each key agrees with its row: a live key has the row's
  position, balance and buffer size, and a released one left the row it will be
  seeded from. While a batch is open either no row of it was merged
  (`Fresh`) or all were (`Done`): that the MERGE is one commit for all accounts
  is what the proof needs of Delta. `Attempt` says that an attempt after the
  MERGE computes what the first did, although the join now reads the first
  one's rows: a warm key ignores the join, and a cold one seeded from its
  own result drops the same rows as replays and returns the same row.
- `AuditTrailIsWhole` rests on `AuditInv`, one conjunct per program counter:
  what of the attempt's records each sink has by then. `Repeats` (of
  `BatchInv`) turns the records of the last attempt into those of the first.

### HarnessProofs

About a whole run of the demonstration, for any stream of any accounts, any
order, loss and duplication, any cut into batches and any policy. The
invariants were checked by TLC on the instance of `harness` before they were
proved. Each is about one account (`St(a)`: its position, what was applied, what
is held, evicted, dropped and reported), so that a batch is a sequence of steps
of that small state: a row is taken (`TakesRow`) or a hole is confirmed
(`Confirms`), and `Induction` carries what each of them preserves over `Runs`.

- `BooksInv`: types, agreement of key and row, and the books. What was applied
  lies at or below the position, what is held lies above it, and every number at
  or below it was applied, or lies in a range reported, or was evicted.
  `DerivedCountIsRight` follows by counting: the derived count takes from the
  position the union of ranges and evictions cut off at it, which is the
  complement of what was applied.
- `TallyInv`: nothing comes from nowhere. What the engine has of an event (in
  the balance, the buffer, the evictions and the drops), what is in the topic
  and what was refused never exceed its lines in the log, and there are
  at most two. `StrictPassProvesTheRun` needs it: a strict pass means that
  for each account the figures of the table are as large as the log allows, and
  the tally then leaves no room for an event refused or left out. The balance
  plays no part in the argument, so it needs no assumption about sums.
- `WaitInv`: as long as nothing is read or published a whole delay behind what has
  been read (`~disordered`), every event still in some partition lies ahead of the
  watermark (`AheadOfTime`), and a number a gap names is one event time has passed
  without its having been published. `ReorderWithinTheDelay` follows. The
  hypothesis is about what was read, not about the order of publication: with
  that alone the statement is false (TLC: 2, 1, 3 published in time, a heartbeat of
  the other partition read first, and the gap 1 is reported over an event that
  lies in the topic). The watermark is a maximum over all partitions, which is
  why the number of partitions is finite by assumption (`TimesBounded`).
- `SightInv`: what was read of an event is what the log has and the topic has
  not, unless a record was refused or came late (`Seen`); nothing is evicted
  before there are more events than the buffer holds (`Crowded`); and before the
  first gap, what is evicted is older than all that is left (`Ranked`).
  `OracleIsRight` follows from it, `BooksInv` and `TallyInv`: on a drained topic
  `Seen` makes the log the record of what was read, and `Ranked` makes the events left
  the largest, which is what the oracle predicts. `OracleIsRight` assumes
  `MaxBuffer > 0`: with no buffer the engine evicts every early event and
  `oracle.py` predicts none (`ordered[:-0]` is empty).
- `DrillInv`: of an account whose head was released, nothing but that head is in
  the topic, and until it is recorded as dropped it is there. `DrillsPassTheirProofs`
  assumes `MaxBuffer > 0` (with no buffer every event of a burst is evicted as it
  comes, and the figures of `buffer_proof.py`, which speak of a cap, fail) and
  `~DropLate`: a released head carries the time of its release, which event time
  has not passed, so that Spark does not take it for late, but `Harness` gives an
  event the same time whenever it is published.

### RestoreProofs

`RestoreInv` and `Damaged` (checked by TLC on the instance of `restore` before they
were proved) are the inductive invariant. `RestoreInv` has three parts. `Typed` says that no offset on a path or in a snapshot lies
beyond the topic, and how many snapshots there can be; `Running`, that the live
path is at most one batch ahead of its commits and has the state of every batch
committed, and that a path seeded from a whole snapshot is whole and its engine
in step with it; `Mirrored`, that what each stage of a mirror copied is a prefix
of what the live path has. The last is where the order of the copy counts:
`commits/` first, so that the offsets and states copied later hold at least what
the commits name. `Damaged` follows the garbage: it is on the live path only in a
restore, only mirrors that end after it have it, a name is used once, and so the
snapshot the drill chose never has it if its mirror had ended by then (`whole`).
From the two follow `SnapshotsAreRecoverable`, `RestoreTypes`, and, with
`MergeFact`, that rows are not taken back (`RowsAreNotTakenBack`).

`ReplayAlwaysConverges` proves `ReplayConverges` for any topics, batches,
snapshots and drills. Every step is taken on a state that may be older than the
table, so the invariant (`ConvergeInv`, checked by TLC before it was proved)
does not compare the two: it says of each what it owes to the topic.

- `TableExplained`: the row is made of events of the topic, and everything at or
  below its position that it is not made of lies in a gap the integrity table
  has (`Earned`, `Gone`).
- `Covered`: so is every state version on the path, up to the batch the engine
  is at (`Explained`), with its position not beyond the row's. As long as nothing
  unclear happened, each event read by then is at or below the position or in
  the buffer, none of them is in a gap, and those read twice have a record.
- `Paced`: batches are read in order, and no event that is still to be read is
  at or below the watermark of a batch (`Mark`).
- `LiveRun`, `Twins`: the live path has a version per batch, and what was copied
  from it is a prefix of it. So the engine of a drill finds the versions it
  starts from explained.

The step that matters is `Execute` (`SinksExplained`): what the invocation does to
the account is known for any rows (`InvokeLeaves`, by induction over the rows: it
moves over a confirmed hole or over events it has or is given), and applied to an
older account this can only add holes and records that the row's own account
would have had too. When the engine has drained, the version it stands on has
read the whole topic; then no event is in a gap, so table and state are both
made of exactly the events of the log, and what the oracle computes from the log
(`LogFact`, `Expected`) is what they hold.

The theorem has three hypotheses, and each is needed: TLC finds the violation
without it. `Policy = "FLAG_AND_CONTINUE"`: under HOLD a hole is announced while it is
open, and when it is filled later the derived count still subtracts it.
`Punctual`: a row dropped as late leaves a hole with nobody to say so. `Predictable`:
a topic that withholds its head and, after the gap was confirmed, goes on for
more than `MaxBuffer` events has evictions predicted that never happen. The instance of
`restore`, where late rows are dropped, meets all three and says so in an ASSUME.

### VelocityProofs

`BreachesAreAnnounced` proves `BreachIsAnnounced` for every stream, window and
number of crashes. `BreachIsAnnounced` speaks of idle moments only; the
invariant `BreachInv` says of every moment that a breach in the table is on
the topic or owed by the batch in flight, and that the batch in flight, run
again after a crash, computes the same rows (`ReplayFact`) and so pays.

`StreamAgrees` proves `StreamAgreesWithBatch`. `StreamInv` says what a row and a
kept window are the sum of: `Counted(w)`, the debits of `w` read so far and not
dropped as late (`KeptIsWhole`, `TableIsWhole`); a window that was evicted never
starts again, because a row for it would be late (`WindowNeverRestarts`); and
what was dropped lies behind the watermark of its batch (`DroppedAreLate`), so
that nothing of a stream within the delay was. That sums of disjoint sets add
is proved by induction on the position in the stream.

### QueryProofs

The first three hold of the file beside the waiter, for any number of queries, processes
and records. `Steps` says what any step does to the file, the queries
and the signals: it announces, moves one query, or writes one line; the three
invariants are preserved over these instead of over each action.

- `LinesAreHistory` proves `FileIsSound`. `FileInv` adds what the poller's
  memory is worth: a line is covered by the checkpoint, a batch that
  `lastProgress` still shows has a line only if this process remembers it, and
  memory is lost only together with `lastProgress`.
- `CaughtUpIsCommitted` proves `CaughtUpIsTrue`. `WaiterInv`: the line a waiter
  answered from ends at or before the checkpoint's offset, for good.
- `ProbePassesWhenDrained` proves `DrainedRunPasses`. `ProbeInv`: a signal is of
  a batch committed or in flight, was raised at that batch's watermark, which
  `lastProgress` and the line repeat whichever process wrote them, and no gap has
  two signals that differ (`SignalsAreOfBatches`); once the watermark has nowhere
  to go every gap behind it was announced (`NothingIsOwed`). The count of
  signals is that of the gaps by a bijection.
- `CommittedIsPassed` proves `ReadIsPassed`. `DecoderInv` says that `passed`
  lists the events of 1..offset and `rows` those of offset+1..pos, each once and
  in order; the lemmas about `Lists` say what appending one event and joining
  two lists do.

TLC checks `ProbeInv` and `WaiterInv` on the instance of `drain_wait`, and with two
events and two gaps (3.6 million states).

### DrillProofs

`ArmedFailureIsShown` proves `FailureIsShown` for any set of scripts and any
number of them. `FailureInv`: a batch that failed is still the one planned,
with its rows in the table, until a lone engine's second write doubles
them; `LoneWriter` is what `~overlapped` gives.

`TheRecoveryIsAlone` and `TheFileIsOfTheLaunched` hold for any number of scripts
one after another, of attempts and of batches, and of processes that die at any
point. `ScriptInv` ties what a script has still to do to what may be
running: only the last engine launched can still come up and write the pid file
(`LastBoots`), since a stop kills what is still starting; and in the recovery
drill no engine lives between the SIGKILL and the next launch, and from then on
none but the one launched (`Place`).

`FallMeansEviction` proves `FallIsEviction` for any number of accounts, any
batches and any lines missed or of other queries. `CurveInv` compares lines with
each other and with the present: no line is above the accounts that have state
or were ever released, and a later line is lower than an earlier one by no
more than the accounts released (`Live`, `Released`), because a key only goes
away with a TTL flush (`MarksFact`). The peak and the final line are two such lines.

`TheRejoinVerdict` proves `ProofIsRight`, and `PassedProofsAreEarned` its first
half, `PassMeansCold`. `RejoinDrillInv` joins three parts. `StandInv`: every
account stands at the last event read, with an empty buffer, and its row says
the same (`RowsStand`, `NoRowsStand`, over `RunsInOrder`: rows in order and on
time are all applied). `WatermarkInv`: the watermark is behind the events still to
come, and as far as the ticks read carried it. `SnapshotInv`: since the
snapshot the account was released once or not at all, and which of the two shows
in the key before the return and in `found` after it. `TheRejoinVerdict` needs
`LongEnough`, that the ticks outlast the TTL: after a shorter run nothing is
released and the proof rightly fails. Both need `InTime`, that no event of the
drill is late when the engine drops late rows: an event dropped as late would
be missing from the balance. The instance TLC checks meets both, and says so in an
ASSUME. `RejoinTypes` is the type invariant.

### Assumptions

Each is named in the module that declares the constants, and TLC evaluates it
in every run of the module that declares it. Bounds are naturals; the policy is one of the two; a
TTL implies the re-seed (`conf/engine_config.yml:27-34` says TTL eviction is not
safe without it); `Total` is additive over disjoint sets and 0 on the empty one;
event times are positive; `DropLate` is a Boolean; a window's slide is at most
its size; a topic of `Restore` is a sequence of heartbeats and events with their
times, a stream of `Velocity` one of times and amounts; of `Harness`, event
times do not fall with the number of an event, a stream has an event at most twice
(both as the generator makes them), and the heartbeat is not among the
accounts, of which there is one at least, and the partitions are finitely many;
of `Rejoin`, the accounts are finitely
many, an account has events before the one it returns with, event times do not
fall, and no tick is later than the return; the sequencer is one of the
queries and these are finitely many; a recovery drill has one attempt at least.
`ReplayAlwaysConverges` assumes the policy, `Punctual` and `Predictable`,
`TheRejoinVerdict` `InTime` and `LongEnough`, `OracleIsRight` `MaxBuffer > 0` and
`DrillsPassTheirProofs` that and `~DropLate`, as said above.

### What is only model-checked

- Liveness, in every module: fairness and ENABLED are not within the prover's
  reach.
- `TypeOK` of the modules other than `Sequencer`, `Restore`, `Harness` and
  `Rejoin` was checked by hand and is not among the properties of the runs.

## 6. Not modelled

- `engine/metrics.py`: a push gateway whose exceptions are swallowed; nothing
  reads it back.
- Configuration and session: parsing; the values are the constants.
- `tests/harness.py`: a simulation of Spark's batches; `Sequencer` allows its
  order of timeouts and rows as well as Spark's.
- The verifiers, reports and probes of the installation
  (`verify_day*.py`, `final_audit.py`, `diagnose*.py`, `check_install.py`, ...):
  they look for files and read tables for a person. Infrastructure: deployment.
- `--no-reset` of `recovery_drill.sh`: every attempt begins with a reset.
- The plateau check and the capped/uncapped contrast of `state_growth.py`, and
  the wall-clock bound of `gap_timing_probe.py`: statistics of real time.
- The Avro encoding, 64-bit overflow of balances, and offsets that Kafka no
  longer holds (`failOnDataLoss` is false): to the operator such an event is
  one never delivered.

Hazards without a property are listed in `PROJECT.json` with the reason.
