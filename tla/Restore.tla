------------------------------ MODULE Restore ------------------------------
(***************************************************************************)
(* Snapshots of the checkpoint (scripts/snapshot_state.sh and the DAG      *)
(* airflow/dags/state_snapshot.py), and the two drills that start an       *)
(* engine on one: restore_from_snapshot.sh after the live checkpoint was   *)
(* corrupted, upgrade_dual_run.sh to move to another versioned path.       *)
(*                                                                         *)
(* A checkpoint path is offsets/N, commits/N and the state versions of the *)
(* batches run on it.  The engine started on a snapshot reads the topic    *)
(* again from the snapshot's offsets, in other batches than the first time *)
(* and over tables that are ahead of its state.                            *)
(*                                                                         *)
(* One account stands for all: they share offsets and watermark.  External *)
(* (Spark): on start the last batch planned is run again unless committed, *)
(* a missing state version fails the query, and so does a commits/N that   *)
(* is there already.  External (mc): a mirror copies a prefix in the order *)
(* of its listing, commits/ before offsets/ before state/.                 *)
(***************************************************************************)
EXTENDS BatchCore, Oracle

CONSTANTS
    Topics,         \* the topics a run may read: sequences of [seq, ts]
    Delay,          \* watermark_delay
    Keep,           \* KEEP of prune_old_snapshots
    MaxSnapshots    \* snapshots taken in a run (a bound of the model)

ASSUME RestoreAssumption ==
    /\ Topics \subseteq Seq([seq : 0..MaxSeq, ts : Nat])
    /\ Delay \in Nat /\ Keep \in Nat \ {0} /\ MaxSnapshots \in Nat

VARIABLES
    topic,          \* all that is published, heartbeats (seq 0) included
    paths,          \* checkpoints/<tag>/
    tag,            \* P3_SPARK_VERSION_TAG of the running engine
    pc,             \* what that engine is doing
    table, found,   \* balances row; integrity rows, deduplicated
    snapshots,      \* state-snapshots/balance_engine/, oldest first
    taken,          \* snapshots taken
    drill,          \* the drill under way
    corrupt,        \* tags whose path has a state file of garbage
    spoiled         \* names of the snapshots such a file was copied into

(* History, never read by an action.                                       *)
VARIABLES
    unclear,        \* what arrived late or was evicted, on either path
    reread          \* what the drill's engine reads for the second time

engine  == <<paths, tag, pc, table, found>>
damage  == <<corrupt, spoiled>>
history == <<unclear, reread>>
vars    == <<topic, engine, snapshots, taken, drill, damage, history>>

Live == "live"
Fresh == "fresh"

Empty == [offsets |-> <<>>, commits |-> 0, next |-> 0, states |-> <<>>]

(* whole is history: the mirror of the chosen snapshot had ended.          *)
NoDrill == [kind |-> "none", chosen |-> 0, whole |-> FALSE,
            seeded |-> FALSE, partial |-> FALSE]

Init ==
    /\ topic \in Topics
    /\ paths = [t \in {Live, Fresh} |-> Empty]
    /\ tag = Live /\ pc = "idle"
    /\ table = NoRow /\ found = NothingFound
    /\ snapshots = <<>> /\ taken = 0
    /\ drill = NoDrill
    /\ corrupt = {} /\ spoiled = {}
    /\ unclear = {} /\ reread = {}

TypeOK ==
    /\ \A t \in DOMAIN paths :
          /\ paths[t].commits \in Nat /\ paths[t].next \in Nat
          /\ \A i \in DOMAIN paths[t].states : paths[t].states[i].key \in Key
          /\ \A i \in DOMAIN paths[t].offsets : paths[t].offsets[i].end \in 0..Len(topic)
    /\ pc \in {"idle", "planned", "executed", "failed", "down"}
    /\ table \in BalanceRow /\ found \in Found
    /\ Len(snapshots) <= Keep + 1
    /\ corrupt \subseteq {Live, Fresh} /\ spoiled \subseteq 1..taken

(***************************************************************************)
(* The engine on its path                                                  *)
(***************************************************************************)

Path == paths[tag]

Batch(path) == Len(path.offsets)

(* Where a batch ends, and the version of the state it leaves.             *)
End(path, n) == IF n = 0 THEN 0 ELSE path.offsets[n].end

Version(path, n) == IF n = 0 THEN [key |-> ColdKey, applied |-> {}] ELSE path.states[n]

Stale(path) == IF path.offsets = <<>> THEN 0 ELSE path.offsets[Batch(path)].watermark

(* commits/N carries the watermark of the batch after N.                   *)
Upcoming(path) == IF path.commits = Batch(path) THEN path.next ELSE Stale(path)

Plan ==
    /\ pc = "idle"
    /\ \E end \in End(Path, Batch(Path))..Len(topic) :
          /\ end > End(Path, Batch(Path)) \/ Upcoming(Path) > Stale(Path)
          /\ paths' = [paths EXCEPT ![tag].offsets =
                          Append(@, [end |-> end, watermark |-> Upcoming(Path)])]
    /\ pc' = "planned"
    /\ UNCHANGED <<topic, tag, table, found, snapshots, taken, drill, damage, history>>

Records(path, n) == SubSeq(topic, End(path, n - 1) + 1, End(path, n))

Rows(path, n) ==
    LET records == Records(path, n)
    IN  InSeqOrder([i \in DOMAIN records |-> records[i].seq])

(* The state of batch n-1, which must be on the path.                      *)
Loadable(path) == Len(path.states) >= Batch(path) - 1

Invoked(path, n) ==
    Invoke(Version(path, n - 1).key, Rows(path, n), table, path.offsets[n].watermark)

Of(result, kind) == {r.seq : r \in {q \in result.recs : q.kind = kind}}

(* The state version is written and the sink has run: BalanceEngine takes  *)
(* this step apart.                                                        *)
Execute ==
    /\ pc = "planned" /\ Loadable(Path)
    /\ \E n \in {Batch(Path)}, result \in {Invoked(Path, Batch(Path))} :
          LET before == Version(Path, n - 1)
          IN  /\ paths' = [paths EXCEPT ![tag].states =
                              Append(SubSeq(@, 1, n - 1),
                                     [key     |-> result.key,
                                      applied |-> before.applied \cup result.applied])]
              /\ table' = IF result.ran THEN Merged(table, result.row) ELSE table
              /\ found' = [dup      |-> found.dup \cup Of(result, "DUP_DROPPED"),
                           overflow |-> found.overflow \cup Of(result, "BUFFER_OVERFLOW"),
                           gaps     |-> found.gaps \cup {Hole(before.key.acct) :
                                                             s \in Of(result, "SEQUENCE_GAP")}]
              /\ unclear' = unclear \cup Of(result, "BUFFER_OVERFLOW") \cup
                            {s \in ToSet(Rows(Path, n)) \cap UNION found.gaps :
                                /\ s <= Max({before.key.acct.last, table.last})
                                /\ s \notin before.applied}
    /\ pc' = "executed"
    /\ UNCHANGED <<topic, tag, snapshots, taken, drill, damage, reread>>

Commit ==
    /\ pc = "executed" /\ Path.commits < Batch(Path)
    /\ LET n == Batch(Path)
           seen == {r.ts : r \in ToSet(Records(Path, n))}
       IN  paths' = [paths EXCEPT ![tag].commits = n,
                                  ![tag].next = Max({Stale(Path)} \cup {t - Delay : t \in seen})]
    /\ pc' = "idle"
    /\ UNCHANGED <<topic, tag, table, found, snapshots, taken, drill, damage, history>>

(* The query fails, and the engine with it: a state that is not there, or  *)
(* a file of it that is garbage.  Garbage need not be met: the executor    *)
(* may hold the state, or the file be of a version it does not load.       *)
Fail ==
    /\ \/ pc = "planned" /\ ~Loadable(Path)
       \/ pc = "planned" /\ tag \in corrupt
       \/ pc = "executed" /\ Path.commits >= Batch(Path)
    /\ pc' = "failed"
    /\ UNCHANGED <<topic, paths, tag, table, found, snapshots, taken, drill, damage, history>>

(***************************************************************************)
(* Snapshots                                                               *)
(***************************************************************************)

Newest == Len(snapshots)

Mirroring == Newest > 0 /\ snapshots[Newest].mirror \in {"offsets", "states"}

(* What a restart on a path reads next, and what has been read for good.   *)
Resumes(path) ==
    IF path.commits = Batch(path) \/ path.offsets = <<>> THEN End(path, Batch(path))
                                                         ELSE End(path, Batch(path) - 1)

(* Mutation of MirrorCommits: the state is copied before the offsets.      *)
MirrorStatesFirst ==
    /\ taken < MaxSnapshots /\ ~Mirroring /\ Newest <= Keep
    /\ Batch(paths[Live]) > 0
    /\ snapshots' = Append(snapshots,
            [name |-> taken + 1, mirror |-> "offsets", seen |-> Resumes(Path),
             path |-> [Empty EXCEPT !.commits = paths[Live].commits, !.next = paths[Live].next,
                                    !.states = paths[Live].states]])
    /\ taken' = taken + 1
    /\ UNCHANGED <<topic, engine, drill, damage, history>>

(* A mirror of the checkpoint of the configured tag, whatever tag the      *)
(* engine is running on, begins.                                           *)
MirrorCommits ==
    /\ taken < MaxSnapshots /\ ~Mirroring /\ Newest <= Keep
    /\ Batch(paths[Live]) > 0
    /\ snapshots' = Append(snapshots,
            [name |-> taken + 1, mirror |-> "offsets", seen |-> Resumes(Path),
             path |-> [Empty EXCEPT !.commits = paths[Live].commits, !.next = paths[Live].next]])
    /\ taken' = taken + 1
    /\ UNCHANGED <<topic, engine, drill, damage, history>>

MirrorOffsets ==
    /\ Mirroring /\ snapshots[Newest].mirror = "offsets"
    /\ Batch(paths[Live]) > 0
    /\ snapshots' = [snapshots EXCEPT ![Newest].mirror = "states",
                                      ![Newest].path.offsets = paths[Live].offsets]
    /\ UNCHANGED <<topic, engine, taken, drill, damage, history>>

MirrorStates ==
    /\ Mirroring /\ snapshots[Newest].mirror = "states"
    /\ Batch(paths[Live]) > 0
    /\ snapshots' = [snapshots EXCEPT ![Newest].mirror = "done",
                                      ![Newest].path.states =
                                          IF @ = <<>> THEN paths[Live].states ELSE @]
    /\ spoiled' = IF Live \in corrupt THEN spoiled \cup {snapshots[Newest].name} ELSE spoiled
    /\ UNCHANGED <<topic, engine, taken, drill, corrupt, history>>

(* The mirror breaks off; the retry takes a snapshot of another name.      *)
MirrorFails ==
    /\ Mirroring
    /\ snapshots' = [snapshots EXCEPT ![Newest].mirror = "broken"]
    /\ UNCHANGED <<topic, engine, taken, drill, damage, history>>

Prune ==
    /\ ~Mirroring /\ Newest > Keep
    /\ snapshots' = SubSeq(snapshots, Newest - Keep + 1, Newest)
    /\ UNCHANGED <<topic, engine, taken, drill, damage, history>>

(***************************************************************************)
(* The drills                                                              *)
(***************************************************************************)

(* Both take the last name of the listing, complete or not.  Then the      *)
(* restore corrupts the live path; the upgrade has a snapshot of its own.  *)
ChooseLatest(kind) ==
    /\ drill = NoDrill /\ Newest > 0
    /\ kind = "upgrade" => \E i \in 1..Newest : snapshots[i].mirror = "done"
    /\ drill' = [NoDrill EXCEPT !.kind = kind, !.chosen = snapshots[Newest].name,
                                !.whole = snapshots[Newest].mirror = "done"]
    /\ UNCHANGED <<topic, engine, snapshots, taken, damage, history>>

(* corrupt_checkpoint.sh overwrites state files of the live path, which    *)
(* the engine and the mirrors go on using.                                 *)
Corrupt ==
    /\ drill.kind = "restore" /\ ~drill.seeded /\ Live \notin corrupt
    /\ paths[Live].states # <<>>
    /\ corrupt' = corrupt \cup {Live}
    /\ UNCHANGED <<topic, engine, snapshots, taken, drill, spoiled, history>>

(* No state file to overwrite yet: it exits 1, and the drill with it.      *)
NothingToCorrupt ==
    /\ drill.kind = "restore" /\ ~drill.seeded /\ Live \notin corrupt
    /\ paths[Live].states = <<>>
    /\ drill' = NoDrill
    /\ UNCHANGED <<topic, engine, snapshots, taken, damage, history>>

(* stop_engine: the process ends wherever it is.  The restore has waited   *)
(* for the engine to die, and goes on with a warning if it did not.        *)
StopEngine ==
    /\ (drill.kind = "restore" /\ Live \in corrupt) \/ drill.seeded
    /\ tag = Live /\ pc # "down"
    /\ pc' = "down"
    /\ UNCHANGED <<topic, paths, tag, table, found, snapshots, taken, drill, damage, history>>

(* The chosen snapshot, as far as it is there, goes to a fresh path: after *)
(* the stop in a restore, before it in an upgrade.                         *)
Seed ==
    /\ drill.kind # "none" /\ ~drill.seeded
    /\ drill.kind = "restore" => pc = "down"
    /\ \E i \in 1..Newest :
          /\ snapshots[i].name = drill.chosen
          /\ paths' = [paths EXCEPT ![Fresh] = snapshots[i].path]
          /\ drill' = [drill EXCEPT !.seeded = TRUE, !.partial = snapshots[i].mirror # "done"]
    /\ corrupt' = IF drill.chosen \in spoiled THEN corrupt \cup {Fresh} ELSE corrupt
    /\ UNCHANGED <<topic, tag, pc, table, found, snapshots, taken, spoiled, history>>

(* Mutation of Resumed: the batch planned last is taken as done.           *)
ResumedIdle(path) == "idle"

(* A batch planned and not committed is run again.                         *)
Resumed(path) ==
    IF path.commits = Batch(path) \/ path.offsets = <<>> THEN "idle" ELSE "planned"

SeqsIn(from, to) == {topic[i].seq : i \in (from + 1)..to} \ {0}

StartFresh ==
    /\ drill.seeded /\ tag = Live /\ pc = "down"
    /\ tag' = Fresh
    /\ pc' = Resumed(paths[Fresh])
    /\ reread' = SeqsIn(Resumes(paths[Fresh]), Resumes(paths[Live]))
    /\ UNCHANGED <<topic, paths, table, found, snapshots, taken, drill, damage, unclear>>

Drained ==
    /\ pc = "idle" /\ End(Path, Batch(Path)) = Len(topic) /\ Upcoming(Path) = Stale(Path)

(* --with-baseline: all checkpoints are removed, the tables are kept, and  *)
(* the engine replays from earliest.                                       *)
Rebuild ==
    /\ drill.kind = "restore" /\ tag = Fresh /\ Drained
    /\ paths' = [t \in DOMAIN paths |-> Empty]
    /\ drill' = [drill EXCEPT !.kind = "baseline"]
    /\ corrupt' = {}
    /\ reread' = SeqsIn(0, Len(topic))
    /\ UNCHANGED <<topic, tag, pc, table, found, snapshots, taken, spoiled, unclear>>

Drill ==
    \/ \E kind \in {"restore", "upgrade"} : ChooseLatest(kind)
    \/ Corrupt \/ NothingToCorrupt
    \/ StopEngine
    \/ Seed
    \/ StartFresh

Next ==
    \/ Plan \/ Execute \/ Commit \/ Fail
    \/ MirrorCommits \/ MirrorOffsets \/ MirrorStates \/ MirrorFails \/ Prune
    \/ Drill
    \/ Rebuild

Spec == Init /\ [][Next]_vars

(* The engine keeps triggering, and a drill once begun is run to its end,  *)
(* whoever takes snapshots meanwhile.                                      *)
Driven ==
    \/ /\ pc = "idle" /\ pc' = "planned"
       /\ End(Path, Batch(Path)) < Len(topic) \/ Upcoming(Path) > Stale(Path)
    \/ pc = "planned" /\ pc' = "executed" /\ Loadable(Path)
    \/ pc = "executed" /\ pc' = "idle" /\ Path.commits < Batch(Path)

Corrupts ==
    /\ drill.kind = "restore" /\ ~drill.seeded /\ Live \notin corrupt
    /\ paths[Live].states # <<>> /\ corrupt' = corrupt \cup {Live}

GivesUp ==
    /\ drill.kind = "restore" /\ ~drill.seeded /\ Live \notin corrupt
    /\ paths[Live].states = <<>> /\ drill' = NoDrill

Stops ==
    /\ tag = Live /\ pc # "down" /\ pc' = "down"
    /\ (drill.kind = "restore" /\ Live \in corrupt) \/ drill.seeded

Seeds ==
    /\ drill.kind = "restore" => pc = "down"
    /\ \E i \in 1..Newest : snapshots[i].name = drill.chosen
    /\ ~drill.seeded
    /\ \E partial \in BOOLEAN : drill' = [drill EXCEPT !.seeded = TRUE, !.partial = partial]

Starts == drill.seeded /\ pc = "down" /\ tag = Live /\ tag' = Fresh

Fairness ==
    /\ WF_pc(Driven)
    /\ WF_corrupt(Corrupts) /\ WF_drill(GivesUp)
    /\ WF_pc(Stops) /\ WF_drill(Seeds) /\ WF_tag(Starts)

FairSpec == Spec /\ Fairness

(***************************************************************************)
(* Properties                                                              *)
(***************************************************************************)

(* The delivery log of the account: the events of the topic, in order.     *)
Log ==
    LET log[i \in 0..Len(topic)] ==
            IF i = 0 THEN <<>>
            ELSE IF topic[i].seq > 0 THEN Append(log[i - 1], topic[i].seq)
            ELSE log[i - 1]
    IN  log[Len(topic)]

(* parity_balance.py --expect-replay over that log.                        *)
ParityWithReplay ==
    Mismatches(Prediction(Log), table, found, [Plain EXCEPT !.replay = TRUE]) = {}

Complete(snapshot) == snapshot.mirror = "done"

(* checkpoint_corruption.md:69, "the state matches the offsets exactly": a *)
(* complete snapshot, though copied in parts from an engine that went on,  *)
(* holds the state its first batch starts from next to the offsets it was  *)
(* made of, unless it was copied from a path already corrupted.  An engine *)
(* started on the snapshot of a drill fails only if that was still being   *)
(* mirrored when the drill chose it: the mirror broke off, or went on to   *)
(* copy what the drill itself had overwritten.                             *)
SnapshotIsRecoverable ==
    /\ \A i \in 1..Newest : Complete(snapshots[i]) /\ snapshots[i].name \notin spoiled =>
          LET path == snapshots[i].path
          IN  /\ Loadable(path)
              /\ path.commits <= Batch(path)
              /\ IsPrefix(path.offsets, paths[Live].offsets) \/ paths[Live] = Empty
    /\ tag = Fresh /\ pc = "failed" => ~drill.whole /\ (drill.partial \/ Fresh \in corrupt)

(* No restore, upgrade or replay from earliest ever takes a durable row    *)
(* back, though the state it is computed from is older than the row.       *)
TableNeverRegresses == [][table'.last >= table.last]_vars

(* Nothing is buffered, neither by the row nor in the state (the row of an *)
(* engine that is behind its table is not written), and nothing happened   *)
(* on either pass that the log cannot tell: no event came after its gap,   *)
(* none was evicted.                                                       *)
Held == Version(Path, Batch(Path)).key

Settled ==
    /\ Drained /\ unclear = {} /\ table.size = 0
    /\ Batch(Path) <= Len(Path.states)
    /\ Held.acct.buf = {}

(* parity_balance.py:92-95: once a drill has drained and settled, balance, *)
(* position and count are those of the oracle: nothing is applied twice,   *)
(* whatever the second pass read again.                                    *)
ReplayPassesParity == Settled => ParityWithReplay

(* The table and the state of the path the engine ended up on agree.       *)
RestoredStateMatchesTable ==
    Settled /\ Held.exists => table = RowOf(Held.acct)

(* What ReplayConverges needs of the topics: no event is so late that      *)
(* Spark drops it, and a log without the head of the account is one the    *)
(* oracle can predict without evictions, none being expected.              *)
Punctual ==
    DropLate => \A t \in Topics : \A i, j \in DOMAIN t :
        i < j /\ t[j].seq > 0 => t[i].ts - Delay < EventTs[t[j].seq]

Predictable ==
    \A t \in Topics :
        LET events == {t[i].seq : i \in DOMAIN t} \ {0}
        IN  1 \notin events => Cardinality(events) <= MaxBuffer

(* Once a drill has drained, for good or before the replay from earliest,  *)
(* durable row, state and oracle agree.                                    *)
ReplayConverges == ReplayPassesParity /\ RestoredStateMatchesTable

(* A restore once begun ends with the engine drained on the fresh path,    *)
(* unless there was no state to corrupt, or the snapshot it chose was      *)
(* pruned before it could be copied, or was still being mirrored and ended *)
(* partial or with the corrupted files in it.                              *)
Pruned == ~drill.seeded /\ \A i \in 1..Newest : snapshots[i].name # drill.chosen

RestoreCompletes ==
    drill.kind = "restore" ~>
        \/ tag = Fresh /\ Drained
        \/ drill = NoDrill \/ Pruned
        \/ ~drill.whole /\ (drill.partial \/ Fresh \in corrupt)

(***************************************************************************)
(* Statements of the repository that the code does not keep: README,       *)
(* section 4.                                                              *)
(***************************************************************************)

(* checkpoint_corruption.md:21: "A snapshot IS a point-in-time copy of the *)
(* durable checkpoint": an engine started on a mirror that ended can go    *)
(* on.  The mirror under way when the drill corrupts the live path ends    *)
(* with the corrupted files in it, and the drill may have chosen it.       *)
EndedMirrorRestores ==
    tag = Fresh /\ pc = "failed" => drill.partial

(* upgrade_dual_run.sh:111: "seeding from a snapshot means re-reading      *)
(* Kafka from the snapshot's offsets, so every re-read event hits seq <=   *)
(* last and is dropped WITH A RECORD".                                     *)
EveryRereadIsDropped ==
    tag = Fresh /\ Drained => reread \subseteq found.dup

(* checkpoint_corruption.md:47: "The lag at the moment of failure is your  *)
(* replay window": the newest snapshot resumes no earlier than the engine  *)
(* had read when it was taken.                                             *)
LagIsReplayWindow ==
    Newest > 0 /\ Complete(snapshots[Newest]) =>
        Resumes(snapshots[Newest].path) >= snapshots[Newest].seen

(* checkpoint_corruption.md:84: "Parity against the oracle is the          *)
(* acceptance test. T_recover ends when it passes": the engine can go on.  *)
ParityMeansRecovered ==
    tag = Fresh /\ Drained /\ ParityWithReplay => Len(Path.states) >= Batch(Path)
=============================================================================
