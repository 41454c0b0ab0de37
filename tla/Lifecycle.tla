----------------------------- MODULE Lifecycle -----------------------------
(***************************************************************************)
(* The engine's processes and the scripts that start, kill and stop them:  *)
(* stage_run.sh, recovery_drill.sh, sink_replay_drill.sh, stop_engine.sh.  *)
(* They know an engine by run/engine.pid, which it writes once its query   *)
(* runs and removes when it ends, and by the name of its command; what a   *)
(* batch run twice leaves in the integrity table is what replay_evidence.py*)
(* looks for.                                                              *)
(*                                                                         *)
(* A script is the sequence of the commands it has still to run.  Sleeps   *)
(* and bounded waits may end at any time.  A batch is planned, written and *)
(* committed; its rows are (account, kind, seq_no) tuples.                 *)
(***************************************************************************)
EXTENDS SequencesExt, Naturals

CONSTANTS
    Scripts,        \* the scripts that may be run
    MaxScripts,     \* how many, one after another (a bound of the model)
    Attempts,       \* --attempts of the recovery drill
    Tuples,         \* (account_id, kind, seq_no) of integrity rows
    MaxCopies,      \* rows of one tuple in a batch: 2 when an event the account
                    \* cannot take came twice in it (a bound of the model)
    MaxBatches      \* batches of a topic (a bound of the model)

ASSUME LifecycleAssumption ==
    /\ Scripts \subseteq {"stage_run", "recovery_drill", "sink_replay_drill", "stop_engine"}
    /\ MaxScripts \in Nat /\ Attempts \in Nat \ {0} /\ MaxCopies \in Nat /\ MaxBatches \in Nat

VARIABLES
    engines,        \* processes, in order of launch: status, P3_SINK_FAIL_ONCE, and
                    \* whether the sink of the batch in flight has written
    pidfile,        \* run/engine.pid: the place in engines, 0 when there is none
    script, todo,   \* the script running and what it has still to do
    ended,          \* scripts that have ended
    attempt,        \* of the recovery drill
    target,         \* the pid read from the file by a script that waits for it
    backlog,        \* batches the topic still holds
    plan,           \* offsets/N without commits/N
    committed,      \* the last batch in commits/
    table,          \* the integrity table: rows of <<tuple, batch>>
    marker          \* run/sink_failed_once

(* History: runs of write_batch per batch, the batch that failed, and      *)
(* whether an engine came up while another was writing.                    *)
VARIABLES ran, failed, overlapped

procs  == <<engines, pidfile, overlapped>>
choreo == <<script, todo, ended, attempt, target>>
lake   == <<backlog, plan, committed, table, marker, ran, failed>>
vars   == <<procs, choreo, lake>>

Batch == 1..MaxBatches

NoRows == [t \in Tuples |-> 0]
NoPlan == [open |-> FALSE, rows |-> NoRows]
NoLake == [k \in Tuples \X Batch |-> 0]

(***************************************************************************)
(* The scripts                                                             *)
(***************************************************************************)

(* stage_run.sh and stop_engine.sh wait for the process they read from the *)
(* file; the drills go on after three seconds.                             *)
Patient == <<"term", "await", "rm", "pkill">>
Hasty   == <<"term", "pkill", "rm">>

StopOf(name) == IF name \in {"stage_run", "stop_engine"} THEN Patient ELSE Hasty

StageRun ==
    Patient \o <<"reset", "launch", "ready", "publish", "drain">> \o Patient \o <<"judge">>

(* One attempt: Judge begins another or goes on to the trap.               *)
RecoveryDrill ==
    Hasty \o <<"reset", "launch", "ready", "publish", "kill", "launch", "ready", "drain">>
          \o Hasty \o <<"judge">>

SinkReplayDrill ==
    Hasty \o <<"reset", "arm", "ready", "publish", "drain">>
          \o Hasty \o <<"launch", "ready", "drain">> \o Hasty \o <<"judge">>

Program(name) ==
    CASE name = "stage_run"         -> StageRun
      [] name = "recovery_drill"    -> RecoveryDrill
      [] name = "sink_replay_drill" -> SinkReplayDrill
      [] name = "stop_engine"       -> Patient

Init ==
    /\ engines = <<>> /\ pidfile = 0 /\ overlapped = FALSE
    /\ script = "none" /\ todo = <<>> /\ ended = 0 /\ attempt = 1 /\ target = 0
    /\ backlog = 0 /\ plan = NoPlan /\ committed = 0 /\ table = NoLake
    /\ marker = FALSE
    /\ ran = [b \in Batch |-> 0] /\ failed = 0

Alive(e)   == engines[e].status # "gone"
Writing(e) == engines[e].status \in {"up", "termed", "closing"}

Begin ==
    /\ todo = <<>> /\ script = "none" /\ ended < MaxScripts
    /\ script' \in Scripts
    /\ todo' = Program(script') /\ attempt' = 1
    /\ UNCHANGED <<procs, ended, target, lake>>

End ==
    /\ todo = <<>> /\ script # "none"
    /\ script' = "none" /\ ended' = ended + 1
    /\ UNCHANGED <<procs, todo, attempt, target, lake>>

(* replay_evidence.py                                                      *)
Observed == \E k \in DOMAIN table : table[k] > 1

Does(step) == todo # <<>> /\ Head(todo) = step

Done == todo' = Tail(todo) /\ UNCHANGED <<script, ended, attempt>>

(* exit, with the trap of EXIT.                                            *)
Abort == todo' = StopOf(script) /\ UNCHANGED <<script, ended, attempt, target>>

(* Killed outright while it starts: the handler is installed last.         *)
Termed(S) ==
    [e \in DOMAIN engines |->
        IF e \in S THEN CASE engines[e].status = "booting" -> [engines[e] EXCEPT !.status = "gone"]
                          [] engines[e].status = "up" -> [engines[e] EXCEPT !.status = "termed"]
                          [] OTHER -> engines[e]
        ELSE engines[e]]

Killed(S) ==
    [e \in DOMAIN engines |-> IF e \in S THEN [engines[e] EXCEPT !.status = "gone"] ELSE engines[e]]

Term ==
    /\ Does("term") /\ Done
    /\ engines' = IF pidfile # 0 THEN Termed({pidfile}) ELSE engines
    /\ target' = IF todo[2] = "await" THEN pidfile ELSE 0
    /\ UNCHANGED <<overlapped, pidfile, lake>>

(* Thirty seconds, then SIGKILL.                                           *)
Await ==
    /\ Does("await") /\ Done
    /\ engines' = Killed({target})
    /\ target' = 0
    /\ UNCHANGED <<overlapped, pidfile, lake>>

(* Mutation of Pkill: only the process of the pid file is ever signalled.  *)
PkillNone ==
    /\ Does("pkill") /\ Done
    /\ UNCHANGED <<procs, target, lake>>

Pkill ==
    /\ Does("pkill") /\ Done
    /\ engines' = Termed(DOMAIN engines)
    /\ UNCHANGED <<overlapped, pidfile, target, lake>>

(* Mutation of RemoveFile: the file of the engine stopped stays.           *)
RemoveNothing ==
    /\ Does("rm") /\ Done
    /\ UNCHANGED <<procs, target, lake>>

RemoveFile ==
    /\ Does("rm") /\ Done
    /\ pidfile' = 0
    /\ UNCHANGED <<overlapped, engines, target, lake>>

(* Topics, lake, checkpoints and pid files, and in the sink drill the      *)
(* marker; a batch a process left over was in is gone with them.           *)
Reset ==
    /\ Does("reset") /\ Done
    /\ engines' = [e \in DOMAIN engines |-> [engines[e] EXCEPT !.wrote = FALSE]]
    /\ backlog' = 0 /\ plan' = NoPlan /\ committed' = 0 /\ table' = NoLake
    /\ marker' = (marker /\ script # "sink_replay_drill")
    /\ pidfile' = 0
    /\ ran' = [b \in Batch |-> 0] /\ failed' = 0
    /\ UNCHANGED <<overlapped, target>>

Launch ==
    /\ Does("launch") \/ Does("arm")
    /\ Done
    /\ engines' = Append(engines, [status |-> "booting", armed |-> Does("arm"), wrote |-> FALSE])
    /\ pidfile' = IF script = "sink_replay_drill" THEN pidfile ELSE 0
    /\ UNCHANGED <<overlapped, target, lake>>

Ready ==
    /\ Does("ready") /\ pidfile # 0 /\ Done
    /\ UNCHANGED <<procs, target, lake>>

(* No file in 180 seconds, or the process launched is gone.                *)
NeverReady ==
    /\ Does("ready") /\ pidfile = 0 /\ Abort
    /\ UNCHANGED <<procs, lake>>

Publish ==
    /\ Does("publish") /\ Done
    /\ backlog' = MaxBatches - 1
    /\ UNCHANGED <<procs, target, plan, committed, table, marker, ran, failed>>

(* The generator exits 1, with no broker or with records not delivered.    *)
(* The recovery drill runs it in the background and does not care.         *)
NotPublished ==
    /\ Does("publish") /\ script # "recovery_drill" /\ Abort
    /\ backlog' \in {backlog, MaxBatches - 1}
    /\ UNCHANGED <<procs, plan, committed, table, marker, ran, failed>>

Drain ==
    /\ Does("drain") /\ Done
    /\ UNCHANGED <<procs, target, lake>>

(* Mutation of Kill: only the process of the pid file, or one of that name *)
(* where the file tells of none, is killed.                                *)
KillOne ==
    LET alive == {e \in DOMAIN engines : Alive(e)}
    IN  /\ Does("kill") /\ Done
        /\ \E e \in IF pidfile \in alive THEN {pidfile} ELSE alive : engines' = Killed({e})
        /\ pidfile' = 0
        /\ UNCHANGED <<overlapped, target, lake>>

(* kill_engine.sh: the process of the file, then all of that name.         *)
Kill ==
    /\ Does("kill") /\ (\E e \in DOMAIN engines : Alive(e)) /\ Done
    /\ engines' = Killed(DOMAIN engines)
    /\ pidfile' = 0
    /\ UNCHANGED <<overlapped, target, lake>>

NothingToKill ==
    /\ Does("kill") /\ ~(\E e \in DOMAIN engines : Alive(e)) /\ Abort
    /\ UNCHANGED <<procs, lake>>

(* parity_balance.py and replay_evidence.py.  The recovery drill ends when *)
(* parity fails, when a replay was observed or after the last attempt, and *)
(* its trap stops the engine once more.                                    *)
Judge ==
    /\ Does("judge") /\ script # "recovery_drill" /\ Done
    /\ UNCHANGED <<procs, target, lake>>

JudgeAttempt ==
    /\ Does("judge") /\ script = "recovery_drill" /\ Abort
    /\ UNCHANGED <<procs, lake>>

TryAgain ==
    /\ Does("judge") /\ script = "recovery_drill" /\ attempt < Attempts /\ ~Observed
    /\ todo' = Program(script) /\ attempt' = attempt + 1
    /\ UNCHANGED <<procs, script, ended, target, lake>>

(***************************************************************************)
(* The engine                                                              *)
(***************************************************************************)

Becomes(e, status) == engines' = [engines EXCEPT ![e].status = status]

(* The query is started, then the file written.                            *)
Boot(e) ==
    /\ engines[e].status = "booting" /\ Becomes(e, "up")
    /\ pidfile' = e
    /\ overlapped' = (overlapped \/ \E other \in DOMAIN engines : Writing(other))
    /\ UNCHANGED <<choreo, lake>>

DieStarting(e) ==
    /\ engines[e].status = "booting" /\ Becomes(e, "gone")
    /\ UNCHANGED <<overlapped, pidfile, choreo, lake>>

(* A query ends with an exception, and so does awaitAnyTermination.        *)
QueryDies(e) ==
    /\ engines[e].status = "up" /\ Becomes(e, "failed")
    /\ UNCHANGED <<overlapped, pidfile, choreo, lake>>

(* _cleanup_pid: whosever file it is.  The velocity queries are stopped    *)
(* next; the sequencer's is not.                                           *)
HandleTerm(e) ==
    /\ engines[e].status = "termed" /\ Becomes(e, "closing")
    /\ pidfile' = 0
    /\ UNCHANGED <<overlapped, choreo, lake>>

Exit(e) ==
    /\ engines[e].status \in {"closing", "failed"} /\ Becomes(e, "gone")
    /\ pidfile' = 0
    /\ UNCHANGED <<overlapped, choreo, lake>>

(* The first batch of a new checkpoint may be empty; a batch may have no   *)
(* integrity rows.                                                         *)
PlanBatch(e) ==
    /\ Writing(e) /\ ~plan.open /\ committed < MaxBatches
    /\ backlog > 0 \/ committed = 0
    /\ IF backlog = 0
       THEN plan' = [open |-> TRUE, rows |-> NoRows]
       ELSE \E rows \in [Tuples -> 0..MaxCopies] : plan' = [open |-> TRUE, rows |-> rows]
    /\ backlog' = IF backlog = 0 THEN 0 ELSE backlog - 1
    /\ UNCHANGED <<procs, choreo, committed, table, marker, ran, failed>>

(* Mutation of FailsNow: before the early return for a batch with none.    *)
FailsNowEmpty(e) == engines[e].armed /\ ~marker

(* _maybe_fail_once, behind the early return.                              *)
FailsNow(e) == engines[e].armed /\ ~marker /\ plan.rows # NoRows

WriteBatch(e) ==
    /\ Writing(e) /\ plan.open /\ ~engines[e].wrote
    /\ table' = [k \in DOMAIN table |->
                    table[k] + (IF k[2] = committed + 1 THEN plan.rows[k[1]] ELSE 0)]
    /\ ran' = [ran EXCEPT ![committed + 1] = @ + 1]
    /\ marker' = (marker \/ FailsNow(e))
    /\ failed' = IF FailsNow(e) THEN committed + 1 ELSE failed
    /\ engines' = [engines EXCEPT ![e].wrote = ~FailsNow(e),
                                  ![e].status = IF FailsNow(e) THEN "failed" ELSE @]
    /\ UNCHANGED <<overlapped, pidfile, choreo, backlog, plan, committed>>

CommitBatch(e) ==
    /\ Writing(e) /\ plan.open /\ engines[e].wrote
    /\ engines' = [engines EXCEPT ![e].wrote = FALSE]
    /\ plan' = NoPlan /\ committed' = committed + 1
    /\ UNCHANGED <<overlapped, pidfile, choreo, backlog, table, marker, ran, failed>>

Command ==
    \/ Begin \/ End \/ Term \/ Await \/ Pkill \/ RemoveFile \/ Reset \/ Launch \/ Ready \/ NeverReady
    \/ Publish \/ NotPublished \/ Drain \/ Kill \/ NothingToKill
    \/ Judge \/ JudgeAttempt \/ TryAgain

Ends(e) == HandleTerm(e) \/ Exit(e)

Next ==
    \/ Command
    \/ \E e \in DOMAIN engines :
          \/ Boot(e) \/ DieStarting(e) \/ QueryDies(e) \/ Ends(e)
          \/ PlanBatch(e) \/ WriteBatch(e) \/ CommitBatch(e)

Spec == Init /\ [][Next]_vars

(* A script goes on, and a process that has been told to end does.         *)
FairSpec ==
    /\ Spec /\ WF_vars(Command)
    /\ WF_vars(\E e \in DOMAIN engines : Ends(e))

(***************************************************************************)
(* Properties                                                              *)
(***************************************************************************)

TypeOK ==
    /\ \A e \in DOMAIN engines :
          engines[e].status \in {"booting", "up", "termed", "closing", "failed", "gone"}
    /\ pidfile \in 0..Len(engines) /\ target \in 0..Len(engines)
    /\ attempt \in 1..Attempts
    /\ backlog \in 0..MaxBatches /\ committed \in 0..MaxBatches
    /\ \A b \in Batch : ran[b] > 0 => b <= committed + 1
    /\ Does("judge") => target = 0

(* From the SIGKILL of an attempt to its verdict the engine that recovers  *)
(* writes alone, though the engine of the attempt before, told to end and  *)
(* not waited for, may still have been writing when this attempt began.    *)
Recovering ==
    script = "recovery_drill" /\ "judge" \in ToSet(todo) /\ "kill" \notin ToSet(todo)

RecoversAlone ==
    Recovering => \A e, f \in DOMAIN engines : Writing(e) /\ Writing(f) => e = f

(* The file a script waits for is that of the engine it has launched.      *)
ReadyIsTheLaunched == Does("ready") /\ pidfile # 0 => pidfile = Len(engines)

(* The failure the sink drill arms always leaves rows to be found: once    *)
(* the batch that failed is committed, the evidence is there.  (Where it   *)
(* was slow in coming, two engines may have shared the checkpoint.)        *)
FailureIsShown == failed \in 1..committed /\ ~overlapped => Observed

(* No engine outlives the scripts for good, not one that was still         *)
(* starting when its script gave it up.                                    *)
NoEngineIsLeft == [](ended = MaxScripts => <>(\A e \in DOMAIN engines : ~Alive(e)))

(***************************************************************************)
(* Statements of the repository that the code does not keep: README,       *)
(* section 4.                                                              *)
(***************************************************************************)

(* replay_evidence.py:66, "The foreachBatch body ran twice for that batch".*)
ObservedMeansReplay == Does("judge") /\ Observed => \E b \in Batch : ran[b] > 1

(* stage_run.sh:62, "a graceful shutdown checkpoints cleanly": an engine   *)
(* that ended by itself on SIGTERM leaves no batch without its commit.     *)
TermCheckpointsCleanly ==
    [][\A e \in DOMAIN engines : engines[e].status = "closing" /\ Exit(e) => ~plan.open]_vars

(* stop_engine.sh:18, "engine stopped".                                    *)
StoppedMeansGone ==
    script = "stop_engine" /\ todo = <<>> => \A e \in DOMAIN engines : ~Alive(e)
=============================================================================
