----------------------------- MODULE DrainWait -----------------------------
(***************************************************************************)
(* scripts/wait_for_drain.py: a process that looks at progress.jsonl every *)
(* two seconds and says when the sequencer has drained.  The drills start  *)
(* it after they published, or after they restarted the engine.            *)
(*                                                                         *)
(* Time is a tick common to batch durations and to the waiter's silence.   *)
(***************************************************************************)
EXTENDS Progress

CONSTANTS
    Stable,         \* --stable-seconds
    Timeout,        \* --timeout
    Regular         \* TRUE: in a tick the poller looks and work is begun, and no
                    \* batch takes longer than the waiter allows for

ASSUME DrainWaitAssumption ==
    Stable \in Nat \ {0} /\ Timeout \in Nat /\ Regular \in BOOLEAN

VARIABLE waiter

waitVars == <<vars, waiter>>

Longest(a, b) == IF a > b THEN a ELSE b

WaitInit ==
    /\ Init
    /\ waiter = [pc |-> "away", said |-> "", from |-> NoProgress, asked |-> 0,
                 last |-> NoOffset, quiet |-> 0, waited |-> 0]

Begin ==
    /\ waiter.pc = "away"
    /\ waiter' = [waiter EXCEPT !.pc = "waiting", !.asked = published]
    /\ UNCHANGED vars

(***************************************************************************)
(* One look at the file                                                    *)
(***************************************************************************)

Batches == BatchLines(Sequencer)

Recent == file[Max(Batches)]

Required == Longest(Stable, 3 * Recent.dur)

(* No new batch since the last look.                                       *)
Quiet == IF Batches # {} /\ Recent.batch # waiter.last THEN 0 ELSE waiter.quiet

SaysStopped ==
    \E i \in DOMAIN file : file[i].query = Sequencer /\ file[i].event = "STOPPED"

SaysCaughtUp == Batches # {} /\ Recent.latest # NoOffset /\ Recent.end = Recent.latest

SaysDrained ==
    Batches # {} /\ (Quiet >= Required \/ (Recent.rows = 0 /\ Quiet > 0))

Answer ==
    CASE SaysStopped -> "stopped"
      [] ~SaysStopped /\ SaysCaughtUp -> "caught up"
      [] ~SaysStopped /\ ~SaysCaughtUp /\ SaysDrained -> "drained"
      [] OTHER -> ""

Look ==
    /\ waiter.pc = "waiting" /\ waiter.waited < Timeout
    /\ waiter' = IF Answer # ""
                 THEN [waiter EXCEPT !.pc = "done", !.said = Answer,
                                     !.from = IF Answer = "stopped" THEN @ ELSE Recent]
                 ELSE [waiter EXCEPT !.quiet = Quiet,
                                     !.last = IF Batches = {} THEN @ ELSE Recent.batch]
    /\ UNCHANGED vars

TimesOut ==
    /\ waiter.pc = "waiting" /\ waiter.waited = Timeout
    /\ waiter' = [waiter EXCEPT !.pc = "done", !.said = "timeout"]
    /\ UNCHANGED vars

Alive == main = "await" /\ \A q \in Queries : query[q].active

(* What may not last beyond a tick in a regular run.                       *)
Overdue ==
    \/ Up /\ \E q \in Queries : query[q].active /\ ~Polled(q)
    \/ Up /\ \E q \in Queries :
          query[q].active /\ IF query[q].run.on THEN query[q].run.age >= Stable - 1 ELSE Work(q)
    \/ waiter.pc = "waiting" /\ waiter.quiet # Quiet

Tick ==
    /\ waiter.pc = "waiting" /\ waiter.waited < Timeout
    /\ Regular => ~Overdue
    /\ waiter' = [waiter EXCEPT !.quiet = @ + 1, !.waited = @ + 1]
    /\ query' = [q \in Queries |-> IF query[q].run.on THEN [query[q] EXCEPT !.run.age = @ + 1]
                                                     ELSE query[q]]
    /\ UNCHANGED <<published, life, main, seen, visiting, file, signals, died>>

WaitNext ==
    \/ (Engine \/ Poller) /\ UNCHANGED waiter
    \/ Begin \/ Look \/ TimesOut \/ Tick

WaitSpec == WaitInit /\ [][WaitNext]_waitVars

(* The process, the poller and the waiter go on; a query may still fail.   *)
WaitFairSpec ==
    /\ WaitSpec
    /\ WF_waitVars((\E q \in Queries : Plan(q)) /\ UNCHANGED waiter)
    /\ \A q \in Queries : WF_waitVars(Commit(q) /\ UNCHANGED waiter)
    /\ WF_waitVars(Emit /\ UNCHANGED waiter)
    /\ WF_waitVars(BeginPass /\ UNCHANGED waiter)
    /\ \A q \in Queries : WF_waitVars(Visit(q) /\ UNCHANGED waiter)
    /\ WF_waitVars(Look) /\ WF_waitVars(TimesOut) /\ WF_waitVars(Tick)

(***************************************************************************)
(* Properties                                                              *)
(***************************************************************************)

(* "consumed everything the source had as of batch N": unless something    *)
(* was published since, all of it is committed, and stays so through any   *)
(* crash.                                                                  *)
CaughtUpIsTrue ==
    waiter.said = "caught up" /\ waiter.from.latest = published =>
        query[Sequencer].offset = published

(* A waiter of an engine that stays alive is told that it drained, long    *)
(* before it runs out of patience.                                         *)
AliveEngineIsConfirmed ==
    []Alive => (waiter.pc = "waiting" ~> waiter.said \in {"caught up", "drained"})

(***************************************************************************)
(* Statements of the repository that the code does not keep: README,       *)
(* section 4.                                                              *)
(***************************************************************************)

(* stage6_proof.sh:125, "The waiter refuses to answer from the batch that  *)
(* ran before the publish".                                                *)
AnswerIsAfterThePublish ==
    waiter.said = "caught up" => query[Sequencer].offset >= waiter.asked

(* wait_for_drain.py:57, "is no longer running".                           *)
StoppedMeansStopped ==
    [][waiter'.said = "stopped" /\ waiter.said = "" => ~query[Sequencer].active]_waitVars

(* wait_for_drain.py:41, "a slow batch in progress is not mistaken for a   *)
(* finished query".                                                        *)
SlowBatchIsNotDrained ==
    [][waiter'.said = "drained" /\ waiter.said = "" => ~query[Sequencer].run.on]_waitVars
=============================================================================
