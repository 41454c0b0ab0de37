------------------------------ MODULE Progress ------------------------------
(***************************************************************************)
(* logs/progress.jsonl: the streaming queries of one engine process, the   *)
(* thread of spark/utils/progress.py that polls their lastProgress into    *)
(* the file, and the death of a query or of the process                    *)
(* (spark/jobs/balance_engine.py:136-167).  The file outlives both.        *)
(*                                                                         *)
(* External (Spark): a batch runs to the end offset it planned, and is run *)
(* again by the next process if it was not committed, then without a       *)
(* latest offset; a batch with rows is followed by one that only moves the *)
(* watermark; lastProgress is that of the last batch committed.            *)
(* A record's offset stands for its event time, so the watermark of a      *)
(* batch is the offset the query had committed before it.                  *)
(***************************************************************************)
EXTENDS SequencesExt, FiniteSetsExt

CONSTANTS
    Queries,        \* names of the queries; the sequencer is Sequencer
    Sequencer,
    Alarms,         \* alarm_event_ts of the gaps in the stream
    MaxEvents,      \* records published (a bound of the model)
    MaxLives        \* processes started (a bound of the model)

ASSUME ProgressAssumption ==
    /\ Sequencer \in Queries /\ IsFiniteSet(Queries)
    /\ Alarms \subseteq Nat
    /\ MaxEvents \in Nat /\ MaxLives \in Nat \ {0}

VARIABLES
    published,      \* records in the topic
    life,           \* processes started so far
    main,           \* the main thread: "await" | "exiting" | "down"
    query,          \* the queries
    seen, visiting, \* the poller's memory, and the queries left in its pass
    file,           \* the lines of progress.jsonl
    signals         \* the SEQUENCE_GAP records of the signals topic

(* History: the queries of this process that ended by themselves.          *)
VARIABLE died

vars == <<published, life, main, query, seen, visiting, file, signals, died>>

NoOffset == -1
NoBatch == [on |-> FALSE, end |-> 0, latest |-> NoOffset, age |-> 0]
NoProgress == [batch |-> NoOffset]

Up == main # "down"

Idle == [active |-> TRUE, offset |-> 0, batch |-> NoOffset, due |-> TRUE, run |-> NoBatch,
         progress |-> NoProgress]

Init ==
    /\ published = 0
    /\ life = 1 /\ main = "await"
    /\ query = [q \in Queries |-> Idle]
    /\ seen = {} /\ visiting = {}
    /\ file = <<>> /\ signals = {} /\ died = {}

(***************************************************************************)
(* The queries                                                             *)
(***************************************************************************)

Publish ==
    /\ published < MaxEvents
    /\ published' = published + 1
    /\ UNCHANGED <<life, main, query, seen, visiting, file, signals, died>>

(* Something to read, or a watermark to move.                              *)
Work(q) == query[q].offset < published \/ query[q].due

Plan(q) ==
    /\ Up /\ query[q].active /\ ~query[q].run.on /\ Work(q)
    /\ \E end \in query[q].offset..published :
          /\ query[q].offset < published => end > query[q].offset
          /\ query' = [query EXCEPT ![q].run =
                          [on |-> TRUE, end |-> end, latest |-> published, age |-> 0]]
    /\ UNCHANGED <<published, life, main, seen, visiting, file, signals, died>>

(* Mutation of Confirmed: by the watermark of the batch to come.           *)
ConfirmedEarly(q) ==
    IF q # Sequencer THEN {}
    ELSE {[alarm |-> a, batch |-> query[q].batch + 1, wm |-> query[q].offset] :
             a \in {b \in Alarms : b <= query[q].run.end} \ {s.alarm : s \in signals}}


(* The gaps the watermark of the batch has reached are confirmed in it.    *)
Confirmed(q) ==
    IF q # Sequencer THEN {}
    ELSE {[alarm |-> a, batch |-> query[q].batch + 1, wm |-> query[q].offset] :
             a \in {b \in Alarms : b <= query[q].offset} \ {s.alarm : s \in signals}}

(* foreachBatch has written; the commit is another step.                   *)
Emit ==
    /\ Up /\ query[Sequencer].active /\ query[Sequencer].run.on
    /\ Confirmed(Sequencer) # {}
    /\ signals' = signals \cup Confirmed(Sequencer)
    /\ UNCHANGED <<published, life, main, query, seen, visiting, file, died>>

(* Mutation of Polled: batch 0 is taken for none.                          *)
PolledFalsy(q) ==
    query[q].progress = NoProgress \/ query[q].progress.batch = 0
        \/ <<q, query[q].progress.batch>> \in seen

(* Nothing new to write of the query.                                      *)
Polled(q) == query[q].progress = NoProgress \/ <<q, query[q].progress.batch>> \in seen

Committed(r) ==
    [r EXCEPT !.offset = r.run.end, !.batch = r.batch + 1, !.run = NoBatch,
              !.due = r.run.end > r.offset,
              !.progress = [batch |-> r.batch + 1, end |-> r.run.end, latest |-> r.run.latest,
                            rows |-> r.run.end - r.offset, wm |-> r.offset, dur |-> r.run.age]]

Commit(q) ==
    /\ Up /\ query[q].active /\ query[q].run.on
    /\ Confirmed(q) = {}
    /\ query' = [query EXCEPT ![q] = Committed(@)]
    /\ UNCHANGED <<published, life, main, seen, visiting, file, signals, died>>

Fail(q) ==
    /\ Up /\ query[q].active
    /\ query' = [query EXCEPT ![q].active = FALSE]
    /\ died' = died \cup {q}
    /\ UNCHANGED <<published, life, main, seen, visiting, file, signals>>

(* awaitAnyTermination returns: the velocity queries are stopped, and with *)
(* the main thread everything ends.                                        *)
StopVelocity ==
    /\ main = "await" /\ \E q \in Queries : ~query[q].active
    /\ main' = "exiting"
    /\ query' = [q \in Queries |-> IF q = Sequencer THEN query[q]
                                   ELSE [query[q] EXCEPT !.active = FALSE]]
    /\ UNCHANGED <<published, life, seen, visiting, file, signals, died>>

(* The process is gone: it came to its end, or was signalled.              *)
Down ==
    /\ main' = "down"
    /\ query' = [q \in Queries |-> [query[q] EXCEPT !.active = FALSE, !.progress = NoProgress]]
    /\ visiting' = {}
    /\ UNCHANGED <<published, life, seen, file, signals, died>>

Exit == main = "exiting" /\ Down

Kill == main = "await" /\ Down

(* The next process on the same checkpoints and the same file.             *)
Start ==
    /\ ~Up /\ life < MaxLives
    /\ life' = life + 1 /\ main' = "await"
    /\ query' = [q \in Queries |-> [query[q] EXCEPT !.active = TRUE, !.run.latest = NoOffset]]
    /\ seen' = {} /\ died' = {}
    /\ UNCHANGED <<published, visiting, file, signals>>

(***************************************************************************)
(* The poller                                                              *)
(***************************************************************************)

BeginPass ==
    /\ Up /\ visiting = {}
    /\ \E q \in Queries : query[q].active
    /\ visiting' = Queries
    /\ UNCHANGED <<published, life, main, query, seen, file, signals, died>>

Stopped(q) == [query |-> q, event |-> "STOPPED", batch |-> NoOffset]

LineOf(q, p) ==
    [query |-> q, event |-> "batch", batch |-> p.batch, end |-> p.end, latest |-> p.latest,
     rows |-> p.rows, wm |-> p.wm, dur |-> p.dur]

(* Mutation of Line: of the batch in progress.                             *)
LineOfRun(q) ==
    [LineOf(q, query[q].progress) EXCEPT !.end = query[q].run.end, !.latest = query[q].run.latest]

Line(q) == LineOf(q, query[q].progress)

(* Mutation of Visit: what was written is not remembered.                  *)
VisitForgets(q) ==
    /\ Up /\ q \in visiting
    /\ visiting' = visiting \ {q}
    /\ \/ /\ query[q].active /\ ~Polled(q)
          /\ file' = Append(file, Line(q))
       \/ /\ ~query[q].active \/ Polled(q)
          /\ UNCHANGED file
    /\ UNCHANGED <<published, life, main, query, signals, died, seen>>

Visit(q) ==
    /\ Up /\ q \in visiting
    /\ visiting' = visiting \ {q}
    /\ \/ /\ ~query[q].active /\ <<q, NoOffset>> \notin seen
          /\ seen' = seen \cup {<<q, NoOffset>>}
          /\ file' = Append(file, Stopped(q))
       \/ /\ query[q].active /\ ~Polled(q)
          /\ seen' = seen \cup {<<q, query[q].progress.batch>>}
          /\ file' = Append(file, Line(q))
       \/ /\ IF query[q].active THEN Polled(q) ELSE <<q, NoOffset>> \in seen
          /\ UNCHANGED <<seen, file>>
    /\ UNCHANGED <<published, life, main, query, signals, died>>

Engine ==
    \/ Publish
    \/ \E q \in Queries : Plan(q) \/ Commit(q) \/ Fail(q)
    \/ Emit
    \/ StopVelocity \/ Exit \/ Kill \/ Start

Poller == BeginPass \/ \E q \in Queries : Visit(q)

(***************************************************************************)
(* Properties                                                              *)
(***************************************************************************)

(* The lines of the batches of a query, by their place in the file.        *)
BatchLines(q) == {i \in DOMAIN file : file[i].query = q /\ file[i].event = "batch"}

TypeOK ==
    /\ published \in 0..MaxEvents /\ life \in 1..MaxLives
    /\ main \in {"await", "exiting", "down"}
    /\ \A q \in Queries : query[q].offset \in 0..published /\ query[q].run.end \in 0..published
    /\ visiting \subseteq Queries
    /\ \A i \in DOMAIN file : file[i].query \in Queries /\ file[i].event \in {"batch", "STOPPED"}
    /\ \A s \in signals : s.alarm \in Alarms

(* A line never runs ahead of the checkpoint: whatever crash follows, what *)
(* it says was consumed is not consumed again.                             *)
LinesAreCommitted ==
    \A i \in DOMAIN file : file[i].event = "batch" =>
        file[i].batch <= query[file[i].query].batch /\ file[i].end <= query[file[i].query].offset

(* progress.py:55, "one JSONL line per new batch": no batch has two, in    *)
(* whatever process its line was written.                                  *)
NoBatchTwice ==
    \A i, j \in DOMAIN file :
        /\ i < j /\ file[i].query = file[j].query
        /\ file[i].event = "batch" /\ file[j].event = "batch"
        => file[i].batch < file[j].batch

(* The file can be taken for the history of the checkpoints.               *)
FileIsSound == LinesAreCommitted /\ NoBatchTwice

(***************************************************************************)
(* Statements of the repository that the code does not keep: README,       *)
(* section 4.                                                              *)
(***************************************************************************)

(* progress.py:84, "Record the death ONCE. A query that stops while the    *)
(* others run is the failure mode that was invisible."                     *)
DeathIsRecorded ==
    [][main = "exiting" /\ main' = "down" => \A q \in died :
        \E i \in DOMAIN file : file[i].query = q /\ file[i].event = "STOPPED"]_vars
=============================================================================
