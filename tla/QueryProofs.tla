---------------------------- MODULE QueryProofs ----------------------------
(***************************************************************************)
(* Proofs about what the queries report and what they read:                *)
(* logs/progress.jsonl and its two readers, the waiter and the timing      *)
(* probe, for any queries and any number of events, processes and ticks;   *)
(* then the decoder.                                                       *)
(***************************************************************************)
EXTENDS DrainWait, Probe, Decoder, SequenceTheorems, FiniteSetTheorems, TLAPS

Runs == [on : BOOLEAN, end : Nat, latest : Int, age : Int]

Reports == [batch : Int, end : Int, latest : Int, rows : Int, wm : Int, dur : Int]

Records == [active : BOOLEAN, offset : Nat, batch : Int, due : BOOLEAN, run : Runs,
            progress : {NoProgress} \cup Reports]

Reported(q) == query[q].progress # NoProgress

IsBatch(i) == file[i].event = "batch"

(* A batch line is covered by the checkpoint.  A query of this process that*)
(* has reported is not behind its lines, and of the batch it reports there *)
(* is a line only if the poller remembers writing it.                      *)
FileInv ==
    /\ published \in Nat
    /\ query \in [Queries -> Records]
    /\ \A q \in Queries :
          /\ query[q].run.end >= query[q].offset \/ ~query[q].run.on
          /\ Reported(q) => /\ query[q].progress \in Reports
                            /\ query[q].progress.batch <= query[q].batch
                            /\ query[q].progress.end <= query[q].offset
    /\ main = "down" => \A q \in Queries : ~Reported(q)
    /\ \E S : file \in Seq(S)
    /\ visiting \subseteq Queries
    /\ \A i \in DOMAIN file : IsBatch(i) =>
          /\ file[i].query \in Queries /\ file[i].batch \in Int /\ file[i].end \in Int
          /\ file[i].batch <= query[file[i].query].batch
          /\ file[i].end <= query[file[i].query].offset
          /\ Reported(file[i].query) =>
                \/ file[i].batch < query[file[i].query].progress.batch
                \/ <<file[i].query, file[i].batch>> \in seen
                   /\ file[i].batch = query[file[i].query].progress.batch
    /\ NoBatchTwice

(* A step that writes no line, forgets nothing and moves no query back.    *)
LEMMA QueryStep ==
    ASSUME FileInv, file' = file, visiting' \subseteq Queries, published' \in Nat,
           query' \in [Queries -> Records],
           seen' = seen \/ \A q \in Queries : query'[q].progress = NoProgress,
           main' = "down" => \A q \in Queries : query'[q].progress = NoProgress,
           \A q \in Queries :
              /\ query'[q].run.end >= query'[q].offset \/ ~query'[q].run.on
              /\ query'[q].batch >= query[q].batch /\ query'[q].offset >= query[q].offset
              /\ \/ query'[q].progress = query[q].progress
                 \/ query'[q].progress = NoProgress
                 \/ /\ query'[q].progress \in Reports
                    /\ query'[q].progress.batch <= query'[q].batch
                    /\ query'[q].progress.batch > query[q].batch
                    /\ query'[q].progress.end <= query'[q].offset
    PROVE  FileInv'
<1>1. \A q \in Queries : query[q] \in Records /\ query'[q] \in Records
  BY DEF FileInv
<1>2. \A q \in Queries : /\ query[q].batch \in Int /\ query'[q].batch \in Int
                         /\ query[q].offset \in Nat /\ query'[q].offset \in Nat
  BY <1>1 DEF Records
<1>3. ASSUME NEW q \in Queries, query'[q].progress # NoProgress
      PROVE  /\ query'[q].progress \in Reports
             /\ query'[q].progress.batch <= query'[q].batch
             /\ query'[q].progress.end <= query'[q].offset
  <2>1. CASE query'[q].progress = query[q].progress
    <3>1. /\ query[q].progress \in Reports
          /\ query[q].progress.batch <= query[q].batch
          /\ query[q].progress.end <= query[q].offset
      BY <1>3, <2>1 DEF FileInv, Reported
    <3>2. query[q].progress.batch \in Int /\ query[q].progress.end \in Int
      BY <3>1 DEF Reports
    <3> QED
      BY <1>2, <2>1, <3>1, <3>2
  <2> QED
    BY <1>3, <2>1
<1>4. ASSUME NEW i \in DOMAIN file, IsBatch(i), NEW q, q = file[i].query
      PROVE  /\ q \in Queries /\ file[i].batch \in Int /\ file[i].end \in Int
             /\ file[i].batch <= query'[q].batch
             /\ file[i].end <= query'[q].offset
             /\ query'[q].progress # NoProgress =>
                   \/ file[i].batch < query'[q].progress.batch
                   \/ <<q, file[i].batch>> \in seen'
                      /\ file[i].batch = query'[q].progress.batch
  <2>1. /\ q \in Queries /\ file[i].batch \in Int /\ file[i].end \in Int
        /\ file[i].batch <= query[q].batch
        /\ file[i].end <= query[q].offset
        /\ query[q].progress # NoProgress =>
              \/ file[i].batch < query[q].progress.batch
              \/ <<q, file[i].batch>> \in seen
                 /\ file[i].batch = query[q].progress.batch
    BY <1>4 DEF FileInv, Reported
  <2>2. file[i].batch <= query'[q].batch /\ file[i].end <= query'[q].offset
    BY <1>2, <2>1
  <2>3. ASSUME query'[q].progress # NoProgress, query'[q].progress # query[q].progress
        PROVE  file[i].batch < query'[q].progress.batch
    <3>1. query'[q].progress.batch \in Int /\ query'[q].progress.batch > query[q].batch
      BY <2>1, <2>3 DEF Reports
    <3> QED
      BY <1>2, <2>1, <3>1
  <2> QED
    BY <2>1, <2>2, <2>3
<1>5. NoBatchTwice'
  BY DEF FileInv, NoBatchTwice
<1> QED
  BY <1>1, <1>3, <1>4, <1>5 DEF FileInv, Reported, IsBatch

LEMMA CommittedFact ==
    ASSUME NEW r \in Records, r.run.end >= r.offset
    PROVE  /\ Committed(r) \in Records
           /\ ~Committed(r).run.on
           /\ Committed(r).batch = r.batch + 1 /\ Committed(r).offset = r.run.end
           /\ Committed(r).progress \in Reports
           /\ Committed(r).progress.batch = r.batch + 1
           /\ Committed(r).progress.end = r.run.end
           /\ Committed(r).progress.wm = r.offset
           /\ Committed(r).due = (r.run.end > r.offset)
<1>1. /\ r.run \in Runs /\ r.run.end \in Nat /\ r.run.latest \in Int /\ r.run.age \in Int
      /\ r.offset \in Nat /\ r.batch \in Int
  BY DEF Records, Runs
<1> DEFINE p == [batch |-> r.batch + 1, end |-> r.run.end, latest |-> r.run.latest,
                 rows |-> r.run.end - r.offset, wm |-> r.offset, dur |-> r.run.age]
<1>2. p \in Reports /\ p.batch = r.batch + 1 /\ p.end = r.run.end /\ p.wm = r.offset
  BY <1>1 DEF Reports
<1>3. NoBatch \in Runs /\ ~NoBatch.on
  BY DEF NoBatch, Runs, NoOffset
<1>4. Committed(r) = [r EXCEPT !.offset = r.run.end, !.batch = r.batch + 1, !.run = NoBatch,
                               !.due = r.run.end > r.offset, !.progress = p]
  BY DEF Committed
<1> HIDE DEF p
<1>5. Committed(r) = [active |-> r.active, offset |-> r.run.end, batch |-> r.batch + 1,
                      due |-> r.run.end > r.offset, run |-> NoBatch, progress |-> p]
  BY <1>4 DEF Records
<1> QED
  BY <1>1, <1>2, <1>3, <1>5 DEF Records

Gone(r) == [r EXCEPT !.active = FALSE, !.progress = NoProgress]

Started(r) == [r EXCEPT !.active = TRUE, !.run.latest = NoOffset]

Aged(r) == [r EXCEPT !.run.age = @ + 1]

LEMMA AgedFact ==
    ASSUME NEW r \in Records
    PROVE  /\ Aged(r) \in Records
           /\ Aged(r).run.end = r.run.end /\ Aged(r).run.on = r.run.on
           /\ Aged(r).batch = r.batch /\ Aged(r).offset = r.offset
           /\ Aged(r).progress = r.progress /\ Aged(r).due = r.due
<1> DEFINE run == [r.run EXCEPT !.age = @ + 1]
<1>1. r.run \in Runs
  BY DEF Records
<1>2. run = [on |-> r.run.on, end |-> r.run.end, latest |-> r.run.latest, age |-> r.run.age + 1]
  BY <1>1 DEF Runs
<1>3. run \in Runs /\ run.end = r.run.end /\ run.on = r.run.on
  BY <1>1, <1>2 DEF Runs
<1>4. Aged(r) = [r EXCEPT !.run = run]
  BY DEF Aged, Records
<1> HIDE DEF run
<1>5. Aged(r) = [active |-> r.active, offset |-> r.offset, batch |-> r.batch, due |-> r.due,
                 run |-> run, progress |-> r.progress]
  BY <1>4 DEF Records
<1> QED
  BY <1>3, <1>5 DEF Records

LEMMA GoneFact ==
    ASSUME NEW r \in Records
    PROVE  /\ Gone(r) \in Records /\ Gone(r).run = r.run /\ Gone(r).batch = r.batch
           /\ Gone(r).offset = r.offset /\ Gone(r).progress = NoProgress
           /\ Gone(r).due = r.due
<1> DEFINE p == NoProgress
<1> HIDE DEF p
<1>1. Gone(r) = [r EXCEPT !.active = FALSE, !.progress = p]
  BY DEF Gone, p
<1>2. Gone(r) = [active |-> FALSE, offset |-> r.offset, batch |-> r.batch, due |-> r.due,
                 run |-> r.run, progress |-> p]
  BY <1>1 DEF Records
<1>3. /\ r.offset \in Nat /\ r.batch \in Int /\ r.due \in BOOLEAN /\ r.run \in Runs
  BY DEF Records
<1>4. p \in {NoProgress} \cup Reports /\ p = NoProgress
  BY DEF p
<1> QED
  BY <1>2, <1>3, <1>4 DEF Records

LEMMA StartedFact ==
    ASSUME NEW r \in Records
    PROVE  /\ Started(r) \in Records
           /\ Started(r).run.end = r.run.end /\ Started(r).run.on = r.run.on
           /\ Started(r).batch = r.batch /\ Started(r).offset = r.offset
           /\ Started(r).progress = r.progress /\ Started(r).due = r.due
<1> DEFINE run == [r.run EXCEPT !.latest = NoOffset]
<1>1. r.run \in Runs
  BY DEF Records
<1>2. run = [on |-> r.run.on, end |-> r.run.end, latest |-> NoOffset, age |-> r.run.age]
  BY <1>1 DEF Runs
<1>3. run \in Runs /\ run.end = r.run.end /\ run.on = r.run.on
  BY <1>1, <1>2 DEF Runs, NoOffset
<1>4. Started(r) = [r EXCEPT !.active = TRUE, !.run = run]
  BY DEF Started, Records
<1> HIDE DEF run
<1>5. Started(r) = [active |-> TRUE, offset |-> r.offset, batch |-> r.batch, due |-> r.due,
                    run |-> run, progress |-> r.progress]
  BY <1>4 DEF Records
<1> QED
  BY <1>3, <1>5 DEF Records

(* A step of one query keeps the others as they are.                       *)
LEMMA OneQuery ==
    ASSUME FileInv, file' = file, seen' = seen, visiting' = visiting, published' = published,
           main' = main, Up,
           NEW p \in Queries, NEW r \in Records, query' = [query EXCEPT ![p] = r],
           r.run.end >= r.offset \/ ~r.run.on,
           r.batch >= query[p].batch, r.offset >= query[p].offset,
           \/ r.progress = query[p].progress
           \/ /\ r.progress \in Reports
              /\ r.progress.batch <= r.batch
              /\ r.progress.batch > query[p].batch
              /\ r.progress.end <= r.offset
    PROVE  FileInv'
<1>1. query \in [Queries -> Records]
  BY DEF FileInv
<1>2. query' \in [Queries -> Records]
  BY <1>1
<1>3. \A q \in Queries : query'[q] = IF q = p THEN r ELSE query[q]
  BY <1>1
<1>4. \A q \in Queries : query[q].batch \in Int /\ query[q].offset \in Nat
  BY <1>1 DEF Records
<1>5. \A q \in Queries :
          /\ query'[q].run.end >= query'[q].offset \/ ~query'[q].run.on
          /\ query'[q].batch >= query[q].batch /\ query'[q].offset >= query[q].offset
          /\ \/ query'[q].progress = query[q].progress
             \/ query'[q].progress = NoProgress
             \/ /\ query'[q].progress \in Reports
                /\ query'[q].progress.batch <= query'[q].batch
                /\ query'[q].progress.batch > query[q].batch
                /\ query'[q].progress.end <= query'[q].offset
  <2> TAKE q \in Queries
  <2>1. CASE q = p
    BY <1>3, <2>1
  <2>2. CASE q # p
    <3>1. query'[q] = query[q]
      BY <1>3, <2>2
    <3>2. query[q].run.end >= query[q].offset \/ ~query[q].run.on
      BY DEF FileInv
    <3> QED
      BY <1>4, <3>1, <3>2
  <2> QED
    BY <2>1, <2>2
<1>6. visiting' \subseteq Queries /\ published' \in Nat /\ main' # "down"
  BY DEF FileInv, Up
<1> QED
  BY <1>2, <1>5, <1>6, QueryStep

(* The queries run on, fail and stop without touching the file.            *)
LEMMA AllQueries ==
    ASSUME FileInv, file' = file, visiting' \subseteq Queries, published' \in Nat,
           query' \in [Queries -> Records],
           \A q \in Queries :
              /\ query'[q].run.end = query[q].run.end /\ query'[q].run.on = query[q].run.on
              /\ query'[q].offset = query[q].offset /\ query'[q].batch = query[q].batch
              /\ query'[q].progress \in {query[q].progress, NoProgress},
           seen' = seen \/ \A q \in Queries : query'[q].progress = NoProgress,
           main' = "down" => \A q \in Queries : query'[q].progress = NoProgress
    PROVE  FileInv'
<1>1. \A q \in Queries : query[q].batch \in Int /\ query[q].offset \in Nat
  BY DEF FileInv, Records
<1>2. \A q \in Queries :
          /\ query'[q].run.end >= query'[q].offset \/ ~query'[q].run.on
          /\ query'[q].batch >= query[q].batch /\ query'[q].offset >= query[q].offset
          /\ query'[q].progress = query[q].progress \/ query'[q].progress = NoProgress
  BY <1>1 DEF FileInv
<1> QED
  BY <1>2, QueryStep

LEMMA EngineKeeps == FileInv /\ Engine => FileInv'
<1> SUFFICES ASSUME FileInv, Engine
             PROVE  FileInv'
  OBVIOUS
<1>1. query \in [Queries -> Records] /\ visiting \subseteq Queries /\ published \in Nat
  BY DEF FileInv
<1>2. \A q \in Queries : query[q] \in Records /\ query[q].run \in Runs
                         /\ query[q].offset \in Nat /\ query[q].batch \in Int
  BY <1>1 DEF Records
<1>3. CASE Publish
  <2>1. /\ file' = file /\ seen' = seen /\ visiting' = visiting /\ query' = query /\ main' = main
        /\ published' = published + 1
    BY <1>3 DEF Publish
  <2>2. main = "down" => \A q \in Queries : query[q].progress = NoProgress
    BY DEF FileInv, Reported
  <2> QED
    BY <1>1, <2>1, <2>2, AllQueries
<1>4. ASSUME NEW q \in Queries, Plan(q)
      PROVE  FileInv'
  <2>1. PICK last \in query[q].offset..published :
            query' = [query EXCEPT ![q].run =
                         [on |-> TRUE, end |-> last, latest |-> published, age |-> 0]]
    BY <1>4 DEF Plan
  <2> DEFINE run == [on |-> TRUE, end |-> last, latest |-> published, age |-> 0]
             r == [query[q] EXCEPT !.run = run]
  <2>2. last \in Nat /\ last >= query[q].offset
    BY <1>1, <1>2
  <2>3. run \in Runs /\ run.end = last
    BY <1>1, <2>2 DEF Runs
  <2>4. query' = [query EXCEPT ![q] = r]
    BY <2>1
  <2> HIDE DEF run
  <2>5. /\ r \in Records /\ r.run = run /\ r.batch = query[q].batch /\ r.offset = query[q].offset
        /\ r.progress = query[q].progress
    BY <1>2, <2>3 DEF Records
  <2> HIDE DEF r
  <2>6. r.run.end >= r.offset /\ r.batch >= query[q].batch /\ r.offset >= query[q].offset
    BY <1>2, <2>2, <2>3, <2>5
  <2>7. /\ file' = file /\ seen' = seen /\ visiting' = visiting /\ published' = published
        /\ main' = main /\ Up
    BY <1>4 DEF Plan
  <2> QED
    BY <2>4, <2>5, <2>6, <2>7, OneQuery
<1>5. ASSUME NEW q \in Queries, Commit(q)
      PROVE  FileInv'
  <2> DEFINE r == Committed(query[q])
  <2>1. query[q].run.end >= query[q].offset
    BY <1>5 DEF Commit, FileInv
  <2>2. /\ r \in Records /\ ~r.run.on
        /\ r.batch = query[q].batch + 1 /\ r.offset = query[q].run.end
        /\ r.progress \in Reports
        /\ r.progress.batch = query[q].batch + 1 /\ r.progress.end = query[q].run.end
    BY <1>2, <2>1, CommittedFact
  <2>3. query' = [query EXCEPT ![q] = r]
    BY <1>5 DEF Commit
  <2> HIDE DEF r
  <2>4. /\ r.batch >= query[q].batch /\ r.offset >= query[q].offset
        /\ r.progress.batch <= r.batch /\ r.progress.batch > query[q].batch
        /\ r.progress.end <= r.offset
    <3>1. query[q].run.end \in Nat
      BY <1>2 DEF Runs
    <3> QED
      BY <1>2, <2>1, <2>2, <3>1
  <2>5. /\ file' = file /\ seen' = seen /\ visiting' = visiting /\ published' = published
        /\ main' = main /\ Up
    BY <1>5 DEF Commit
  <2> QED
    BY <2>2, <2>3, <2>4, <2>5, OneQuery
<1>6. ASSUME NEW q \in Queries, Fail(q)
      PROVE  FileInv'
  <2> DEFINE r == [query[q] EXCEPT !.active = FALSE]
  <2>1. query' = [query EXCEPT ![q] = r]
    BY <1>6 DEF Fail
  <2>2. /\ r \in Records /\ r.run = query[q].run /\ r.batch = query[q].batch
        /\ r.offset = query[q].offset /\ r.progress = query[q].progress
    BY <1>2 DEF Records
  <2> HIDE DEF r
  <2>3. r.batch >= query[q].batch /\ r.offset >= query[q].offset
    BY <1>2, <2>2
  <2>4. r.run.end >= r.offset \/ ~r.run.on
    BY <2>2 DEF FileInv
  <2>5. /\ file' = file /\ seen' = seen /\ visiting' = visiting /\ published' = published
        /\ main' = main /\ Up
    BY <1>6 DEF Fail
  <2> QED
    BY <2>1, <2>2, <2>3, <2>4, <2>5, OneQuery
<1>7. CASE Emit
  <2>1. /\ file' = file /\ seen' = seen /\ visiting' = visiting /\ query' = query /\ main' = main
        /\ published' = published
    BY <1>7 DEF Emit
  <2>2. main = "down" => \A q \in Queries : query[q].progress = NoProgress
    BY DEF FileInv, Reported
  <2> QED
    BY <1>1, <2>1, <2>2, AllQueries
<1>8. CASE StopVelocity
  <2>1. /\ file' = file /\ seen' = seen /\ visiting' = visiting /\ main' = "exiting"
        /\ published' = published
        /\ query' = [q \in Queries |-> IF q = Sequencer THEN query[q]
                                       ELSE [query[q] EXCEPT !.active = FALSE]]
    BY <1>8 DEF StopVelocity
  <2>2. \A q \in Queries : LET r == [query[q] EXCEPT !.active = FALSE]
                           IN  /\ r \in Records /\ r.run = query[q].run /\ r.batch = query[q].batch
                               /\ r.offset = query[q].offset /\ r.progress = query[q].progress
    BY <1>2 DEF Records
  <2>3. \A q \in Queries : /\ query'[q] \in Records /\ query'[q].run = query[q].run
                           /\ query'[q].batch = query[q].batch
                           /\ query'[q].offset = query[q].offset
                           /\ query'[q].progress = query[q].progress
    BY <1>2, <2>1, <2>2
  <2>4. query' \in [Queries -> Records]
    BY <2>1, <2>3
  <2> QED
    BY <1>1, <2>1, <2>3, <2>4, AllQueries
<1>9. CASE Exit \/ Kill
  <2>1. file' = file /\ visiting' = {} /\ published' = published
    BY <1>9, Zenon DEF Exit, Kill, Down
  <2>2. query' = [q \in Queries |-> Gone(query[q])]
    BY <1>9, Zenon DEF Exit, Kill, Down, Gone
  <2>3. \A q \in Queries : /\ query'[q] \in Records /\ query'[q].run = query[q].run
                           /\ query'[q].batch = query[q].batch
                           /\ query'[q].offset = query[q].offset
                           /\ query'[q].progress = NoProgress
    BY <1>2, <2>2, GoneFact
  <2>4. query' \in [Queries -> Records]
    BY <2>2, <2>3
  <2> QED
    BY <1>1, <2>1, <2>3, <2>4, AllQueries
<1>10. CASE Start
  <2>1. /\ file' = file /\ visiting' = visiting /\ published' = published /\ main' = "await"
        /\ main = "down"
    BY <1>10, Zenon DEF Start, Up
  <2>2. query' = [q \in Queries |-> Started(query[q])]
    BY <1>10, Zenon DEF Start, Started
  <2>3. \A q \in Queries :
            /\ query'[q] \in Records
            /\ query'[q].run.end = query[q].run.end /\ query'[q].run.on = query[q].run.on
            /\ query'[q].batch = query[q].batch /\ query'[q].offset = query[q].offset
            /\ query'[q].progress = query[q].progress
    BY <1>2, <2>2, StartedFact
  <2>4. \A q \in Queries : query[q].progress = NoProgress
    BY <2>1 DEF FileInv, Reported
  <2>5. query' \in [Queries -> Records]
    BY <2>2, <2>3
  <2> QED
    BY <1>1, <2>1, <2>3, <2>4, <2>5, AllQueries
<1> QED
  BY <1>3, <1>4, <1>5, <1>6, <1>7, <1>8, <1>9, <1>10 DEF Engine

LEMMA LineFact ==
    ASSUME NEW q, query[q].progress \in Reports
    PROVE  /\ Line(q).query = q /\ Line(q).event = "batch"
           /\ Line(q).batch = query[q].progress.batch /\ Line(q).end = query[q].progress.end
           /\ Line(q).wm = query[q].progress.wm
  BY DEF Line, LineOf, Reports

LEMMA AppendFact ==
    ASSUME NEW S, NEW lines \in Seq(S), NEW x
    PROVE  /\ \E T : Append(lines, x) \in Seq(T)
           /\ Len(lines) \in Nat /\ DOMAIN lines = 1..Len(lines)
           /\ DOMAIN Append(lines, x) = 1..(Len(lines) + 1)
           /\ \A i \in 1..Len(lines) : Append(lines, x)[i] = lines[i]
           /\ Append(lines, x)[Len(lines) + 1] = x
<1>1. lines \in Seq(S \cup {x})
  OBVIOUS
<1>2. /\ Append(lines, x) \in Seq(S \cup {x}) /\ Len(Append(lines, x)) = Len(lines) + 1
      /\ \A i \in 1..Len(lines) : Append(lines, x)[i] = lines[i]
      /\ Append(lines, x)[Len(lines) + 1] = x
  BY <1>1, AppendProperties
<1>3. DOMAIN Append(lines, x) = 1..Len(Append(lines, x))
  BY <1>2
<1>4. Len(lines) \in Nat /\ DOMAIN lines = 1..Len(lines)
  OBVIOUS
<1> QED
  BY <1>2, <1>3, <1>4

(* A line of a batch that is not remembered is of one later than any other *)
(* line of the query.                                                      *)
LEMMA VisitKeeps == FileInv /\ (\E q \in Queries : Visit(q)) => FileInv'
<1> SUFFICES ASSUME FileInv, NEW q \in Queries, Visit(q)
             PROVE  FileInv'
  OBVIOUS
<1>1. /\ query' = query /\ published' = published /\ main' = main /\ visiting' \subseteq Queries
  BY DEF Visit, FileInv
<1>2. PICK S : file \in Seq(S)
  BY DEF FileInv
<1>3. \A p \in Queries : Reported(p)' = Reported(p)
  BY <1>1 DEF Reported
<1>4. ASSUME seen \subseteq seen', NEW x, file' = Append(file, x),
             x.event = "batch" =>
                /\ x.query \in Queries /\ x.batch \in Int /\ x.end \in Int
                /\ x.batch <= query[x.query].batch /\ x.end <= query[x.query].offset
                /\ Reported(x.query) /\ x.batch = query[x.query].progress.batch
                /\ <<x.query, x.batch>> \in seen' \ seen
      PROVE  FileInv'
  <2> DEFINE n == Len(file)
  <2>1. /\ \E T : file' \in Seq(T)
        /\ n \in Nat /\ DOMAIN file = 1..n /\ DOMAIN file' = 1..(n + 1)
        /\ \A i \in 1..n : file'[i] = file[i]
        /\ file'[n + 1] = x
    <3>1. /\ \E T : Append(file, x) \in Seq(T)
          /\ n \in Nat /\ DOMAIN file = 1..n
          /\ DOMAIN Append(file, x) = 1..(n + 1)
          /\ \A i \in 1..n : Append(file, x)[i] = file[i]
          /\ Append(file, x)[n + 1] = x
      BY <1>2, AppendFact, Zenon
    <3>2. file' = Append(file, x)
      BY <1>4
    <3> HIDE DEF n
    <3> QED
      BY <3>1, <3>2, Zenon
  <2> HIDE DEF n
  <2>2. \A i \in DOMAIN file' : i \in DOMAIN file \/ i = n + 1
    BY <2>1
  <2>3. ASSUME NEW i \in DOMAIN file, NEW l, l = file[i], l.event = "batch"
        PROVE  /\ l.query \in Queries /\ l.batch \in Int /\ l.end \in Int
               /\ l.batch <= query[l.query].batch /\ l.end <= query[l.query].offset
               /\ Reported(l.query) =>
                     \/ l.batch < query[l.query].progress.batch
                     \/ <<l.query, l.batch>> \in seen /\ l.batch = query[l.query].progress.batch
    BY <2>3 DEF FileInv, IsBatch
  <2>4. ASSUME NEW i \in DOMAIN file', NEW l, l = file'[i], l.event = "batch"
        PROVE  /\ l.query \in Queries /\ l.batch \in Int /\ l.end \in Int
               /\ l.batch <= query[l.query].batch /\ l.end <= query[l.query].offset
               /\ Reported(l.query) =>
                     \/ l.batch < query[l.query].progress.batch
                     \/ <<l.query, l.batch>> \in seen' /\ l.batch = query[l.query].progress.batch
    <3>1. CASE i \in DOMAIN file
      <4>1. l = file[i]
        BY <2>1, <2>4, <3>1
      <4> QED
        BY <1>4, <2>3, <2>4, <3>1, <4>1
    <3>2. CASE i = n + 1
      BY <1>4, <2>1, <2>4, <3>2
    <3> QED
      BY <2>2, <3>1, <3>2
  <2>5. ASSUME NEW i \in DOMAIN file', NEW j \in DOMAIN file', i < j,
               file'[i].query = file'[j].query,
               file'[i].event = "batch", file'[j].event = "batch"
        PROVE  file'[i].batch < file'[j].batch
    <3>1. i \in DOMAIN file /\ file'[i] = file[i]
      BY <2>1, <2>5
    <3>2. CASE j \in DOMAIN file
      <4>1. file'[j] = file[j]
        BY <2>1, <3>2
      <4> QED
        BY <2>5, <3>1, <3>2, <4>1 DEF FileInv, NoBatchTwice
    <3>3. CASE j = n + 1
      <4>1. file'[j] = x
        BY <2>1, <3>3
      <4> DEFINE l == file[i]
      <4>2. l.event = "batch" /\ l.query = x.query /\ x.event = "batch"
        BY <2>5, <3>1, <4>1
      <4>3. \/ l.batch < query[l.query].progress.batch
            \/ <<l.query, l.batch>> \in seen /\ l.batch = query[l.query].progress.batch
        BY <1>4, <2>3, <3>1, <4>2
      <4>4. <<x.query, x.batch>> \notin seen /\ x.batch = query[x.query].progress.batch
        BY <1>4, <4>2
      <4>5. l.batch < x.batch
        BY <4>2, <4>3, <4>4
      <4> QED
        BY <3>1, <4>1, <4>5
    <3> QED
      BY <2>2, <3>2, <3>3
  <2>6. NoBatchTwice'
    BY <2>5 DEF NoBatchTwice
  <2>7. \A i \in DOMAIN file' : file'[i].event = "batch" =>
           /\ file'[i].query \in Queries /\ file'[i].batch \in Int /\ file'[i].end \in Int
           /\ file'[i].batch <= query[file'[i].query].batch
           /\ file'[i].end <= query[file'[i].query].offset
           /\ Reported(file'[i].query) =>
                 \/ file'[i].batch < query[file'[i].query].progress.batch
                 \/ /\ <<file'[i].query, file'[i].batch>> \in seen'
                    /\ file'[i].batch = query[file'[i].query].progress.batch
    BY <2>4
  <2> QED
    BY <1>1, <2>1, <2>6, <2>7 DEF FileInv, IsBatch, Reported
<1>5. CASE seen' = seen \cup {<<q, NoOffset>>} /\ file' = Append(file, Stopped(q))
  <2>1. Stopped(q).event # "batch"
    BY DEF Stopped
  <2> QED
    BY <1>4, <1>5, <2>1
<1>6. CASE /\ query[q].active /\ ~Polled(q)
           /\ seen' = seen \cup {<<q, query[q].progress.batch>>}
           /\ file' = Append(file, Line(q))
  <2>1. Reported(q) /\ <<q, query[q].progress.batch>> \notin seen
    BY <1>6 DEF Polled, Reported
  <2>2. /\ query[q].progress \in Reports
        /\ query[q].progress.batch <= query[q].batch
        /\ query[q].progress.end <= query[q].offset
    BY <2>1 DEF FileInv
  <2>3. query[q].progress.batch \in Int /\ query[q].progress.end \in Int
    BY <2>2 DEF Reports
  <2>4. /\ Line(q).query = q /\ Line(q).event = "batch"
        /\ Line(q).batch = query[q].progress.batch /\ Line(q).end = query[q].progress.end
    BY <2>2, LineFact
  <2> DEFINE x == Line(q)
  <2>5. file' = Append(file, x) /\ x.query = q /\ x.batch = query[q].progress.batch
        /\ x.end = query[q].progress.end
    BY <1>6, <2>4
  <2> HIDE DEF x
  <2> QED
    BY <1>4, <1>6, <2>1, <2>2, <2>3, <2>5
<1>7. CASE UNCHANGED <<seen, file>>
  <2>1. seen' = seen /\ file' = file
    BY <1>7
  <2> QED
    BY <1>1, <1>3, <2>1 DEF FileInv, IsBatch, NoBatchTwice, Reported
<1> QED
  BY <1>5, <1>6, <1>7 DEF Visit

LEMMA WaiterKeeps ==
    FileInv /\ (Begin \/ Look \/ TimesOut \/ Tick \/ BeginPass \/ UNCHANGED waitVars) => FileInv'
<1> SUFFICES ASSUME FileInv
             PROVE  /\ Begin \/ Look \/ TimesOut \/ UNCHANGED waitVars => FileInv'
                    /\ BeginPass => FileInv'
                    /\ Tick => FileInv'
  OBVIOUS
<1>1. /\ query \in [Queries -> Records] /\ visiting \subseteq Queries /\ published \in Nat
      /\ main = "down" => \A q \in Queries : query[q].progress = NoProgress
  BY DEF FileInv, Reported
<1>2. Begin \/ Look \/ TimesOut \/ UNCHANGED waitVars => FileInv'
  <2> SUFFICES ASSUME Begin \/ Look \/ TimesOut \/ UNCHANGED waitVars
               PROVE  FileInv'
    OBVIOUS
  <2>1. /\ file' = file /\ seen' = seen /\ visiting' = visiting /\ query' = query /\ main' = main
        /\ published' = published
    BY Zenon DEF Begin, Look, TimesOut, waitVars, vars
  <2> QED
    BY <1>1, <2>1, AllQueries
<1>3. BeginPass => FileInv'
  <2> SUFFICES ASSUME BeginPass
               PROVE  FileInv'
    OBVIOUS
  <2>1. /\ file' = file /\ seen' = seen /\ visiting' = Queries /\ query' = query /\ main' = main
        /\ published' = published
    BY DEF BeginPass
  <2> QED
    BY <1>1, <2>1, AllQueries
<1>4. Tick => FileInv'
  <2> SUFFICES ASSUME Tick
               PROVE  FileInv'
    OBVIOUS
  <2>1. /\ file' = file /\ seen' = seen /\ visiting' = visiting /\ main' = main
        /\ published' = published
    BY Zenon DEF Tick
  <2>2. query' = [q \in Queries |-> IF query[q].run.on THEN Aged(query[q]) ELSE query[q]]
    BY Zenon DEF Tick, Aged
  <2>3. \A q \in Queries : query[q] \in Records
    BY <1>1
  <2>4. \A q \in Queries :
            /\ query'[q] \in Records
            /\ query'[q].run.end = query[q].run.end /\ query'[q].run.on = query[q].run.on
            /\ query'[q].batch = query[q].batch /\ query'[q].offset = query[q].offset
            /\ query'[q].progress = query[q].progress
    <3> TAKE q \in Queries
    <3>1. CASE query[q].run.on
      <4>1. query'[q] = Aged(query[q])
        BY <2>2, <3>1
      <4> QED
        BY <2>3, <4>1, AgedFact
    <3>2. CASE ~query[q].run.on
      <4>1. query'[q] = query[q]
        BY <2>2, <3>2
      <4> QED
        BY <2>3, <4>1
    <3> QED
      BY <3>1, <3>2
  <2>5. query' \in [Queries -> Records]
    BY <2>2, <2>4
  <2> QED
    BY <1>1, <2>1, <2>4, <2>5, AllQueries
<1> QED
  BY <1>2, <1>3, <1>4

(***************************************************************************)
(* What the waiter and the probe read in the file                          *)
(***************************************************************************)

Signal == [alarm : Alarms, batch : Nat, wm : Nat]

(* Batch ids start at 0, and nothing is read before it is published.       *)
Numbered ==
    /\ \A q \in Queries :
          /\ query[q].batch >= NoOffset
          /\ Reported(q) => query[q].progress.batch \in Nat
          /\ query[q].offset <= published
          /\ query[q].run.on => query[q].run.end <= published
    /\ \A i \in DOMAIN file : IsBatch(i) => file[i].batch \in Nat

(* A signal is of a batch committed or in flight, and of no other gap; the *)
(* watermark it was raised at is that of its batch, in whatever process it *)
(* was run, reported and written.                                          *)
SignalsAreOfBatches ==
    LET r == query[Sequencer]
    IN  \A s \in signals :
            /\ s \in Signal /\ s.alarm <= s.wm /\ s.wm <= r.offset
            /\ s.batch <= r.batch + 1
            /\ s.batch = r.batch + 1 => r.run.on /\ s.wm = r.offset
            /\ Reported(Sequencer) /\ r.progress.batch = s.batch => r.progress.wm = s.wm
            /\ \A i \in BatchLines(Sequencer) : file[i].batch = s.batch => file[i].wm = s.wm
            /\ \A t \in signals : t.alarm = s.alarm => t = s

(* Once no watermark is to be moved, every gap it reached was announced.   *)
NothingIsOwed ==
    ~query[Sequencer].due =>
        \A a \in Alarms : a <= query[Sequencer].offset => \E s \in signals : s.alarm = a

ProbeInv == Numbered /\ SignalsAreOfBatches /\ NothingIsOwed

WholeWaiter(w) ==
    w = [pc |-> w.pc, said |-> w.said, from |-> w.from, asked |-> w.asked, last |-> w.last,
         quiet |-> w.quiet, waited |-> w.waited]

(* The line the waiter answered from is committed, for good.               *)
Covered(w, read) ==
    w.said = "caught up" =>
        w.from.end = w.from.latest /\ w.from.end \in Int /\ w.from.end <= read

WaiterInv == WholeWaiter(waiter) /\ Covered(waiter, query[Sequencer].offset)

(***************************************************************************)
(* Of any step, what the file, the signals and the queries make of it      *)
(***************************************************************************)

Still(r, x) ==
    /\ x.offset = r.offset /\ x.batch = r.batch /\ x.due = r.due
    /\ x.run.on = r.run.on /\ x.run.end = r.run.end
    /\ x.progress \in {r.progress, NoProgress}

Begun(r, x) ==
    /\ ~r.run.on
    /\ x.offset = r.offset /\ x.batch = r.batch /\ x.due = r.due /\ x.progress = r.progress
    /\ x.run.on /\ x.run.end \in r.offset..published

Ended(r, x) ==
    /\ r.run.on /\ ~x.run.on
    /\ x.offset = r.run.end /\ x.batch = r.batch + 1 /\ x.due = (r.run.end > r.offset)
    /\ x.progress.batch = x.batch /\ x.progress.wm = r.offset

Announces ==
    /\ UNCHANGED <<published, query, file>> /\ query[Sequencer].run.on
    /\ signals' = signals \cup Confirmed(Sequencer)

Moves ==
    /\ UNCHANGED <<file, signals>> /\ published' \in Nat /\ published' >= published
    /\ \A q \in Queries :
          \/ Still(query[q], query'[q])
          \/ Begun(query[q], query'[q])
          \/ Ended(query[q], query'[q]) /\ Confirmed(q) = {}

Writes ==
    /\ UNCHANGED <<published, query, signals>>
    /\ \E x : /\ file' = Append(file, x)
              /\ x.event = "batch" => \E q \in Queries : Reported(q) /\ x = Line(q)

LEMMA Steps ==
    ASSUME FileInv, [WaitNext]_waitVars
    PROVE  Announces \/ Moves \/ Writes
<1>1. query \in [Queries -> Records] /\ published \in Nat
  BY DEF FileInv
<1>2. \A q \in Queries : query[q] \in Records
  BY <1>1
<1>3. \A q \in Queries : Still(query[q], query[q])
  BY DEF Still
<1>4. ASSUME UNCHANGED <<query, file, signals>>, published' = published \/ published' = published + 1
      PROVE  Moves
  BY <1>1, <1>3, <1>4 DEF Moves
<1>5. ASSUME NEW p \in Queries, NEW r, query' = [query EXCEPT ![p] = r],
             UNCHANGED <<published, file, signals>>,
             \/ Still(query[p], r)
             \/ Begun(query[p], r)
             \/ Ended(query[p], r) /\ Confirmed(p) = {}
      PROVE  Moves
  <2>1. \A q \in Queries : query'[q] = IF q = p THEN r ELSE query[q]
    BY <1>1, <1>5
  <2> QED
    BY <1>1, <1>3, <1>5, <2>1 DEF Moves
<1>6. CASE Publish \/ BeginPass \/ Begin \/ Look \/ TimesOut \/ UNCHANGED waitVars
  <2>1. /\ UNCHANGED <<query, file, signals>>
        /\ published' = published \/ published' = published + 1
    BY <1>6, Zenon DEF Publish, BeginPass, Begin, Look, TimesOut, waitVars, vars
  <2> QED
    BY <1>4, <2>1
<1>7. ASSUME NEW q \in Queries, Plan(q)
      PROVE  Moves
  <2>1. PICK last \in query[q].offset..published :
            query' = [query EXCEPT ![q].run =
                         [on |-> TRUE, end |-> last, latest |-> published, age |-> 0]]
    BY <1>7 DEF Plan
  <2> DEFINE run == [on |-> TRUE, end |-> last, latest |-> published, age |-> 0]
             r == [query[q] EXCEPT !.run = run]
  <2>2. query' = [query EXCEPT ![q] = r]
    BY <2>1
  <2>3. run.on /\ run.end = last
    OBVIOUS
  <2> HIDE DEF run
  <2>4. /\ r.run = run /\ r.batch = query[q].batch /\ r.offset = query[q].offset
        /\ r.due = query[q].due /\ r.progress = query[q].progress
    BY <1>2 DEF Records
  <2> HIDE DEF r
  <2>5. Begun(query[q], r)
    BY <1>7, <2>3, <2>4 DEF Begun, Plan
  <2> QED
    BY <1>5, <1>7, <2>2, <2>5 DEF Plan
<1>8. ASSUME NEW q \in Queries, Commit(q)
      PROVE  Moves
  <2> DEFINE r == Committed(query[q])
  <2>1. query[q].run.end >= query[q].offset
    BY <1>8 DEF Commit, FileInv
  <2>2. /\ r \in Records /\ ~r.run.on /\ r.batch = query[q].batch + 1
        /\ r.offset = query[q].run.end /\ r.due = (query[q].run.end > query[q].offset)
        /\ r.progress.batch = query[q].batch + 1 /\ r.progress.wm = query[q].offset
    BY <1>2, <2>1, CommittedFact
  <2>3. query' = [query EXCEPT ![q] = r]
    BY <1>8 DEF Commit
  <2> HIDE DEF r
  <2>4. Ended(query[q], r)
    BY <1>8, <2>2 DEF Ended, Commit
  <2> QED
    BY <1>5, <1>8, <2>3, <2>4 DEF Commit
<1>9. ASSUME NEW q \in Queries, Fail(q)
      PROVE  Moves
  <2> DEFINE r == [query[q] EXCEPT !.active = FALSE]
  <2>1. query' = [query EXCEPT ![q] = r]
    BY <1>9 DEF Fail
  <2>2. Still(query[q], r)
    BY <1>2 DEF Records, Still
  <2> HIDE DEF r
  <2> QED
    BY <1>5, <1>9, <2>1, <2>2 DEF Fail
<1>10. CASE Emit
  BY <1>10 DEF Emit, Announces
<1>11. ASSUME UNCHANGED <<published, file, signals>>,
              \A q \in Queries : Still(query[q], query'[q])
       PROVE  Moves
  BY <1>1, <1>11 DEF Moves
<1>12. CASE StopVelocity
  <2>1. /\ UNCHANGED <<published, file, signals>>
        /\ query' = [q \in Queries |-> IF q = Sequencer THEN query[q]
                                       ELSE [query[q] EXCEPT !.active = FALSE]]
    BY <1>12 DEF StopVelocity
  <2>2. \A q \in Queries : Still(query[q], [query[q] EXCEPT !.active = FALSE])
    BY <1>2 DEF Records, Still
  <2>3. \A q \in Queries : Still(query[q], query'[q])
    BY <1>3, <2>1, <2>2
  <2> QED
    BY <1>11, <2>1, <2>3
<1>13. CASE Exit \/ Kill
  <2>1. UNCHANGED <<published, file, signals>>
    BY <1>13, Zenon DEF Exit, Kill, Down
  <2>2. query' = [q \in Queries |-> Gone(query[q])]
    BY <1>13, Zenon DEF Exit, Kill, Down, Gone
  <2>3. \A q \in Queries : Still(query[q], query'[q])
    BY <1>2, <2>2, GoneFact DEF Still
  <2> QED
    BY <1>11, <2>1, <2>3
<1>14. CASE Start
  <2>1. UNCHANGED <<published, file, signals>>
    BY <1>14, Zenon DEF Start
  <2>2. query' = [q \in Queries |-> Started(query[q])]
    BY <1>14, Zenon DEF Start, Started
  <2>3. \A q \in Queries : Still(query[q], query'[q])
    BY <1>2, <2>2, StartedFact DEF Still
  <2> QED
    BY <1>11, <2>1, <2>3
<1>15. CASE Tick
  <2>1. UNCHANGED <<published, file, signals>>
    BY <1>15, Zenon DEF Tick
  <2>2. query' = [q \in Queries |-> IF query[q].run.on THEN Aged(query[q]) ELSE query[q]]
    BY <1>15, Zenon DEF Tick, Aged
  <2>3. \A q \in Queries : Still(query[q], Aged(query[q]))
    BY <1>2, AgedFact DEF Still
  <2>4. \A q \in Queries : Still(query[q], query'[q])
    BY <1>3, <2>2, <2>3
  <2> QED
    BY <1>11, <2>1, <2>4
<1>16. ASSUME NEW q \in Queries, Visit(q)
       PROVE  Moves \/ Writes
  <2>1. UNCHANGED <<published, query, signals>>
    BY <1>16 DEF Visit
  <2>2. CASE file' = file
    BY <1>4, <2>1, <2>2
  <2>3. CASE file' = Append(file, Stopped(q))
    <3>1. Stopped(q).event # "batch"
      BY DEF Stopped
    <3> QED
      BY <2>1, <2>3, <3>1 DEF Writes
  <2>4. CASE ~Polled(q) /\ file' = Append(file, Line(q))
    <3>1. Reported(q)
      BY <2>4 DEF Polled, Reported
    <3> QED
      BY <1>16, <2>1, <2>4, <3>1 DEF Writes
  <2> QED
    BY <1>16, <2>2, <2>3, <2>4 DEF Visit
<1> QED
  BY <1>6, <1>7, <1>8, <1>9, <1>10, <1>12, <1>13, <1>14, <1>15, <1>16
     DEF WaitNext, Engine, Poller

(* The lines of the file after one is written.                             *)
LEMMA FileFact ==
    ASSUME FileInv, NEW x, file' = Append(file, x)
    PROVE  \A i \in DOMAIN file' : \/ i \in DOMAIN file /\ file'[i] = file[i]
                                   \/ file'[i] = x
<1>1. PICK S : file \in Seq(S)
  BY DEF FileInv
<1>2. /\ Len(file) \in Nat /\ DOMAIN file = 1..Len(file)
      /\ DOMAIN Append(file, x) = 1..(Len(file) + 1)
      /\ \A i \in 1..Len(file) : Append(file, x)[i] = file[i]
      /\ Append(file, x)[Len(file) + 1] = x
  BY <1>1, AppendFact, Zenon
<1> DEFINE n == Len(file)
<1>3. /\ n \in Nat /\ DOMAIN file = 1..n /\ DOMAIN file' = 1..(n + 1)
      /\ \A i \in 1..n : file'[i] = file[i]
      /\ file'[n + 1] = x
  BY <1>2
<1> HIDE DEF n
<1> QED
  BY <1>3

LEMMA NumberedKeeps ==
    ASSUME FileInv, Numbered, Announces \/ Moves \/ Writes
    PROVE  Numbered'
<1>1. \A q \in Queries : /\ query[q].batch \in Int /\ query[q].offset \in Nat
                         /\ query[q].run.end \in Nat
  BY DEF FileInv, Records, Runs
<1>2. published \in Nat
  BY DEF FileInv
<1>3. CASE Announces
  BY <1>3 DEF Announces, Numbered, Reported, IsBatch
<1>4. CASE Moves
  <2>1. /\ file' = file /\ published' \in Nat /\ published' >= published
        /\ \A q \in Queries : \/ Still(query[q], query'[q])
                              \/ Begun(query[q], query'[q])
                              \/ Ended(query[q], query'[q])
    BY <1>4 DEF Moves
  <2>2. ASSUME NEW q \in Queries
        PROVE  /\ query'[q].batch >= NoOffset
               /\ query'[q].progress # NoProgress => query'[q].progress.batch \in Nat
               /\ query'[q].offset <= published'
               /\ query'[q].run.on => query'[q].run.end <= published'
    <3>1. /\ query[q].batch >= NoOffset
          /\ query[q].progress # NoProgress => query[q].progress.batch \in Nat
          /\ query[q].offset <= published
          /\ query[q].run.on => query[q].run.end <= published
      BY DEF Numbered, Reported
    <3>2. CASE Still(query[q], query'[q])
      BY <1>1, <1>2, <2>1, <3>1, <3>2 DEF Still
    <3>3. CASE Begun(query[q], query'[q])
      BY <1>1, <1>2, <2>1, <3>1, <3>3 DEF Begun
    <3>4. CASE Ended(query[q], query'[q])
      BY <1>1, <1>2, <2>1, <3>1, <3>4 DEF Ended, NoOffset
    <3> QED
      BY <2>1, <3>2, <3>3, <3>4
  <2>3. \A i \in DOMAIN file' : IsBatch(i)' => file'[i].batch \in Nat
    BY <2>1 DEF Numbered, IsBatch
  <2> QED
    BY <2>2, <2>3 DEF Numbered, Reported
<1>5. CASE Writes
  <2>1. /\ published' = published /\ query' = query
    BY <1>5 DEF Writes
  <2>2. PICK x : /\ file' = Append(file, x)
                 /\ x.event = "batch" => \E q \in Queries : Reported(q) /\ x = Line(q)
    BY <1>5 DEF Writes
  <2>3. x.event = "batch" => x.batch \in Nat
    <3> SUFFICES ASSUME NEW q \in Queries, Reported(q), x = Line(q)
                 PROVE  x.batch \in Nat
      BY <2>2
    <3>1. query[q].progress \in Reports /\ query[q].progress.batch \in Nat
      BY DEF FileInv, Numbered
    <3> QED
      BY <3>1, LineFact
  <2>4. \A i \in DOMAIN file' : (i \in DOMAIN file /\ file'[i] = file[i]) \/ file'[i] = x
    BY <2>2, FileFact
  <2>5. \A i \in DOMAIN file' : IsBatch(i)' => file'[i].batch \in Nat
    BY <2>3, <2>4 DEF Numbered, IsBatch
  <2> QED
    BY <2>1, <2>5 DEF Numbered, Reported
<1> QED
  BY <1>3, <1>4, <1>5

(* What is owed when a watermark has been moved was confirmed before.      *)
LEMMA NothingIsOwedKeeps ==
    ASSUME FileInv, NothingIsOwed, Announces \/ Moves \/ Writes
    PROVE  NothingIsOwed'
<1>1. Sequencer \in Queries
  BY ProgressAssumption
<1> DEFINE r == query[Sequencer]
           x == query'[Sequencer]
<1>2. /\ r.offset \in Nat /\ r.run.end \in Nat
      /\ r.run.end >= r.offset \/ ~r.run.on
  BY <1>1 DEF FileInv, Records, Runs
<1>3. Alarms \subseteq Nat
  BY ProgressAssumption
<1>4. ASSUME signals \subseteq signals', x.due = r.due, x.offset = r.offset
      PROVE  NothingIsOwed'
  BY <1>4 DEF NothingIsOwed
<1>5. CASE Announces \/ Writes
  BY <1>4, <1>5 DEF Announces, Writes
<1>6. CASE Moves /\ ~Ended(r, x)
  BY <1>1, <1>4, <1>6 DEF Moves, Still, Begun
<1>7. CASE Moves /\ Ended(r, x)
  <2>1. /\ r.run.on /\ x.offset = r.run.end /\ x.due = (r.run.end > r.offset)
        /\ signals' = signals
    BY <1>7 DEF Moves, Ended
  <2>2. Confirmed(Sequencer) = {}
    BY <1>1, <1>7 DEF Moves, Still, Begun, Ended
  <2>3. \A a \in Alarms : a <= r.offset => \E s \in signals : s.alarm = a
    BY <2>2 DEF Confirmed
  <2>4. ~x.due => x.offset = r.offset
    <3>1. x.due = (r.run.end > r.offset) /\ x.offset = r.run.end
      BY <2>1
    <3>2. r.run.end > r.offset \/ r.run.end = r.offset
      BY <1>2, <2>1
    <3> HIDE DEF r, x
    <3> QED
      BY <3>1, <3>2, Zenon
  <2> QED
    BY <2>1, <2>3, <2>4 DEF NothingIsOwed
<1> QED
  BY <1>5, <1>6, <1>7

LEMMA ConfirmedFact ==
    ASSUME NEW s \in Confirmed(Sequencer), query[Sequencer].batch + 1 \in Nat,
           query[Sequencer].offset \in Nat
    PROVE  /\ s \in Signal /\ s.alarm <= query[Sequencer].offset
           /\ s.batch = query[Sequencer].batch + 1 /\ s.wm = query[Sequencer].offset
           /\ \A t \in signals : t.alarm # s.alarm
           /\ \A t \in Confirmed(Sequencer) : t.alarm = s.alarm => t = s
  BY DEF Confirmed, Signal

(* What is said of a signal, by the query and by a line of it.             *)
Placed(s, r) ==
    /\ s \in Signal /\ s.alarm <= s.wm /\ s.wm <= r.offset
    /\ s.batch <= r.batch + 1
    /\ s.batch = r.batch + 1 => r.run.on /\ s.wm = r.offset
    /\ r.progress # NoProgress /\ r.progress.batch = s.batch => r.progress.wm = s.wm

Told(s, line) ==
    line.query = Sequencer /\ line.event = "batch" /\ line.batch = s.batch => line.wm = s.wm

LEMMA PlacedFact ==
    SignalsAreOfBatches <=>
        \A s \in signals :
           /\ Placed(s, query[Sequencer])
           /\ \A i \in DOMAIN file : Told(s, file[i])
           /\ \A t \in signals : t.alarm = s.alarm => t = s
  BY DEF SignalsAreOfBatches, Placed, Told, BatchLines, Reported

LEMMA SignalsKeep ==
    ASSUME FileInv, Numbered, SignalsAreOfBatches, Announces \/ Moves \/ Writes
    PROVE  SignalsAreOfBatches'
<1>1. Sequencer \in Queries
  BY ProgressAssumption
<1> DEFINE r == query[Sequencer]
           x == query'[Sequencer]
<1>2. /\ r.offset \in Nat /\ r.run.end \in Nat /\ r.batch \in Int /\ r.batch + 1 \in Nat
      /\ r.run.end >= r.offset \/ ~r.run.on
      /\ r.progress # NoProgress => /\ r.progress.batch \in Int
                                    /\ r.progress.batch <= r.batch
  BY <1>1 DEF FileInv, Records, Runs, Reports, Reported, Numbered, NoOffset
<1>3. \A s \in signals : /\ Placed(s, r) /\ \A i \in DOMAIN file : Told(s, file[i])
                         /\ \A t \in signals : t.alarm = s.alarm => t = s
  BY PlacedFact
<1>4. ASSUME \A s \in signals' :
                /\ Placed(s, x)
                /\ \A i \in DOMAIN file' : Told(s, file'[i])
                /\ \A t \in signals' : t.alarm = s.alarm => t = s
      PROVE  SignalsAreOfBatches'
  BY <1>4, Zenon DEF SignalsAreOfBatches, Placed, Told, BatchLines, Reported
<1>5. CASE Announces
  <2>1. /\ x = r /\ file' = file /\ signals' = signals \cup Confirmed(Sequencer) /\ r.run.on
    BY <1>5 DEF Announces
  <2>2. ASSUME NEW s \in Confirmed(Sequencer)
        PROVE  /\ Placed(s, r) /\ \A i \in DOMAIN file : Told(s, file[i])
               /\ \A t \in signals' : t.alarm = s.alarm => t = s
    <3>1. /\ s \in Signal /\ s.alarm <= r.offset /\ s.batch = r.batch + 1 /\ s.wm = r.offset
          /\ \A t \in signals : t.alarm # s.alarm
          /\ \A t \in Confirmed(Sequencer) : t.alarm = s.alarm => t = s
      BY <1>2, ConfirmedFact
    <3>2. Placed(s, r)
      BY <1>2, <2>1, <3>1 DEF Placed
    <3>3. ASSUME NEW i \in DOMAIN file, file[i].query = Sequencer, file[i].event = "batch"
          PROVE  file[i].batch # s.batch
      <4>1. file[i].batch \in Int /\ file[i].batch <= r.batch
        BY <3>3 DEF FileInv, IsBatch
      <4> QED
        BY <1>2, <3>1, <4>1
    <3> QED
      BY <2>1, <3>1, <3>2, <3>3 DEF Told
  <2>3. ASSUME NEW s \in signals
        PROVE  \A t \in signals' : t.alarm = s.alarm => t = s
    BY <1>2, <1>3, <2>1, ConfirmedFact
  <2> HIDE DEF r, x
  <2> QED
    BY <1>3, <1>4, <2>1, <2>2, <2>3
<1>6. CASE Moves
  <2>1. /\ file' = file /\ signals' = signals
        /\ Still(r, x) \/ Begun(r, x) \/ Ended(r, x)
    BY <1>1, <1>6 DEF Moves
  <2>2. ASSUME NEW s \in signals
        PROVE  Placed(s, x)
    <3>1. Placed(s, r) /\ s \in Signal /\ s.wm \in Nat /\ s.batch \in Nat /\ s.alarm \in Alarms
      BY <1>3 DEF Placed, Signal
    <3> HIDE DEF r, x
    <3>2. CASE Still(r, x)
      BY <3>1, <3>2 DEF Placed, Still
    <3>3. CASE Begun(r, x)
      BY <3>1, <3>3 DEF Placed, Begun
    <3>4. CASE Ended(r, x)
      BY <1>2, <3>1, <3>4 DEF Placed, Ended
    <3> QED
      BY <2>1, <3>2, <3>3, <3>4
  <2> HIDE DEF r, x
  <2> QED
    BY <1>3, <1>4, <2>1, <2>2
<1>7. CASE Writes
  <2>1. x = r /\ signals' = signals
    BY <1>7 DEF Writes
  <2>2. PICK y : /\ file' = Append(file, y)
                 /\ y.event = "batch" => \E q \in Queries : Reported(q) /\ y = Line(q)
    BY <1>7 DEF Writes
  <2>3. ASSUME NEW s \in signals
        PROVE  Told(s, y)
    <3> SUFFICES ASSUME y.query = Sequencer, NEW q \in Queries, Reported(q), y = Line(q)
                 PROVE  y.batch = s.batch => y.wm = s.wm
      BY <2>2 DEF Told
    <3>1. query[q].progress \in Reports
      BY DEF FileInv
    <3>2. y.query = q /\ y.batch = query[q].progress.batch /\ y.wm = query[q].progress.wm
      BY <3>1, LineFact
    <3> QED
      BY <1>3, <3>2 DEF Placed, Reported
  <2>4. \A i \in DOMAIN file' : (i \in DOMAIN file /\ file'[i] = file[i]) \/ file'[i] = y
    BY <2>2, FileFact
  <2>5. \A s \in signals : \A i \in DOMAIN file' : Told(s, file'[i])
    BY <1>3, <2>3, <2>4
  <2> HIDE DEF r, x
  <2> QED
    BY <1>3, <1>4, <2>1, <2>5
<1> QED
  BY <1>5, <1>6, <1>7

(* The least of a set of naturals, and the greatest of a bounded one.      *)
LEMMA MinFact ==
    ASSUME NEW S \in SUBSET Nat, S # {}
    PROVE  Min(S) \in S /\ \A x \in S : Min(S) <= x
<1> DEFINE R == OpToRel(<, Nat)
<1>1. IsWellFoundedOn(R, Nat)
  BY NatLessThanWellFounded
<1>2. \A x, y \in Nat : y < x => <<y, x>> \in R
  BY DEF OpToRel
<1>3. PICK x \in S : \A y \in S : ~ (<<y, x>> \in R)
  <2> HIDE DEF R
  <2> QED
    BY <1>1, WFMin
<1>4. x \in Nat /\ \A y \in S : y \in Nat /\ ~ (y < x)
  BY <1>2, <1>3
<1>5. \E z \in S : \A y \in S : z =< y
  BY <1>4
<1> QED
  BY <1>5 DEF Min

LEMMA MaxFact ==
    ASSUME NEW n \in Nat, NEW S \in SUBSET (1..n), S # {}
    PROVE  Max(S) \in S
<1> DEFINE T == {n - x : x \in S}
<1>1. T \in SUBSET Nat /\ T # {}
  <2>1. \A x \in S : n - x \in Nat
    OBVIOUS
  <2>2. PICK x \in S : TRUE
    OBVIOUS
  <2> QED
    BY <2>1, <2>2
<1>2. Min(T) \in T /\ \A y \in T : Min(T) <= y
  <2> HIDE DEF T
  <2> QED
    BY <1>1, MinFact
<1>3. PICK x \in S : \A y \in S : n - x <= n - y
  BY <1>2
<1>4. \A y \in S : x >= y
  BY <1>3
<1>5. \E z \in S : \A y \in S : z >= y
  BY <1>4
<1> QED
  BY <1>5 DEF Max

LEMMA RecentFact == FileInv /\ Batches # {} => Max(Batches) \in Batches
<1> SUFFICES ASSUME FileInv, Batches # {}
             PROVE  Max(Batches) \in Batches
  OBVIOUS
<1>1. PICK S : file \in Seq(S)
  BY DEF FileInv
<1>2. Len(file) \in Nat /\ DOMAIN file = 1..Len(file)
  BY <1>1
<1>3. Batches \in SUBSET (1..Len(file))
  BY <1>2 DEF Batches, BatchLines
<1> HIDE DEF Batches
<1> QED
  BY <1>2, <1>3, MaxFact

(* No step gives up what the sequencer has committed.                      *)
LEMMA OffsetGrows ==
    ASSUME FileInv, [WaitNext]_waitVars
    PROVE  /\ query[Sequencer].offset \in Int /\ query'[Sequencer].offset \in Int
           /\ query'[Sequencer].offset >= query[Sequencer].offset
<1>1. Sequencer \in Queries
  BY ProgressAssumption
<1> DEFINE r == query[Sequencer]
           x == query'[Sequencer]
<1>2. /\ r.offset \in Nat /\ r.run.end \in Nat
      /\ r.run.end >= r.offset \/ ~r.run.on
  BY <1>1 DEF FileInv, Records, Runs
<1>3. x = r \/ Still(r, x) \/ Begun(r, x) \/ Ended(r, x)
  BY <1>1, Steps DEF Announces, Moves, Writes
<1> HIDE DEF r, x
<1>4. x.offset \in Nat /\ x.offset >= r.offset
  BY <1>2, <1>3 DEF Still, Begun, Ended
<1> QED
  BY <1>2, <1>4 DEF r, x

LEMMA WaiterInvKeeps == FileInv /\ WaiterInv /\ [WaitNext]_waitVars => WaiterInv'
<1> SUFFICES ASSUME FileInv, WaiterInv, [WaitNext]_waitVars
             PROVE  WaiterInv'
  OBVIOUS
<1> DEFINE n == query[Sequencer].offset
           m == query'[Sequencer].offset
<1>1. WholeWaiter(waiter) /\ Covered(waiter, n)
  BY DEF WaiterInv
<1>2. n \in Int /\ m \in Int /\ m >= n
  BY OffsetGrows
<1> HIDE DEF n, m
<1>3. ASSUME WholeWaiter(waiter'), Covered(waiter', n)
      PROVE  WaiterInv'
  <2>1. \A e \in Int : e <= n => e <= m
    BY <1>2
  <2>2. Covered(waiter', m)
    BY <1>3, <2>1, Zenon DEF Covered
  <2> QED
    BY <1>3, <2>2 DEF WaiterInv, m
<1>4. CASE UNCHANGED waiter
  <2>1. waiter' = waiter
    BY <1>4
  <2> QED
    BY <1>1, <1>3, <2>1
<1>5. ASSUME WholeWaiter(waiter'), waiter'.said = waiter.said, waiter'.from = waiter.from
      PROVE  WaiterInv'
  BY <1>1, <1>3, <1>5 DEF Covered
<1>6. CASE Begin
  <2>1. waiter' = [waiter EXCEPT !.pc = "waiting", !.asked = published]
    BY <1>6 DEF Begin
  <2> QED
    BY <1>1, <1>5, <2>1 DEF WholeWaiter
<1>7. CASE Tick
  <2>1. waiter' = [waiter EXCEPT !.quiet = @ + 1, !.waited = @ + 1]
    BY <1>7, Zenon DEF Tick
  <2> QED
    BY <1>1, <1>5, <2>1 DEF WholeWaiter
<1>8. CASE TimesOut
  <2>1. waiter' = [waiter EXCEPT !.pc = "done", !.said = "timeout"]
    BY <1>8, Zenon DEF TimesOut
  <2>2. WholeWaiter(waiter') /\ waiter'.said = "timeout"
    BY <1>1, <2>1 DEF WholeWaiter
  <2> QED
    BY <1>3, <2>2 DEF Covered
<1>9. CASE Look
  <2>1. waiter' = IF Answer # ""
                  THEN [waiter EXCEPT !.pc = "done", !.said = Answer,
                                      !.from = IF Answer = "stopped" THEN @ ELSE Recent]
                  ELSE [waiter EXCEPT !.quiet = Quiet,
                                      !.last = IF Batches = {} THEN @ ELSE Recent.batch]
    BY <1>9, Zenon DEF Look
  <2>2. CASE Answer = ""
    <3> DEFINE quiet == Quiet
               last == IF Batches = {} THEN waiter.last ELSE Recent.batch
    <3>1. waiter' = [waiter EXCEPT !.quiet = quiet, !.last = last]
      BY <2>1, <2>2
    <3> HIDE DEF quiet, last
    <3> QED
      BY <1>1, <1>5, <3>1 DEF WholeWaiter
  <2>3. CASE Answer # ""
    <3> DEFINE said == Answer
               from == IF Answer = "stopped" THEN waiter.from ELSE Recent
    <3>1. waiter' = [waiter EXCEPT !.pc = "done", !.said = said, !.from = from]
      BY <2>1, <2>3
    <3> HIDE DEF said, from
    <3>2. WholeWaiter(waiter') /\ waiter'.said = said /\ waiter'.from = from
      BY <1>1, <3>1 DEF WholeWaiter
    <3>3. CASE said = "caught up"
      <4>1. SaysCaughtUp /\ from = Recent
        BY <3>3 DEF said, from, Answer
      <4>2. Batches # {} /\ Recent.end = Recent.latest
        BY <4>1 DEF SaysCaughtUp
      <4>3. Recent.end \in Int /\ Recent.end <= n
        <5> DEFINE i == Max(Batches)
        <5>1. i \in Batches
          BY <4>2, RecentFact
        <5> HIDE DEF i
        <5>2. i \in DOMAIN file /\ IsBatch(i) /\ file[i].query = Sequencer
          BY <5>1 DEF Batches, BatchLines, IsBatch
        <5>3. file[i].end \in Int /\ file[i].end <= query[Sequencer].offset
          BY <5>2 DEF FileInv
        <5> QED
          BY <5>3 DEF Recent, i, n
      <4> HIDE DEF Recent
      <4> QED
        BY <1>3, <3>2, <4>1, <4>2, <4>3 DEF Covered
    <3>4. CASE said # "caught up"
      BY <1>3, <3>2, <3>4 DEF Covered
    <3> QED
      BY <3>3, <3>4
  <2> QED
    BY <2>2, <2>3
<1> QED
  BY <1>4, <1>6, <1>7, <1>8, <1>9 DEF WaitNext, waitVars

LEMMA Begins == WaitInit => FileInv /\ ProbeInv /\ WaiterInv
<1> SUFFICES ASSUME WaitInit
             PROVE  FileInv /\ ProbeInv /\ WaiterInv
  OBVIOUS
<1>1. /\ published = 0 /\ main = "await" /\ query = [q \in Queries |-> Idle]
      /\ visiting = {} /\ file = <<>> /\ signals = {}
  BY Zenon DEF WaitInit, Init
<1>2. /\ Idle \in Records /\ Idle.progress = NoProgress /\ ~Idle.run.on
      /\ Idle.batch = NoOffset /\ Idle.offset = 0 /\ Idle.due
  <2>1. NoBatch \in Runs /\ ~NoBatch.on
    BY DEF NoBatch, Runs, NoOffset
  <2> DEFINE b == NoBatch
             p == NoProgress
  <2>2. b \in Runs /\ ~b.on /\ p \in {NoProgress} \cup Reports
    BY <2>1
  <2>3. Idle = [active |-> TRUE, offset |-> 0, batch |-> NoOffset, due |-> TRUE, run |-> b,
                progress |-> p]
    BY DEF Idle
  <2>4. p = NoProgress /\ NoOffset \in Int
    BY DEF NoOffset
  <2> HIDE DEF b, p
  <2> QED
    BY <2>2, <2>3, <2>4 DEF Records
<1>3. Sequencer \in Queries
  BY ProgressAssumption
<1>4. \A q \in Queries : query[q] = Idle
  BY <1>1
<1>5. query \in [Queries -> Records]
  BY <1>1, <1>2
<1>6. file \in Seq({}) /\ DOMAIN file = {}
  BY <1>1
<1>7. FileInv
  BY <1>1, <1>2, <1>4, <1>5, <1>6 DEF FileInv, Reported, NoBatchTwice
<1>8. ProbeInv
  <2>1. Numbered
    <3>1. NoOffset >= NoOffset /\ 0 <= 0
      BY DEF NoOffset
    <3> QED
      BY <1>1, <1>2, <1>4, <1>6, <3>1 DEF Numbered, Reported
  <2>2. SignalsAreOfBatches
    BY <1>1 DEF SignalsAreOfBatches
  <2>3. NothingIsOwed
    BY <1>2, <1>3, <1>4 DEF NothingIsOwed
  <2> QED
    BY <2>1, <2>2, <2>3 DEF ProbeInv
<1>9. WaiterInv
  <2>1. waiter = [pc |-> "away", said |-> "", from |-> NoProgress, asked |-> 0,
                  last |-> NoOffset, quiet |-> 0, waited |-> 0]
    BY Zenon DEF WaitInit
  <2> QED
    BY <2>1 DEF WaiterInv, WholeWaiter, Covered
<1> QED
  BY <1>7, <1>8, <1>9

LEMMA FileInvKeeps == FileInv /\ [WaitNext]_waitVars => FileInv'
  BY EngineKeeps, VisitKeeps, WaiterKeeps DEF WaitNext, Poller

(* Whatever ends a query or the process, and whatever the poller misses,   *)
(* a line of progress.jsonl is of a batch the checkpoint has, and no batch *)
(* has two (progress.py:74-114).                                           *)
THEOREM LinesAreHistory == WaitSpec => []FileIsSound
<1>1. FileInv => FileIsSound
  BY DEF FileInv, FileIsSound, LinesAreCommitted, IsBatch
<1> QED
  BY <1>1, Begins, FileInvKeeps, PTL DEF WaitSpec

LEMMA ProbeInvKeeps == FileInv /\ ProbeInv /\ [WaitNext]_waitVars => ProbeInv'
  BY Steps, NumberedKeeps, SignalsKeep, NothingIsOwedKeeps DEF ProbeInv

(* The waiter says "caught up" only of what is committed: unless something *)
(* was published since, nothing is left to read, whatever crash followed   *)
(* (wait_for_drain.py:75-83).                                              *)
THEOREM CaughtUpIsCommitted == WaitSpec => []CaughtUpIsTrue
<1>1. FileInv /\ ProbeInv /\ WaiterInv => CaughtUpIsTrue
  <2> DEFINE n == query[Sequencer].offset
  <2>1. \A i, j \in Nat : i <= j /\ j <= i => i = j
    OBVIOUS
  <2> SUFFICES ASSUME FileInv, ProbeInv, WaiterInv,
                      waiter.said = "caught up", waiter.from.latest = published
               PROVE  n = published
    BY DEF CaughtUpIsTrue
  <2>2. Sequencer \in Queries
    BY ProgressAssumption
  <2>3. n \in Nat /\ published \in Nat
    BY <2>2 DEF FileInv, Records
  <2>4. n <= published
    BY <2>2 DEF ProbeInv, Numbered
  <2>5. published <= n
    BY DEF WaiterInv, Covered
  <2> HIDE DEF n
  <2> QED
    BY <2>3, <2>4, <2>5, <2>1, Zenon
<1>2. FileInv /\ ProbeInv /\ WaiterInv /\ [WaitNext]_waitVars
         => FileInv' /\ ProbeInv' /\ WaiterInv'
  BY FileInvKeeps, ProbeInvKeeps, WaiterInvKeeps
<1> QED
  BY <1>1, <1>2, Begins, PTL DEF WaitSpec

(* One signal is left of every gap the sequencer has read past.            *)
LEMMA SignalsAreCounted ==
    ASSUME FileInv, ProbeInv, query[Sequencer].offset = published, ~query[Sequencer].due
    PROVE  /\ Deduped = signals /\ Cardinality(Deduped) = Cardinality(Due)
           /\ signals = {} <=> Due = {}
<1>1. Sequencer \in Queries /\ Alarms \subseteq Nat
  BY ProgressAssumption
<1>2. published \in Nat
  BY DEF FileInv
<1>3. \A s \in signals : /\ s \in Signal /\ s.alarm <= s.wm /\ s.wm <= published
                         /\ \A t \in signals : t.alarm = s.alarm => t = s
  BY DEF ProbeInv, SignalsAreOfBatches
<1>4. Deduped = signals
  BY <1>3 DEF Deduped, Signal
<1>5. \A a \in Due : \E s \in signals : s.alarm = a
  BY DEF Due, ProbeInv, NothingIsOwed
<1>6. ASSUME NEW s \in signals
      PROVE  s.alarm \in Due
  <2> DEFINE a == s.alarm
             w == s.wm
  <2>1. a \in Alarms /\ w \in Nat /\ a <= w /\ w <= published
    BY <1>3 DEF Signal
  <2> HIDE DEF a, w
  <2>2. a <= published
    BY <1>1, <1>2, <2>1
  <2> QED
    BY <2>1, <2>2 DEF Due, a
<1> DEFINE f == [a \in Due |-> CHOOSE s \in signals : s.alarm = a]
<1>7. \A a \in Due : f[a] \in signals /\ f[a].alarm = a
  BY <1>5
<1> HIDE DEF f
<1>8. f \in [Due -> signals]
  BY <1>7 DEF f
<1>9. f \in Bijection(Due, signals)
  <2>1. \A a, b \in Due : f[a] = f[b] => a = b
    BY <1>7
  <2>2. \A s \in signals : \E a \in Due : f[a] = s
    BY <1>3, <1>6, <1>7
  <2> QED
    BY <1>8, <2>1, <2>2 DEF Bijection, Injection, Surjection, IsInjective
<1>10. IsFiniteSet(Due)
  <2>1. \A a \in Due : a \in 0..published
    BY <1>1, <1>2 DEF Due
  <2>2. Due \in SUBSET (0..published)
    BY <2>1, Zenon
  <2>3. IsFiniteSet(0..published)
    BY <1>2, FS_Interval
  <2> QED
    BY <2>2, <2>3, FS_Subset
<1>11. Cardinality(signals) = Cardinality(Due)
  BY <1>9, <1>10, FS_Bijection DEF ExistsBijection
<1> QED
  BY <1>4, <1>5, <1>6, <1>11

(* The probe passes on any run that has drained and whose lines are all    *)
(* there, whatever deaths, replays of a batch and late polls came before   *)
(* (gap_timing_probe.py:154-281).                                          *)
THEOREM ProbePassesWhenDrained == WaitSpec => []DrainedRunPasses
<1>1. FileInv /\ ProbeInv => DrainedRunPasses
  <2> SUFFICES ASSUME FileInv, ProbeInv, ~query[Sequencer].run.on, ~Work(Sequencer),
                      EveryBatchHasItsLine
               PROVE  /\ Due = {} => Silent
                      /\ Due # {} => ProbePasses(Cardinality(Due))
    BY DEF DrainedRunPasses
  <2>1. Sequencer \in Queries /\ Alarms \subseteq Nat
    BY ProgressAssumption
  <2>2. /\ published \in Nat /\ query[Sequencer].offset \in Nat
        /\ query[Sequencer].batch \in Int
    BY <2>1 DEF FileInv, Records
  <2>3. query[Sequencer].offset = published /\ ~query[Sequencer].due
    BY <2>1, <2>2 DEF Work, ProbeInv, Numbered
  <2>4. Deduped = signals /\ Cardinality(Deduped) = Cardinality(Due)
    BY <2>3, SignalsAreCounted
  <2>5. signals = {} <=> Due = {}
    BY <2>3, SignalsAreCounted
  <2>6. ASSUME NEW s \in signals
        PROVE  NotBefore(s)
    <3>1. /\ s.alarm \in Nat /\ s.wm \in Nat /\ s.batch \in Nat
          /\ s.alarm <= s.wm /\ s.batch <= query[Sequencer].batch + 1
          /\ s.batch # query[Sequencer].batch + 1
          /\ \A i \in BatchLines(Sequencer) : file[i].batch = s.batch => file[i].wm = s.wm
      BY <2>1 DEF ProbeInv, SignalsAreOfBatches, Signal
    <3>2. s.batch \in 0..query[Sequencer].batch
      BY <2>2, <3>1
    <3>3. PICK i \in BatchLines(Sequencer) : file[i].batch = s.batch
      BY <3>2 DEF EveryBatchHasItsLine
    <3>4. file[i] \in Lines /\ file[i].wm >= s.alarm
      BY <3>1, <3>3 DEF Lines, BatchLines
    <3>5. s.batch \in Eligible(s.alarm)
      BY <3>3, <3>4 DEF Eligible
    <3>6. Eligible(s.alarm) \in SUBSET Nat
      BY DEF Eligible, Lines, ProbeInv, Numbered, IsBatch
    <3>7. Min(Eligible(s.alarm)) <= s.batch
      BY <3>5, <3>6, MinFact
    <3>8. Min(Eligible(s.alarm)) \in Nat
      BY <3>5, <3>6, MinFact
    <3> QED
      BY <3>1, <3>7, <3>8 DEF NotBefore
  <2> QED
    BY <2>4, <2>5, <2>6 DEF ProbePasses, Silent
<1>2. FileInv /\ ProbeInv /\ [WaitNext]_waitVars => FileInv' /\ ProbeInv'
  BY FileInvKeeps, ProbeInvKeeps
<1> QED
  BY <1>1, <1>2, Begins, PTL DEF WaitSpec

(***************************************************************************)
(* What a query reads: the decoder, for every topic, registry and number   *)
(* of outages                                                              *)
(***************************************************************************)

(* The positions of the events between two offsets, in order.              *)
Lists(s, from, to) ==
    /\ s \in Seq(Nat)
    /\ \A j, k \in DOMAIN s : j < k => s[j] < s[k]
    /\ \A j \in DOMAIN s : s[j] \in (from + 1)..to /\ IsEvent(s[j])
    /\ \A i \in (from + 1)..to : IsEvent(i) => \E j \in DOMAIN s : s[j] = i

(* What is decoded so far of the batch in flight is beside what was passed;*)
(* a query that is down has dropped it.                                    *)
DecoderInv ==
    /\ topic \in Topics
    /\ offset \in Nat /\ pos \in Nat /\ end \in Nat
    /\ offset <= pos /\ pos <= end /\ end <= Len(topic)
    /\ cache \subseteq Registered
    /\ ~running => pos = offset
    /\ Lists(passed, 0, offset)
    /\ Lists(rows, offset, pos)
    /\ \A i \in 1..pos : ~IsPoison(i)

LEMMA ListsNothing ==
    ASSUME NEW n \in Nat
    PROVE  Lists(<<>>, n, n)
  BY DEF Lists

LEMMA ListsOneMore ==
    ASSUME NEW s, NEW a \in Nat, NEW b \in Nat, a <= b, Lists(s, a, b), IsEvent(b + 1)
    PROVE  Lists(Append(s, b + 1), a, b + 1)
<1> DEFINE t == Append(s, b + 1)
<1>1. s \in Seq(Nat) /\ t \in Seq(Nat)
  BY DEF Lists
<1>20. /\ Len(s) \in Nat /\ Len(t) = Len(s) + 1
      /\ DOMAIN s = 1..Len(s) /\ DOMAIN t = 1..(Len(s) + 1)
  BY <1>1
<1>2. (\A j \in DOMAIN s : t[j] = s[j]) /\ t[Len(s) + 1] = b + 1
  BY <1>1, <1>20, AppendProperties
<1> HIDE DEF t
<1>3. t[Len(s) + 1] = b + 1
  BY <1>2
<1>4. \A j \in DOMAIN t : j \in DOMAIN s \/ j = Len(s) + 1
  BY <1>20
<1>5. \A j \in DOMAIN s : j \in DOMAIN t /\ j < Len(s) + 1
  BY <1>20
<1>6. Len(s) + 1 \in DOMAIN t
  BY <1>20
<1>7. ASSUME NEW j \in DOMAIN t, NEW k \in DOMAIN t, j < k
      PROVE  t[j] < t[k]
  <2>1. j \in DOMAIN s
    BY <1>20, <1>4, <1>7
  <2>2. CASE k \in DOMAIN s
    BY <1>2, <2>1, <2>2, <1>7 DEF Lists
  <2>3. CASE k = Len(s) + 1
    BY <1>2, <1>3, <2>1, <2>3 DEF Lists
  <2> QED
    BY <1>4, <2>2, <2>3
<1>8. \A j \in DOMAIN t : t[j] \in (a + 1)..(b + 1) /\ IsEvent(t[j])
  <2> TAKE j \in DOMAIN t
  <2>1. CASE j \in DOMAIN s
    <3>1. t[j] = s[j] /\ s[j] \in (a + 1)..b /\ IsEvent(s[j])
      BY <1>2, <2>1 DEF Lists
    <3> QED
      BY <3>1
  <2>2. CASE j = Len(s) + 1
    BY <1>3, <2>2
  <2> QED
    BY <1>4, <2>1, <2>2
<1>9. \A i \in (a + 1)..(b + 1) : IsEvent(i) => \E j \in DOMAIN t : t[j] = i
  <2> TAKE i \in (a + 1)..(b + 1)
  <2> HAVE IsEvent(i)
  <2>1. CASE i = b + 1
    BY <1>3, <1>6, <2>1
  <2>2. CASE i # b + 1
    <3>1. i \in (a + 1)..b
      BY <2>2
    <3>2. PICK j \in DOMAIN s : s[j] = i
      BY <3>1 DEF Lists
    <3> QED
      BY <1>2, <1>5, <3>2
  <2> QED
    BY <2>1, <2>2
<1>10. Lists(t, a, b + 1)
  BY <1>1, <1>7, <1>8, <1>9 DEF Lists
<1> QED
  BY <1>10 DEF t

LEMMA ListsSkipped ==
    ASSUME NEW s, NEW a \in Nat, NEW b \in Nat, a <= b, Lists(s, a, b), ~IsEvent(b + 1)
    PROVE  Lists(s, a, b + 1)
<1>1. \A j \in DOMAIN s : s[j] \in (a + 1)..(b + 1)
  BY DEF Lists
<1>2. \A i \in (a + 1)..(b + 1) : IsEvent(i) => i \in (a + 1)..b
  OBVIOUS
<1> QED
  BY <1>1, <1>2 DEF Lists

LEMMA ListsJoined ==
    ASSUME NEW s, NEW t, NEW a \in Nat, NEW b \in Nat, a <= b,
           Lists(s, 0, a), Lists(t, a, b)
    PROVE  Lists(s \o t, 0, b)
<1> DEFINE u == s \o t
<1>1. s \in Seq(Nat) /\ t \in Seq(Nat) /\ u \in Seq(Nat)
  BY DEF Lists
<1>20. /\ Len(s) \in Nat /\ Len(t) \in Nat
      /\ DOMAIN s = 1..Len(s) /\ DOMAIN t = 1..Len(t) /\ DOMAIN u = 1..(Len(s) + Len(t))
  BY <1>1
<1>0. \A j \in DOMAIN u : u[j] = IF j <= Len(s) THEN s[j] ELSE t[j - Len(s)]
  BY <1>1, <1>20, ConcatProperties
<1> HIDE DEF u
<1>2. \A j \in DOMAIN u : \/ j \in DOMAIN s /\ u[j] = s[j]
                          \/ j > Len(s) /\ j - Len(s) \in DOMAIN t /\ u[j] = t[j - Len(s)]
  <2> TAKE j \in DOMAIN u
  <2>1. CASE j <= Len(s)
    BY <1>0, <1>20, <2>1
  <2>2. CASE ~(j <= Len(s))
    <3>1. j > Len(s) /\ j - Len(s) \in DOMAIN t
      BY <1>20, <2>2
    <3> QED
      BY <1>0, <2>2, <3>1
  <2> QED
    BY <2>1, <2>2
<1>3. \A j \in DOMAIN s : j \in DOMAIN u /\ u[j] = s[j]
  BY <1>0, <1>20
<1>4. \A j \in DOMAIN t : j + Len(s) \in DOMAIN u /\ u[j + Len(s)] = t[j]
  <2> TAKE j \in DOMAIN t
  <2>1. j + Len(s) \in DOMAIN u /\ ~(j + Len(s) <= Len(s)) /\ (j + Len(s)) - Len(s) = j
    BY <1>20
  <2> QED
    BY <1>0, <2>1
<1>5. \A j \in DOMAIN s : j \in Nat /\ j <= Len(s) /\ s[j] \in 1..a /\ IsEvent(s[j])
  BY <1>1 DEF Lists
<1>6. \A j \in DOMAIN t : t[j] \in (a + 1)..b /\ IsEvent(t[j])
  BY DEF Lists
<1>7. \A j \in DOMAIN u : j \in Nat
  BY <1>20
<1>8. Len(s) \in Nat
  BY <1>20
<1>9. ASSUME NEW j \in DOMAIN u, NEW k \in DOMAIN u, j < k
      PROVE  u[j] < u[k]
  <2>1. CASE j \in DOMAIN s /\ k \in DOMAIN s
    BY <1>3, <1>9, <2>1 DEF Lists
  <2>2. CASE j \in DOMAIN s /\ k \notin DOMAIN s
    <3>1. u[j] \in 1..a
      BY <1>3, <1>5, <2>2
    <3>2. u[k] \in (a + 1)..b
      BY <1>2, <1>6, <2>2
    <3> QED
      BY <3>1, <3>2
  <2>3. CASE j \notin DOMAIN s
    <3>1. k \notin DOMAIN s
      BY <1>2, <1>5, <1>7, <1>8, <1>9, <2>3
    <3>2. /\ j - Len(s) \in DOMAIN t /\ u[j] = t[j - Len(s)]
          /\ k - Len(s) \in DOMAIN t /\ u[k] = t[k - Len(s)]
      BY <1>2, <2>3, <3>1
    <3>3. j - Len(s) < k - Len(s)
      BY <1>7, <1>8, <1>9
    <3> QED
      BY <3>2, <3>3 DEF Lists
  <2> QED
    BY <2>1, <2>2, <2>3
<1>10. \A j \in DOMAIN u : u[j] \in 1..b /\ IsEvent(u[j])
  <2> TAKE j \in DOMAIN u
  <2>1. (u[j] \in 1..a \/ u[j] \in (a + 1)..b) /\ IsEvent(u[j])
    BY <1>2, <1>5, <1>6
  <2> QED
    BY <2>1
<1>11. \A i \in 1..b : IsEvent(i) => \E j \in DOMAIN u : u[j] = i
  <2> TAKE i \in 1..b
  <2> HAVE IsEvent(i)
  <2>1. CASE i \in 1..a
    <3>1. PICK j \in DOMAIN s : s[j] = i
      BY <2>1 DEF Lists
    <3> QED
      BY <1>3, <3>1
  <2>2. CASE i \in (a + 1)..b
    <3>1. PICK j \in DOMAIN t : t[j] = i
      BY <2>2 DEF Lists
    <3> QED
      BY <1>4, <3>1
  <2> QED
    BY <2>1, <2>2
<1>12. Lists(u, 0, b)
  BY <1>1, <1>9, <1>10, <1>11 DEF Lists
<1> QED
  BY <1>12 DEF u

(* No step is taken past a record that is not an event or empty, and a     *)
(* schema is only known to the cache when the registry has it.             *)
LEMMA DecoderKeeps == DecoderInv /\ [DecoderNext]_decoderVars => DecoderInv'
<1> SUFFICES ASSUME DecoderInv, [DecoderNext]_decoderVars
             PROVE  DecoderInv'
  OBVIOUS
<1>1. topic' = topic
  BY DEF DecoderNext, decoderVars, PlanBatch, Decode, Raise, CommitBatch, Restart, Outage, Recover
<1>2. \A i : IsEvent(i)' = IsEvent(i) /\ IsPoison(i)' = IsPoison(i)
  BY <1>1 DEF IsEvent, IsPoison
<1>3. \A s, a, b : Lists(s, a, b) =>
          /\ s \in Seq(Nat)
          /\ \A j, k \in DOMAIN s : j < k => s[j] < s[k]
          /\ \A j \in DOMAIN s : s[j] \in (a + 1)..b /\ IsEvent(s[j])'
          /\ \A i \in (a + 1)..b : IsEvent(i)' => \E j \in DOMAIN s : s[j] = i
  BY <1>2 DEF Lists
<1>4. Len(topic) \in Nat
  BY DecoderAssumption DEF DecoderInv
<1>5. ASSUME /\ offset' \in Nat /\ pos' \in Nat /\ end' \in Nat
             /\ offset' <= pos' /\ pos' <= end' /\ end' <= Len(topic)
             /\ cache' \subseteq Registered
             /\ ~running' => pos' = offset'
             /\ Lists(passed', 0, offset')
             /\ Lists(rows', offset', pos')
             /\ \A i \in 1..pos' : ~IsPoison(i)
      PROVE  DecoderInv'
  BY <1>1, <1>2, <1>3, <1>5 DEF DecoderInv, Lists
<1>6. CASE PlanBatch
  BY <1>4, <1>5, <1>6 DEF PlanBatch, DecoderInv
<1>7. CASE Decode
  <2>1. /\ running /\ pos < end /\ pos' = pos + 1
        /\ UNCHANGED offset /\ UNCHANGED end /\ UNCHANGED passed /\ UNCHANGED running
    BY <1>7 DEF Decode, Open
  <2>2. CASE Skipped /\ UNCHANGED <<rows, cache>>
    <3>1. ~IsEvent(pos + 1) /\ ~IsPoison(pos + 1)
      BY <2>2 DEF Skipped, Kind, Record, IsEvent, IsPoison
    <3>2. Lists(rows, offset, pos + 1)
      BY <3>1, ListsSkipped DEF DecoderInv
    <3>3. \A i \in 1..(pos + 1) : ~IsPoison(i)
      BY <3>1 DEF DecoderInv
    <3> QED
      BY <1>5, <2>1, <2>2, <3>2, <3>3 DEF DecoderInv
  <2>3. CASE Decodes /\ rows' = Append(rows, pos + 1) /\ cache' = cache \cup {Schema}
    <3>1. Kind = "event" /\ Schema \in Registered
      BY <2>3 DEF Decodes, Fetched, DecoderInv
    <3>2. IsEvent(pos + 1) /\ ~IsPoison(pos + 1)
      BY <3>1 DEF Kind, Schema, Record, IsEvent, IsPoison
    <3>3. Lists(Append(rows, pos + 1), offset, pos + 1)
      BY <3>2, ListsOneMore DEF DecoderInv
    <3>4. \A i \in 1..(pos + 1) : ~IsPoison(i)
      BY <3>2 DEF DecoderInv
    <3> QED
      BY <1>5, <2>1, <2>3, <3>1, <3>3, <3>4 DEF DecoderInv
  <2> QED
    BY <1>7, <2>2, <2>3 DEF Decode
<1>8. CASE Raise
  <2>1. Lists(<<>>, offset, offset)
    BY ListsNothing DEF DecoderInv
  <2> QED
    BY <1>5, <1>8, <2>1 DEF Raise, DecoderInv
<1>9. CASE CommitBatch
  <2>1. Lists(passed \o rows, 0, end)
    BY <1>9, ListsJoined DEF CommitBatch, DecoderInv
  <2>2. Lists(<<>>, end, end)
    BY ListsNothing DEF DecoderInv
  <2> QED
    BY <1>5, <1>9, <2>1, <2>2 DEF CommitBatch, DecoderInv
<1>10. CASE Restart
  BY <1>5, <1>10 DEF Restart, DecoderInv
<1>11. CASE Outage \/ Recover \/ UNCHANGED decoderVars
  <2>1. /\ offset' = offset /\ pos' = pos /\ end' = end /\ cache' = cache
        /\ running' = running /\ passed' = passed /\ rows' = rows
    BY <1>11 DEF Outage, Recover, decoderVars
  <2> QED
    BY <1>5, <2>1 DEF DecoderInv
<1> QED
  BY <1>6, <1>7, <1>8, <1>9, <1>10, <1>11 DEF DecoderNext

(* Through any outages of the registry and any number of restarts the      *)
(* operator has got each event before the committed offset once and in     *)
(* order, and no record that is neither an event nor empty lies before it  *)
(* (avro_deserializer.py:59-102).                                          *)
THEOREM CommittedIsPassed == DecoderSpec => []ReadIsPassed
<1>1. DecoderInit => DecoderInv
  <2> SUFFICES ASSUME DecoderInit PROVE DecoderInv
    OBVIOUS
  <2>1. Len(topic) \in Nat
    BY DecoderAssumption DEF DecoderInit
  <2>2. Lists(<<>>, 0, 0)
    BY ListsNothing
  <2> QED
    BY <2>1, <2>2 DEF DecoderInit, DecoderInv
<1>2. DecoderInv /\ [DecoderNext]_decoderVars => DecoderInv'
  BY DecoderKeeps
<1>3. DecoderInv => ReadIsPassed
  <2> SUFFICES ASSUME DecoderInv PROVE ReadIsPassed
    OBVIOUS
  <2>1. Lists(passed, 0, offset) /\ offset \in Nat
    BY DEF DecoderInv
  <2>2. EachEventIsPassedOnce
    BY <2>1 DEF Lists, EachEventIsPassedOnce
  <2>3. PoisonIsNeverPassed
    BY DEF DecoderInv, PoisonIsNeverPassed
  <2> QED
    BY <2>2, <2>3 DEF ReadIsPassed
<1> QED
  BY <1>1, <1>2, <1>3, PTL DEF DecoderSpec
=============================================================================
