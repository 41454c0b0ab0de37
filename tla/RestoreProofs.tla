--------------------------- MODULE RestoreProofs ---------------------------
(***************************************************************************)
(* What holds of Restore for every topic and any number of snapshots.      *)
(***************************************************************************)
EXTENDS Restore, BatchProofs, SequenceTheorems

(***************************************************************************)
(* The inductive invariant                                                 *)
(***************************************************************************)

Offset == [end : Nat, watermark : Nat]

State == [key : {k \in Key : Sound(k.acct)}, applied : SUBSET Seqs]

Checkpoint == [offsets : Seq(Offset), commits : Nat, next : Nat, states : Seq(State)]

Stages == {"offsets", "states", "done", "broken"}

Snapshot == [name : Nat, mirror : Stages, seen : Nat, path : Checkpoint]

Inside(path) == \A i \in DOMAIN path.offsets : path.offsets[i].end <= Len(topic)

Typed ==
    /\ topic \in Topics
    /\ paths \in [{Live, Fresh} -> Checkpoint]
    /\ \A t \in {Live, Fresh} : Inside(paths[t])
    /\ tag \in {Live, Fresh}
    /\ pc \in {"idle", "planned", "executed", "failed", "down"}
    /\ pc \in {"planned", "executed"} => Batch(Path) > 0
    /\ table \in BalanceRow /\ table.last <= MaxSeq
    /\ found \in Found
    /\ snapshots \in Seq(Snapshot) /\ Len(snapshots) <= Keep + 1
    /\ \A i \in DOMAIN snapshots : Inside(snapshots[i].path)
    /\ taken \in Nat
    /\ drill.seeded \in BOOLEAN
    /\ drill = [kind |-> drill.kind, chosen |-> drill.chosen, whole |-> drill.whole,
                seeded |-> drill.seeded, partial |-> drill.partial]

(* A path the engine has run on from its first batch: at most one batch is *)
(* planned beyond those committed, and what was committed left its state.  *)
Regular(path) ==
    /\ path.commits <= Batch(path) /\ Batch(path) <= path.commits + 1
    /\ path.commits <= Len(path.states)

(* A path an engine can be started on.                                     *)
Whole(path) == path.commits <= Batch(path) /\ path.commits <= Len(path.states) /\ Loadable(path)

(* Where the engine is on a path that is whole.                            *)
InStep(path) ==
    /\ pc = "idle" => path.commits = Batch(path)
    /\ pc \in {"planned", "executed"} => path.commits < Batch(path)
    /\ pc = "executed" => Len(path.states) = Batch(path)

(* It fails there only on garbage that was copied with the path.           *)
Upright == pc \notin {"failed", "down"} \/ (pc = "failed" /\ Fresh \in corrupt)

Running ==
    /\ Regular(paths[Live])
    /\ tag = Live => InStep(paths[Live])
    /\ tag = Fresh => drill.seeded
    /\ drill.seeded /\ ~drill.partial => Whole(paths[Fresh])
    /\ tag = Fresh /\ ~drill.partial => InStep(paths[Fresh]) /\ Upright

(* A replay from earliest has begun: the live path is gone for good.       *)
Rebuilt == tag = Fresh /\ paths[Live] = Empty

(* What a mirror has copied so far was on the live path, and is there yet. *)
Copied(snapshot) ==
    LET path == snapshot.path
        live == paths[Live]
    IN  /\ snapshot.mirror = "offsets" =>
              /\ path.offsets = <<>> /\ path.states = <<>>
              /\ Rebuilt \/ path.commits <= live.commits
        /\ snapshot.mirror = "states" =>
              /\ path.states = <<>> /\ path.commits <= Batch(path)
              /\ Rebuilt \/ path.commits <= live.commits
              /\ Rebuilt \/ IsPrefix(path.offsets, live.offsets)
        /\ snapshot.mirror = "done" =>
              /\ Whole(path)
              /\ Rebuilt \/ IsPrefix(path.offsets, live.offsets)

Mirrored == \A i \in DOMAIN snapshots : Copied(snapshots[i])

RestoreInv == Typed /\ Running /\ Mirrored

(* The live path is corrupted in a restore and not before, so that what is *)
(* copied of garbage is copied later: by no mirror that had ended when the *)
(* drill looked, and names are used once.                                  *)
Damaged ==
    /\ corrupt \subseteq {Live, Fresh} /\ spoiled \subseteq 1..taken
    /\ \A i \in DOMAIN snapshots : snapshots[i].name \in 1..taken
    /\ \A i, j \in DOMAIN snapshots : snapshots[i].name = snapshots[j].name => i = j
    /\ Live \in corrupt => drill.kind = "restore"
    /\ Live \notin corrupt /\ drill.kind # "baseline" => spoiled = {}
    /\ ~ drill.seeded => Fresh \notin corrupt
    /\ drill.whole =>
          /\ ~ drill.partial /\ Fresh \notin corrupt
          /\ drill.chosen \in 1..taken /\ drill.chosen \notin spoiled
          /\ \A i \in DOMAIN snapshots :
                snapshots[i].name = drill.chosen => snapshots[i].mirror = "done"

(***************************************************************************)
(* Sequences and checkpoints                                               *)
(***************************************************************************)

(* Sequences of which one begins like the other.                           *)
LEMMA PrefixFact ==
    ASSUME NEW S, NEW x \in Seq(S), NEW y \in Seq(S)
    PROVE  IsPrefix(x, y) <=> Len(x) <= Len(y) /\ \A i \in 1..Len(x) : x[i] = y[i]
<1>1. Len(x) \in Nat /\ Len(y) \in Nat
  OBVIOUS
<1>2. SubSeq(x, 1, Len(x)) = x
  BY SubSeqFull
<1>3. ASSUME Len(x) <= Len(y)
      PROVE  /\ SubSeq(y, 1, Len(x)) \in Seq(S) /\ Len(SubSeq(y, 1, Len(x))) = Len(x)
             /\ \A i \in 1..Len(x) : SubSeq(y, 1, Len(x))[i] = y[i]
  <2>1. \A i \in 1..Len(x) : y[i] \in S
    BY <1>1, <1>3
  <2> QED
    BY <1>1, <2>1, SubSeqProperties
<1>4. ASSUME Len(x) <= Len(y), \A i \in 1..Len(x) : x[i] = y[i]
      PROVE  SubSeq(x, 1, Len(x)) = SubSeq(y, 1, Len(x))
  <2> DEFINE z == SubSeq(y, 1, Len(x))
  <2>1. z \in Seq(S) /\ Len(z) = Len(x) /\ \A i \in 1..Len(x) : z[i] = x[i]
    BY <1>3, <1>4
  <2> HIDE DEF z
  <2>2. z = x
    BY <2>1, SeqEqual
  <2> QED
    BY <1>2, <2>2 DEF z
<1>5. ASSUME IsPrefix(x, y)
      PROVE  Len(x) <= Len(y) /\ \A i \in 1..Len(x) : x[i] = y[i]
  <2>1. Len(x) <= Len(y) /\ x = SubSeq(y, 1, Len(x))
    BY <1>2, <1>5 DEF IsPrefix
  <2> QED
    BY <1>3, <2>1
<1> QED
  BY <1>4, <1>5 DEF IsPrefix

LEMMA PrefixTrans ==
    ASSUME NEW S, NEW x \in Seq(S), NEW y \in Seq(S), NEW z \in Seq(S),
           IsPrefix(x, y), IsPrefix(y, z)
    PROVE  IsPrefix(x, z)
<1>1. Len(x) \in Nat /\ Len(y) \in Nat /\ Len(z) \in Nat
  OBVIOUS
<1>2. Len(x) <= Len(y) /\ \A i \in 1..Len(x) : x[i] = y[i]
  BY PrefixFact
<1>3. Len(y) <= Len(z) /\ \A i \in 1..Len(y) : y[i] = z[i]
  BY PrefixFact
<1>4. Len(x) <= Len(z) /\ \A i \in 1..Len(x) : x[i] = z[i]
  BY <1>1, <1>2, <1>3
<1> QED
  BY <1>4, PrefixFact

LEMMA PrefixAppend ==
    ASSUME NEW S, NEW x \in Seq(S), NEW e \in S
    PROVE  IsPrefix(x, x) /\ IsPrefix(x, Append(x, e))
<1>1. /\ Append(x, e) \in Seq(S) /\ Len(x) \in Nat /\ Len(Append(x, e)) = Len(x) + 1
      /\ \A i \in 1..Len(x) : x[i] = Append(x, e)[i]
  OBVIOUS
<1>2. IsPrefix(x, x)
  BY <1>1, PrefixFact
<1>3. IsPrefix(x, Append(x, e))
  <2> DEFINE y == Append(x, e)
  <2>1. y \in Seq(S) /\ Len(x) <= Len(y) /\ \A i \in 1..Len(x) : x[i] = y[i]
    BY <1>1
  <2> HIDE DEF y
  <2>2. IsPrefix(x, y)
    BY <2>1, PrefixFact
  <2> QED
    BY <2>2 DEF y
<1> QED
  BY <1>2, <1>3

(* Event times of a sequence of records are bounded.                       *)
LEMMA TimesBounded ==
    ASSUME NEW s, Len(s) \in Nat, \A i \in 1..Len(s) : s[i].ts \in Nat
    PROVE  \E b \in Nat : \A i \in 1..Len(s) : s[i].ts <= b
<1> DEFINE S == {n \in Nat : n <= Len(s) => \E b \in Nat : \A i \in 1..n : s[i].ts <= b}
<1>1. Len(s) \in Nat /\ \A i \in 1..Len(s) : s[i].ts \in Nat
  OBVIOUS
<1>2. 0 \in S
  OBVIOUS
<1>3. ASSUME NEW n \in S
      PROVE  n + 1 \in S
  <2> SUFFICES ASSUME n + 1 <= Len(s)
               PROVE  \E b \in Nat : \A i \in 1..(n + 1) : s[i].ts <= b
    OBVIOUS
  <2>1. n <= Len(s) /\ n \in Nat /\ s[n + 1].ts \in Nat
    BY <1>1
  <2>2. PICK b \in Nat : \A i \in 1..n : s[i].ts <= b
    BY <2>1
  <2>3. CASE s[n + 1].ts <= b
    <3>1. \A i \in 1..(n + 1) : i \in 1..n \/ i = n + 1
      BY <1>1, <2>1
    <3>2. \A i \in 1..(n + 1) : s[i].ts <= b
      BY <2>2, <2>3, <3>1
    <3> QED
      BY <3>2
  <2>4. CASE ~ (s[n + 1].ts <= b)
    <3>1. \A i \in 1..(n + 1) : s[i].ts <= s[n + 1].ts
      BY <1>1, <2>1, <2>2, <2>4
    <3> QED
      BY <2>1, <3>1
  <2> QED
    BY <2>3, <2>4
<1>4. S = Nat
  <2>1. S \in SUBSET Nat
    OBVIOUS
  <2> HIDE DEF S
  <2> QED
    BY <1>2, <1>3, <2>1, Induction
<1>5. Len(s) \in S
  <2> HIDE DEF S
  <2> QED
    BY <1>1, <1>4
<1> QED
  BY <1>1, <1>5

LEMMA MaxIsNat ==
    ASSUME NEW S \in SUBSET Int, NEW m \in S, m \in Nat, NEW b \in Nat, \A x \in S : x <= b
    PROVE  Max(S) \in Nat
<1> DEFINE T == {x \in S : x >= 0}
<1>1. T \in SUBSET Nat /\ T # {} /\ \A x \in T : x <= b
  <2>1. \A x \in T : x \in Nat /\ x <= b
    <3> TAKE x \in T
    <3>1. x \in S /\ x \in Int /\ x >= 0
      OBVIOUS
    <3> QED
      BY <3>1
  <2>2. m \in T
    OBVIOUS
  <2> QED
    BY <2>1, <2>2
<1>2. Max(T) \in T /\ \A x \in T : x <= Max(T)
  <2> HIDE DEF T
  <2> QED
    BY <1>1, MaxOfBounded
<1> DEFINE z == Max(T)
<1>3. z \in S /\ z >= 0 /\ \A x \in T : x <= z
  BY <1>2
<1> HIDE DEF z
<1>4. \A y \in S : z >= y
  BY <1>3
<1>5. Max(S) \in S /\ \A y \in S : Max(S) >= y
  BY <1>3, <1>4 DEF Max
<1>6. Max(S) \in Int /\ Max(S) >= m
  BY <1>5
<1> QED
  BY <1>6

(* A checkpoint with other parts.                                          *)
Made(offsets, commits, next, states) ==
    [offsets |-> offsets, commits |-> commits, next |-> next, states |-> states]

LEMMA CheckpointFact ==
    ASSUME NEW path \in Checkpoint
    PROVE  /\ path = Made(path.offsets, path.commits, path.next, path.states)
           /\ path.offsets \in Seq(Offset) /\ path.commits \in Nat /\ path.next \in Nat
           /\ path.states \in Seq(State)
           /\ Batch(path) \in Nat /\ Len(path.states) \in Nat
BY DEF Checkpoint, Made, Batch

LEMMA MadeFact ==
    ASSUME NEW path \in Checkpoint, NEW x, NEW y
    PROVE  /\ [path EXCEPT !.offsets = x] = Made(x, path.commits, path.next, path.states)
           /\ [path EXCEPT !.states = x] = Made(path.offsets, path.commits, path.next, x)
           /\ [path EXCEPT !.commits = x, !.next = y] = Made(path.offsets, x, y, path.states)
<1>1. PICK a, b, c, d : path = Made(a, b, c, d)
  BY CheckpointFact
<1>2. path.offsets = a /\ path.commits = b /\ path.next = c /\ path.states = d
  BY <1>1 DEF Made
<1>3. [path EXCEPT !.offsets = x] = Made(x, b, c, d)
  BY <1>1 DEF Made
<1>4. [path EXCEPT !.states = x] = Made(a, b, c, x)
  BY <1>1 DEF Made
<1>5. [path EXCEPT !.commits = x, !.next = y] = Made(a, x, y, d)
  <2>1. [path EXCEPT !.commits = x] = Made(a, x, c, d)
    BY <1>1 DEF Made
  <2>2. [Made(a, x, c, d) EXCEPT !.next = y] = Made(a, x, y, d)
    BY DEF Made
  <2> QED
    BY <2>1, <2>2
<1> QED
  BY <1>2, <1>3, <1>4, <1>5

LEMMA EmptyFact ==
    /\ Empty \in Checkpoint /\ Inside(Empty) /\ Batch(Empty) = 0 /\ Empty.commits = 0
    /\ Regular(Empty) /\ Whole(Empty)
BY DEF Empty, Checkpoint, Inside, Batch, Regular, Whole, Loadable

(* Where a batch ends and the watermark it starts with.                    *)
LEMMA PlanFact ==
    ASSUME NEW path \in Checkpoint, Inside(path), Len(topic) \in Nat
    PROVE  /\ \A n \in 0..Batch(path) : End(path, n) \in 0..Len(topic)
           /\ Stale(path) \in Nat /\ Upcoming(path) \in Nat
           /\ Resumes(path) \in Nat
<1>1. /\ path.offsets \in Seq(Offset) /\ Batch(path) = Len(path.offsets) /\ Batch(path) \in Nat
      /\ path.next \in Nat
  BY CheckpointFact DEF Batch
<1>2. \A n \in 1..Batch(path) : path.offsets[n] \in Offset
  BY <1>1
<1>3. \A n \in 1..Batch(path) : path.offsets[n].end \in 0..Len(topic)
  <2>1. \A n \in 1..Batch(path) : path.offsets[n].end \in Nat
    BY <1>2 DEF Offset
  <2>2. \A n \in 1..Batch(path) : path.offsets[n].end <= Len(topic)
    BY <1>1 DEF Inside
  <2> QED
    BY <2>1, <2>2
<1>4. \A n \in 0..Batch(path) : End(path, n) \in 0..Len(topic)
  BY <1>1, <1>3 DEF End
<1>5. Stale(path) \in Nat
  <2>1. CASE path.offsets = <<>>
    BY <2>1 DEF Stale
  <2>2. CASE path.offsets # <<>>
    <3>1. Batch(path) \in 1..Batch(path)
      BY <1>1, <2>2, EmptySeq
    <3> QED
      BY <1>2, <2>2, <3>1 DEF Stale, Offset
  <2> QED
    BY <2>1, <2>2
<1>6. Upcoming(path) \in Nat
  BY <1>1, <1>5 DEF Upcoming
<1>7. Resumes(path) \in Nat
  <2>1. CASE path.commits = Batch(path) \/ path.offsets = <<>>
    BY <1>1, <1>4, <2>1 DEF Resumes
  <2>2. CASE ~ (path.commits = Batch(path) \/ path.offsets = <<>>)
    <3>1. Batch(path) - 1 \in 0..Batch(path)
      BY <1>1, <2>2, EmptySeq
    <3> QED
      BY <1>4, <2>2, <3>1 DEF Resumes
  <2> QED
    BY <2>1, <2>2
<1> QED
  BY <1>4, <1>5, <1>6, <1>7

LEMMA TopicFact ==
    ASSUME Typed
    PROVE  /\ topic \in Seq([seq : 0..MaxSeq, ts : Nat]) /\ Len(topic) \in Nat
           /\ \A i \in 1..Len(topic) : topic[i] \in [seq : 0..MaxSeq, ts : Nat]
<1>1. topic \in Seq([seq : 0..MaxSeq, ts : Nat])
  BY RestoreAssumption DEF Typed
<1>2. Len(topic) \in Nat
  BY <1>1, LenProperties
<1>3. \A i \in 1..Len(topic) : topic[i] \in [seq : 0..MaxSeq, ts : Nat]
  BY <1>1, ElementOfSeq
<1> QED
  BY <1>1, <1>2, <1>3

(* What a batch reads.                                                     *)
LEMMA RecordsFact ==
    ASSUME Typed, NEW path \in Checkpoint, Inside(path), NEW n \in 1..Batch(path)
    PROVE  /\ Rows(path, n) \in Seq(Seqs)
           /\ LET seen == {r.ts : r \in ToSet(Records(path, n))}
              IN  Max({Stale(path)} \cup {t - Delay : t \in seen}) \in Nat
<1> DEFINE records == Records(path, n)
           Event == [seq : 0..MaxSeq, ts : Nat]
<1>1. Len(topic) \in Nat /\ \A i \in 1..Len(topic) : topic[i] \in Event
  BY TopicFact
<1>2. End(path, n - 1) \in 0..Len(topic) /\ End(path, n) \in 0..Len(topic)
  <2>1. n - 1 \in 0..Batch(path) /\ n \in 0..Batch(path)
    BY CheckpointFact
  <2> QED
    BY <1>1, <2>1, PlanFact
<1>3. records \in Seq(Event)
  <2> DEFINE m == End(path, n - 1) + 1
             k == End(path, n)
  <2>1. m \in Int /\ k \in Int /\ \A i \in m..k : topic[i] \in Event
    BY <1>1, <1>2
  <2>2. records = SubSeq(topic, m, k)
    BY DEF Records
  <2> HIDE DEF m, k, records, Event
  <2> QED
    BY <2>1, <2>2, SubSeqProperties
<1>4. /\ Len(records) \in Nat /\ DOMAIN records = 1..Len(records)
      /\ \A i \in 1..Len(records) : records[i] \in Event
  <2> HIDE DEF records, Event
  <2> QED
    BY <1>3, LenProperties, ElementOfSeq
<1>5. \A i \in 1..Len(records) : records[i].seq \in Nat /\ records[i].ts \in Nat
  <2>1. MaxSeq \in Nat
    BY BoundsAssumption
  <2> HIDE DEF records
  <2> QED
    BY <1>4, <2>1
<1> HIDE DEF records, Event
<1>6. Rows(path, n) \in Seq(Seqs)
  <2> DEFINE seqs == [i \in DOMAIN records |-> records[i].seq]
  <2>1. seqs \in [1..Len(records) -> Nat]
    BY <1>4, <1>5
  <2>2. Rows(path, n) = InSeqOrder(seqs)
    BY DEF Rows, records
  <2> HIDE DEF seqs
  <2>3. seqs \in Seq(Nat)
    BY <1>4, <2>1
  <2> QED
    BY <2>2, <2>3, InSeqOrderFact DEF Ordered
<1>7. Max({Stale(path)} \cup {t - Delay : t \in {r.ts : r \in ToSet(records)}}) \in Nat
  <2> DEFINE seen == {r.ts : r \in ToSet(records)}
             S == {Stale(path)} \cup {t - Delay : t \in seen}
  <2>1. PICK b \in Nat : \A i \in 1..Len(records) : records[i].ts <= b
    BY <1>4, <1>5, TimesBounded
  <2>2. \A t \in seen : t \in Nat /\ t <= b
    BY <1>4, <1>5, <2>1 DEF ToSet
  <2>3. Stale(path) \in Nat /\ Delay \in Nat
    BY <1>1, PlanFact, RestoreAssumption
  <2> HIDE DEF seen
  <2>4. \A x \in S : x \in Int /\ x <= Stale(path) + b
    <3>1. \A t \in seen : t - Delay \in Int /\ t - Delay <= Stale(path) + b
      BY <2>2, <2>3
    <3> QED
      BY <2>3, <3>1
  <2>5. S \in SUBSET Int /\ Stale(path) \in S /\ Stale(path) + b \in Nat
    BY <2>3, <2>4
  <2> HIDE DEF S
  <2>6. Max(S) \in Nat
    BY <2>3, <2>4, <2>5, MaxIsNat
  <2> QED
    BY <2>6 DEF S, seen
<1> QED
  BY <1>6, <1>7 DEF records

(* The state a batch is computed from.                                     *)
LEMMA VersionFact ==
    ASSUME NEW path \in Checkpoint, NEW n \in 0..Len(path.states)
    PROVE  /\ Version(path, n).key \in Key /\ Sound(Version(path, n).key.acct)
           /\ Version(path, n).applied \in SUBSET Seqs
<1>1. path.states \in Seq(State) /\ Len(path.states) \in Nat
  BY CheckpointFact
<1>2. CASE n = 0
  BY <1>2, BoundsAssumption DEF Version, ColdKey, Key, EmptyAccount, Account, Sound
<1>3. CASE n # 0
  <2>1. path.states[n] \in State
    BY <1>1, <1>3, ElementOfSeq
  <2> QED
    BY <1>3, <2>1 DEF Version, State
<1> QED
  BY <1>2, <1>3

(***************************************************************************)
(* The engine                                                              *)
(***************************************************************************)

(* The running engine replaces its own checkpoint by q.                    *)
Replaces(q) ==
    /\ q \in Checkpoint /\ Inside(q)
    /\ paths' = [paths EXCEPT ![tag] = q]
    /\ UNCHANGED <<topic, tag, snapshots, taken, drill, damage>>
    /\ Path.commits <= q.commits /\ IsPrefix(Path.offsets, q.offsets)

LEMMA PathFact ==
    ASSUME Typed
    PROVE  /\ Path \in Checkpoint /\ Inside(Path)
           /\ \A t \in {Live, Fresh} : paths[t] \in Checkpoint /\ Inside(paths[t])
           /\ tag = Live \/ tag = Fresh
BY DEF Typed, Path

LEMMA ExceptFact ==
    ASSUME Typed, NEW q
    PROVE  LET r == [paths EXCEPT ![tag] = q]
           IN  /\ r[tag] = q
               /\ \A t \in {Live, Fresh} : t # tag => r[t] = paths[t]
               /\ q \in Checkpoint => r \in [{Live, Fresh} -> Checkpoint]
BY DEF Typed

LEMMA PlanStep ==
    ASSUME Typed, Plan
    PROVE  \E q : /\ Replaces(q) /\ q.commits = Path.commits /\ q.next = Path.next
                  /\ q.states = Path.states /\ Batch(q) = Batch(Path) + 1
                  /\ \E end \in End(Path, Batch(Path))..Len(topic) :
                        q.offsets = Append(Path.offsets,
                                           [end |-> end, watermark |-> Upcoming(Path)])
<1> DEFINE p == Path
           offset(end) == [end |-> end, watermark |-> Upcoming(p)]
           q(end) == Made(Append(p.offsets, offset(end)), p.commits, p.next, p.states)
<1>1. /\ p \in Checkpoint /\ Inside(p) /\ Len(topic) \in Nat
  BY PathFact, TopicFact
<1>2. /\ p = Made(p.offsets, p.commits, p.next, p.states)
      /\ p.offsets \in Seq(Offset) /\ p.commits \in Nat /\ p.next \in Nat
      /\ p.states \in Seq(State) /\ Batch(p) \in Nat
  BY <1>1, CheckpointFact
<1>3. PICK end \in End(p, Batch(p))..Len(topic) :
          paths' = [paths EXCEPT ![tag].offsets = Append(@, offset(end))]
  BY DEF Plan
<1>4. Batch(p) \in 0..Batch(p) /\ End(p, Batch(p)) \in 0..Len(topic) /\ Upcoming(p) \in Nat
  <2>1. Batch(p) \in 0..Batch(p)
    BY <1>2
  <2> HIDE DEF p
  <2> QED
    BY <1>1, <2>1, PlanFact
<1>5. end \in Nat /\ end <= Len(topic) /\ offset(end) \in Offset
  BY <1>1, <1>3, <1>4 DEF Offset
<1>6. paths' = [paths EXCEPT ![tag] = q(end)]
  <2>1. [p EXCEPT !.offsets = Append(@, offset(end))] = q(end)
    <3> DEFINE o == Append(p.offsets, offset(end))
    <3> HIDE DEF p, o
    <3>1. [p EXCEPT !.offsets = o] = Made(o, p.commits, p.next, p.states)
      BY <1>1, MadeFact
    <3> QED
      BY <3>1, Zenon DEF o
  <2>2. paths' = [paths EXCEPT ![tag] = [paths[tag] EXCEPT !.offsets = Append(@, offset(end))]]
    BY <1>3, Zenon
  <2> QED
    BY <2>1, <2>2 DEF Path
<1> DEFINE o == offset(end)
           r == q(end)
<1>7. r = Made(Append(p.offsets, o), p.commits, p.next, p.states)
      /\ o = [end |-> end, watermark |-> Upcoming(p)]
  OBVIOUS
<1>8. o \in Offset /\ o.end = end
  BY <1>5
<1> HIDE DEF p, offset, q, o, r
<1>9. /\ Append(p.offsets, o) \in Seq(Offset) /\ Len(Append(p.offsets, o)) = Len(p.offsets) + 1
      /\ \A i \in 1..(Len(p.offsets) + 1) :
            Append(p.offsets, o)[i] = IF i <= Len(p.offsets) THEN p.offsets[i] ELSE o
  BY <1>2, <1>8
<1>10. /\ r \in Checkpoint /\ r.offsets = Append(p.offsets, o) /\ r.commits = p.commits
       /\ r.next = p.next /\ r.states = p.states
  BY <1>2, <1>7, <1>9 DEF Made, Checkpoint
<1>11. Inside(r)
  <2>1. Len(p.offsets) \in Nat /\ DOMAIN p.offsets = 1..Len(p.offsets)
    BY <1>2
  <2>2. DOMAIN r.offsets = 1..(Len(p.offsets) + 1)
    BY <1>9, <1>10
  <2> QED
    BY <1>1, <1>5, <1>8, <1>9, <1>10, <2>1, <2>2 DEF Inside
<1>12. IsPrefix(p.offsets, r.offsets) /\ p.commits <= r.commits
  BY <1>2, <1>8, <1>10, PrefixAppend
<1>13. Batch(r) = Batch(p) + 1
  BY <1>9, <1>10 DEF Batch
<1>14. UNCHANGED <<topic, tag, snapshots, taken, drill, damage>>
  BY DEF Plan
<1>15. paths' = [paths EXCEPT ![tag] = r]
  BY <1>6 DEF r
<1>16. \E e \in End(p, Batch(p))..Len(topic) :
          r.offsets = Append(p.offsets, [end |-> e, watermark |-> Upcoming(p)])
  BY <1>3, <1>7, <1>10
<1> QED
  BY <1>10, <1>11, <1>12, <1>13, <1>14, <1>15, <1>16 DEF Replaces, p

(* The state a batch leaves, for the versions up to it.                    *)
LEMMA StatesFact ==
    ASSUME NEW states \in Seq(State), NEW n \in Nat \ {0}, n - 1 <= Len(states), NEW v \in State
    PROVE  LET after == Append(SubSeq(states, 1, n - 1), v)
           IN  /\ after \in Seq(State) /\ Len(after) = n /\ after[n] = v
               /\ \A i \in 1..(n - 1) : after[i] = states[i]
<1> DEFINE before == SubSeq(states, 1, n - 1)
<1>1. \A i \in 1..(n - 1) : states[i] \in State
  <2>1. Len(states) \in Nat /\ \A i \in 1..Len(states) : states[i] \in State
    BY LenProperties, ElementOfSeq
  <2> QED
    BY <2>1
<1>2. /\ before \in Seq(State) /\ Len(before) = IF 1 <= n - 1 THEN (n - 1) - 1 + 1 ELSE 0
      /\ \A i \in 1..((n - 1) - 1 + 1) : before[i] = states[1 + i - 1]
  <2>1. 1 \in Int /\ n - 1 \in Int
    OBVIOUS
  <2> QED
    BY <1>1, <2>1, SubSeqProperties
<1>3. Len(before) = n - 1
  BY <1>2
<1>4. \A i \in 1..(n - 1) : before[i] = states[i]
  <2> TAKE i \in 1..(n - 1)
  <2>1. i \in 1..((n - 1) - 1 + 1) /\ 1 + i - 1 = i
    OBVIOUS
  <2> HIDE DEF before
  <2> QED
    BY <1>2, <2>1
<1> HIDE DEF before
<1> QED
  BY <1>2, <1>3, <1>4 DEF before

LEMMA MergedType ==
    ASSUME NEW t \in BalanceRow, t.last <= MaxSeq, NEW s \in BalanceRow, s.last <= MaxSeq
    PROVE  /\ Merged(t, s) \in BalanceRow /\ Merged(t, s).last <= MaxSeq
           /\ Merged(t, s).last >= t.last
BY BoundsAssumption DEF Merged, BalanceRow

(* The state batch n leaves.                                               *)
Leaving(path, n) ==
    LET r == Invoked(path, n)
    IN  [key |-> r.key, applied |-> Version(path, n - 1).applied \cup r.applied]

(* What the batch makes of the table and of the integrity records.         *)
LEMMA OutcomeFact ==
    ASSUME Typed, Execute
    PROVE  /\ table' \in BalanceRow /\ table'.last <= MaxSeq /\ table'.last >= table.last
           /\ found' \in Found
           /\ \E q : /\ Replaces(q) /\ q.commits = Path.commits
                     /\ Batch(q) = Batch(Path) /\ Len(q.states) = Batch(Path)
                     /\ q.offsets = Path.offsets /\ q.next = Path.next
                     /\ q.states[Batch(Path)] = Leaving(Path, Batch(Path))
                     /\ \A i \in 1..(Batch(Path) - 1) : q.states[i] = Path.states[i]
<1> DEFINE p == Path
           n == Batch(p)
           r == Invoked(p, n)
           before == Version(p, n - 1)
           v == [key |-> r.key, applied |-> before.applied \cup r.applied]
           states == Append(SubSeq(p.states, 1, n - 1), v)
           q == Made(p.offsets, p.commits, p.next, states)
<1>1. p \in Checkpoint /\ Inside(p) /\ Len(topic) \in Nat
  BY PathFact, TopicFact
<1>2. /\ p = Made(p.offsets, p.commits, p.next, p.states)
      /\ p.offsets \in Seq(Offset) /\ p.commits \in Nat /\ p.next \in Nat
      /\ p.states \in Seq(State) /\ n \in Nat /\ Len(p.states) \in Nat
  BY <1>1, CheckpointFact
<1>3. n \in Nat \ {0} /\ n - 1 \in 0..Len(p.states) /\ n \in 1..Batch(p)
  <2>1. Batch(Path) > 0 /\ Len(Path.states) >= Batch(Path) - 1
    BY DEF Execute, Typed, Loadable
  <2> QED
    BY <1>2, <2>1
<1>4. /\ paths' = [paths EXCEPT ![tag].states = states]
      /\ table' = IF r.ran THEN Merged(table, r.row) ELSE table
      /\ found' = [dup      |-> found.dup \cup Of(r, "DUP_DROPPED"),
                   overflow |-> found.overflow \cup Of(r, "BUFFER_OVERFLOW"),
                   gaps     |-> found.gaps \cup {Hole(before.key.acct) :
                                                     s \in Of(r, "SEQUENCE_GAP")}]
      /\ UNCHANGED <<topic, tag, snapshots, taken, drill, damage>>
  <2>1. paths' = [paths EXCEPT ![tag].states = Append(SubSeq(@, 1, n - 1), v)]
    BY DEF Execute
  <2>2. Append(SubSeq(paths[tag].states, 1, n - 1), v) = states
    BY DEF Path
  <2>3. paths' = [paths EXCEPT ![tag].states = states]
    BY <2>1, <2>2, Zenon
  <2>4. table' = IF r.ran THEN Merged(table, r.row) ELSE table
    BY DEF Execute
  <2>5. found' = [dup      |-> found.dup \cup Of(r, "DUP_DROPPED"),
                  overflow |-> found.overflow \cup Of(r, "BUFFER_OVERFLOW"),
                  gaps     |-> found.gaps \cup {Hole(before.key.acct) :
                                                    s \in Of(r, "SEQUENCE_GAP")}]
    BY DEF Execute
  <2>6. UNCHANGED <<topic, tag, snapshots, taken, drill, damage>>
    BY DEF Execute
  <2> HIDE DEF p, n, r, before, v, states
  <2> QED
    BY <2>3, <2>4, <2>5, <2>6
<1>5. before.key \in Key /\ Sound(before.key.acct) /\ before.applied \in SUBSET Seqs
  <2> HIDE DEF p, n
  <2> QED
    BY <1>1, <1>3, VersionFact
<1>6. Formed(before.key, r)
  <2> DEFINE w == p.offsets[n].watermark
  <2>1. p.offsets[n] \in Offset
    <3>1. n = Len(p.offsets)
      BY DEF Batch
    <3> HIDE DEF p, n
    <3> QED
      BY <1>2, <1>3, <3>1, ElementOfSeq
  <2>2. w \in Nat
    BY <2>1 DEF Offset
  <2>3. Rows(p, n) \in Seq(Seqs)
    <3> HIDE DEF p, n
    <3> QED
      BY <1>1, <1>3, RecordsFact
  <2>4. r = Invoke(before.key, Rows(p, n), table, w)
    BY DEF Invoked
  <2>5. table \in BalanceRow /\ table.last <= MaxSeq
    BY DEF Typed
  <2> HIDE DEF p, n, w, r, before
  <2> QED
    BY <1>5, <2>2, <2>3, <2>4, <2>5, FormedFact
<1> HIDE DEF p, n
<1>16. v = Leaving(p, n)
  BY DEF Leaving
<1> HIDE DEF before, r
<1>7. table' \in BalanceRow /\ table'.last <= MaxSeq /\ table'.last >= table.last
  <2>1. table \in BalanceRow /\ table.last <= MaxSeq /\ table.last \in Nat
    BY DEF Typed, BalanceRow
  <2>2. r.ran => r.row \in BalanceRow /\ r.row.last <= MaxSeq
    BY <1>6 DEF Formed
  <2>3. CASE r.ran
    BY <1>4, <2>1, <2>2, <2>3, MergedType
  <2>4. CASE ~ r.ran
    BY <1>4, <2>1, <2>4
  <2> QED
    BY <2>3, <2>4
<1>8. found' \in Found
  <2>1. found.dup \in SUBSET Seqs /\ found.overflow \in SUBSET Seqs /\ found.gaps \in SUBSET (SUBSET Seqs)
    BY DEF Typed, Found
  <2>2. Of(r, "DUP_DROPPED") \in SUBSET Seqs /\ Of(r, "BUFFER_OVERFLOW") \in SUBSET Seqs
    BY <1>6 DEF Formed, OfRow, Of
  <2>3. Of(r, "SEQUENCE_GAP") # {} => before.key.acct.buf # {}
    BY <1>6 DEF Formed, OfRow, Of
  <2>4. {Hole(before.key.acct) : s \in Of(r, "SEQUENCE_GAP")} \in SUBSET (SUBSET Seqs)
    BY <1>5, <2>3, HoleFact
  <2> QED
    BY <1>4, <2>1, <2>2, <2>4 DEF Found
<1>9. v \in State
  BY <1>5, <1>6 DEF State, Formed
<1> HIDE DEF v
<1>10. /\ states \in Seq(State) /\ Len(states) = n /\ states[n] = v
       /\ \A i \in 1..(n - 1) : states[i] = p.states[i]
  BY <1>2, <1>3, <1>9, StatesFact
<1>11. paths' = [paths EXCEPT ![tag] = q]
  <2>1. [p EXCEPT !.states = states] = q
    BY <1>1, MadeFact
  <2>2. paths' = [paths EXCEPT ![tag] = [paths[tag] EXCEPT !.states = states]]
    BY <1>4, Zenon
  <2> QED
    BY <2>1, <2>2 DEF p, Path
<1> HIDE DEF states
<1>12. /\ q \in Checkpoint /\ q.offsets = p.offsets /\ q.commits = p.commits
       /\ q.next = p.next /\ q.states = states
  BY <1>2, <1>10 DEF Made, Checkpoint
<1> HIDE DEF q
<1>13. Inside(q)
  BY <1>1, <1>12 DEF Inside
<1>14. IsPrefix(p.offsets, q.offsets) /\ p.commits <= q.commits
  <2>1. IsPrefix(p.offsets, p.offsets)
    BY <1>2, PrefixFact
  <2> QED
    BY <1>2, <1>12, <2>1
<1>15. Batch(q) = n
  BY <1>12 DEF Batch, n
<1>17. Replaces(q)
  BY <1>4, <1>11, <1>12, <1>13, <1>14 DEF Replaces, p
<1>18. /\ q.states[n] = Leaving(p, n) /\ Len(q.states) = n
       /\ \A i \in 1..(n - 1) : q.states[i] = p.states[i]
  BY <1>10, <1>12, <1>16
<1> QED
  BY <1>7, <1>8, <1>12, <1>15, <1>17, <1>18 DEF p, n

LEMMA CommitStep ==
    ASSUME Typed, Commit
    PROVE  \E q : /\ Replaces(q) /\ q.commits = Batch(Path)
                  /\ Batch(q) = Batch(Path) /\ q.states = Path.states
                  /\ q.offsets = Path.offsets
                  /\ q.next = Max({Stale(Path)} \cup
                                  {t - Delay : t \in {r.ts : r \in
                                      ToSet(Records(Path, Batch(Path)))}})
<1> DEFINE p == Path
           n == Batch(p)
           next == Max({Stale(p)} \cup {t - Delay : t \in {r.ts : r \in ToSet(Records(p, n))}})
           q == Made(p.offsets, n, next, p.states)
<1>1. p \in Checkpoint /\ Inside(p) /\ Len(topic) \in Nat
  BY PathFact, TopicFact
<1>2. /\ p.offsets \in Seq(Offset) /\ p.commits \in Nat /\ p.next \in Nat
      /\ p.states \in Seq(State) /\ n \in Nat
  BY <1>1, CheckpointFact
<1>3. n \in 1..Batch(p)
  <2>1. Batch(Path) > 0
    BY DEF Commit, Typed
  <2> QED
    BY <1>2, <2>1
<1>4. next \in Nat
  <2> HIDE DEF p, n
  <2> QED
    BY <1>1, <1>3, RecordsFact
<1>5. /\ paths' = [paths EXCEPT ![tag].commits = n, ![tag].next = next]
      /\ p.commits < n
      /\ UNCHANGED <<topic, tag, snapshots, taken, drill, damage>>
  BY DEF Commit
<1> HIDE DEF next, n
<1>6. paths' = [paths EXCEPT ![tag] = q]
  <2>1. [p EXCEPT !.commits = n, !.next = next] = q
    BY <1>1, MadeFact
  <2>2. paths' = [paths EXCEPT ![tag] = [paths[tag] EXCEPT !.commits = n, !.next = next]]
    BY <1>5, PathFact DEF Typed
  <2> QED
    BY <2>1, <2>2 DEF Path
<1> HIDE DEF p
<1>7. /\ q \in Checkpoint /\ q.offsets = p.offsets /\ q.commits = n /\ q.states = p.states
      /\ q.next = next
  BY <1>2, <1>4 DEF Made, Checkpoint
<1> HIDE DEF q
<1>8. Inside(q)
  BY <1>1, <1>7 DEF Inside
<1>9. IsPrefix(p.offsets, q.offsets) /\ p.commits <= q.commits
  <2>1. IsPrefix(p.offsets, p.offsets)
    BY <1>2, PrefixFact
  <2> QED
    BY <1>2, <1>5, <1>7, <2>1
<1>10. Batch(q) = n
  BY <1>7 DEF Batch, n
<1> QED
  BY <1>5, <1>6, <1>7, <1>8, <1>9, <1>10 DEF Replaces, p, n, next

(* What a snapshot holds of the live path it still holds of a longer one.  *)
LEMMA CopiedKept ==
    ASSUME NEW live \in Checkpoint, live = paths[Live],
           NEW live2 \in Checkpoint, live2 = paths'[Live],
           Rebuilt => Rebuilt',
           Rebuilt' \/ (live.commits <= live2.commits /\ IsPrefix(live.offsets, live2.offsets)),
           NEW snapshot \in Snapshot, Copied(snapshot)
    PROVE  Copied(snapshot)'
<1> DEFINE path == snapshot.path
<1>1. /\ path.offsets \in Seq(Offset) /\ path.commits \in Nat
      /\ live.offsets \in Seq(Offset) /\ live.commits \in Nat
      /\ live2.offsets \in Seq(Offset) /\ live2.commits \in Nat
  BY DEF Snapshot, Checkpoint
<1>2. ~ Rebuilt' /\ path.commits <= live.commits => path.commits <= live2.commits
  BY <1>1
<1>3. ~ Rebuilt' /\ IsPrefix(path.offsets, live.offsets) => IsPrefix(path.offsets, live2.offsets)
  BY <1>1, PrefixTrans
<1> QED
  BY <1>2, <1>3 DEF Copied

LEMMA ReplaceKeeps ==
    ASSUME RestoreInv, NEW q, Replaces(q),
           pc' \in {"idle", "planned", "executed", "failed", "down"},
           pc' \in {"planned", "executed"} => Batch(q) > 0,
           table' \in BalanceRow, table'.last <= MaxSeq, found' \in Found,
           tag = Live => Regular(q) /\ InStep(q)',
           tag = Fresh /\ ~drill.partial =>
               Whole(q) /\ InStep(q)' /\ Upright'
    PROVE  RestoreInv'
<1>1. /\ Typed /\ Running /\ Mirrored
      /\ q \in Checkpoint /\ Inside(q)
      /\ paths' = [paths EXCEPT ![tag] = q]
      /\ topic' = topic /\ tag' = tag /\ snapshots' = snapshots
      /\ taken' = taken /\ drill' = drill /\ corrupt' = corrupt
      /\ paths[tag].commits <= q.commits /\ IsPrefix(paths[tag].offsets, q.offsets)
  BY DEF RestoreInv, Replaces, Path, damage
<1>2. /\ paths'[tag] = q
      /\ \A t \in {Live, Fresh} : t # tag => paths'[t] = paths[t]
      /\ paths' \in [{Live, Fresh} -> Checkpoint]
      /\ \A t \in {Live, Fresh} : paths[t] \in Checkpoint /\ Inside(paths[t])
      /\ tag \in {Live, Fresh} /\ Live # Fresh
  <2>1. Live # Fresh
    BY DEF Live, Fresh
  <2> QED
    BY <1>1, <2>1, ExceptFact, PathFact DEF Typed
<1>3. Typed'
  <2>1. \A t \in {Live, Fresh} : Inside(paths[t])'
    BY <1>1, <1>2 DEF Inside
  <2>2. \A i \in DOMAIN snapshots : Inside(snapshots[i].path)'
    BY <1>1 DEF Typed, Inside
  <2>3. pc' \in {"planned", "executed"} => Batch(Path)' > 0
    BY <1>1, <1>2 DEF Path, Batch
  <2> QED
    BY <1>1, <1>2, <2>1, <2>2, <2>3 DEF Typed
<1>4. Running'
  <2>1. CASE tag = Live
    BY <1>1, <1>2, <2>1 DEF Running
  <2>2. CASE tag = Fresh
    BY <1>1, <1>2, <2>2 DEF Running, Upright
  <2> QED
    BY <1>2, <2>1, <2>2
<1>5. Mirrored'
  <2> DEFINE live == paths[Live]
             live2 == paths'[Live]
  <2>1. live \in Checkpoint /\ live2 \in Checkpoint /\ live = paths[Live] /\ live2 = paths'[Live]
    BY <1>2
  <2>2. Rebuilt => Rebuilt'
    BY <1>1, <1>2 DEF Rebuilt
  <2>3. live.commits <= live2.commits /\ IsPrefix(live.offsets, live2.offsets)
    <3>1. CASE tag = Live
      BY <1>1, <1>2, <3>1
    <3>2. CASE tag = Fresh
      <4>1. live2 = live /\ live.commits \in Nat /\ live.offsets \in Seq(Offset)
        BY <1>2, <3>2 DEF Checkpoint
      <4>2. IsPrefix(live.offsets, live.offsets)
        BY <4>1, PrefixFact
      <4> QED
        BY <4>1, <4>2
    <3> QED
      BY <1>2, <3>1, <3>2
  <2>4. \A i \in DOMAIN snapshots : snapshots[i] \in Snapshot /\ Copied(snapshots[i])
    BY <1>1, LenProperties, ElementOfSeq DEF Typed, Mirrored
  <2> HIDE DEF live, live2
  <2>5. \A i \in DOMAIN snapshots : Copied(snapshots[i])'
    <3> TAKE i \in DOMAIN snapshots
    <3>1. PICK x \in Snapshot : Copied(x) /\ x = snapshots[i] /\ x = snapshots'[i]
      BY <1>1, <2>4
    <3>2. Copied(x)'
      BY <2>1, <2>2, <2>3, <3>1, CopiedKept
    <3> QED
      BY <3>1, <3>2 DEF Copied
  <2> QED
    BY <1>1, <2>5 DEF Mirrored
<1> QED
  BY <1>3, <1>4, <1>5 DEF RestoreInv

(* How far the running engine's path is.                                   *)
LEMMA ProgressFact ==
    ASSUME RestoreInv
    PROVE  /\ Path \in Checkpoint /\ Inside(Path)
           /\ Path.commits \in Nat /\ Batch(Path) \in Nat /\ Len(Path.states) \in Nat
           /\ table \in BalanceRow /\ table.last <= MaxSeq /\ found \in Found
           /\ tag = Live => Regular(Path) /\ InStep(Path)
           /\ tag = Fresh /\ ~drill.partial =>
                 Whole(Path) /\ InStep(Path) /\ Upright
<1>1. Typed /\ Running
  BY DEF RestoreInv
<1>2. Path \in Checkpoint /\ Inside(Path)
  BY <1>1, PathFact
<1> QED
  BY <1>1, <1>2, CheckpointFact DEF Running, Typed, Path

LEMMA PlanKeeps ==
    ASSUME RestoreInv, Plan
    PROVE  RestoreInv' /\ UNCHANGED table
<1>1. PICK q : /\ Replaces(q) /\ q.commits = Path.commits
               /\ q.states = Path.states /\ Batch(q) = Batch(Path) + 1
  BY PlanStep DEF RestoreInv
<1>2. pc = "idle" /\ pc' = "planned" /\ table' = table /\ found' = found
  BY DEF Plan
<1>3. tag = Live => Regular(q) /\ InStep(q)'
  BY <1>1, <1>2, ProgressFact DEF Regular, InStep
<1>4. tag = Fresh /\ ~drill.partial => Whole(q) /\ InStep(q)' /\ Upright'
  BY <1>1, <1>2, ProgressFact DEF Whole, InStep, Loadable, Upright
<1>5. Batch(q) > 0
  BY <1>1, ProgressFact
<1> QED
  BY <1>1, <1>2, <1>3, <1>4, <1>5, ProgressFact, ReplaceKeeps

LEMMA ExecuteKeeps ==
    ASSUME RestoreInv, Execute
    PROVE  RestoreInv' /\ table'.last >= table.last
<1>1. Typed
  BY DEF RestoreInv
<1>2. /\ table' \in BalanceRow /\ table'.last <= MaxSeq /\ table'.last >= table.last
      /\ found' \in Found
  BY <1>1, OutcomeFact
<1>3. PICK q : /\ Replaces(q) /\ q.commits = Path.commits
               /\ Batch(q) = Batch(Path) /\ Len(q.states) = Batch(Path)
  BY <1>1, OutcomeFact
<1>4. pc = "planned" /\ pc' = "executed" /\ Loadable(Path)
  BY DEF Execute
<1>5. tag = Live => Regular(q) /\ InStep(q)'
  BY <1>3, <1>4, ProgressFact DEF Regular, InStep
<1>6. tag = Fresh /\ ~drill.partial => Whole(q) /\ InStep(q)' /\ Upright'
  BY <1>3, <1>4, ProgressFact DEF Whole, InStep, Loadable, Upright
<1>7. Batch(q) > 0
  BY <1>1, <1>3, <1>4 DEF Typed
<1> QED
  BY <1>2, <1>3, <1>4, <1>5, <1>6, <1>7, ReplaceKeeps

LEMMA CommitKeeps ==
    ASSUME RestoreInv, Commit
    PROVE  RestoreInv' /\ UNCHANGED table
<1>1. PICK q : /\ Replaces(q) /\ q.commits = Batch(Path)
               /\ Batch(q) = Batch(Path) /\ q.states = Path.states
  BY CommitStep DEF RestoreInv
<1>2. pc = "executed" /\ pc' = "idle" /\ table' = table /\ found' = found
  BY DEF Commit
<1>3. tag = Live => Regular(q) /\ InStep(q)'
  BY <1>1, <1>2, ProgressFact DEF Regular, InStep
<1>4. tag = Fresh /\ ~drill.partial => Whole(q) /\ InStep(q)' /\ Upright'
  BY <1>1, <1>2, ProgressFact DEF Whole, InStep, Loadable, Upright
<1> QED
  BY <1>1, <1>2, <1>3, <1>4, ProgressFact, ReplaceKeeps

(* The engine leaves its checkpoint as it is.                              *)
LEMMA SamePath ==
    ASSUME RestoreInv, UNCHANGED <<topic, paths, tag, snapshots, taken, drill, damage>>
    PROVE  Replaces(Path)
<1>1. paths' = [paths EXCEPT ![tag] = Path]
  BY DEF RestoreInv, Typed, Path
<1>2. IsPrefix(Path.offsets, Path.offsets) /\ Path.commits <= Path.commits
  <2>1. Path.offsets \in Seq(Offset) /\ Path.commits \in Nat
    BY ProgressFact, CheckpointFact
  <2> QED
    BY <2>1, PrefixFact
<1> QED
  BY <1>1, <1>2, ProgressFact DEF Replaces

(* The query fails, or the engine is stopped: an engine on the fresh path  *)
(* is not stopped, and fails only if that path was copied from less than a *)
(* whole snapshot or with garbage in it.                                   *)
LEMMA FailKeeps ==
    ASSUME RestoreInv, Fail \/ StopEngine
    PROVE  RestoreInv' /\ UNCHANGED table
<1>1. /\ UNCHANGED <<topic, paths, tag, table, found, snapshots, taken, drill, damage>>
      /\ pc' \in {"failed", "down"}
  BY DEF Fail, StopEngine
<1>2. PICK q : Replaces(q) /\ q = Path
  BY <1>1, SamePath
<1>3. tag = Live => Regular(q) /\ InStep(q)'
  BY <1>1, <1>2, ProgressFact DEF InStep
<1>4. ASSUME tag = Fresh, ~drill.partial
      PROVE  Whole(q) /\ InStep(q)' /\ Upright'
  <2>1. Whole(Path) /\ InStep(Path)
    BY <1>4, ProgressFact
  <2>2. Live # Fresh
    BY DEF Live, Fresh
  <2>3. Path.commits \in Nat /\ Batch(Path) \in Nat
    BY ProgressFact
  <2>4. pc' = "failed" /\ Fresh \in corrupt /\ corrupt' = corrupt
    BY <1>1, <1>4, <2>1, <2>2, <2>3 DEF Fail, StopEngine, Whole, InStep, damage
  <2> QED
    BY <1>2, <2>1, <2>4 DEF InStep, Upright
<1> QED
  BY <1>1, <1>2, <1>3, <1>4, ProgressFact, ReplaceKeeps

(***************************************************************************)
(* The snapshots                                                           *)
(***************************************************************************)

(* A snapshot with other parts.                                            *)
Taken(name, mirror, seen, path) ==
    [name |-> name, mirror |-> mirror, seen |-> seen, path |-> path]

LEMMA TakenFact ==
    ASSUME NEW old \in Snapshot, NEW m, NEW p
    PROVE  /\ old = Taken(old.name, old.mirror, old.seen, old.path)
           /\ [old EXCEPT !.mirror = m] = Taken(old.name, m, old.seen, old.path)
           /\ [old EXCEPT !.path = p] = Taken(old.name, old.mirror, old.seen, p)
<1>1. old = Taken(old.name, old.mirror, old.seen, old.path)
  BY DEF Snapshot, Taken
<1>2. PICK a, b, c, d : old = Taken(a, b, c, d)
  BY <1>1
<1>3. old.name = a /\ old.mirror = b /\ old.seen = c /\ old.path = d
  BY <1>2 DEF Taken
<1>4. [old EXCEPT !.mirror = m] = Taken(a, m, c, d)
  BY <1>2 DEF Taken
<1>5. [old EXCEPT !.path = p] = Taken(a, b, c, p)
  BY <1>2 DEF Taken
<1> QED
  BY <1>1, <1>3, <1>4, <1>5

LEMMA SnapshotsFact ==
    ASSUME RestoreInv
    PROVE  /\ Newest \in Nat /\ Newest <= Keep + 1 /\ DOMAIN snapshots = 1..Newest
           /\ snapshots \in Seq(Snapshot)
           /\ \A i \in 1..Newest : /\ snapshots[i] \in Snapshot
                                   /\ Inside(snapshots[i].path) /\ Copied(snapshots[i])
BY LenProperties, ElementOfSeq DEF RestoreInv, Typed, Mirrored, Newest

LEMMA SnapshotsKeep ==
    ASSUME RestoreInv, UNCHANGED <<topic, engine, drill, corrupt>>, taken' \in Nat,
           NEW s \in Seq(Snapshot), snapshots' = s, Len(s) <= Keep + 1,
           \A i \in 1..Len(s) : Inside(s[i].path) /\ Copied(s[i])
    PROVE  RestoreInv' /\ UNCHANGED table
<1>1. /\ topic' = topic /\ paths' = paths /\ tag' = tag /\ pc' = pc
      /\ table' = table /\ found' = found /\ drill' = drill /\ corrupt' = corrupt
  BY DEF engine
<1>2. DOMAIN s = 1..Len(s)
  BY LenProperties
<1>3. Typed'
  BY <1>1, <1>2 DEF RestoreInv, Typed, Inside, Path, Batch
<1>4. Running'
  BY <1>1 DEF RestoreInv, Running, Regular, InStep, Whole, Loadable, Batch, Upright
<1>5. Mirrored'
  BY <1>1, <1>2 DEF Mirrored, Copied, Rebuilt, Whole, Loadable, Batch
<1> QED
  BY <1>1, <1>3, <1>4, <1>5 DEF RestoreInv

(* A step of the mirror on the newest snapshot.                            *)
LEMMA NewestKeeps ==
    ASSUME RestoreInv, UNCHANGED <<topic, engine, taken, drill, corrupt>>, Mirroring,
           NEW x \in Snapshot, Inside(x.path), Copied(x),
           snapshots' = [snapshots EXCEPT ![Newest] = x]
    PROVE  RestoreInv' /\ UNCHANGED table
<1>1. /\ Newest \in 1..Newest /\ Newest \in Nat /\ Newest = Len(snapshots)
      /\ snapshots \in Seq(Snapshot) /\ Newest <= Keep + 1
  BY SnapshotsFact DEF Mirroring, Newest
<1> DEFINE s == [snapshots EXCEPT ![Newest] = x]
<1>2. /\ s \in Seq(Snapshot) /\ Len(s) = Len(snapshots)
      /\ \A j \in 1..Len(snapshots) : s[j] = IF j = Newest THEN x ELSE snapshots[j]
  BY <1>1, ExceptSeq
<1>3. snapshots' = s /\ taken' \in Nat /\ UNCHANGED <<topic, engine, drill, corrupt>>
  BY DEF RestoreInv, Typed
<1> HIDE DEF s
<1>4. \A i \in 1..Len(s) : Inside(s[i].path) /\ Copied(s[i])
  BY <1>1, <1>2, SnapshotsFact
<1>5. Len(s) <= Keep + 1
  BY <1>1, <1>2
<1>6. PICK z \in Seq(Snapshot) : z = s
  BY <1>2
<1> QED
  BY <1>3, <1>4, <1>5, <1>6, SnapshotsKeep

LEMMA LiveFact ==
    ASSUME RestoreInv
    PROVE  LET live == paths[Live]
           IN  /\ live \in Checkpoint /\ Inside(live) /\ Regular(live)
               /\ live.commits \in Nat /\ live.next \in Nat /\ live.offsets \in Seq(Offset)
               /\ live.states \in Seq(State) /\ Batch(live) \in Nat /\ Len(live.states) \in Nat
               /\ Batch(live) > 0 => ~ Rebuilt
<1>1. paths[Live] \in Checkpoint /\ Inside(paths[Live]) /\ Regular(paths[Live])
  BY PathFact DEF RestoreInv, Running
<1>2. Batch(paths[Live]) > 0 => ~ Rebuilt
  BY EmptyFact DEF Rebuilt
<1> QED
  BY <1>1, <1>2, CheckpointFact

LEMMA MirrorCommitsKeeps ==
    ASSUME RestoreInv, MirrorCommits
    PROVE  /\ RestoreInv' /\ UNCHANGED table
           /\ \E x \in Snapshot :
                 /\ snapshots' = Append(snapshots, x) /\ x.name = taken + 1
                 /\ x.path.offsets = <<>> /\ x.path.states = <<>>
                 /\ x.path.commits = paths[Live].commits
                 /\ x.path.next = paths[Live].next
<1> DEFINE live == paths[Live]
           path == Made(<<>>, live.commits, live.next, <<>>)
           x == [name |-> taken + 1, mirror |-> "offsets", seen |-> Resumes(Path), path |-> path]
           s == Append(snapshots, x)
<1>1. /\ Newest \in Nat /\ Newest = Len(snapshots) /\ Newest <= Keep
      /\ snapshots \in Seq(Snapshot) /\ taken \in Nat
  BY SnapshotsFact DEF MirrorCommits, Newest, RestoreInv, Typed
<1>2. live.commits \in Nat /\ live.next \in Nat /\ Batch(live) > 0
  BY LiveFact DEF MirrorCommits
<1>3. path \in Checkpoint /\ path.offsets = <<>> /\ path.states = <<>>
      /\ path.commits = live.commits /\ path.next = live.next
  BY <1>2 DEF Made, Checkpoint
<1>4. snapshots' = s /\ taken' = taken + 1 /\ UNCHANGED <<topic, engine, drill, damage>>
  <2>1. [Empty EXCEPT !.commits = live.commits, !.next = live.next] = path
    <3> DEFINE a == live.commits
               b == live.next
    <3> HIDE DEF a, b
    <3>1. [Empty EXCEPT !.commits = a, !.next = b] = Made(Empty.offsets, a, b, Empty.states)
      BY EmptyFact, MadeFact, Zenon
    <3>2. Empty.offsets = <<>> /\ Empty.states = <<>>
      BY DEF Empty
    <3> QED
      BY <3>1, <3>2, Zenon DEF a, b
  <2> QED
    BY <2>1 DEF MirrorCommits
<1>5. Resumes(Path) \in Nat
  BY TopicFact, PlanFact, ProgressFact DEF RestoreInv
<1> HIDE DEF path
<1>6. x \in Snapshot
  BY <1>1, <1>3, <1>5 DEF Snapshot, Stages
<1>7. Inside(x.path) /\ Copied(x) /\ x.path = path /\ x.name = taken + 1
  BY <1>2, <1>3 DEF Inside, Copied
<1> HIDE DEF x
<1>8. /\ s \in Seq(Snapshot) /\ Len(s) = Newest + 1
      /\ \A i \in 1..(Newest + 1) : s[i] = IF i <= Newest THEN snapshots[i] ELSE x
  BY <1>1, <1>6
<1> HIDE DEF s
<1>9. \A i \in 1..Len(s) : Inside(s[i].path) /\ Copied(s[i])
  BY <1>1, <1>7, <1>8, SnapshotsFact
<1>10. Len(s) <= Keep + 1 /\ taken' \in Nat
  BY <1>1, <1>4, <1>8, RestoreAssumption
<1>11. PICK z \in Seq(Snapshot) : z = s
  BY <1>8
<1>12. RestoreInv' /\ UNCHANGED table
  BY <1>4, <1>9, <1>10, <1>11, SnapshotsKeep DEF damage
<1> QED
  BY <1>3, <1>4, <1>6, <1>7, <1>12 DEF s

LEMMA PruneKeeps ==
    ASSUME RestoreInv, Prune
    PROVE  RestoreInv' /\ UNCHANGED table
<1> DEFINE s == SubSeq(snapshots, Newest - Keep + 1, Newest)
<1>1. /\ Newest \in Nat /\ Newest > Keep /\ Keep \in Nat /\ snapshots' = s
      /\ UNCHANGED <<topic, engine, drill, corrupt>> /\ taken' \in Nat
  BY SnapshotsFact, RestoreAssumption DEF Prune, RestoreInv, Typed, damage
<1>2. \A i \in (Newest - Keep + 1)..Newest :
          snapshots[i] \in Snapshot /\ Inside(snapshots[i].path) /\ Copied(snapshots[i])
  BY <1>1, SnapshotsFact
<1>3. /\ s \in Seq(Snapshot)
      /\ Len(s) = IF Newest - Keep + 1 <= Newest THEN Newest - (Newest - Keep + 1) + 1 ELSE 0
      /\ \A i \in 1..(Newest - (Newest - Keep + 1) + 1) :
            s[i] = snapshots[(Newest - Keep + 1) + i - 1]
  <2>1. Newest - Keep + 1 \in Int /\ Newest \in Int
    BY <1>1
  <2> HIDE DEF Newest
  <2> QED
    BY <1>2, <2>1, SubSeqProperties
<1> HIDE DEF s
<1>4. Len(s) = Keep
  BY <1>1, <1>3, RestoreAssumption
<1>5. \A i \in 1..Len(s) : Inside(s[i].path) /\ Copied(s[i])
  <2> TAKE i \in 1..Len(s)
  <2> DEFINE j == (Newest - Keep + 1) + i - 1
  <2>1. j \in (Newest - Keep + 1)..Newest /\ s[i] = snapshots[j]
    BY <1>1, <1>3, <1>4
  <2> HIDE DEF j
  <2> QED
    BY <1>2, <2>1
<1>6. PICK z \in Seq(Snapshot) : z = s
  BY <1>3
<1> QED
  BY <1>1, <1>4, <1>5, <1>6, SnapshotsKeep

LEMMA MirrorOffsetsKeeps ==
    ASSUME RestoreInv, MirrorOffsets
    PROVE  /\ RestoreInv' /\ UNCHANGED table
           /\ \E x \in Snapshot :
                 /\ snapshots' = [snapshots EXCEPT ![Newest] = x] /\ x.name = snapshots[Newest].name
                 /\ x.path.offsets = paths[Live].offsets
                 /\ x.path.commits = snapshots[Newest].path.commits
                 /\ x.path.next = snapshots[Newest].path.next
                 /\ x.path.states = snapshots[Newest].path.states
<1> DEFINE live == paths[Live]
           old == snapshots[Newest]
           path == Made(live.offsets, old.path.commits, old.path.next, old.path.states)
           x == [name |-> old.name, mirror |-> "states", seen |-> old.seen, path |-> path]
<1>1. /\ Mirroring /\ old.mirror = "offsets" /\ Batch(live) > 0
      /\ snapshots' = [snapshots EXCEPT ![Newest].mirror = "states",
                                        ![Newest].path.offsets = live.offsets]
      /\ UNCHANGED <<topic, engine, taken, drill, corrupt>>
  BY DEF MirrorOffsets, damage
<1>2. /\ Newest \in 1..Newest /\ old \in Snapshot /\ Inside(old.path) /\ Copied(old)
      /\ snapshots \in Seq(Snapshot) /\ DOMAIN snapshots = 1..Newest
  BY <1>1, SnapshotsFact DEF Mirroring
<1>3. /\ live.offsets \in Seq(Offset) /\ Regular(live) /\ Inside(live) /\ ~ Rebuilt
      /\ Batch(live) \in Nat /\ live.commits \in Nat
  BY <1>1, LiveFact
<1>4. /\ old.path \in Checkpoint /\ old.name \in Nat /\ old.seen \in Nat
      /\ old.path.commits \in Nat /\ old.path.next \in Nat /\ old.path.states \in Seq(State)
      /\ old = [name |-> old.name, mirror |-> old.mirror, seen |-> old.seen, path |-> old.path]
  BY <1>2, CheckpointFact DEF Snapshot
<1>5. path \in Checkpoint /\ path.offsets = live.offsets /\ path.next = old.path.next
      /\ path.commits = old.path.commits /\ path.states = old.path.states
  BY <1>3, <1>4 DEF Made, Checkpoint
<1>6. snapshots' = [snapshots EXCEPT ![Newest] = x]
  <2> DEFINE r == [snapshots EXCEPT ![Newest].mirror = "states"]
             v == live.offsets
  <2>1. [old.path EXCEPT !.offsets = v] = path
    <3> HIDE DEF v
    <3>1. [old.path EXCEPT !.offsets = v] = Made(v, old.path.commits, old.path.next, old.path.states)
      BY <1>4, MadeFact, Zenon
    <3> QED
      BY <3>1, Zenon DEF v
  <2> DEFINE t == Taken(old.name, "states", old.seen, old.path)
  <2>2. [old EXCEPT !.mirror = "states"] = t
    BY <1>2, TakenFact
  <2>3. r = [snapshots EXCEPT ![Newest] = [old EXCEPT !.mirror = "states"]]
    BY Zenon
  <2>4. r[Newest].path = old.path /\ r[Newest] = t
    <3>1. t.path = old.path
      BY DEF Taken
    <3> HIDE DEF t, r
    <3> QED
      BY <1>2, <2>2, <2>3, <3>1
  <2>5. snapshots' = [r EXCEPT ![Newest] = [r[Newest] EXCEPT !.path =
                         [r[Newest].path EXCEPT !.offsets = v]]]
    <3>1. snapshots' = [r EXCEPT ![Newest].path.offsets = v]
      BY <1>1
    <3> HIDE DEF r, v
    <3> QED
      BY <3>1, Zenon
  <2>6. [t EXCEPT !.path = path] = x
    <3>1. t \in Snapshot /\ t.name = old.name /\ t.mirror = "states" /\ t.seen = old.seen
      BY <1>4 DEF Taken, Snapshot, Stages
    <3>2. x = Taken(old.name, "states", old.seen, path)
      BY DEF Taken
    <3> HIDE DEF t, path
    <3>3. [t EXCEPT !.path = path] = Taken(t.name, t.mirror, t.seen, path)
      BY <3>1, TakenFact, Zenon
    <3> QED
      BY <3>1, <3>2, <3>3, Zenon
  <2> HIDE DEF r, v, path, old, t, x
  <2>7. snapshots' = [r EXCEPT ![Newest] = x]
    BY <2>1, <2>4, <2>5, <2>6, Zenon
  <2> QED
    BY <1>2, <2>2, <2>3, <2>7
<1>7. Inside(path)
  BY <1>3, <1>5 DEF Inside
<1> HIDE DEF path, live
<1>8. x \in Snapshot /\ x.path = path /\ x.name = old.name
  BY <1>4, <1>5 DEF Snapshot, Stages
<1>9. Copied(x)
  <2>1. old.path.states = <<>> /\ old.path.commits <= paths[Live].commits
    BY <1>1, <1>2, <1>3 DEF Copied
  <2>2. Batch(path) = Batch(live)
    BY <1>5 DEF Batch
  <2>3. path.commits <= paths[Live].commits /\ path.commits <= Batch(path)
    BY <1>3, <1>4, <1>5, <2>1, <2>2 DEF Regular, live
  <2>4. IsPrefix(path.offsets, paths[Live].offsets)
    BY <1>3, <1>5, PrefixFact DEF live
  <2> QED
    BY <1>5, <2>1, <2>3, <2>4 DEF Copied
<1> HIDE DEF x
<1>10. PICK z \in Snapshot : z = x
  BY <1>8
<1>11. RestoreInv' /\ UNCHANGED table
  BY <1>1, <1>6, <1>7, <1>9, <1>10, NewestKeeps DEF x
<1> QED
  BY <1>5, <1>6, <1>8, <1>11 DEF live

LEMMA MirrorStatesKeeps ==
    ASSUME RestoreInv, MirrorStates
    PROVE  /\ RestoreInv' /\ UNCHANGED table
           /\ \E x \in Snapshot :
                 /\ snapshots' = [snapshots EXCEPT ![Newest] = x] /\ x.name = snapshots[Newest].name
                 /\ x.path.offsets = snapshots[Newest].path.offsets
                 /\ x.path.commits = snapshots[Newest].path.commits
                 /\ x.path.next = snapshots[Newest].path.next
                 /\ x.path.states = paths[Live].states
<1> DEFINE live == paths[Live]
           old == snapshots[Newest]
           path == Made(old.path.offsets, old.path.commits, old.path.next, live.states)
           x == [name |-> old.name, mirror |-> "done", seen |-> old.seen, path |-> path]
<1>1. /\ Mirroring /\ old.mirror = "states" /\ Batch(live) > 0
      /\ snapshots' = [snapshots EXCEPT
                          ![Newest].mirror = "done",
                          ![Newest].path.states = IF @ = <<>> THEN live.states ELSE @]
      /\ UNCHANGED <<topic, engine, taken, drill, corrupt>>
  BY DEF MirrorStates
<1>2. /\ Newest \in 1..Newest /\ old \in Snapshot /\ Inside(old.path) /\ Copied(old)
      /\ snapshots \in Seq(Snapshot) /\ DOMAIN snapshots = 1..Newest
  BY <1>1, SnapshotsFact DEF Mirroring
<1>3. /\ live.states \in Seq(State) /\ Regular(live) /\ ~ Rebuilt
      /\ Batch(live) \in Nat /\ live.commits \in Nat /\ Len(live.states) \in Nat
      /\ live.offsets \in Seq(Offset)
  BY <1>1, LiveFact
<1>4. /\ old.path \in Checkpoint /\ old.name \in Nat /\ old.seen \in Nat
      /\ old.path.commits \in Nat /\ old.path.next \in Nat /\ old.path.offsets \in Seq(Offset)
      /\ Batch(old.path) \in Nat
      /\ old = [name |-> old.name, mirror |-> old.mirror, seen |-> old.seen, path |-> old.path]
  BY <1>2, CheckpointFact DEF Snapshot
<1>5. /\ old.path.states = <<>> /\ old.path.commits <= Batch(old.path)
      /\ old.path.commits <= live.commits /\ IsPrefix(old.path.offsets, live.offsets)
  BY <1>1, <1>2, <1>3 DEF Copied
<1>6. path \in Checkpoint /\ path.offsets = old.path.offsets /\ path.next = old.path.next
      /\ path.commits = old.path.commits /\ path.states = live.states
  BY <1>3, <1>4 DEF Made, Checkpoint
<1>7. snapshots' = [snapshots EXCEPT ![Newest] = x]
  <2> DEFINE r == [snapshots EXCEPT ![Newest].mirror = "done"]
             v == live.states
  <2>1. [old.path EXCEPT !.states = v] = path
    <3> HIDE DEF v
    <3>1. [old.path EXCEPT !.states = v] = Made(old.path.offsets, old.path.commits, old.path.next, v)
      BY <1>4, MadeFact, Zenon
    <3> QED
      BY <3>1, Zenon DEF v
  <2> DEFINE t == Taken(old.name, "done", old.seen, old.path)
  <2>2. [old EXCEPT !.mirror = "done"] = t
    BY <1>2, TakenFact
  <2>3. r = [snapshots EXCEPT ![Newest] = [old EXCEPT !.mirror = "done"]]
    BY Zenon
  <2>4. r[Newest].path = old.path /\ r[Newest] = t
    <3>1. t.path = old.path
      BY DEF Taken
    <3> HIDE DEF t, r
    <3> QED
      BY <1>2, <2>2, <2>3, <3>1
  <2>5. snapshots' = [r EXCEPT ![Newest] = [r[Newest] EXCEPT !.path =
                         [r[Newest].path EXCEPT !.states = v]]]
    <3>1. snapshots' = [r EXCEPT ![Newest].path.states = v]
      BY <1>1, <1>5, <2>4
    <3> HIDE DEF r, v
    <3> QED
      BY <3>1, Zenon
  <2>6. [t EXCEPT !.path = path] = x
    <3>1. t \in Snapshot /\ t.name = old.name /\ t.mirror = "done" /\ t.seen = old.seen
      BY <1>4 DEF Taken, Snapshot, Stages
    <3>2. x = Taken(old.name, "done", old.seen, path)
      BY DEF Taken
    <3> HIDE DEF t, path
    <3>3. [t EXCEPT !.path = path] = Taken(t.name, t.mirror, t.seen, path)
      BY <3>1, TakenFact, Zenon
    <3> QED
      BY <3>1, <3>2, <3>3, Zenon
  <2> HIDE DEF r, v, path, old, t, x
  <2>7. snapshots' = [r EXCEPT ![Newest] = x]
    BY <2>1, <2>4, <2>5, <2>6, Zenon
  <2> QED
    BY <1>2, <2>2, <2>3, <2>7
<1>8. Inside(path)
  BY <1>2, <1>6 DEF Inside
<1>9. Whole(path)
  <2>1. Batch(path) = Batch(old.path) /\ Len(path.states) = Len(live.states)
    BY <1>6 DEF Batch
  <2>2. Batch(old.path) <= Batch(live)
    BY <1>3, <1>4, <1>5, PrefixFact DEF Batch
  <2> HIDE DEF live, old, path
  <2> QED
    BY <1>3, <1>4, <1>5, <1>6, <2>1, <2>2 DEF Whole, Loadable, Regular
<1> HIDE DEF path
<1>10. x \in Snapshot /\ x.path = path /\ x.name = old.name
  BY <1>4, <1>6 DEF Snapshot, Stages
<1>11. Copied(x)
  BY <1>5, <1>6, <1>9 DEF Copied
<1> HIDE DEF x
<1>12. PICK z \in Snapshot : z = x
  BY <1>10
<1>13. RestoreInv' /\ UNCHANGED table
  BY <1>1, <1>7, <1>8, <1>11, <1>12, NewestKeeps DEF x
<1> QED
  BY <1>6, <1>7, <1>10, <1>13

LEMMA MirrorFailsKeeps ==
    ASSUME RestoreInv, MirrorFails
    PROVE  /\ RestoreInv' /\ UNCHANGED table
           /\ \E x \in Snapshot :
                 /\ snapshots' = [snapshots EXCEPT ![Newest] = x] /\ x.name = snapshots[Newest].name
                 /\ x.path = snapshots[Newest].path
<1> DEFINE old == snapshots[Newest]
           x == [name |-> old.name, mirror |-> "broken", seen |-> old.seen, path |-> old.path]
<1>1. /\ Mirroring /\ UNCHANGED <<topic, engine, taken, drill, corrupt>>
      /\ snapshots' = [snapshots EXCEPT ![Newest].mirror = "broken"]
  BY DEF MirrorFails, damage
<1>2. /\ Newest \in 1..Newest /\ old \in Snapshot /\ Inside(old.path)
      /\ snapshots \in Seq(Snapshot) /\ DOMAIN snapshots = 1..Newest
  BY <1>1, SnapshotsFact DEF Mirroring
<1>3. /\ old.path \in Checkpoint /\ old.name \in Nat /\ old.seen \in Nat
      /\ old = [name |-> old.name, mirror |-> old.mirror, seen |-> old.seen, path |-> old.path]
  BY <1>2 DEF Snapshot
<1>4. snapshots' = [snapshots EXCEPT ![Newest] = x]
  <2>1. snapshots' = [snapshots EXCEPT ![Newest] = [old EXCEPT !.mirror = "broken"]]
    BY <1>1, <1>2
  <2> HIDE DEF old
  <2>2. [old EXCEPT !.mirror = "broken"] = x
    BY <1>3
  <2> QED
    BY <2>1, <2>2
<1>5. x \in Snapshot /\ Copied(x) /\ Inside(x.path) /\ x.path = old.path
      /\ x.name = old.name
  BY <1>2, <1>3 DEF Snapshot, Stages, Copied
<1> HIDE DEF x
<1>6. PICK z \in Snapshot : z = x
  BY <1>5
<1>7. RestoreInv' /\ UNCHANGED table
  BY <1>1, <1>4, <1>5, <1>6, NewestKeeps
<1> QED
  BY <1>4, <1>5, <1>7

(***************************************************************************)
(* The drills                                                              *)
(***************************************************************************)

LEMMA ChooseKeeps ==
    ASSUME RestoreInv, \E kind \in {"restore", "upgrade"} : ChooseLatest(kind)
    PROVE  RestoreInv' /\ UNCHANGED table
<1>1. PICK kind \in {"restore", "upgrade"} : ChooseLatest(kind)
  OBVIOUS
<1>2. /\ drill = NoDrill
      /\ drill' = [NoDrill EXCEPT !.kind = kind, !.chosen = snapshots[Newest].name,
                                  !.whole = snapshots[Newest].mirror = "done"]
      /\ UNCHANGED <<topic, engine, snapshots, taken, corrupt>>
  BY <1>1 DEF ChooseLatest, damage
<1>3. /\ drill.seeded = FALSE /\ drill.partial = FALSE
      /\ drill'.seeded = FALSE /\ drill'.partial = FALSE
      /\ drill' = [kind |-> drill'.kind, chosen |-> drill'.chosen, whole |-> drill'.whole,
                   seeded |-> drill'.seeded, partial |-> drill'.partial]
  BY <1>2 DEF NoDrill
<1>4. /\ topic' = topic /\ paths' = paths /\ tag' = tag /\ pc' = pc /\ table' = table
      /\ found' = found /\ snapshots' = snapshots /\ taken' = taken /\ corrupt' = corrupt
  BY <1>2 DEF engine
<1>5. Typed'
  BY <1>3, <1>4 DEF RestoreInv, Typed, Inside, Path, Batch
<1>6. Running'
  BY <1>3, <1>4 DEF RestoreInv, Running, Regular, InStep, Whole, Loadable, Batch, Upright
<1>7. Mirrored'
  BY <1>4 DEF RestoreInv, Mirrored, Copied, Rebuilt, Whole, Loadable, Batch
<1> QED
  BY <1>4, <1>5, <1>6, <1>7 DEF RestoreInv

(* corrupt_checkpoint.sh, or its exit: nothing was seeded yet.              *)
LEMMA CorruptKeeps ==
    ASSUME RestoreInv, Corrupt \/ NothingToCorrupt
    PROVE  RestoreInv' /\ UNCHANGED table
<1>1. /\ ~ drill.seeded /\ ~ drill'.seeded /\ drill'.seeded \in BOOLEAN
      /\ drill' = [kind |-> drill'.kind, chosen |-> drill'.chosen, whole |-> drill'.whole,
                   seeded |-> drill'.seeded, partial |-> drill'.partial]
  <2>1. CASE Corrupt
    <3>1. drill' = drill /\ ~ drill.seeded
      BY <2>1 DEF Corrupt
    <3> QED
      BY <3>1 DEF RestoreInv, Typed
  <2>2. CASE NothingToCorrupt
    <3>1. ~ drill.seeded /\ drill' = NoDrill
      BY <2>2 DEF NothingToCorrupt
    <3> QED
      BY <3>1 DEF NoDrill
  <2> QED
    BY <2>1, <2>2
<1>2. /\ topic' = topic /\ paths' = paths /\ tag' = tag /\ pc' = pc /\ table' = table
      /\ found' = found /\ snapshots' = snapshots /\ taken' = taken
  BY DEF Corrupt, NothingToCorrupt, engine
<1>3. tag = Live /\ Live # Fresh
  BY <1>1 DEF RestoreInv, Typed, Running, Live, Fresh
<1>4. Typed'
  BY <1>1, <1>2 DEF RestoreInv, Typed, Inside, Path, Batch
<1>5. Running'
  BY <1>1, <1>2, <1>3 DEF RestoreInv, Running, Regular, InStep, Batch
<1>6. Mirrored'
  BY <1>2 DEF RestoreInv, Mirrored, Copied, Rebuilt, Whole, Loadable, Batch
<1> QED
  BY <1>2, <1>4, <1>5, <1>6 DEF RestoreInv

LEMMA SeedKeeps ==
    ASSUME RestoreInv, Seed
    PROVE  RestoreInv' /\ UNCHANGED table
<1>1. PICK i \in 1..Newest :
          /\ paths' = [paths EXCEPT ![Fresh] = snapshots[i].path]
          /\ drill' = [drill EXCEPT !.seeded = TRUE, !.partial = snapshots[i].mirror # "done"]
  BY DEF Seed
<1> DEFINE path == snapshots[i].path
           partial == snapshots[i].mirror # "done"
<1>2. /\ ~ drill.seeded
      /\ topic' = topic /\ tag' = tag /\ pc' = pc /\ table' = table
      /\ found' = found /\ snapshots' = snapshots /\ taken' = taken
  BY DEF Seed
<1>3. snapshots[i] \in Snapshot /\ Inside(path) /\ Copied(snapshots[i])
  BY SnapshotsFact
<1>4. path \in Checkpoint /\ (~ partial => Whole(path))
  BY <1>3 DEF Snapshot, Copied
<1>5. /\ drill'.seeded = TRUE /\ drill'.partial = partial
      /\ drill' = [kind |-> drill'.kind, chosen |-> drill'.chosen, whole |-> drill'.whole,
                   seeded |-> drill'.seeded, partial |-> drill'.partial]
  <2>1. drill = [kind |-> drill.kind, chosen |-> drill.chosen, whole |-> drill.whole,
                 seeded |-> drill.seeded, partial |-> drill.partial]
    BY DEF RestoreInv, Typed
  <2> HIDE DEF partial
  <2>2. drill' = [drill EXCEPT !.seeded = TRUE, !.partial = partial]
    BY <1>1 DEF partial
  <2>3. drill' = [kind |-> drill.kind, chosen |-> drill.chosen, whole |-> drill.whole,
                  seeded |-> TRUE, partial |-> partial]
    BY <2>1, <2>2
  <2> QED
    BY <2>3
<1> HIDE DEF path, partial
<1>6. tag = Live /\ Live # Fresh
  <2>1. tag \in {Live, Fresh} /\ (tag = Fresh => drill.seeded)
    BY DEF RestoreInv, Typed, Running
  <2> QED
    BY <1>2, <2>1 DEF Live, Fresh
<1>7. /\ paths'[Live] = paths[Live] /\ paths'[Fresh] = path
      /\ paths' \in [{Live, Fresh} -> Checkpoint]
  BY <1>1, <1>4, <1>6 DEF RestoreInv, Typed, path
<1>8. Typed'
  <2>1. drill'.seeded \in BOOLEAN
    BY <1>5
  <2>2. \A t \in {Live, Fresh} : Inside(paths[t])'
    BY <1>2, <1>3, <1>7 DEF RestoreInv, Typed, Inside, path
  <2>3. \A j \in DOMAIN snapshots : Inside(snapshots[j].path)'
    BY <1>2 DEF RestoreInv, Typed, Inside
  <2>4. Batch(Path)' = Batch(Path)
    BY <1>2, <1>6, <1>7 DEF Path, Batch
  <2> QED
    BY <1>2, <1>5, <1>7, <2>1, <2>2, <2>3, <2>4 DEF RestoreInv, Typed
<1>9. Running'
  <2>1. Regular(paths[Live])' /\ InStep(paths[Live])'
    BY <1>2, <1>6, <1>7 DEF RestoreInv, Running, Regular, InStep, Batch
  <2>2. ~ drill'.partial => Whole(paths[Fresh])'
    BY <1>4, <1>5, <1>7 DEF Whole, Loadable, Batch
  <2> QED
    BY <1>2, <1>6, <2>1, <2>2 DEF Running
<1>10. Mirrored'
  BY <1>2, <1>6, <1>7 DEF RestoreInv, Mirrored, Copied, Rebuilt, Whole, Loadable, Batch
<1> QED
  BY <1>2, <1>8, <1>9, <1>10 DEF RestoreInv

LEMMA StartFreshKeeps ==
    ASSUME RestoreInv, StartFresh
    PROVE  RestoreInv' /\ UNCHANGED table
<1> DEFINE fresh == paths[Fresh]
<1>1. /\ drill.seeded /\ tag = Live /\ tag' = Fresh /\ pc' = Resumed(fresh)
      /\ topic' = topic /\ paths' = paths /\ table' = table /\ drill' = drill
      /\ found' = found /\ snapshots' = snapshots /\ taken' = taken
  BY DEF StartFresh
<1>2. /\ fresh \in Checkpoint /\ Inside(fresh) /\ fresh.offsets \in Seq(Offset)
      /\ fresh.commits \in Nat /\ Batch(fresh) \in Nat /\ Batch(fresh) = Len(fresh.offsets)
  BY PathFact, CheckpointFact DEF RestoreInv, Batch
<1>3. /\ pc' \in {"idle", "planned"}
      /\ pc' = "planned" => fresh.offsets # <<>> /\ fresh.commits # Batch(fresh)
      /\ pc' = "idle" => fresh.commits = Batch(fresh) \/ fresh.offsets = <<>>
  BY <1>1 DEF Resumed
<1>4. fresh.offsets # <<>> => Batch(fresh) > 0
  BY <1>2, EmptySeq
<1>5. fresh.offsets = <<>> => Batch(fresh) = 0
  BY <1>2
<1>6. Typed'
  BY <1>1, <1>3, <1>4 DEF RestoreInv, Typed, Inside, Path, Batch
<1>7. Running'
  <2>1. ~ drill.partial => Whole(fresh)
    BY <1>1 DEF RestoreInv, Running
  <2>2. ~ drill.partial => InStep(fresh)'
    <3>1. ~ drill.partial => fresh.commits <= Batch(fresh)
      BY <2>1 DEF Whole
    <3> QED
      BY <1>1, <1>2, <1>3, <1>5, <3>1 DEF InStep, Batch
  <2> HIDE DEF fresh
  <2>3. Regular(paths[Live])'
    BY <1>1 DEF RestoreInv, Running, Regular, Batch
  <2>4. ~ drill.partial => Whole(paths[Fresh])'
    BY <1>1, <2>1 DEF Whole, Loadable, Batch, fresh
  <2>5. ~ drill.partial => InStep(paths[Fresh])'
    BY <1>1, <2>2 DEF fresh, InStep, Batch
  <2>6. Live # Fresh
    BY DEF Live, Fresh
  <2> QED
    BY <1>1, <1>3, <2>3, <2>4, <2>5, <2>6 DEF Running, Upright
<1>8. Mirrored'
  BY <1>1 DEF RestoreInv, Mirrored, Copied, Rebuilt, Whole, Loadable, Batch
<1> QED
  BY <1>1, <1>6, <1>7, <1>8 DEF RestoreInv

LEMMA RebuildKeeps ==
    ASSUME RestoreInv, Rebuild
    PROVE  RestoreInv' /\ UNCHANGED table
<1>1. /\ tag = Fresh /\ pc = "idle"
      /\ paths' = [t \in DOMAIN paths |-> Empty]
      /\ drill' = [drill EXCEPT !.kind = "baseline"]
      /\ topic' = topic /\ tag' = tag /\ pc' = pc /\ table' = table
      /\ found' = found /\ snapshots' = snapshots /\ taken' = taken
  BY DEF Rebuild, Drained
<1>2. /\ DOMAIN paths = {Live, Fresh} /\ paths'[Live] = Empty /\ paths'[Fresh] = Empty
      /\ paths' \in [{Live, Fresh} -> Checkpoint] /\ Live # Fresh
  BY <1>1, EmptyFact DEF RestoreInv, Typed, Live, Fresh
<1>3. /\ drill'.seeded = drill.seeded /\ drill'.partial = drill.partial
      /\ drill' = [kind |-> drill'.kind, chosen |-> drill'.chosen, whole |-> drill'.whole,
                   seeded |-> drill'.seeded, partial |-> drill'.partial]
  <2>1. drill = [kind |-> drill.kind, chosen |-> drill.chosen, whole |-> drill.whole,
                 seeded |-> drill.seeded, partial |-> drill.partial]
    BY DEF RestoreInv, Typed
  <2>2. drill' = [kind |-> "baseline", chosen |-> drill.chosen, whole |-> drill.whole,
                  seeded |-> drill.seeded, partial |-> drill.partial]
    BY <1>1, <2>1
  <2> QED
    BY <2>2
<1>4. Typed'
  <2>1. \A t \in {Live, Fresh} : Inside(paths[t])'
    BY <1>2 DEF Inside, Empty
  <2>2. \A j \in DOMAIN snapshots : Inside(snapshots[j].path)'
    BY <1>1 DEF RestoreInv, Typed, Inside
  <2> QED
    BY <1>1, <1>2, <1>3, <2>1, <2>2 DEF RestoreInv, Typed
<1>5. Running'
  <2>1. Regular(paths[Live])' /\ Whole(paths[Fresh])'
    BY <1>2, EmptyFact DEF Regular, Whole, Loadable, Batch
  <2>2. InStep(paths[Fresh])'
    BY <1>1, <1>2, EmptyFact DEF InStep, Batch
  <2> QED
    BY <1>1, <1>2, <1>3, <2>1, <2>2 DEF RestoreInv, Running, Upright
<1>6. Rebuilt'
  BY <1>1, <1>2 DEF Rebuilt
<1>7. Mirrored'
  BY <1>1, <1>6 DEF RestoreInv, Mirrored, Copied, Whole, Loadable, Batch
<1> QED
  BY <1>1, <1>4, <1>5, <1>7 DEF RestoreInv
(***************************************************************************)
(* The whole specification                                                 *)
(***************************************************************************)

LEMMA InitRestoreInv ==
    ASSUME Init
    PROVE  RestoreInv
<1>1. topic \in Topics /\ Len(topic) \in Nat
  <2>1. topic \in Seq([seq : 0..MaxSeq, ts : Nat])
    BY RestoreAssumption DEF Init
  <2> QED
    BY <2>1, LenProperties DEF Init
<1>2. /\ paths \in [{Live, Fresh} -> Checkpoint] /\ tag = Live /\ pc = "idle"
      /\ paths[Live] = Empty /\ paths[Fresh] = Empty /\ Live # Fresh
  BY EmptyFact DEF Init, Live, Fresh
<1>3. Typed
  <2>1. NoRow \in BalanceRow /\ NoRow.last <= MaxSeq
    BY BoundsAssumption DEF NoRow, BalanceRow
  <2>2. NothingFound \in Found
    BY DEF NothingFound, Found
  <2>3. <<>> \in Seq(Snapshot) /\ Len(<<>>) <= Keep + 1 /\ DOMAIN <<>> = {}
    BY RestoreAssumption, EmptySeq
  <2>4. \A t \in {Live, Fresh} : Inside(paths[t])
    BY <1>2, EmptyFact
  <2>5. /\ drill.seeded \in BOOLEAN
        /\ drill = [kind |-> drill.kind, chosen |-> drill.chosen, whole |-> drill.whole,
                    seeded |-> drill.seeded, partial |-> drill.partial]
    BY DEF Init, NoDrill
  <2>6. table = NoRow /\ found = NothingFound /\ snapshots = <<>> /\ taken = 0
    BY DEF Init
  <2> QED
    BY <1>1, <1>2, <2>1, <2>2, <2>3, <2>4, <2>5, <2>6 DEF Typed
<1>4. Running
  <2>1. Regular(paths[Live]) /\ InStep(paths[Live])
    BY <1>2, EmptyFact DEF InStep
  <2>2. ~ drill.seeded
    BY DEF Init, NoDrill
  <2> QED
    BY <1>2, <2>1, <2>2 DEF Running
<1>5. Mirrored
  BY DEF Init, Mirrored
<1> QED
  BY <1>3, <1>4, <1>5 DEF RestoreInv

LEMMA NextKeeps ==
    ASSUME RestoreInv, [Next]_vars
    PROVE  RestoreInv' /\ table'.last >= table.last
<1>1. table.last \in Nat
  BY DEF RestoreInv, Typed, BalanceRow
<1>2. ASSUME UNCHANGED vars
      PROVE  RestoreInv' /\ UNCHANGED table
  <2>1. UNCHANGED <<topic, paths, tag, pc, table, found, snapshots, taken, drill, corrupt>>
    BY <1>2 DEF vars, engine, damage
  <2>2. Typed'
    BY <2>1 DEF RestoreInv, Typed, Inside, Path, Batch
  <2>3. Running'
    BY <2>1 DEF RestoreInv, Running, Regular, InStep, Whole, Loadable, Batch, Upright
  <2>4. Mirrored'
    BY <2>1 DEF RestoreInv, Mirrored, Copied, Rebuilt, Whole, Loadable, Batch
  <2> QED
    BY <2>1, <2>2, <2>3, <2>4 DEF RestoreInv
<1>3. CASE Execute
  BY <1>3, ExecuteKeeps
<1>4. CASE Plan \/ Commit \/ Fail
  BY <1>1, <1>4, PlanKeeps, CommitKeeps, FailKeeps
<1>5. CASE MirrorCommits \/ MirrorOffsets \/ MirrorStates \/ MirrorFails \/ Prune
  BY <1>1, <1>5, MirrorCommitsKeeps, MirrorOffsetsKeeps, MirrorStatesKeeps,
     MirrorFailsKeeps, PruneKeeps
<1>6. CASE Drill
  BY <1>1, <1>6, ChooseKeeps, CorruptKeeps, FailKeeps, SeedKeeps, StartFreshKeeps DEF Drill
<1>7. CASE Rebuild
  BY <1>1, <1>7, RebuildKeeps
<1> QED
  BY <1>1, <1>2, <1>3, <1>4, <1>5, <1>6, <1>7 DEF Next

LEMMA InitDamaged ==
    ASSUME Init
    PROVE  Damaged
<1>1. /\ corrupt = {} /\ spoiled = {} /\ drill.whole = FALSE
      /\ DOMAIN snapshots = {}
  BY EmptySeq DEF Init, NoDrill
<1> QED
  BY <1>1 DEF Damaged

(* Neither names nor damage change.                                        *)
LEMMA UntouchedDamaged ==
    ASSUME Damaged, UNCHANGED <<snapshots, taken, drill, damage>>
    PROVE  Damaged'
BY DEF Damaged, damage

LEMMA CommitsDamaged ==
    ASSUME RestoreInv, Damaged, MirrorCommits
    PROVE  Damaged'
<1>1. PICK x \in Snapshot : snapshots' = Append(snapshots, x) /\ x.name = taken + 1
  BY MirrorCommitsKeeps
<1>2. /\ Newest \in Nat /\ Newest = Len(snapshots) /\ snapshots \in Seq(Snapshot)
      /\ DOMAIN snapshots = 1..Newest /\ taken \in Nat
  BY SnapshotsFact DEF Newest, RestoreInv, Typed
<1>3. /\ DOMAIN snapshots' = 1..(Newest + 1) /\ snapshots'[Newest + 1] = x
      /\ \A i \in 1..Newest : snapshots'[i] = snapshots[i]
  BY <1>1, <1>2
<1>4. taken' = taken + 1 /\ UNCHANGED <<drill, corrupt, spoiled>>
  BY DEF MirrorCommits, damage
<1>5. \A i \in 1..Newest : snapshots[i].name \in 1..taken
  BY <1>2 DEF Damaged
<1>6. \A i \in DOMAIN snapshots' :
          /\ snapshots'[i].name \in 1..taken'
          /\ i # Newest + 1 => i \in 1..Newest /\ snapshots'[i].name # taken + 1
  BY <1>1, <1>2, <1>3, <1>4, <1>5
<1>7. \A i, j \in DOMAIN snapshots' : snapshots'[i].name = snapshots'[j].name => i = j
  BY <1>1, <1>2, <1>3, <1>6 DEF Damaged
<1>8. spoiled \subseteq 1..taken'
  BY <1>2, <1>4 DEF Damaged
<1>9. ASSUME drill.whole
      PROVE  /\ drill.chosen \in 1..taken'
             /\ \A i \in DOMAIN snapshots' :
                   snapshots'[i].name = drill.chosen => snapshots'[i].mirror = "done"
  <2>1. drill.chosen \in 1..taken /\ drill.chosen # taken + 1
    BY <1>2, <1>9 DEF Damaged
  <2> QED
    BY <1>1, <1>2, <1>3, <1>4, <1>6, <1>9, <2>1 DEF Damaged
<1> QED
  BY <1>4, <1>6, <1>7, <1>8, <1>9 DEF Damaged

(* The newest snapshot is being mirrored: it is not one that had ended.    *)
LEMMA MirrorDamaged ==
    ASSUME RestoreInv, Damaged, MirrorOffsets \/ MirrorStates \/ MirrorFails
    PROVE  Damaged'
<1>1. PICK x \in Snapshot : /\ snapshots' = [snapshots EXCEPT ![Newest] = x]
                            /\ x.name = snapshots[Newest].name
  BY MirrorOffsetsKeeps, MirrorStatesKeeps, MirrorFailsKeeps
<1>2. /\ snapshots \in Seq(Snapshot) /\ DOMAIN snapshots = 1..Newest
      /\ Newest \in 1..Newest /\ snapshots[Newest].mirror # "done"
  BY SnapshotsFact DEF MirrorOffsets, MirrorStates, MirrorFails, Mirroring
<1>3. /\ DOMAIN snapshots' = DOMAIN snapshots
      /\ \A i \in DOMAIN snapshots : snapshots'[i].name = snapshots[i].name
      /\ \A i \in DOMAIN snapshots : i # Newest => snapshots'[i] = snapshots[i]
  BY <1>1, <1>2
<1>4. /\ taken' = taken /\ UNCHANGED <<drill, corrupt>>
      /\ spoiled' = spoiled \/ (Live \in corrupt /\ spoiled' = spoiled \cup {snapshots[Newest].name})
  BY DEF MirrorOffsets, MirrorStates, MirrorFails, damage
<1>5. drill.whole => drill.chosen # snapshots[Newest].name
  BY <1>2 DEF Damaged
<1>6. /\ \A i \in DOMAIN snapshots' : snapshots'[i].name \in 1..taken'
      /\ \A i, j \in DOMAIN snapshots' : snapshots'[i].name = snapshots'[j].name => i = j
  BY <1>3, <1>4 DEF Damaged
<1>7. spoiled' \subseteq 1..taken'
  BY <1>2, <1>4 DEF Damaged
<1>8. Live \notin corrupt' /\ drill'.kind # "baseline" => spoiled' = {}
  BY <1>4 DEF Damaged
<1>9. ASSUME drill.whole
      PROVE  /\ drill.chosen \in 1..taken' /\ drill.chosen \notin spoiled'
             /\ \A i \in DOMAIN snapshots' :
                   snapshots'[i].name = drill.chosen => snapshots'[i].mirror = "done"
  BY <1>3, <1>4, <1>5, <1>9 DEF Damaged
<1> QED
  BY <1>4, <1>6, <1>7, <1>8, <1>9 DEF Damaged

LEMMA PruneDamaged ==
    ASSUME RestoreInv, Damaged, Prune
    PROVE  Damaged'
<1>1. /\ Newest \in Nat /\ Keep \in Nat \ {0} /\ Newest > Keep /\ DOMAIN snapshots = 1..Newest
      /\ \A i \in 1..Newest : snapshots[i] \in Snapshot
      /\ snapshots' = SubSeq(snapshots, Newest - Keep + 1, Newest)
      /\ UNCHANGED <<taken, drill, corrupt, spoiled>>
  BY SnapshotsFact, RestoreAssumption DEF Prune, damage
<1>2. PICK k : k = Newest - Keep
  OBVIOUS
<1>3. k \in Nat /\ k + Keep = Newest
  BY <1>1, <1>2
<1>4. PICK n : n = Newest
  OBVIOUS
<1>5. /\ DOMAIN snapshots' = 1..Keep
      /\ \A i \in 1..Keep : k + i \in DOMAIN snapshots /\ snapshots'[i] = snapshots[k + i]
  <2>1. \A i \in (k + 1)..n : snapshots[i] \in Snapshot
    BY <1>1, <1>3, <1>4
  <2>2. k + 1 \in Int /\ n \in Int /\ snapshots' = SubSeq(snapshots, k + 1, n)
    BY <1>1, <1>2, <1>3, <1>4
  <2>3. /\ snapshots' \in Seq(Snapshot)
        /\ Len(snapshots') = IF k + 1 <= n THEN n - (k + 1) + 1 ELSE 0
        /\ \A i \in 1..(n - (k + 1) + 1) : snapshots'[i] = snapshots[(k + 1) + i - 1]
    BY <2>1, <2>2, SubSeqProperties
  <2>4. Len(snapshots') = Keep /\ n - (k + 1) + 1 = Keep
    BY <1>1, <1>3, <1>4, <2>3
  <2>5. DOMAIN snapshots' = 1..Keep
    BY <2>3, <2>4, LenProperties
  <2>6. \A i \in 1..Keep : (k + 1) + i - 1 = k + i /\ k + i \in 1..Newest
    BY <1>1, <1>3
  <2> QED
    BY <1>1, <2>3, <2>4, <2>5, <2>6
<1>6. \A i, j \in 1..Keep : k + i = k + j => i = j
  BY <1>3
<1>7. \A i \in DOMAIN snapshots' : snapshots'[i].name \in 1..taken'
  BY <1>1, <1>5 DEF Damaged
<1>8. \A i, j \in DOMAIN snapshots' : snapshots'[i].name = snapshots'[j].name => i = j
  BY <1>5, <1>6 DEF Damaged
<1>9. ASSUME drill.whole, NEW i \in DOMAIN snapshots', snapshots'[i].name = drill.chosen
      PROVE  snapshots'[i].mirror = "done"
  BY <1>5, <1>9 DEF Damaged
<1> QED
  BY <1>1, <1>7, <1>8, <1>9 DEF Damaged

LEMMA ChooseDamaged ==
    ASSUME RestoreInv, Damaged, \E kind \in {"restore", "upgrade"} : ChooseLatest(kind)
    PROVE  Damaged'
<1>1. PICK kind \in {"restore", "upgrade"} : ChooseLatest(kind)
  OBVIOUS
<1> DEFINE x == snapshots[Newest]
<1>2. /\ drill.kind = "none" /\ ~ drill.seeded /\ Newest \in DOMAIN snapshots
      /\ drill'.kind = kind /\ drill'.chosen = x.name /\ ~ drill'.seeded
      /\ drill'.whole = (x.mirror = "done") /\ ~ drill'.partial
      /\ UNCHANGED <<snapshots, taken, corrupt, spoiled>>
  <2>1. /\ drill = NoDrill /\ Newest > 0
        /\ drill' = [NoDrill EXCEPT !.kind = kind, !.chosen = x.name, !.whole = x.mirror = "done"]
        /\ UNCHANGED <<snapshots, taken, corrupt, spoiled>>
    BY <1>1 DEF ChooseLatest, damage
  <2>2. Newest \in DOMAIN snapshots
    BY <2>1, SnapshotsFact
  <2>3. PICK a, b : a = x.name /\ b = (x.mirror = "done")
    OBVIOUS
  <2> HIDE DEF x
  <2>4. drill' = [NoDrill EXCEPT !.kind = kind, !.chosen = a, !.whole = b]
    BY <2>1, <2>3
  <2>5. drill' = [kind |-> kind, chosen |-> a, whole |-> b, seeded |-> FALSE, partial |-> FALSE]
    BY <2>4 DEF NoDrill
  <2> QED
    BY <2>1, <2>2, <2>3, <2>5 DEF NoDrill
<1>3. spoiled = {} /\ Live \notin corrupt /\ Fresh \notin corrupt
  BY <1>2 DEF Damaged
<1>4. \A i \in DOMAIN snapshots : snapshots[i].name = x.name => i = Newest
  BY <1>2 DEF Damaged
<1>5. ASSUME drill'.whole
      PROVE  \A i \in DOMAIN snapshots : snapshots[i].name = x.name => snapshots[i].mirror = "done"
  BY <1>2, <1>4, <1>5
<1>6. x.name \in 1..taken
  BY <1>2 DEF Damaged
<1> HIDE DEF x
<1> QED
  BY <1>2, <1>3, <1>5, <1>6 DEF Damaged

LEMMA CorruptDamaged ==
    ASSUME RestoreInv, Damaged, Corrupt \/ NothingToCorrupt
    PROVE  Damaged'
<1>1. Live # Fresh /\ ~ drill.seeded
  BY DEF Live, Fresh, Corrupt, NothingToCorrupt
<1>2. CASE Corrupt
  <2>1. /\ drill.kind = "restore" /\ corrupt' = corrupt \cup {Live}
        /\ UNCHANGED <<snapshots, taken, drill, spoiled>>
    BY <1>2 DEF Corrupt
  <2> QED
    BY <1>1, <2>1 DEF Damaged
<1>3. CASE NothingToCorrupt
  <2>1. /\ drill.kind = "restore" /\ Live \notin corrupt
        /\ drill'.kind = "none" /\ drill'.whole = FALSE
        /\ UNCHANGED <<snapshots, taken, corrupt, spoiled>>
    BY <1>3 DEF NothingToCorrupt, NoDrill, damage
  <2> QED
    BY <1>1, <2>1 DEF Damaged
<1> QED
  BY <1>2, <1>3

LEMMA SeedDamaged ==
    ASSUME RestoreInv, Damaged, Seed
    PROVE  Damaged'
<1>1. PICK i \in 1..Newest :
          /\ snapshots[i].name = drill.chosen
          /\ drill' = [drill EXCEPT !.seeded = TRUE, !.partial = snapshots[i].mirror # "done"]
          /\ corrupt' = IF drill.chosen \in spoiled THEN corrupt \cup {Fresh} ELSE corrupt
  BY DEF Seed
<1>2. UNCHANGED <<snapshots, taken, spoiled>> /\ Live # Fresh
  BY DEF Seed, Live, Fresh
<1>3. PICK partial : partial = (snapshots[i].mirror # "done")
  OBVIOUS
<1>4. drill = [kind |-> drill.kind, chosen |-> drill.chosen, whole |-> drill.whole,
               seeded |-> drill.seeded, partial |-> drill.partial]
  BY DEF RestoreInv, Typed
<1>5. drill' = [kind |-> drill.kind, chosen |-> drill.chosen, whole |-> drill.whole,
                seeded |-> TRUE, partial |-> partial]
  BY <1>1, <1>3, <1>4
<1>6. /\ drill'.kind = drill.kind /\ drill'.chosen = drill.chosen /\ drill'.whole = drill.whole
      /\ drill'.seeded = TRUE /\ drill'.partial = partial
  BY <1>5
<1>7. i \in DOMAIN snapshots
  BY SnapshotsFact
<1>8. drill.whole => /\ ~ partial /\ corrupt' = corrupt /\ Fresh \notin corrupt
  BY <1>1, <1>3, <1>7 DEF Damaged
<1>9. /\ corrupt' \subseteq {Live, Fresh} /\ (Live \in corrupt' <=> Live \in corrupt)
  BY <1>1, <1>2 DEF Damaged
<1> QED
  BY <1>2, <1>6, <1>8, <1>9 DEF Damaged

LEMMA RebuildDamaged ==
    ASSUME RestoreInv, Damaged, Rebuild
    PROVE  Damaged'
<1>1. /\ drill' = [drill EXCEPT !.kind = "baseline"] /\ corrupt' = {}
      /\ UNCHANGED <<snapshots, taken, spoiled>>
  BY DEF Rebuild
<1>2. drill = [kind |-> drill.kind, chosen |-> drill.chosen, whole |-> drill.whole,
               seeded |-> drill.seeded, partial |-> drill.partial]
  BY DEF RestoreInv, Typed
<1>3. drill' = [kind |-> "baseline", chosen |-> drill.chosen, whole |-> drill.whole,
                seeded |-> drill.seeded, partial |-> drill.partial]
  BY <1>1, <1>2
<1>4. /\ drill'.kind = "baseline" /\ drill'.chosen = drill.chosen /\ drill'.whole = drill.whole
      /\ drill'.seeded = drill.seeded /\ drill'.partial = drill.partial
  BY <1>3
<1> QED
  BY <1>1, <1>4 DEF Damaged

LEMMA NextDamaged ==
    ASSUME RestoreInv, Damaged, [Next]_vars
    PROVE  Damaged'
<1>1. CASE UNCHANGED vars \/ Plan \/ Execute \/ Commit \/ Fail \/ StopEngine \/ StartFresh
  <2>1. UNCHANGED <<snapshots, taken, drill, damage>>
    BY <1>1 DEF vars, Plan, Execute, Commit, Fail, StopEngine, StartFresh
  <2> QED
    BY <2>1, UntouchedDamaged
<1>2. CASE MirrorCommits \/ MirrorOffsets \/ MirrorStates \/ MirrorFails \/ Prune
  BY <1>2, CommitsDamaged, MirrorDamaged, PruneDamaged
<1>3. CASE Drill
  BY <1>1, <1>3, ChooseDamaged, CorruptDamaged, SeedDamaged DEF Drill
<1>4. CASE Rebuild
  BY <1>4, RebuildDamaged
<1> QED
  BY <1>1, <1>2, <1>3, <1>4 DEF Next

(* The invariant that carries the results below: the live path is at most  *)
(* one batch ahead of its commits, each stage of a mirror has copied a     *)
(* part of it that is still there, and garbage reaches the fresh path only *)
(* through a mirror that ended after the drill had begun.                  *)
THEOREM RestoreInvariant == Spec => [](RestoreInv /\ Damaged)
<1>1. Init => RestoreInv /\ Damaged
  BY InitRestoreInv, InitDamaged
<1>2. RestoreInv /\ Damaged /\ [Next]_vars => RestoreInv' /\ Damaged'
  BY NextKeeps, NextDamaged
<1> QED
  BY <1>1, <1>2, PTL DEF Spec

(* Checkpoints, tables and snapshots hold what they should, and no mirror  *)
(* leaves more snapshots than the retention task keeps, plus one           *)
(* (state_snapshot.py:89-107).                                             *)
THEOREM RestoreTypes == Spec => []TypeOK
<1>1. RestoreInv /\ Damaged => TypeOK
  <2> SUFFICES ASSUME RestoreInv, Damaged PROVE TypeOK
    OBVIOUS
  <2>1. DOMAIN paths = {Live, Fresh} /\ Len(topic) \in Nat
    BY TopicFact DEF RestoreInv, Typed
  <2>2. ASSUME NEW t \in DOMAIN paths
        PROVE  /\ paths[t].commits \in Nat /\ paths[t].next \in Nat
               /\ \A i \in DOMAIN paths[t].states : paths[t].states[i].key \in Key
               /\ \A i \in DOMAIN paths[t].offsets : paths[t].offsets[i].end \in 0..Len(topic)
    <3>1. PICK path : path = paths[t] /\ path \in Checkpoint /\ Inside(path)
      BY <2>1, <2>2, PathFact DEF RestoreInv
    <3>2. /\ path.commits \in Nat /\ path.next \in Nat
          /\ path.offsets \in Seq(Offset) /\ path.states \in Seq(State)
      BY <3>1, CheckpointFact
    <3>3. \A i \in DOMAIN path.states : path.states[i] \in State
      BY <3>2
    <3>4. \A i \in DOMAIN path.offsets : path.offsets[i] \in Offset
      BY <3>2
    <3>5. \A i \in DOMAIN path.states : path.states[i].key \in Key
      BY <3>3 DEF State
    <3>6. \A i \in DOMAIN path.offsets : path.offsets[i].end \in 0..Len(topic)
      BY <2>1, <3>1, <3>4 DEF Offset, Inside
    <3> QED
      BY <3>1, <3>2, <3>5, <3>6
  <2> QED
    BY <2>2 DEF TypeOK, RestoreInv, Typed, Damaged
<1> QED
  BY <1>1, RestoreInvariant, PTL

(* checkpoint_corruption.md:69: a snapshot whose mirror ended, unless it   *)
(* went on after the live path was corrupted, holds the state its first    *)
(* batch starts from, next to the offsets it was made of, though           *)
(* snapshot_state.sh copied the three parts one after the other from an    *)
(* engine that went on.  An engine started on a snapshot that was complete *)
(* when the drill chose it does not fail, and one started on any other     *)
(* only because the copy was partial or holds the corrupted files.         *)
THEOREM SnapshotsAreRecoverable == Spec => []SnapshotIsRecoverable
<1>1. RestoreInv /\ Damaged => SnapshotIsRecoverable
  <2> SUFFICES ASSUME RestoreInv, Damaged PROVE SnapshotIsRecoverable
    OBVIOUS
  <2>1. ASSUME NEW i \in 1..Newest, Complete(snapshots[i])
        PROVE  LET path == snapshots[i].path
               IN  /\ Loadable(path)
                   /\ path.commits <= Batch(path)
                   /\ IsPrefix(path.offsets, paths[Live].offsets) \/ paths[Live] = Empty
    <3>1. i \in DOMAIN snapshots
      BY DEF RestoreInv, Typed, Newest
    <3>2. Copied(snapshots[i])
      BY <3>1 DEF RestoreInv, Mirrored
    <3> QED
      BY <2>1, <3>2 DEF Copied, Complete, Whole, Rebuilt
  <2>2. ASSUME tag = Fresh, pc = "failed"
        PROVE  ~ drill.whole /\ (drill.partial \/ Fresh \in corrupt)
    <3>1. drill.partial \/ Fresh \in corrupt
      BY <2>2 DEF RestoreInv, Running, Upright
    <3>2. drill.whole => ~ drill.partial /\ Fresh \notin corrupt
      BY DEF Damaged
    <3> QED
      BY <3>1, <3>2
  <2> QED
    BY <2>1, <2>2 DEF SnapshotIsRecoverable
<1> QED
  BY <1>1, RestoreInvariant, PTL

(* The guarded MERGE of sinks.py:82-105: no restore, upgrade or replay     *)
(* from earliest takes a durable row back, though the engine computes it   *)
(* from a state that is older than the row.                                *)
THEOREM RowsAreNotTakenBack == Spec => TableNeverRegresses
<1>1. RestoreInv /\ [Next]_vars => [table'.last >= table.last]_vars
  BY NextKeeps
<1> QED
  BY <1>1, RestoreInvariant, PTL DEF Spec, TableNeverRegresses

(***************************************************************************)
(* What an invocation makes of the rows it is given                        *)
(***************************************************************************)

(* The events behind an account, and those it holds back.                  *)
Noticed(a) == {s \in Seqs : s <= a.last \/ s \in a.buf}

Overflowed(recs) == \E q \in recs : q.kind = "BUFFER_OVERFLOW"

(* A row is noticed, unless something is evicted, and one that had been is *)
(* dropped with a record.                                                  *)
LEMMA RowNoticed ==
    ASSUME NEW run \in Run, Sound(run.acct), NEW s \in Seqs
    PROVE  LET next == WithRow(run, s)
           IN  /\ next \in Run /\ Sound(next.acct)
               /\ next.acct.buf \subseteq run.acct.buf \cup {s}
               /\ next.applied \subseteq run.applied \cup run.acct.buf \cup {s}
               /\ run.recs \subseteq next.recs
               /\ \/ Overflowed(next.recs)
                  \/ /\ Noticed(run.acct) \cup {s} \subseteq Noticed(next.acct)
                     /\ s \in Noticed(run.acct) => Rec("DUP_DROPPED", s) \in next.recs
<1> DEFINE a == run.acct
           next == WithRow(run, s)
<1>1. /\ a.last \in Nat /\ a.buf \in SUBSET Seqs /\ MaxSeq \in Nat /\ s \in Nat
      /\ \A x \in a.buf : a.last + 1 < x
  BY SoundPieces DEF Sound, Seqs
<1>2. CASE InOrder(a, s)
  <2> DEFINE b == next.acct
  <2>1. /\ next \in Run /\ b = AfterInOrder(a, s) /\ next.recs = run.recs
        /\ next.applied = run.applied \cup s..b.last
    BY <1>2, InOrderRow
  <2>2. /\ Sound(b) /\ s = a.last + 1 /\ s <= b.last /\ (s + 1)..b.last \subseteq a.buf
        /\ b.buf = a.buf \ ((s + 1)..b.last)
    BY <1>2, <2>1, InOrderFact
  <2>3. b.last \in Nat
    BY <2>2, SoundPieces
  <2> HIDE DEF next, b, a
  <2>4. s \notin Noticed(a)
    BY <1>1, <2>2 DEF Noticed
  <2>5. Noticed(a) \cup {s} \subseteq Noticed(b)
    <3> SUFFICES ASSUME NEW x \in Noticed(a) \cup {s}
                 PROVE  x \in Noticed(b)
      OBVIOUS
    <3>1. x \in Seqs /\ x \in Nat /\ (x <= a.last \/ x \in a.buf \/ x = s)
      BY DEF Noticed, Seqs
    <3>2. x <= b.last \/ x \in a.buf
      BY <1>1, <2>2, <2>3, <3>1
    <3>3. x \in a.buf => x <= b.last \/ x \in b.buf
      BY <2>2, <2>3, <3>1
    <3> QED
      BY <3>1, <3>2, <3>3 DEF Noticed
  <2>6. s..b.last \subseteq a.buf \cup {s}
    BY <1>1, <2>2, <2>3
  <2> QED
    BY <2>1, <2>2, <2>4, <2>5, <2>6 DEF a, b, next
<1>3. CASE ~ InOrder(a, s)
  <2> DEFINE d == Aside(a, s)
  <2>1. /\ next \in Run /\ next.acct = d.acct /\ next.recs = run.recs \cup d.recs
        /\ next.applied = run.applied
    BY <1>3, AsideRow
  <2>2. Sound(d.acct) /\ d.acct.last = a.last
    BY <1>3, AsideFact
  <2>3. CASE Rebuffered(a, s) \/ Replayed(a, s)
    <3>1. d.acct.buf = a.buf /\ d.recs = {Rec("DUP_DROPPED", s)}
      BY <2>3, DropFact DEF Aside
    <3>2. s \in Noticed(a)
      BY <1>1, <2>3 DEF Rebuffered, Replayed, Noticed
    <3> HIDE DEF next, d, a
    <3> QED
      BY <2>1, <2>2, <3>1, <3>2 DEF Noticed, next, a
  <2>4. CASE ~ (Rebuffered(a, s) \/ Replayed(a, s)) /\ Overflows(a, s)
    <3>1. d.recs = {Rec("BUFFER_OVERFLOW", Victim(a, s))} /\ d.acct = AfterOverflow(a, s)
      BY <2>4 DEF Aside
    <3>2. d.acct.buf \subseteq a.buf \cup {s}
      BY <2>4, <3>1, OverflowFact DEF Overflows
    <3> HIDE DEF next, d, a
    <3>3. Overflowed(next.recs)
      <4> DEFINE q == Rec("BUFFER_OVERFLOW", Victim(a, s))
      <4>1. q.kind = "BUFFER_OVERFLOW"
        BY DEF Rec
      <4> HIDE DEF q
      <4> QED
        BY <2>1, <3>1, <4>1 DEF Overflowed, q
    <3> QED
      BY <2>1, <2>2, <3>2, <3>3 DEF next, a
  <2>5. CASE ~ (Rebuffered(a, s) \/ Replayed(a, s)) /\ ~ Overflows(a, s)
    <3>1. Early(a, s) /\ s \notin a.buf /\ s > a.last
      BY <1>1, <1>3, <2>5, RowCases DEF Rebuffered, Early
    <3>2. d.recs = {} /\ d.acct = AfterBuffer(a, s)
      BY <2>5 DEF Aside
    <3>3. d.acct.buf = a.buf \cup {s}
      BY <3>1, <3>2, BufferFact
    <3> HIDE DEF next, d, a
    <3>4. s \notin Noticed(a) /\ Noticed(a) \cup {s} \subseteq Noticed(d.acct)
      BY <1>1, <2>2, <3>1, <3>3 DEF Noticed
    <3> QED
      BY <2>1, <2>2, <3>2, <3>3, <3>4 DEF next, a
  <2> QED
    BY <2>3, <2>4, <2>5
<1> QED
  BY <1>2, <1>3

First(rows, i) == {rows[k] : k \in 1..i}

(* The first i rows have been noticed, unless something was evicted; each  *)
(* that was known by then has left a record.                               *)
Walked(a, rows, i, run) ==
    /\ run \in Run /\ Sound(run.acct)
    /\ run.acct.buf \subseteq a.buf \cup First(rows, i)
    /\ run.applied \subseteq a.buf \cup First(rows, i)
    /\ \/ Overflowed(run.recs)
       \/ /\ Noticed(a) \cup First(rows, i) \subseteq Noticed(run.acct)
          /\ \A k \in 1..i : rows[k] \in Noticed(a) \cup First(rows, k - 1) =>
                Rec("DUP_DROPPED", rows[k]) \in run.recs

LEMMA WalkedRow ==
    ASSUME NEW a, Sound(a), NEW rows \in Seq(Seqs), NEW n \in Nat, n + 1 <= Len(rows),
           NEW run, Walked(a, rows, n, run)
    PROVE  Walked(a, rows, n + 1, WithRow(run, rows[n + 1]))
<1> DEFINE s == rows[n + 1]
           next == WithRow(run, s)
<1>1. s \in Seqs /\ run \in Run /\ Sound(run.acct)
  BY DEF Walked
<1>2. /\ next \in Run /\ Sound(next.acct)
      /\ next.acct.buf \subseteq run.acct.buf \cup {s}
      /\ next.applied \subseteq run.applied \cup run.acct.buf \cup {s}
      /\ run.recs \subseteq next.recs
      /\ \/ Overflowed(next.recs)
         \/ /\ Noticed(run.acct) \cup {s} \subseteq Noticed(next.acct)
            /\ s \in Noticed(run.acct) => Rec("DUP_DROPPED", s) \in next.recs
  BY <1>1, RowNoticed
<1>3. First(rows, n + 1) = First(rows, n) \cup {s}
  <2>1. 1..(n + 1) = 1..n \cup {n + 1}
    OBVIOUS
  <2> QED
    BY <2>1 DEF First
<1> HIDE DEF next
<1>4. Overflowed(run.recs) => Overflowed(next.recs)
  BY <1>2 DEF Overflowed
<1>5. ASSUME ~ Overflowed(next.recs)
      PROVE  /\ Noticed(a) \cup First(rows, n + 1) \subseteq Noticed(next.acct)
             /\ \A k \in 1..(n + 1) : rows[k] \in Noticed(a) \cup First(rows, k - 1) =>
                   Rec("DUP_DROPPED", rows[k]) \in next.recs
  <2>1. /\ Noticed(a) \cup First(rows, n) \subseteq Noticed(run.acct)
        /\ \A k \in 1..n : rows[k] \in Noticed(a) \cup First(rows, k - 1) =>
              Rec("DUP_DROPPED", rows[k]) \in run.recs
    BY <1>4, <1>5 DEF Walked
  <2>2. Noticed(a) \cup First(rows, n + 1) \subseteq Noticed(next.acct)
    BY <1>2, <1>3, <1>5, <2>1
  <2>3. ASSUME NEW k \in 1..(n + 1), rows[k] \in Noticed(a) \cup First(rows, k - 1)
        PROVE  Rec("DUP_DROPPED", rows[k]) \in next.recs
    <3>1. CASE k = n + 1
      <4>1. k - 1 = n
        BY <3>1
      <4>2. s \in Noticed(run.acct)
        BY <2>1, <2>3, <3>1, <4>1
      <4> QED
        BY <1>2, <1>5, <3>1, <4>2
    <3>2. CASE k # n + 1
      <4>1. k \in 1..n
        BY <3>2
      <4> QED
        BY <1>2, <2>1, <2>3, <4>1
    <3> QED
      BY <3>1, <3>2
  <2> QED
    BY <2>2, <2>3
<1>6. /\ next.acct.buf \subseteq a.buf \cup First(rows, n + 1)
      /\ next.applied \subseteq a.buf \cup First(rows, n + 1)
  BY <1>2, <1>3 DEF Walked
<1> QED
  BY <1>2, <1>5, <1>6 DEF Walked, next

LEMMA RowsNoticed ==
    ASSUME NEW a, Sound(a), NEW rows \in Seq(Seqs), NEW w,
           \A k \in 1..Len(rows) : OnTime(rows[k], w)
    PROVE  Walked(a, rows, Len(rows), Runs(FreshRun(a), rows, w)[Len(rows)])
<1> DEFINE run == Runs(FreshRun(a), rows, w)
           S == {n \in Nat : n <= Len(rows) => Walked(a, rows, n, run[n])}
<1>1. /\ run[0] = FreshRun(a)
      /\ \A n \in 1..Len(rows) :
            run[n] = IF OnTime(rows[n], w) THEN WithRow(run[n - 1], rows[n]) ELSE run[n - 1]
  BY RunsFact
<1>2. Len(rows) \in Nat
  OBVIOUS
<1> HIDE DEF run
<1>3. 0 \in S
  <2>1. First(rows, 0) = {}
    BY DEF First
  <2>2. a \in Account /\ FreshRun(a) \in Run /\ FreshRun(a).acct = a /\ FreshRun(a).applied = {}
    BY SoundPieces DEF FreshRun, Run
  <2>3. Walked(a, rows, 0, FreshRun(a))
    BY <2>1, <2>2 DEF Walked
  <2> QED
    BY <1>1, <2>3
<1>4. ASSUME NEW n \in S
      PROVE  n + 1 \in S
  <2> SUFFICES ASSUME n + 1 <= Len(rows)
               PROVE  Walked(a, rows, n + 1, run[n + 1])
    OBVIOUS
  <2>1. n \in Nat /\ n + 1 \in 1..Len(rows) /\ (n + 1) - 1 = n /\ n <= Len(rows)
    BY <1>2
  <2>2. Walked(a, rows, n, run[n])
    BY <2>1
  <2>3. run[n + 1] = WithRow(run[n], rows[n + 1])
    BY <1>1, <2>1
  <2>4. Walked(a, rows, n + 1, WithRow(run[n], rows[n + 1]))
    BY <2>1, <2>2, WalkedRow
  <2> QED
    BY <2>3, <2>4
<1>5. S = Nat
  <2> HIDE DEF S
  <2>1. S \in SUBSET Nat
    BY DEF S
  <2> QED
    BY <1>3, <1>4, <2>1, Induction
<1> QED
  BY <1>2, <1>5 DEF run
(* The hole an invocation confirmed.                                       *)
Confirmed(key, r) == UNION {Hole(key.acct) : s \in Of(r, "SEQUENCE_GAP")}

(* Account z is o after it stepped over hole H and applied, from h on, what *)
(* it held back or what came.                                              *)
Moves(o, came, H, z) ==
    \E h \in Nat :
        /\ o.last < h /\ h <= MaxSeq + 1 /\ H = (o.last + 1)..(h - 1)
        /\ h..z.last \subseteq o.buf \cup came
        /\ z.bal = o.bal + Total[h..z.last]
        /\ h <= z.last \/ (h = o.last + 1 /\ z.last = o.last)
        /\ \A x \in o.buf : h <= x

(* What an invocation with no late row leaves: account z, in the key or, a *)
(* key let go, in the row.                                                 *)
Leaves(key, o, rows, r, z) ==
    LET came == First(rows, Len(rows))
    IN  /\ Sound(z) /\ o.last <= z.last
        /\ Moves(o, came, Confirmed(key, r), z)
        /\ came # {} => Confirmed(key, r) = {}
        /\ z.buf \subseteq o.buf \cup came
        /\ r.applied \subseteq o.buf \cup came
        /\ \/ Overflowed(r.recs)
           \/ /\ Noticed(o) \cup came \subseteq Noticed(z)
              /\ \A k \in 1..Len(rows) : rows[k] \in Noticed(o) \cup First(rows, k - 1) =>
                    Rec("DUP_DROPPED", rows[k]) \in r.recs
        /\ IF r.ran THEN r.row = RowOf(z) ELSE z = o /\ r.key = key
        /\ r.key.exists => r.key.acct = z
        /\ ~ r.key.exists /\ r.ran => RejoinReseed /\ z.buf = {}

LEMMA OpenedSound ==
    ASSUME NEW key \in Key, Sound(key.acct), NEW t \in BalanceRow, t.last <= MaxSeq
    PROVE  /\ Sound(Opened(key, t)) /\ Start(key, t) = FreshRun(Opened(key, t))
           /\ ~ key.exists =>
                 /\ Opened(key, t).buf = {}
                 /\ IF RejoinReseed /\ t.last > 0
                    THEN Opened(key, t).last = t.last /\ Opened(key, t).bal = t.bal
                    ELSE Opened(key, t).last = 0 /\ Opened(key, t).bal = 0
<1>1. Start(key, t) = FreshRun(Opened(key, t))
  BY DEF Start, FreshRun, Opened
<1>2. CASE key.exists
  BY <1>1, <1>2 DEF Opened
<1>3. CASE ~ key.exists
  <2>1. t.last \in Nat /\ t.bal \in Int /\ MaxSeq \in Nat
    BY BoundsAssumption DEF BalanceRow
  <2>2. Opened(key, t) = Reseeded(t.last, t.bal)
    BY <1>3 DEF Opened
  <2>3. Reseeded(t.last, t.bal) =
           IF RejoinReseed /\ t.last > 0
           THEN [last |-> t.last, bal |-> t.bal, buf |-> {}, seen |-> 0]
           ELSE [last |-> 0, bal |-> 0, buf |-> {}, seen |-> 0]
    <3>1. CASE RejoinReseed /\ t.last > 0
      <4>1. Reseeded(t.last, t.bal) \in {[last |-> t.last, bal |-> t.bal, buf |-> {}, seen |-> 0]}
        BY <3>1 DEF Reseeded, EmptyAccount
      <4> QED
        BY <3>1, <4>1
    <3>2. CASE ~ (RejoinReseed /\ t.last > 0)
      BY <3>2 DEF Reseeded, EmptyAccount
    <3> QED
      BY <3>1, <3>2
  <2> QED
    BY <1>1, <1>3, <2>1, <2>2, <2>3 DEF Sound, Account
<1> QED
  BY <1>2, <1>3

(* An account that did not move.                                           *)
LEMMA StaysFact ==
    ASSUME NEW o, Sound(o), NEW came
    PROVE  Moves(o, came, {}, o)
<1>1. o.last \in Nat /\ o.bal \in Int /\ o.last <= MaxSeq /\ MaxSeq \in Nat
  BY SoundPieces DEF Sound
<1> DEFINE h == o.last + 1
<1>2. h \in Nat /\ o.last < h /\ h <= MaxSeq + 1 /\ (o.last + 1)..(h - 1) = {} /\ h..o.last = {}
  BY <1>1
<1>3. o.bal = o.bal + Total[{}]
  BY <1>1, TotalAssumption
<1>4. \A x \in o.buf : h <= x
  BY <1>1, SoundPieces DEF Sound, Seqs
<1> HIDE DEF h
<1> QED
  BY <1>1, <1>2, <1>3, <1>4 DEF Moves, h

(* A batch with rows.                                                      *)
LEMMA RowsLeave ==
    ASSUME NEW key \in Key, Sound(key.acct), NEW t \in BalanceRow, t.last <= MaxSeq,
           NEW rows \in Seq(Seqs), NEW w \in Nat, Len(rows) > 0,
           \A k \in 1..Len(rows) : OnTime(rows[k], w)
    PROVE  \E z : Leaves(key, Opened(key, t), rows, Invoke(key, rows, t, w), z)
<1> DEFINE o == Opened(key, t)
           r == Invoke(key, rows, t, w)
           n == Len(rows)
           run == Runs(FreshRun(o), rows, w)[n]
           z == run.acct
           came == First(rows, n)
<1>1. Sound(o) /\ Start(key, t) = FreshRun(o)
  BY OpenedSound
<1>2. n \in Nat /\ n \in 0..n /\ DOMAIN rows = 1..n
  OBVIOUS
<1>3. Reached(rows, w)
  BY <1>2 DEF Reached
<1>4. /\ r.ran /\ r.key.exists /\ r.key.acct = z /\ r.row = RowOf(z)
      /\ r.recs = run.recs /\ r.applied = run.applied
  BY <1>1, <1>3 DEF Invoke, WithRows, Result
<1> HIDE DEF o, r
<1>5. Applies(o, run) /\ Walked(o, rows, n, run)
  BY <1>1, <1>2, RunsApply, RowsNoticed
<1>6. \A q \in run.recs : q.kind # "SEQUENCE_GAP"
  BY <1>1, <1>2, RunsRecords DEF OfRow
<1> HIDE DEF run, n
<1>7. Confirmed(key, r) = {}
  BY <1>4, <1>6 DEF Confirmed, Of
<1>8. /\ Sound(z) /\ o.last <= z.last /\ run.applied = (o.last + 1)..z.last
      /\ z.bal = o.bal + Total[(o.last + 1)..z.last]
  BY <1>5 DEF Applies
<1>9. Moves(o, came, {}, z)
  <2>1. /\ o.last \in Nat /\ o.last <= MaxSeq /\ MaxSeq \in Nat /\ z.last \in Nat
    BY <1>1, <1>8, SoundPieces DEF Sound
  <2> DEFINE h == o.last + 1
  <2>2. /\ h \in Nat /\ o.last < h /\ h <= MaxSeq + 1 /\ (o.last + 1)..(h - 1) = {}
        /\ h <= z.last \/ (h = o.last + 1 /\ z.last = o.last)
    BY <1>8, <2>1
  <2>3. h..z.last \subseteq o.buf \cup came /\ z.bal = o.bal + Total[h..z.last]
    BY <1>5, <1>8 DEF Walked
  <2>4. \A x \in o.buf : h <= x
    <3>1. /\ o.last \in Nat /\ o.buf \in SUBSET Seqs /\ \A x \in o.buf : o.last + 1 < x
      BY <1>1, SoundPieces, Zenon DEF Sound
    <3>2. \A x \in Seqs : x \in Nat
      BY DEF Seqs
    <3> QED
      BY <3>1, <3>2
  <2>5. h = o.last + 1 /\ {} = (o.last + 1)..(h - 1)
    BY <2>2
  <2> HIDE DEF h, z, came
  <2>6. /\ h \in Nat
        /\ o.last < h /\ h <= MaxSeq + 1 /\ {} = (o.last + 1)..(h - 1)
        /\ h..z.last \subseteq o.buf \cup came
        /\ z.bal = o.bal + Total[h..z.last]
        /\ h <= z.last \/ (h = o.last + 1 /\ z.last = o.last)
        /\ \A x \in o.buf : h <= x
    BY <2>2, <2>3, <2>4, <2>5
  <2> QED
    BY <2>6, Zenon DEF Moves
<1> QED
  BY <1>4, <1>5, <1>7, <1>8, <1>9 DEF Leaves, Walked, n, o, r

(* A batch without rows: a gap is confirmed, or nothing moves.             *)
LEMMA QuietLeaves ==
    ASSUME Policy # "HOLD", NEW key \in Key, Sound(key.acct), NEW t \in BalanceRow,
           t.last <= MaxSeq, NEW rows \in Seq(Seqs), NEW w \in Nat, Len(rows) = 0
    PROVE  \E z : Leaves(key, Opened(key, t), rows, Invoke(key, rows, t, w), z)
<1> DEFINE o == Opened(key, t)
           r == Invoke(key, rows, t, w)
           a == key.acct
           b == AfterGap(a)
<1>1. Sound(o) /\ DOMAIN rows = {} /\ 1..Len(rows) = {} /\ First(rows, Len(rows)) = {}
  <2>1. DOMAIN rows = {} /\ 1..Len(rows) = {}
    OBVIOUS
  <2> QED
    BY <2>1, OpenedSound DEF First
<1>2. r = IF Expired(key, w) THEN TimedOut(key, w) ELSE NoResult(key)
  BY <1>1 DEF Invoke, Reached
<1>3. key = [acct |-> a, exists |-> key.exists, alarm |-> key.alarm]
  BY DEF Key
<1>4. CASE Expired(key, w) /\ a.buf # {}
  <2>1. o = a /\ key.exists
    BY <1>4 DEF Expired, Opened
  <2> DEFINE alarm == Alarm(b, w, GapDefer)
             h == Min(a.buf)
  <2>2. /\ r.ran /\ r.row = RowOf(b) /\ r.recs = {Rec("SEQUENCE_GAP", a.last + 1)}
        /\ r.applied = a.buf \ b.buf
        /\ r.key = [key EXCEPT !.acct = b, !.alarm = alarm]
    BY <1>2, <1>4 DEF TimedOut, Result
  <2>3. r.key.acct = b /\ r.key.exists
    BY <1>3, <2>1, <2>2
  <2>4. /\ Sound(b) /\ h \in a.buf /\ (\A x \in a.buf : h <= x)
        /\ a.last + 1 < h /\ h <= b.last /\ b.last <= MaxSeq
        /\ h..b.last \subseteq a.buf /\ b.buf = a.buf \ (h..b.last)
        /\ b.bal = a.bal + Total[h..b.last]
    BY <1>4, GapFact
  <2>5. /\ a.last \in Nat /\ MaxSeq \in Nat /\ b.last \in Nat /\ a.buf \in SUBSET Seqs
        /\ h \in Nat /\ h <= MaxSeq
    BY <2>4, SoundPieces DEF Seqs
  <2>6. Confirmed(key, r) = (a.last + 1)..(h - 1)
    <3>1. Hole(a) = (a.last + 1)..(h - 1)
      BY DEF Hole
    <3>2. Of(r, "SEQUENCE_GAP") # {}
      <4> DEFINE q == Rec("SEQUENCE_GAP", a.last + 1)
      <4>1. q.kind = "SEQUENCE_GAP"
        BY DEF Rec
      <4>2. r.recs = {q}
        BY <2>2
      <4> HIDE DEF q, r
      <4> QED
        BY <4>1, <4>2 DEF Of
    <3> HIDE DEF r, a, h
    <3> QED
      BY <3>1, <3>2 DEF Confirmed, a
  <2> HIDE DEF r, a, b, h, alarm
  <2>7. Moves(a, {}, Confirmed(key, r), b)
    BY <2>4, <2>5, <2>6 DEF Moves
  <2>8. Noticed(a) \subseteq Noticed(b)
    <3> SUFFICES ASSUME NEW x \in Noticed(a)
                 PROVE  x \in Noticed(b)
      OBVIOUS
    <3>1. x \in Seqs /\ x \in Nat /\ (x <= a.last \/ x \in a.buf)
      BY DEF Noticed, Seqs
    <3>2. x \in a.buf => x <= b.last \/ x \in b.buf
      BY <2>4, <2>5, <3>1
    <3>3. x <= a.last => x <= b.last
      BY <2>4, <2>5, <3>1
    <3> QED
      BY <3>1, <3>2, <3>3 DEF Noticed
  <2>9. a.last <= b.last /\ b.buf \subseteq a.buf /\ a.buf \ b.buf \subseteq a.buf
    BY <2>4, <2>5
  <2>10. Leaves(key, a, rows, r, b)
    BY <1>1, <2>2, <2>3, <2>4, <2>7, <2>8, <2>9 DEF Leaves
  <2> QED
    BY <2>1, <2>10 DEF r
<1>5. CASE (Expired(key, w) /\ a.buf = {}) \/ ~ Expired(key, w)
  <2>1. r.recs = {} \/ \E q \in [kind : {"TTL_FLUSH"}, seq : {a.last}] : r.recs = {q}
    BY <1>2, <1>5 DEF TimedOut, Result, NoResult, Rec
  <2>2. r.applied = {}
    BY <1>2, <1>5 DEF TimedOut, Result, NoResult
  <2>3. /\ IF r.ran THEN r.row = RowOf(o) ELSE r.key = key
        /\ r.key.exists => r.key.acct = o
        /\ ~ r.key.exists /\ r.ran => RejoinReseed /\ o.buf = {}
    <3>1. CASE Expired(key, w) /\ Idle(a, w)
      <4>1. r = Result(ColdKey, a, {Rec("TTL_FLUSH", a.last)}, {}) /\ o = a
        BY <1>2, <1>5, <3>1 DEF TimedOut, Expired, Opened
      <4>2. RejoinReseed
        BY <3>1, ReseedAssumption DEF Idle
      <4> HIDE DEF r
      <4> QED
        BY <1>5, <3>1, <4>1, <4>2 DEF Result, ColdKey
    <3>2. CASE Expired(key, w) /\ ~ Idle(a, w)
      <4>1. r = Result([key EXCEPT !.alarm = Alarm(a, w, 0)], a, {}, {}) /\ o = a /\ key.exists
        BY <1>2, <1>5, <3>2 DEF TimedOut, Expired, Opened
      <4> DEFINE k == [key EXCEPT !.alarm = Alarm(a, w, 0)]
      <4>2. k.acct = a /\ k.exists
        BY <1>3, <4>1
      <4>3. r.ran /\ r.key = k /\ r.row = RowOf(a)
        BY <4>1 DEF Result
      <4> HIDE DEF r, k, o, a
      <4> QED
        BY <4>1, <4>2, <4>3
    <3>3. CASE ~ Expired(key, w)
      <4>1. ~ r.ran /\ r.key = key
        BY <1>2, <3>3 DEF NoResult
      <4>2. key.exists => key.acct = o
        BY DEF Opened
      <4> HIDE DEF r, o
      <4> QED
        BY <4>1, <4>2
    <3> QED
      BY <3>1, <3>2, <3>3
  <2> HIDE DEF r, o
  <2>4. Confirmed(key, r) = {}
    BY <2>1 DEF Confirmed, Of
  <2>5. Moves(o, {}, {}, o) /\ o.last <= o.last
    BY <1>1, StaysFact, SoundPieces
  <2>6. Leaves(key, o, rows, r, o)
    BY <1>1, <2>2, <2>3, <2>4, <2>5 DEF Leaves
  <2> QED
    BY <2>6 DEF r, o
<1> QED
  BY <1>4, <1>5

LEMMA InvokeLeaves ==
    ASSUME Policy # "HOLD", NEW key \in Key, Sound(key.acct), NEW t \in BalanceRow,
           t.last <= MaxSeq, NEW rows \in Seq(Seqs), NEW w \in Nat,
           \A k \in 1..Len(rows) : OnTime(rows[k], w)
    PROVE  \E z : Leaves(key, Opened(key, t), rows, Invoke(key, rows, t, w), z)
<1>1. Len(rows) \in Nat
  OBVIOUS
<1>2. Len(rows) > 0 \/ Len(rows) = 0
  BY <1>1
<1> QED
  BY <1>2, RowsLeave, QuietLeaves
(***************************************************************************)
(* What has been read of the topic                                         *)
(***************************************************************************)

(* The events among the first p records, and those there more than once.   *)
Seen(p) == {topic[i].seq : i \in 1..p} \ {0}

Twice(p) ==
    {s \in Seqs : \E i, j \in 1..p : i < j /\ topic[i].seq = s /\ topic[j].seq = s}

Events == Seen(Len(topic))

LEMMA TwoPlaces ==
    ASSUME NEW S, NEW q \in Seq(S), NEW x
    PROVE  Copies(q, x) > 1 <=> \E i, j \in 1..Len(q) : i < j /\ q[i] = x /\ q[j] = x
<1> DEFINE P == Places(q, x)
<1>1. IsFiniteSet(P) /\ Cardinality(P) \in Nat /\ Copies(q, x) = Cardinality(P)
  BY PlacesFinite DEF Copies
<1>2. Len(q) \in Nat /\ P = {i \in 1..Len(q) : q[i] = x}
  BY LenProperties DEF Places
<1> HIDE DEF P
<1>3. ASSUME NEW i \in P, NEW j \in P, i # j
      PROVE  Cardinality(P) > 1
  <2>1. Cardinality({i}) = 1 /\ IsFiniteSet({i})
    BY FS_Singleton
  <2>2. {i} \in SUBSET P /\ {i} # P
    BY <1>3
  <2>3. Cardinality({i}) <= Cardinality(P) /\ Cardinality({i}) # Cardinality(P)
    BY <1>1, <2>2, FS_Subset
  <2> QED
    BY <1>1, <2>1, <2>3
<1>4. ASSUME Cardinality(P) > 1
      PROVE  \E i, j \in P : i < j
  <2>1. PICK i \in P : TRUE
    <3>1. Cardinality({}) = 0
      BY FS_EmptySet, Zenon
    <3>2. P = {} => Cardinality(P) = 0
      BY <3>1
    <3> QED
      BY <1>1, <1>4, <3>2
  <2>2. Cardinality(P \ {i}) = Cardinality(P) - 1 /\ IsFiniteSet(P \ {i})
    BY <1>1, <2>1, FS_RemoveElement
  <2>3. PICK j \in P \ {i} : TRUE
    <3>1. P \ {i} # {}
      BY <1>1, <1>4, <2>2, FS_EmptySet
    <3> QED
      BY <3>1
  <2>4. i \in Nat /\ j \in Nat /\ i # j
    BY <1>2, <2>1, <2>3
  <2> QED
    BY <2>1, <2>3, <2>4
<1>5. ASSUME NEW i \in P, NEW j \in P, i < j
      PROVE  i # j
  BY <1>2, <1>5
<1> QED
  BY <1>1, <1>2, <1>3, <1>4, <1>5

LEMMA SeenFact ==
    ASSUME Typed
    PROVE  /\ Len(topic) \in Nat
           /\ \A i \in 1..Len(topic) : topic[i].seq \in 0..MaxSeq /\ topic[i].ts \in Nat
           /\ \A p \in 0..Len(topic) : Seen(p) \in SUBSET Events
           /\ Events \in SUBSET Seqs
           /\ \A p, q \in 0..Len(topic) : p <= q => Seen(p) \subseteq Seen(q)
           /\ Seen(0) = {} /\ Twice(0) = {}
<1>1. Len(topic) \in Nat /\ \A i \in 1..Len(topic) : topic[i] \in [seq : 0..MaxSeq, ts : Nat]
  BY TopicFact
<1>2. \A i \in 1..Len(topic) : topic[i].seq \in 0..MaxSeq /\ topic[i].ts \in Nat
  <2> TAKE i \in 1..Len(topic)
  <2>1. topic[i] \in [seq : 0..MaxSeq, ts : Nat]
    BY <1>1
  <2> QED
    BY <2>1
<1>3. \A p, q \in 0..Len(topic) : p <= q => Seen(p) \subseteq Seen(q)
  BY <1>1 DEF Seen
<1>4. Events \in SUBSET Seqs
  BY <1>1, <1>2, BoundsAssumption DEF Events, Seen, Seqs
<1>5. \A p \in 0..Len(topic) : Seen(p) \in SUBSET Events
  BY <1>1, <1>3 DEF Events
<1>6. Seen(0) = {} /\ Twice(0) = {}
  BY DEF Seen, Twice
<1> QED
  BY <1>1, <1>2, <1>3, <1>4, <1>5, <1>6

(* Sorting the rows out of a batch keeps them apart from what came before. *)
LEMMA SortedRows ==
    ASSUME NEW seqs \in Seq(Nat)
    PROVE  LET rows == InSeqOrder(seqs)
           IN  /\ rows \in Seq(Seqs)
               /\ \A s \in Seqs : s \in First(rows, Len(rows)) <=>
                                     \E j \in 1..Len(seqs) : seqs[j] = s
               /\ \A s \in Seqs :
                     (\E i, j \in 1..Len(seqs) : i < j /\ seqs[i] = s /\ seqs[j] = s) =>
                     \E k \in 1..Len(rows) : rows[k] = s /\ s \in First(rows, k - 1)
<1> DEFINE rows == InSeqOrder(seqs)
<1>1. rows \in Seq(Seqs)
  BY InSeqOrderFact DEF Ordered
<1>2. \A s \in Seqs : Copies(rows, s) = Copies(seqs, s)
  BY SortedCopies
<1> HIDE DEF rows
<1>3. Len(rows) \in Nat /\ Len(seqs) \in Nat
      /\ DOMAIN rows = 1..Len(rows) /\ DOMAIN seqs = 1..Len(seqs)
  BY <1>1, LenProperties
<1>4. ASSUME NEW s \in Seqs
      PROVE  s \in First(rows, Len(rows)) <=> \E j \in 1..Len(seqs) : seqs[j] = s
  <2>1. s \in ToSet(rows) <=> s \in ToSet(seqs)
    BY <1>1, <1>2, PlacesFinite
  <2> QED
    BY <1>3, <2>1 DEF ToSet, First
<1>5. ASSUME NEW s \in Seqs, \E i, j \in 1..Len(seqs) : i < j /\ seqs[i] = s /\ seqs[j] = s
      PROVE  \E k \in 1..Len(rows) : rows[k] = s /\ s \in First(rows, k - 1)
  <2>1. Copies(rows, s) > 1
    BY <1>2, <1>5, TwoPlaces
  <2>2. PICK i, j \in 1..Len(rows) : i < j /\ rows[i] = s /\ rows[j] = s
    BY <1>1, <2>1, TwoPlaces
  <2>3. i \in 1..(j - 1)
    BY <1>3, <2>2
  <2>4. s \in First(rows, j - 1)
    BY <2>2, <2>3 DEF First
  <2> QED
    BY <2>2, <2>4
<1> QED
  BY <1>1, <1>4, <1>5 DEF rows

(* A batch has the events of its records for rows.                         *)
LEMMA BatchReads ==
    ASSUME Typed, NEW path \in Checkpoint, Inside(path), NEW n \in 1..Batch(path),
           End(path, n - 1) <= End(path, n)
    PROVE  LET p    == End(path, n - 1)
               q    == End(path, n)
               rows == Rows(path, n)
               came == First(rows, Len(rows))
           IN  /\ rows \in Seq(Seqs) /\ p \in 0..Len(topic) /\ q \in 0..Len(topic)
               /\ Seen(q) = Seen(p) \cup came
               /\ \A s \in came : \E j \in (p + 1)..q : topic[j].seq = s
               /\ \A s \in Twice(q) : \/ s \in Twice(p)
                                      \/ \E k \in 1..Len(rows) :
                                            rows[k] = s /\ s \in Seen(p) \cup First(rows, k - 1)
<1> DEFINE records == Records(path, n)
           p == End(path, n - 1)
           q == End(path, n)
           seqs == [i \in DOMAIN records |-> records[i].seq]
           rows == Rows(path, n)
           came == First(rows, Len(rows))
<1>1. /\ Len(topic) \in Nat /\ MaxSeq \in Nat
      /\ \A i \in 1..Len(topic) : topic[i] \in [seq : 0..MaxSeq, ts : Nat]
      /\ \A i \in 1..Len(topic) : topic[i].seq \in 0..MaxSeq
  BY TopicFact, SeenFact, BoundsAssumption
<1>2. p \in 0..Len(topic) /\ q \in 0..Len(topic) /\ p <= q
  <2>1. n - 1 \in 0..Batch(path) /\ n \in 0..Batch(path)
    BY CheckpointFact
  <2> QED
    BY <1>1, <2>1, PlanFact
<1>3. records = SubSeq(topic, p + 1, q)
  BY DEF Records
<1> HIDE DEF p, q
<1>4. /\ Len(records) = q - p /\ DOMAIN records = 1..(q - p)
      /\ \A i \in 1..(q - p) : records[i] = topic[p + i]
  <2> DEFINE m == p + 1
             Event == [seq : 0..MaxSeq, ts : Nat]
  <2>1. m \in Int /\ q \in Int /\ \A i \in m..q : topic[i] \in Event
    BY <1>1, <1>2
  <2> HIDE DEF records, Event, m
  <2>2. /\ records \in Seq(Event)
        /\ Len(records) = IF m <= q THEN q - m + 1 ELSE 0
        /\ \A i \in 1..(q - m + 1) : records[i] = topic[m + i - 1]
    BY <1>3, <2>1, SubSeqProperties DEF m
  <2>3. Len(records) = q - p /\ q - m + 1 = q - p
    BY <1>2, <2>2 DEF m
  <2>4. DOMAIN records = 1..(q - p)
    BY <2>2, <2>3, LenProperties
  <2>5. \A i \in 1..(q - p) : m + i - 1 = p + i
    BY <1>2 DEF m
  <2> QED
    BY <2>2, <2>3, <2>4, <2>5
<1> HIDE DEF records
<1>5. \A i \in 1..(q - p) : p + i \in 1..Len(topic) /\ topic[p + i].seq \in Nat
  BY <1>1, <1>2
<1>6. /\ seqs \in Seq(Nat) /\ Len(seqs) = q - p
      /\ \A i \in 1..(q - p) : seqs[i] = topic[p + i].seq
  <2>1. \A i \in 1..(q - p) : records[i].seq = topic[p + i].seq /\ records[i].seq \in Nat
    BY <1>4, <1>5
  <2>2. seqs = [i \in 1..(q - p) |-> records[i].seq]
    BY <1>4
  <2>3. seqs \in [1..(q - p) -> Nat] /\ \A i \in 1..(q - p) : seqs[i] = records[i].seq
    BY <2>1, <2>2
  <2>4. q - p \in Nat
    BY <1>2
  <2> HIDE DEF seqs
  <2>5. seqs \in Seq(Nat) /\ Len(seqs) = q - p
    BY <2>3, <2>4
  <2> QED
    BY <2>1, <2>3, <2>5
<1>7. rows = InSeqOrder(seqs)
  BY DEF Rows, records
<1> HIDE DEF seqs, rows
<1>8. /\ rows \in Seq(Seqs)
      /\ \A s \in Seqs : s \in came <=> \E j \in 1..(q - p) : seqs[j] = s
      /\ \A s \in Seqs :
            (\E i, j \in 1..(q - p) : i < j /\ seqs[i] = s /\ seqs[j] = s) =>
            \E k \in 1..Len(rows) : rows[k] = s /\ s \in First(rows, k - 1)
  <2>1. seqs \in Seq(Nat) /\ Len(seqs) = q - p
    BY <1>6
  <2> DEFINE sorted == InSeqOrder(seqs)
  <2>2. /\ sorted \in Seq(Seqs)
        /\ \A s \in Seqs : s \in First(sorted, Len(sorted)) <=>
                              \E j \in 1..Len(seqs) : seqs[j] = s
        /\ \A s \in Seqs :
              (\E i, j \in 1..Len(seqs) : i < j /\ seqs[i] = s /\ seqs[j] = s) =>
              \E k \in 1..Len(sorted) : sorted[k] = s /\ s \in First(sorted, k - 1)
    BY <2>1, SortedRows
  <2>3. sorted = rows
    BY <1>7
  <2> HIDE DEF sorted
  <2> QED
    BY <2>1, <2>2, <2>3
<1>9. came \in SUBSET Seqs
  BY <1>8 DEF First
<1>10. \A s \in Seqs : s \in came <=> \E j \in (p + 1)..q : topic[j].seq = s
  <2> TAKE s \in Seqs
  <2>1. ASSUME NEW j \in 1..(q - p), seqs[j] = s
        PROVE  p + j \in (p + 1)..q /\ topic[p + j].seq = s
    BY <1>2, <1>6, <2>1
  <2>2. ASSUME NEW j \in (p + 1)..q, topic[j].seq = s
        PROVE  j - p \in 1..(q - p) /\ seqs[j - p] = s
    <3>1. j - p \in 1..(q - p) /\ p + (j - p) = j
      BY <1>2
    <3> QED
      BY <1>6, <2>2, <3>1
  <2> HIDE DEF came
  <2> QED
    BY <1>8, <2>1, <2>2
<1>11. Seen(q) = Seen(p) \cup came
  <2>1. \A s : s \in Seqs <=> (s \in 0..MaxSeq /\ s # 0)
    BY <1>1 DEF Seqs
  <2>2. 1..q = 1..p \cup (p + 1)..q /\ 1..q \subseteq 1..Len(topic)
    BY <1>2
  <2> HIDE DEF came
  <2>3. ASSUME NEW s \in Seen(q)
        PROVE  s \in Seen(p) \cup came
    <3>1. PICK j \in 1..q : topic[j].seq = s
      BY DEF Seen
    <3>2. s \in Seqs /\ s # 0
      BY <1>1, <2>1, <2>2, <3>1 DEF Seen
    <3>3. CASE j \in 1..p
      BY <3>1, <3>2, <3>3 DEF Seen
    <3>4. CASE j \in (p + 1)..q
      BY <1>10, <3>1, <3>2, <3>4
    <3> QED
      BY <2>2, <3>3, <3>4
  <2>4. ASSUME NEW s \in Seen(p) \cup came
        PROVE  s \in Seen(q)
    <3>1. CASE s \in Seen(p)
      BY <2>2, <3>1 DEF Seen
    <3>2. CASE s \in came
      <4>1. s \in Seqs /\ s # 0
        BY <1>9, <2>1, <3>2
      <4>2. PICK j \in (p + 1)..q : topic[j].seq = s
        BY <1>10, <3>2, <4>1
      <4> QED
        BY <2>2, <4>1, <4>2 DEF Seen
    <3> QED
      BY <3>1, <3>2
  <2> QED
    BY <2>3, <2>4
<1>12. ASSUME NEW s \in Twice(q), s \notin Twice(p)
       PROVE  \E k \in 1..Len(rows) : rows[k] = s /\ s \in Seen(p) \cup First(rows, k - 1)
  <2>1. PICK i, j \in 1..q : i < j /\ topic[i].seq = s /\ topic[j].seq = s
    BY DEF Twice
  <2>2. s \in Seqs /\ s # 0
    BY DEF Twice, Seqs
  <2>3. j \notin 1..p
    <3> SUFFICES ASSUME j \in 1..p PROVE FALSE
      OBVIOUS
    <3>1. i \in 1..p
      BY <1>2, <2>1
    <3> QED
      BY <1>12, <2>1, <2>2, <3>1 DEF Twice
  <2>4. j \in (p + 1)..q
    BY <1>2, <2>1, <2>3
  <2>5. CASE i \in 1..p
    <3>1. s \in Seen(p)
      BY <2>1, <2>2, <2>5 DEF Seen
    <3>2. s \in came
      BY <1>10, <2>1, <2>2, <2>4
    <3>3. PICK k \in 1..Len(rows) : rows[k] = s
      BY <3>2 DEF First
    <3> QED
      BY <3>1, <3>3
  <2>6. CASE i \notin 1..p
    <3>1. i - p \in 1..(q - p) /\ j - p \in 1..(q - p) /\ i - p < j - p
          /\ p + (i - p) = i /\ p + (j - p) = j
      BY <1>2, <2>1, <2>4, <2>6
    <3>2. seqs[i - p] = s /\ seqs[j - p] = s
      BY <1>6, <2>1, <3>1
    <3>3. PICK k \in 1..Len(rows) : rows[k] = s /\ s \in First(rows, k - 1)
      BY <1>8, <2>2, <3>1, <3>2
    <3> QED
      BY <3>3
  <2> QED
    BY <2>5, <2>6
<1>13. \A s \in came : \E j \in (p + 1)..q : topic[j].seq = s
  BY <1>9, <1>10
<1> QED
  BY <1>2, <1>8, <1>11, <1>12, <1>13 DEF p, q, rows

(***************************************************************************)
(* Accounts that the topic and the records explain                         *)
(***************************************************************************)

(* A position and a balance made of events of the topic: what lies below   *)
(* and was not applied is in a hole.                                       *)
Earned(holes, last, bal) ==
    \E D \in SUBSET Seqs :
        /\ D \subseteq Events /\ D \subseteq 1..last
        /\ bal = Total[D]
        /\ (1..last) \ D \subseteq holes
        /\ last = 0 \/ last \in D

LEMMA EarnedGrows ==
    ASSUME NEW G, NEW H, G \subseteq H, NEW last, NEW bal, Earned(G, last, bal)
    PROVE  Earned(H, last, bal)
BY DEF Earned

LEMMA EarnedNothing ==
    ASSUME NEW G
    PROVE  Earned(G, 0, 0)
<1>1. {} \in SUBSET Seqs /\ Total[{}] = 0 /\ 1..0 = {}
  BY TotalAssumption
<1> QED
  BY <1>1 DEF Earned

(* An account that moves over a hole and on stays earned.                  *)
LEMMA EarnedMoves ==
    ASSUME NEW G, NEW H, NEW G2, G \subseteq G2, H \subseteq G2,
           NEW o, Sound(o), NEW z, Sound(z), Earned(G, o.last, o.bal),
           NEW came, Events \in SUBSET Seqs, o.buf \subseteq Events, came \subseteq Events,
           Moves(o, came, H, z)
    PROVE  Earned(G2, z.last, z.bal)
<1>1. /\ o.last \in Nat /\ z.last \in Nat /\ MaxSeq \in Nat
      /\ o.last <= MaxSeq /\ z.last <= MaxSeq
  BY SoundPieces DEF Sound
<1>2. PICK D \in SUBSET Seqs :
          /\ D \subseteq Events /\ D \subseteq 1..o.last
          /\ o.bal = Total[D]
          /\ (1..o.last) \ D \subseteq G
          /\ o.last = 0 \/ o.last \in D
  BY DEF Earned
<1>3. PICK h \in Nat :
          /\ o.last < h /\ H = (o.last + 1)..(h - 1)
          /\ h..z.last \subseteq o.buf \cup came
          /\ z.bal = o.bal + Total[h..z.last]
          /\ h <= z.last \/ (h = o.last + 1 /\ z.last = o.last)
  BY DEF Moves
<1> DEFINE T == h..z.last
           E == D \cup T
<1>4. T \in SUBSET Seqs /\ T \subseteq Events
  BY <1>1, <1>3 DEF Seqs
<1>5. D \cap T = {}
  BY <1>1, <1>2, <1>3
<1>6. z.bal = Total[E]
  <2> HIDE DEF T
  <2>1. Total[D \cup T] = Total[D] + Total[T]
    BY <1>4, <1>5, TotalAdds
  <2> QED
    BY <1>2, <1>3, <2>1 DEF T
<1>7. E \subseteq 1..z.last
  <2>1. o.last <= z.last
    BY <1>1, <1>3
  <2>2. D \subseteq 1..z.last /\ T \subseteq 1..z.last
    BY <1>1, <1>2, <1>3, <2>1
  <2> QED
    BY <2>2
<1>8. (1..z.last) \ E \subseteq G2
  <2> SUFFICES ASSUME NEW x \in 1..z.last, x \notin D, x \notin T
               PROVE  x \in G2
    OBVIOUS
  <2>1. x \in Nat /\ x >= 1
    OBVIOUS
  <2>2. x <= o.last \/ x \in (o.last + 1)..(h - 1)
    BY <1>1, <1>3, <2>1
  <2>3. x <= o.last => x \in (1..o.last) \ D
    BY <1>1, <2>1
  <2> QED
    BY <1>2, <1>3, <2>2, <2>3
<1>9. z.last = 0 \/ z.last \in E
  BY <1>1, <1>2, <1>3
<1>10. E \in SUBSET Seqs /\ E \subseteq Events
  BY <1>2, <1>4
<1> HIDE DEF E
<1> QED
  BY <1>6, <1>7, <1>8, <1>9, <1>10 DEF Earned

Gone == UNION found.gaps

(* A version of the state, left after p records of the topic.              *)
Explained(v, p) ==
    LET o == Opened(v.key, table)
    IN  /\ Earned(Gone, o.last, o.bal)
        /\ o.last <= table.last
        /\ o.buf \subseteq Seen(p) /\ v.applied \subseteq Seen(p)
        /\ unclear = {} =>
              /\ \A s \in Seen(p) : s <= o.last \/ s \in o.buf
              /\ Seen(p) \cap Gone = {}
              /\ Twice(p) \subseteq found.dup

TableExplained ==
    /\ Earned(Gone, table.last, table.bal)
    /\ Gone \subseteq 1..table.last
    /\ found.overflow \subseteq unclear

(* Where a state the key is not in stands: at the row, or at the start.    *)
LEMMA ColdFact ==
    ASSUME NEW key \in Key, Sound(key.acct), ~ key.exists,
           NEW t \in BalanceRow, t.last <= MaxSeq
    PROVE  LET o == Opened(key, t)
           IN  /\ o.buf = {} /\ o.last \in Nat
               /\ (RejoinReseed /\ t.last > 0 /\ o.last = t.last /\ o.bal = t.bal)
                    \/ (~ (RejoinReseed /\ t.last > 0) /\ o.last = 0 /\ o.bal = 0)
<1>1. /\ Opened(key, t).buf = {}
      /\ IF RejoinReseed /\ t.last > 0
         THEN Opened(key, t).last = t.last /\ Opened(key, t).bal = t.bal
         ELSE Opened(key, t).last = 0 /\ Opened(key, t).bal = 0
  BY OpenedSound
<1>2. t.last \in Nat
  BY DEF BalanceRow
<1> QED
  BY <1>1, <1>2

(* What a later batch does to the tables leaves a version explained.       *)
Grows ==
    /\ topic' = topic
    /\ table \in BalanceRow /\ table' \in BalanceRow
    /\ table.last <= table'.last /\ table'.last <= MaxSeq
    /\ Gone \subseteq Gone' /\ found.dup \subseteq found'.dup /\ unclear \subseteq unclear'
    /\ TableExplained'

LEMMA ExplainedKeeps ==
    ASSUME Grows, NEW v, v.key \in Key, Sound(v.key.acct), NEW p, Explained(v, p),
           Seen(p) \in SUBSET Seqs, unclear' = {} => Seen(p) \cap Gone' = {}
    PROVE  Explained(v, p)'
<1> DEFINE o == Opened(v.key, table)
           n == Opened(v.key, table')
<1>1. /\ table \in BalanceRow /\ table' \in BalanceRow /\ topic' = topic
      /\ table.last \in Nat /\ table'.last \in Nat /\ MaxSeq \in Nat
      /\ table.last <= table'.last /\ table'.last <= MaxSeq /\ table.last <= MaxSeq
  BY BoundsAssumption DEF Grows, BalanceRow
<1>2. /\ Seen(p)' = Seen(p) /\ Twice(p)' = Twice(p) /\ Events' = Events
  BY <1>1 DEF Seen, Twice, Events
<1>3. /\ Earned(Gone', table'.last, table'.bal) /\ Earned(Gone', o.last, o.bal)
      /\ Earned(Gone', 0, 0)
  <2>1. Earned(Gone, table.last, table.bal)' /\ Gone \subseteq Gone'
    BY DEF Grows, TableExplained
  <2>2. Earned(Gone', table'.last, table'.bal)
    BY <1>2, <2>1 DEF Earned
  <2>3. Earned(Gone, o.last, o.bal)
    BY DEF Explained
  <2> HIDE DEF o
  <2> QED
    BY <2>1, <2>2, <2>3, EarnedGrows, EarnedNothing
<1>4. /\ Earned(Gone', n.last, n.bal) /\ n.last <= table'.last /\ n.last \in Nat
      /\ o.last \in Nat /\ o.last <= n.last /\ n.buf = o.buf
  <2>1. CASE v.key.exists
    <3>1. n = o /\ n = v.key.acct /\ n.last \in Nat
      BY <2>1, SoundPieces DEF Opened
    <3>2. o.last <= table.last
      BY DEF Explained
    <3> HIDE DEF n, o
    <3> QED
      BY <1>1, <1>3, <3>1, <3>2
  <2>2. CASE ~ v.key.exists
    <3>1. /\ o.buf = {} /\ o.last \in Nat
          /\ (RejoinReseed /\ table.last > 0 /\ o.last = table.last /\ o.bal = table.bal)
                \/ (~ (RejoinReseed /\ table.last > 0) /\ o.last = 0 /\ o.bal = 0)
      BY <1>1, <2>2, ColdFact
    <3>2. /\ n.buf = {} /\ n.last \in Nat
          /\ (RejoinReseed /\ table'.last > 0 /\ n.last = table'.last /\ n.bal = table'.bal)
                \/ (~ (RejoinReseed /\ table'.last > 0) /\ n.last = 0 /\ n.bal = 0)
      BY <1>1, <2>2, ColdFact
    <3> HIDE DEF n, o
    <3> QED
      BY <1>1, <1>3, <3>1, <3>2
  <2> QED
    BY <2>1, <2>2
<1>5. ASSUME unclear' = {}
      PROVE  /\ \A s \in Seen(p) : s <= n.last \/ s \in n.buf
             /\ Seen(p) \cap Gone' = {}
             /\ Twice(p) \subseteq found'.dup
  <2>1. unclear = {} /\ found.dup \subseteq found'.dup
    BY <1>5 DEF Grows
  <2>2. /\ \A s \in Seen(p) : s <= o.last \/ s \in o.buf
        /\ Twice(p) \subseteq found.dup
    BY <2>1 DEF Explained
  <2>3. \A s \in Seen(p) : s \in Int
    BY DEF Seqs
  <2> HIDE DEF n, o
  <2> QED
    BY <1>4, <1>5, <2>1, <2>2, <2>3
<1>6. o.buf \subseteq Seen(p) /\ v.applied \subseteq Seen(p)
  BY DEF Explained
<1>7. n = Opened(v.key, table)'
  BY DEF Opened
<1>8. Earned(Gone, Opened(v.key, table).last, Opened(v.key, table).bal)'
  BY <1>2, <1>4, <1>7 DEF Earned
<1> HIDE DEF n, o
<1> QED
  BY <1>2, <1>4, <1>5, <1>6, <1>7, <1>8 DEF Explained

(***************************************************************************)
(* A batch                                                                 *)
(***************************************************************************)

(* No event after the p-th record is at or below the watermark.            *)
Mark(w, p) ==
    DropLate => \A j \in (p + 1)..Len(topic) :
                   topic[j].seq > 0 => w < EventTs[topic[j].seq]

(* What the sink and the records make of an invocation.                    *)
Sinks(v, rows, r) ==
    /\ topic' = topic
    /\ table' = IF r.ran THEN Merged(table, r.row) ELSE table
    /\ found' = [dup      |-> found.dup \cup Of(r, "DUP_DROPPED"),
                 overflow |-> found.overflow \cup Of(r, "BUFFER_OVERFLOW"),
                 gaps     |-> found.gaps \cup {Hole(v.key.acct) : s \in Of(r, "SEQUENCE_GAP")}]
    /\ unclear' = unclear \cup Of(r, "BUFFER_OVERFLOW") \cup
                    {s \in ToSet(rows) \cap Gone : /\ s <= Max({v.key.acct.last, table.last})
                                                   /\ s \notin v.applied}

LEMMA OfFact ==
    ASSUME NEW r
    PROVE  /\ \A s : Rec("DUP_DROPPED", s) \in r.recs => s \in Of(r, "DUP_DROPPED")
           /\ Of(r, "BUFFER_OVERFLOW") = {} => ~ Overflowed(r.recs)
<1>1. ASSUME NEW s, Rec("DUP_DROPPED", s) \in r.recs
      PROVE  s \in Of(r, "DUP_DROPPED")
  <2> DEFINE q == Rec("DUP_DROPPED", s)
  <2>1. q.kind = "DUP_DROPPED" /\ q.seq = s
    BY DEF Rec
  <2> HIDE DEF q
  <2> QED
    BY <1>1, <2>1 DEF Of, q
<1>2. Of(r, "BUFFER_OVERFLOW") = {} => ~ Overflowed(r.recs)
  BY DEF Of, Overflowed
<1> QED
  BY <1>1, <1>2

(* The row of an account that explains the table it is merged into.        *)
LEMMA TableMoves ==
    ASSUME NEW t \in BalanceRow, t.last <= MaxSeq, NEW z, Sound(z),
           NEW G, Earned(G, t.last, t.bal), Earned(G, z.last, z.bal)
    PROVE  LET m == Merged(t, RowOf(z))
           IN  /\ m \in BalanceRow /\ m.last <= MaxSeq
               /\ t.last <= m.last /\ z.last <= m.last /\ Earned(G, m.last, m.bal)
<1> DEFINE s == RowOf(z)
<1>1. s \in BalanceRow /\ s.last = z.last /\ s.bal = z.bal /\ z.last <= MaxSeq
  BY RowOfFact DEF Sound
<1>2. MaxSeq \in Nat /\ t.last \in Nat /\ s.last \in Nat
  BY <1>1, BoundsAssumption DEF BalanceRow
<1> HIDE DEF s
<1>3. CASE Merged(t, s) = s
  <2>1. t.last <= s.last
    BY <1>2, <1>3 DEF Merged
  <2> QED
    BY <1>1, <1>2, <1>3, <2>1 DEF s
<1>4. CASE Merged(t, s) = t
  <2>1. s.last <= t.last
    BY <1>2, <1>4 DEF Merged
  <2> QED
    BY <1>1, <1>2, <1>4, <2>1 DEF s
<1> QED
  BY <1>3, <1>4 DEF Merged

LEMMA MaxOfTwo ==
    ASSUME NEW x \in Nat, NEW y \in Nat
    PROVE  Max({x, y}) \in Nat /\ y <= Max({x, y})
<1> DEFINE S == {x, y}
<1>1. S \in SUBSET Nat /\ S # {} /\ x + y \in Nat /\ y \in S /\ \A z \in S : z <= x + y
  OBVIOUS
<1> HIDE DEF S
<1>2. Max(S) \in S /\ \A z \in S : z <= Max(S)
  BY <1>1, MaxOfBounded
<1>3. Max(S) \in Nat /\ y <= Max(S)
  BY <1>1, <1>2
<1> QED
  BY <1>3 DEF S

(* A batch on a version that is explained leaves another.                  *)
LEMMA SinksExplained ==
    ASSUME Policy # "HOLD", Typed, TableExplained,
           NEW p \in 0..Len(topic), NEW q \in 0..Len(topic), p <= q,
           NEW v, v.key \in Key, Sound(v.key.acct), Explained(v, p),
           NEW w \in Nat, NEW rows \in Seq(Seqs), \A k \in 1..Len(rows) : OnTime(rows[k], w),
           NEW came, came = First(rows, Len(rows)), Seen(q) = Seen(p) \cup came,
           \A s \in Twice(q) : \/ s \in Twice(p)
                               \/ \E k \in 1..Len(rows) :
                                     rows[k] = s /\ s \in Seen(p) \cup First(rows, k - 1),
           NEW r, r = Invoke(v.key, rows, table, w), r.key \in Key, Sound(r.key.acct),
           Sinks(v, rows, r),
           NEW u, u = [key |-> r.key, applied |-> v.applied \cup r.applied]
    PROVE  /\ Grows /\ Explained(u, q)'
           /\ unclear' = {} => Seen(q) \cap Gone' = {}
<1> DEFINE key == v.key
           o == Opened(key, table)
<1>1. /\ table \in BalanceRow /\ table.last <= MaxSeq /\ table.last \in Nat
      /\ MaxSeq \in Nat /\ topic' = topic
      /\ Events \in SUBSET Seqs /\ Seen(p) \subseteq Events /\ Seen(q) \subseteq Events
  BY SeenFact, BoundsAssumption DEF Typed, BalanceRow, Sinks
<1>2. /\ Seen(q)' = Seen(q) /\ Twice(q)' = Twice(q) /\ Events' = Events
  BY <1>1 DEF Seen, Twice, Events
<1>3. /\ Earned(Gone, o.last, o.bal) /\ o.last <= table.last
      /\ o.buf \subseteq Seen(p) /\ v.applied \subseteq Seen(p)
      /\ unclear = {} =>
            /\ \A s \in Seen(p) : s <= o.last \/ s \in o.buf
            /\ Seen(p) \cap Gone = {}
            /\ Twice(p) \subseteq found.dup
  BY DEF Explained
<1>4. Sound(o) /\ o.last \in Nat
  BY <1>1, OpenedSound, SoundPieces
<1>5. PICK z : Leaves(key, o, rows, r, z)
  BY <1>1, InvokeLeaves
<1> HIDE DEF o
<1>6. /\ Sound(z) /\ o.last <= z.last
      /\ Moves(o, came, Confirmed(key, r), z)
      /\ came # {} => Confirmed(key, r) = {}
      /\ z.buf \subseteq o.buf \cup came
      /\ r.applied \subseteq o.buf \cup came
      /\ \/ Overflowed(r.recs)
         \/ /\ Noticed(o) \cup came \subseteq Noticed(z)
            /\ \A k \in 1..Len(rows) : rows[k] \in Noticed(o) \cup First(rows, k - 1) =>
                  Rec("DUP_DROPPED", rows[k]) \in r.recs
      /\ IF r.ran THEN r.row = RowOf(z) ELSE z = o /\ r.key = key
      /\ r.key.exists => r.key.acct = z
      /\ ~ r.key.exists /\ r.ran => RejoinReseed /\ z.buf = {}
  BY <1>5 DEF Leaves
<1>7. Gone' = Gone \cup Confirmed(key, r)
  <2>1. found'.gaps = found.gaps \cup {Hole(key.acct) : s \in Of(r, "SEQUENCE_GAP")}
    BY DEF Sinks
  <2> HIDE DEF key
  <2> QED
    BY <2>1 DEF Gone, Confirmed
<1>8. z.last \in Nat /\ z.last <= MaxSeq /\ Noticed(z) \subseteq Seqs
  BY <1>6, SoundPieces DEF Sound, Noticed
<1> HIDE DEF key
<1>9. Earned(Gone', z.last, z.bal)
  BY <1>1, <1>3, <1>4, <1>6, <1>7, EarnedMoves
<1>10. /\ table' \in BalanceRow /\ table'.last <= MaxSeq /\ table.last <= table'.last
       /\ z.last <= table'.last /\ Earned(Gone', table'.last, table'.bal)
       /\ ~ r.ran => table' = table
  <2>1. Earned(Gone', table.last, table.bal)
    BY <1>7, EarnedGrows DEF TableExplained
  <2>2. CASE r.ran
    <3>1. table' = Merged(table, RowOf(z))
      BY <1>6, <2>2 DEF Sinks
    <3> QED
      BY <1>1, <1>6, <1>9, <2>1, <2>2, <3>1, TableMoves
  <2>3. CASE ~ r.ran
    <3>1. table' = table /\ z = o
      BY <1>6, <2>3 DEF Sinks
    <3> QED
      BY <1>1, <1>3, <2>1, <2>3, <3>1
  <2> QED
    BY <2>2, <2>3
<1>11. PICK h \in Nat :
          /\ o.last < h /\ Confirmed(key, r) = (o.last + 1)..(h - 1)
          /\ h <= z.last \/ (h = o.last + 1 /\ z.last = o.last)
          /\ \A x \in o.buf : h <= x
  BY <1>6 DEF Moves
<1>12. Gone' \subseteq 1..table'.last
  <2>1. Gone \subseteq 1..table.last
    BY DEF TableExplained
  <2>2. table'.last \in Nat
    BY <1>10 DEF BalanceRow
  <2>3. Confirmed(key, r) \subseteq 1..table'.last
    BY <1>4, <1>8, <1>10, <1>11, <2>2
  <2>4. 1..table.last \subseteq 1..table'.last
    BY <1>1, <1>10, <2>2
  <2> HIDE DEF Gone
  <2> QED
    BY <1>7, <2>1, <2>3, <2>4
<1>13. /\ found'.overflow \subseteq unclear' /\ found.dup \subseteq found'.dup
       /\ unclear \subseteq unclear' /\ Of(r, "BUFFER_OVERFLOW") \subseteq unclear'
       /\ Of(r, "DUP_DROPPED") \subseteq found'.dup
  BY DEF Sinks, TableExplained
<1>14. Grows
  <2>1. Earned(Gone, table.last, table.bal)'
    BY <1>2, <1>10 DEF Earned
  <2> QED
    BY <1>1, <1>7, <1>10, <1>12, <1>13, <2>1 DEF Grows, TableExplained
<1>15. ASSUME unclear' = {}
       PROVE  /\ \A s \in Seen(q) : s <= z.last \/ s \in z.buf
              /\ Seen(q) \cap Gone' = {}
              /\ Twice(q) \subseteq found'.dup
  <2>1. unclear = {} /\ Of(r, "BUFFER_OVERFLOW") = {}
    BY <1>13, <1>15
  <2>2. /\ \A s \in Seen(p) : s <= o.last \/ s \in o.buf
        /\ Seen(p) \cap Gone = {}
        /\ Twice(p) \subseteq found.dup
    BY <1>3, <2>1
  <2>3. /\ Noticed(o) \cup came \subseteq Noticed(z)
        /\ \A k \in 1..Len(rows) : rows[k] \in Noticed(o) \cup First(rows, k - 1) =>
              Rec("DUP_DROPPED", rows[k]) \in r.recs
    BY <1>6, <2>1, OfFact
  <2>4. Seen(p) \subseteq Noticed(o)
    BY <1>1, <2>2 DEF Noticed
  <2>5. \A s \in Seen(q) : s <= z.last \/ s \in z.buf
    <3>1. Seen(q) \subseteq Noticed(z)
      BY <2>3, <2>4
    <3> QED
      BY <3>1 DEF Noticed
  <2>6. came \cap Gone = {}
    <3> SUFFICES ASSUME NEW s \in came, s \in Gone
                 PROVE  FALSE
      OBVIOUS
    <3>1. s \in ToSet(rows)
      BY DEF First, ToSet
    <3>2. s \notin v.applied
      BY <1>3, <2>2
    <3>3. s \in Nat /\ s <= table.last
      BY <1>1 DEF TableExplained
    <3>4. v.key.acct.last \in Nat
      BY SoundPieces
    <3>5. Max({v.key.acct.last, table.last}) \in Nat /\ table.last <= Max({v.key.acct.last, table.last})
      BY <1>1, <3>4, MaxOfTwo
    <3>6. s <= Max({v.key.acct.last, table.last})
      BY <1>1, <3>3, <3>5
    <3>7. s \in unclear'
      BY <3>1, <3>2, <3>6 DEF Sinks
    <3> QED
      BY <1>15, <3>7
  <2>7. Seen(q) \cap Gone' = {}
    <3>1. CASE came = {}
      <4>1. Seen(p) \cap Confirmed(key, r) = {}
        <5> SUFFICES ASSUME NEW s \in Seen(p), s \in Confirmed(key, r)
                     PROVE  FALSE
          OBVIOUS
        <5>1. s \in Nat /\ o.last < s /\ s < h
          BY <1>4, <1>11
        <5> QED
          BY <1>4, <1>11, <2>2, <5>1
      <4> QED
        BY <1>7, <2>2, <3>1, <4>1
    <3>2. CASE came # {}
      BY <1>6, <1>7, <2>2, <2>6, <3>2
    <3> QED
      BY <3>1, <3>2
  <2>8. Twice(q) \subseteq found'.dup
    <3> SUFFICES ASSUME NEW s \in Twice(q), s \notin Twice(p)
                 PROVE  s \in found'.dup
      BY <1>13, <2>2
    <3>1. PICK k \in 1..Len(rows) : rows[k] = s /\ s \in Seen(p) \cup First(rows, k - 1)
      OBVIOUS
    <3>2. Rec("DUP_DROPPED", s) \in r.recs
      BY <2>3, <2>4, <3>1
    <3> QED
      BY <1>13, <3>2, OfFact
  <2> QED
    BY <2>5, <2>7, <2>8
<1> DEFINE m == Opened(r.key, table')
<1>16. /\ Earned(Gone', m.last, m.bal) /\ m.last <= table'.last /\ m.last \in Nat
       /\ z.last <= m.last /\ m.buf = z.buf
  <2>1. CASE r.key.exists
    <3>1. m = z
      BY <1>6, <2>1 DEF Opened
    <3> HIDE DEF m
    <3> QED
      BY <1>8, <1>9, <1>10, <3>1
  <2>2. CASE ~ r.key.exists /\ r.ran
    <3>1. /\ m.buf = {} /\ m.last \in Nat
          /\ (RejoinReseed /\ table'.last > 0 /\ m.last = table'.last /\ m.bal = table'.bal)
                \/ (~ (RejoinReseed /\ table'.last > 0) /\ m.last = 0 /\ m.bal = 0)
      BY <1>10, <2>2, ColdFact
    <3>2. RejoinReseed /\ z.buf = {} /\ table'.last \in Nat
      BY <1>6, <1>10, <2>2 DEF BalanceRow
    <3> HIDE DEF m
    <3> QED
      BY <1>8, <1>10, <3>1, <3>2, EarnedNothing
  <2>3. CASE ~ r.key.exists /\ ~ r.ran
    <3>1. m = o /\ z = o
      BY <1>6, <1>10, <2>3 DEF o
    <3> HIDE DEF m
    <3> QED
      BY <1>4, <1>9, <1>10, <3>1
  <2> QED
    BY <2>1, <2>2, <2>3
<1>17. u.key = r.key /\ u.applied \subseteq Seen(q) /\ z.buf \subseteq Seen(q)
  BY <1>3, <1>6
<1>18. m = Opened(u.key, table)'
  BY <1>17 DEF Opened
<1> HIDE DEF m
<1>19. Earned(Gone, Opened(u.key, table).last, Opened(u.key, table).bal)'
  BY <1>2, <1>16, <1>18 DEF Earned
<1>20. \A s \in Seen(q) : s \in Int
  <2>1. Seqs \subseteq Int
    BY DEF Seqs
  <2> QED
    BY <1>1, <2>1, Zenon
<1>21. unclear' = {} => \A s \in Seen(q) : s <= m.last \/ s \in m.buf
  BY <1>8, <1>15, <1>16, <1>20
<1>22. Explained(u, q)'
  BY <1>2, <1>15, <1>16, <1>17, <1>18, <1>19, <1>21 DEF Explained
<1> QED
  BY <1>14, <1>15, <1>22

(***************************************************************************)
(* The invariant behind convergence                                        *)
(***************************************************************************)

(* A path is read in order, and no batch finds a row that is late.         *)
Rising(path) ==
    /\ \A m, n \in 0..Batch(path) : m <= n => End(path, m) <= End(path, n)
    /\ \A n \in 1..Batch(path) : Mark(path.offsets[n].watermark, End(path, n - 1))

Paced ==
    /\ Rising(Path)
    /\ pc = "idle" => Mark(Upcoming(Path), End(Path, Batch(Path)))
    /\ tag = Live => Mark(Path.next, End(Path, Path.commits))

(* The state versions that belong to the batches of the path: those an     *)
(* engine on the fresh path has not reached may be of other batches.       *)
Upto == IF tag = Live \/ pc \in {"idle", "executed"} THEN Batch(Path) ELSE Batch(Path) - 1

Covered ==
    \A n \in 0..Len(Path.states) : n <= Upto => Explained(Version(Path, n), End(Path, n))

(* A path that was copied from the live one.                               *)
Twin(path) ==
    LET live == paths[Live]
    IN  /\ IsPrefix(path.offsets, live.offsets) /\ IsPrefix(path.states, live.states)
        /\ path.commits <= live.commits
        /\ Mark(path.next, End(live, path.commits))

Twins ==
    /\ tag = Live /\ ~ drill.seeded => \A i \in 1..Newest : Twin(snapshots[i].path)
    /\ tag = Live /\ drill.seeded => Twin(paths[Fresh])

LiveRun ==
    tag = Live =>
        /\ Len(Path.states) <= Batch(Path)
        /\ pc \in {"idle", "executed"} => Len(Path.states) = Batch(Path)
        /\ pc = "planned" => Len(Path.states) = Batch(Path) - 1

ConvergeInv == TableExplained /\ Paced /\ Covered /\ LiveRun /\ Twins

(***************************************************************************)
(* Marks                                                                   *)
(***************************************************************************)

LEMMA MarkLater ==
    ASSUME NEW w, NEW p \in Nat, NEW q \in Nat, p <= q, Mark(w, p)
    PROVE  Mark(w, q)
<1>1. (q + 1)..Len(topic) \subseteq (p + 1)..Len(topic)
  OBVIOUS
<1> QED
  BY <1>1 DEF Mark

LEMMA MarkNothing ==
    ASSUME Typed, NEW p \in Nat
    PROVE  Mark(0, p)
<1> SUFFICES ASSUME NEW j \in (p + 1)..Len(topic), topic[j].seq > 0
             PROVE  0 < EventTs[topic[j].seq]
  BY DEF Mark
<1>1. j \in 1..Len(topic)
  BY SeenFact
<1>2. topic[j].seq \in Seqs
  BY <1>1, SeenFact DEF Seqs
<1> QED
  BY <1>2, EventTsAssumption

LEMMA EndFact ==
    ASSUME Typed, NEW path \in Checkpoint, Inside(path)
    PROVE  /\ Len(topic) \in Nat /\ Batch(path) \in Nat /\ path.commits \in Nat
           /\ \A n \in 0..Batch(path) : End(path, n) \in 0..Len(topic)
BY PlanFact, TopicFact, CheckpointFact

(* The watermark of the next batch, on a path that is rising.              *)
LEMMA UpcomingMark ==
    ASSUME Typed, NEW path \in Checkpoint, Inside(path), Rising(path),
           path.commits = Batch(path) => Mark(path.next, End(path, Batch(path)))
    PROVE  /\ Mark(Upcoming(path), End(path, Batch(path)))
           /\ Mark(Stale(path), End(path, Batch(path)))
<1> DEFINE n == Batch(path)
<1>1. Len(topic) \in Nat /\ n \in Nat /\ \A m \in 0..n : End(path, m) \in 0..Len(topic)
  BY EndFact
<1>2. n \in 0..n /\ End(path, n) \in Nat
  BY <1>1
<1>3. Mark(Stale(path), End(path, n))
  <2>1. CASE path.offsets = <<>>
    BY <1>2, <2>1, MarkNothing DEF Stale
  <2>2. CASE path.offsets # <<>>
    <3>1. n \in 1..n /\ n - 1 \in 0..n /\ n - 1 <= n
      <4>1. path.offsets \in Seq(Offset) /\ n = Len(path.offsets)
        BY CheckpointFact DEF Batch
      <4> QED
        BY <1>1, <2>2, <4>1, EmptySeq
    <3>2. Mark(path.offsets[n].watermark, End(path, n - 1))
      BY <3>1 DEF Rising
    <3>3. End(path, n - 1) \in Nat /\ End(path, n - 1) <= End(path, n)
      BY <1>1, <1>2, <3>1 DEF Rising
    <3>4. Mark(path.offsets[n].watermark, End(path, n))
      BY <1>2, <3>2, <3>3, MarkLater
    <3> QED
      BY <2>2, <3>4 DEF Stale
  <2> QED
    BY <2>1, <2>2
<1> QED
  BY <1>3 DEF Upcoming

(* The watermark a batch leaves.                                           *)
LEMMA NextMark ==
    ASSUME Typed, Punctual, NEW path \in Checkpoint, Inside(path), Rising(path),
           NEW n \in 1..Batch(path), n = Batch(path),
           path.commits = Batch(path) => Mark(path.next, End(path, Batch(path)))
    PROVE  Mark(Max({Stale(path)} \cup
                    {t - Delay : t \in {r.ts : r \in ToSet(Records(path, n))}}), End(path, n))
<1> DEFINE records == Records(path, n)
           p == End(path, n - 1)
           q == End(path, n)
           Event == [seq : 0..MaxSeq, ts : Nat]
           seen == {r.ts : r \in ToSet(records)}
           S == {Stale(path)} \cup {t - Delay : t \in seen}
<1>1. /\ Len(topic) \in Nat /\ Batch(path) \in Nat
      /\ \A m \in 0..Batch(path) : End(path, m) \in 0..Len(topic)
      /\ \A i \in 1..Len(topic) : topic[i] \in Event
  BY EndFact, TopicFact
<1>2. p \in 0..Len(topic) /\ q \in 0..Len(topic) /\ p <= q
  <2>1. n - 1 \in 0..Batch(path) /\ n \in 0..Batch(path) /\ n - 1 <= n
    BY <1>1
  <2> QED
    BY <1>1, <2>1 DEF Rising
<1>3. records = SubSeq(topic, p + 1, q)
  BY DEF Records
<1> HIDE DEF p, q
<1>4. \A r \in ToSet(records) : \E i \in (p + 1)..q : r = topic[i]
  <2> DEFINE m == p + 1
  <2>1. m \in Int /\ q \in Int /\ \A i \in m..q : topic[i] \in Event
    BY <1>1, <1>2
  <2> HIDE DEF records, Event, m
  <2>2. /\ records \in Seq(Event)
        /\ Len(records) = IF m <= q THEN q - m + 1 ELSE 0
        /\ \A i \in 1..(q - m + 1) : records[i] = topic[m + i - 1]
    BY <1>3, <2>1, SubSeqProperties DEF m
  <2>3. DOMAIN records = 1..(q - m + 1) /\ \A i \in 1..(q - m + 1) : m + i - 1 \in (p + 1)..q
    <3>1. Len(records) = q - m + 1
      BY <1>2, <2>2 DEF m
    <3> QED
      BY <1>2, <2>2, <3>1, LenProperties DEF m
  <2> QED
    BY <2>2, <2>3 DEF ToSet
<1> HIDE DEF records
<1>5. \A t \in seen : \E i \in (p + 1)..q : t = topic[i].ts
  BY <1>4
<1>6. Max(S) \in S
  <2>1. PICK b \in Nat : \A i \in 1..Len(topic) : topic[i].ts <= b
    <3>1. \A i \in 1..Len(topic) : topic[i].ts \in Nat
      BY SeenFact
    <3> QED
      BY <1>1, <3>1, TimesBounded
  <2>2. \A t \in seen : t \in Nat /\ t <= b
    <3> TAKE t \in seen
    <3>1. PICK i \in (p + 1)..q : t = topic[i].ts
      BY <1>5
    <3>2. i \in 1..Len(topic)
      BY <1>1, <1>2
    <3> QED
      BY <2>1, <3>1, <3>2, SeenFact
  <2>3. Stale(path) \in Nat /\ Delay \in Nat
    BY <1>1, PlanFact, RestoreAssumption
  <2> HIDE DEF seen
  <2>4. \A x \in S : x \in Int /\ x <= Stale(path) + b
    <3>1. \A t \in seen : t - Delay \in Int /\ t - Delay <= Stale(path) + b
      BY <2>2, <2>3
    <3> QED
      BY <2>3, <3>1
  <2>5. S \in SUBSET Int /\ Stale(path) \in S /\ Stale(path) + b \in Nat
    BY <2>3, <2>4
  <2> HIDE DEF S
  <2> QED
    BY <2>3, <2>4, <2>5, MaxOfInts
<1>7. CASE Max(S) = Stale(path)
  <2>1. Mark(Stale(path), q)
    BY UpcomingMark DEF q
  <2> QED
    BY <1>7, <2>1 DEF q, records
<1>8. CASE Max(S) \in {t - Delay : t \in seen}
  <2>1. PICK t \in seen : Max(S) = t - Delay
    BY <1>8
  <2>2. PICK i \in (p + 1)..q : t = topic[i].ts
    BY <1>5, <2>1
  <2> HIDE DEF S, seen
  <2>3. Mark(Max(S), q)
    <3> SUFFICES ASSUME DropLate, NEW j \in (q + 1)..Len(topic), topic[j].seq > 0
                 PROVE  topic[i].ts - Delay < EventTs[topic[j].seq]
      BY <2>1, <2>2 DEF Mark
    <3>1. i \in DOMAIN topic /\ j \in DOMAIN topic /\ i < j /\ topic \in Topics
      <4>1. topic \in Seq([seq : 0..MaxSeq, ts : Nat])
        BY TopicFact
      <4>2. DOMAIN topic = 1..Len(topic)
        BY <4>1, LenProperties
      <4> QED
        BY <1>1, <1>2, <4>2 DEF Typed
    <3> QED
      BY <3>1 DEF Punctual
  <2> QED
    BY <2>3 DEF q, S, seen, records
<1> HIDE DEF seen
<1> QED
  BY <1>6, <1>7, <1>8 DEF S

(***************************************************************************)
(* Copies of the live path                                                 *)
(***************************************************************************)

(* A copy has the batches and the versions of the live path.               *)
LEMMA TwinFact ==
    ASSUME NEW path \in Checkpoint, NEW live \in Checkpoint,
           IsPrefix(path.offsets, live.offsets), IsPrefix(path.states, live.states)
    PROVE  /\ Batch(path) \in Nat /\ Batch(live) \in Nat /\ Batch(path) <= Batch(live)
           /\ \A n \in 1..Batch(path) : path.offsets[n] = live.offsets[n]
           /\ \A n \in 0..Batch(path) : End(path, n) = End(live, n)
           /\ Len(path.states) \in Nat /\ Len(live.states) \in Nat
           /\ Len(path.states) <= Len(live.states)
           /\ \A n \in 0..Len(path.states) : Version(path, n) = Version(live, n)
<1>1. /\ path.offsets \in Seq(Offset) /\ live.offsets \in Seq(Offset)
      /\ path.states \in Seq(State) /\ live.states \in Seq(State)
      /\ Batch(path) = Len(path.offsets) /\ Batch(live) = Len(live.offsets)
      /\ Batch(path) \in Nat /\ Batch(live) \in Nat
      /\ Len(path.states) \in Nat /\ Len(live.states) \in Nat
  BY CheckpointFact DEF Batch
<1>2. /\ Batch(path) <= Batch(live)
      /\ \A n \in 1..Batch(path) : path.offsets[n] = live.offsets[n]
  BY <1>1, PrefixFact
<1>3. /\ Len(path.states) <= Len(live.states)
      /\ \A n \in 1..Len(path.states) : path.states[n] = live.states[n]
  BY <1>1, PrefixFact
<1>4. \A n \in 0..Batch(path) : n = 0 \/ n \in 1..Batch(path)
  BY <1>1
<1>5. \A n \in 0..Len(path.states) : n = 0 \/ n \in 1..Len(path.states)
  BY <1>1
<1>6. \A n \in 0..Batch(path) : End(path, n) = End(live, n)
  BY <1>2, <1>4 DEF End
<1>7. \A n \in 0..Len(path.states) : Version(path, n) = Version(live, n)
  BY <1>3, <1>5 DEF Version
<1> QED
  BY <1>1, <1>2, <1>3, <1>6, <1>7

(* It remains one when the live path goes on.                              *)
LEMMA TwinKeeps ==
    ASSUME topic' = topic, NEW live \in Checkpoint, live = paths[Live],
           NEW live2 \in Checkpoint, live2 = paths'[Live],
           IsPrefix(live.offsets, live2.offsets), IsPrefix(live.states, live2.states),
           live.commits <= Batch(live), live.commits <= live2.commits,
           NEW path \in Checkpoint, Twin(path)
    PROVE  Twin(path)'
<1>1. /\ path.offsets \in Seq(Offset) /\ live.offsets \in Seq(Offset)
      /\ live2.offsets \in Seq(Offset) /\ path.states \in Seq(State)
      /\ live.states \in Seq(State) /\ live2.states \in Seq(State)
      /\ path.commits \in Nat /\ live.commits \in Nat /\ live2.commits \in Nat
      /\ Batch(live) \in Nat
  BY CheckpointFact
<1>2. /\ IsPrefix(path.offsets, live.offsets) /\ IsPrefix(path.states, live.states)
      /\ path.commits <= live.commits /\ Mark(path.next, End(live, path.commits))
  BY DEF Twin
<1>3. IsPrefix(path.offsets, live2.offsets) /\ IsPrefix(path.states, live2.states)
  BY <1>1, <1>2, PrefixTrans
<1>4. path.commits <= live2.commits /\ path.commits \in 0..Batch(live)
  BY <1>1, <1>2
<1>5. End(live, path.commits) = End(live2, path.commits)
  BY <1>4, TwinFact
<1>6. Mark(path.next, End(live2, path.commits))'
  BY <1>2, <1>5 DEF Mark
<1> QED
  BY <1>3, <1>4, <1>6 DEF Twin

(***************************************************************************)
(* The engine's steps                                                      *)
(***************************************************************************)

LEMMA ExplainedStays ==
    ASSUME UNCHANGED <<topic, table, found, unclear>>
    PROVE  /\ TableExplained => TableExplained'
           /\ \A v, p : Explained(v, p) => Explained(v, p)'
<1>1. Seen(Len(topic))' = Seen(Len(topic)) /\ Events' = Events /\ Gone' = Gone
  BY DEF Seen, Events, Gone
<1>2. ASSUME NEW l, NEW b, Earned(Gone, l, b)
      PROVE  Earned(Gone, l, b)'
  BY <1>1, <1>2 DEF Earned
<1>3. ASSUME TableExplained
      PROVE  TableExplained'
  <2>1. Earned(Gone, table.last, table.bal)'
    BY <1>1, <1>3 DEF TableExplained, Earned
  <2> QED
    BY <1>1, <1>3, <2>1 DEF TableExplained
<1>4. ASSUME NEW v, NEW p, Explained(v, p)
      PROVE  Explained(v, p)'
  <2> DEFINE o == Opened(v.key, table)
  <2>1. Opened(v.key, table)' = o
    BY DEF Opened
  <2>2. Earned(Gone, Opened(v.key, table).last, Opened(v.key, table).bal)'
    BY <1>1, <1>4, <2>1 DEF Explained, Earned
  <2>3. Seen(p)' = Seen(p) /\ Twice(p)' = Twice(p)
    BY DEF Seen, Twice
  <2> QED
    BY <1>1, <1>4, <2>1, <2>2, <2>3 DEF Explained
<1> QED
  BY <1>3, <1>4

(* The running engine replaces its checkpoint by q.                        *)
LEMMA PathConverges ==
    ASSUME RestoreInv, ConvergeInv, NEW q, Replaces(q), TableExplained', Rising(q),
           pc' = "idle" => Mark(Upcoming(q), End(q, Batch(q))),
           tag = Live =>
              /\ Mark(q.next, End(q, q.commits))
              /\ IsPrefix(Path.states, q.states) /\ Len(q.states) <= Batch(q)
              /\ pc' \in {"idle", "executed"} => Len(q.states) = Batch(q)
              /\ pc' = "planned" => Len(q.states) = Batch(q) - 1,
           \A n \in 0..Len(q.states) :
              n <= (IF tag = Live \/ pc' \in {"idle", "executed"} THEN Batch(q) ELSE Batch(q) - 1)
              => Explained(Version(q, n), End(q, n))'
    PROVE  ConvergeInv'
<1>1. /\ Typed /\ q \in Checkpoint /\ paths' = [paths EXCEPT ![tag] = q]
      /\ topic' = topic /\ tag' = tag /\ snapshots' = snapshots /\ drill' = drill
      /\ Path.commits <= q.commits /\ IsPrefix(Path.offsets, q.offsets)
  BY DEF Replaces, RestoreInv
<1>2. /\ paths'[tag] = q /\ Path' = q
      /\ \A t \in {Live, Fresh} : t # tag => paths'[t] = paths[t]
  BY <1>1, ExceptFact DEF Path
<1>3. Paced'
  <2>1. Rising(q)' /\ (pc' = "idle" => Mark(Upcoming(q), End(q, Batch(q)))')
    BY <1>1 DEF Rising, Mark
  <2>2. tag = Live => Mark(q.next, End(q, q.commits))'
    BY <1>1 DEF Mark
  <2> QED
    BY <1>1, <1>2, <2>1, <2>2 DEF Paced
<1>4. Upto' = IF tag = Live \/ pc' \in {"idle", "executed"} THEN Batch(q) ELSE Batch(q) - 1
  BY <1>1, <1>2 DEF Upto, Batch
<1>5. Covered'
  BY <1>2, <1>4 DEF Covered
<1>6. LiveRun'
  BY <1>1, <1>2 DEF LiveRun, Batch
<1>7. Twins'
  <2> SUFFICES ASSUME tag = Live
               PROVE  Twins'
    BY <1>1 DEF Twins
  <2>1. Live # Fresh /\ paths'[Fresh] = paths[Fresh] /\ Path = paths[Live] /\ q = paths'[Live]
    BY <1>2 DEF Live, Fresh, Path
  <2>2. Path \in Checkpoint /\ Path.commits <= Batch(Path)
    BY <2>1, ProgressFact DEF Regular
  <2>3. ASSUME NEW path \in Checkpoint, Twin(path)
        PROVE  Twin(path)'
    <3>1. PICK live \in Checkpoint : live = Path
      BY <2>2
    <3> QED
      BY <1>1, <2>1, <2>2, <2>3, <3>1, TwinKeeps
  <2>4. \A i \in 1..Newest : snapshots[i].path \in Checkpoint
    BY SnapshotsFact DEF Snapshot
  <2>5. paths[Fresh] \in Checkpoint
    BY PathFact DEF RestoreInv
  <2>6. ASSUME ~ drill.seeded, NEW i \in 1..Newest
        PROVE  Twin(snapshots[i].path)'
    <3>1. Twin(snapshots[i].path)
      BY <2>6 DEF ConvergeInv, Twins
    <3>2. PICK path \in Checkpoint : path = snapshots[i].path
      BY <2>4
    <3>3. Twin(path)'
      BY <2>3, <3>1, <3>2
    <3> QED
      BY <1>1, <3>2, <3>3
  <2>7. ASSUME drill.seeded
        PROVE  Twin(paths[Fresh])'
    <3>1. Twin(paths[Fresh])
      BY <2>7 DEF ConvergeInv, Twins
    <3>2. PICK path \in Checkpoint : path = paths[Fresh]
      BY <2>5
    <3>3. Twin(path)'
      BY <2>3, <3>1, <3>2
    <3> QED
      BY <2>1, <3>2, <3>3
  <2> QED
    BY <1>1, <2>6, <2>7 DEF Twins, Newest
<1> QED
  BY <1>3, <1>5, <1>6, <1>7 DEF ConvergeInv

LEMMA PlanConverges ==
    ASSUME RestoreInv, ConvergeInv, Plan
    PROVE  ConvergeInv'
<1> DEFINE p == Path
           n == Batch(p)
<1>1. PICK q : /\ Replaces(q) /\ q.commits = p.commits /\ q.next = p.next
               /\ q.states = p.states /\ Batch(q) = n + 1
               /\ \E end \in End(p, n)..Len(topic) :
                     q.offsets = Append(p.offsets, [end |-> end, watermark |-> Upcoming(p)])
  BY PlanStep DEF RestoreInv
<1>2. PICK e \in End(p, n)..Len(topic) :
          q.offsets = Append(p.offsets, [end |-> e, watermark |-> Upcoming(p)])
  BY <1>1
<1>3. pc = "idle" /\ pc' = "planned" /\ UNCHANGED <<topic, table, found, unclear>>
  BY DEF Plan, history
<1>4. /\ p \in Checkpoint /\ q \in Checkpoint /\ Inside(p) /\ Typed /\ n \in Nat
      /\ p.offsets \in Seq(Offset) /\ p.states \in Seq(State) /\ p.commits \in Nat
      /\ Len(p.states) \in Nat /\ n = Len(p.offsets)
      /\ Len(topic) \in Nat /\ \A m \in 0..n : End(p, m) \in 0..Len(topic)
  BY <1>1, ProgressFact, CheckpointFact, EndFact DEF Replaces, RestoreInv, Batch
<1>5. /\ Rising(p) /\ Mark(Upcoming(p), End(p, n))
      /\ tag = Live => Mark(p.next, End(p, p.commits))
      /\ \A m \in 0..Len(p.states) : m <= n => Explained(Version(p, m), End(p, m))
      /\ tag = Live => Len(p.states) = n
  BY <1>3 DEF ConvergeInv, Paced, Covered, Upto, LiveRun
<1>6. tag = Live => p.commits <= n
  BY ProgressFact DEF Regular
<1> HIDE DEF p, n
<1>7. /\ \A m \in 1..n : q.offsets[m] = p.offsets[m]
      /\ \A m \in 0..n : End(q, m) = End(p, m)
      /\ \A m \in 0..Len(p.states) : Version(q, m) = Version(p, m)
  <2>1. IsPrefix(p.states, q.states)
    BY <1>1, <1>4, PrefixFact
  <2>2. IsPrefix(p.offsets, q.offsets)
    BY <1>1 DEF Replaces, p
  <2>3. n = Batch(p)
    BY DEF n
  <2> QED
    BY <1>4, <2>1, <2>2, <2>3, TwinFact
<1>8. q.offsets[n + 1] = [end |-> e, watermark |-> Upcoming(p)]
  BY <1>2, <1>4
<1>9. End(q, n + 1) = e /\ q.offsets[n + 1].watermark = Upcoming(p)
  BY <1>4, <1>8 DEF End
<1>10. e \in Nat /\ End(p, n) <= e /\ n \in 0..n /\ n + 1 # 0
  BY <1>2, <1>4
<1>11. \A m \in 0..(n + 1) : m \in 0..n \/ m = n + 1
  BY <1>4
<1>12. Rising(q)
  <2>1. ASSUME NEW m \in 0..(n + 1), NEW k \in 0..(n + 1), m <= k
        PROVE  End(q, m) <= End(q, k)
    <3>1. CASE k \in 0..n
      <4>1. m \in 0..n
        BY <1>4, <2>1, <3>1
      <4> QED
        BY <1>5, <1>7, <2>1, <3>1, <4>1 DEF Rising, n
    <3>2. CASE k = n + 1 /\ m \in 0..n
      <4>1. End(p, m) <= End(p, n)
        BY <1>4, <1>5, <1>10, <3>2 DEF Rising, n
      <4> QED
        BY <1>4, <1>7, <1>9, <1>10, <3>2, <4>1
    <3>3. CASE k = n + 1 /\ m = n + 1
      BY <1>9, <1>10, <3>3
    <3> QED
      BY <1>11, <3>1, <3>2, <3>3
  <2>2. ASSUME NEW m \in 1..(n + 1)
        PROVE  Mark(q.offsets[m].watermark, End(q, m - 1))
    <3>1. CASE m \in 1..n
      <4>1. m - 1 \in 0..n
        BY <1>4, <3>1
      <4> QED
        BY <1>5, <1>7, <3>1, <4>1 DEF Rising, n
    <3>2. CASE m = n + 1
      <4>1. m - 1 = n
        BY <1>4, <3>2
      <4> QED
        BY <1>5, <1>7, <1>9, <1>10, <3>2, <4>1
    <3>3. m \in 1..n \/ m = n + 1
      BY <1>4
    <3> QED
      BY <3>1, <3>2, <3>3
  <2> QED
    BY <1>1, <2>1, <2>2 DEF Rising
<1>13. tag = Live =>
          /\ Mark(q.next, End(q, q.commits))
          /\ IsPrefix(p.states, q.states) /\ Len(q.states) <= Batch(q)
          /\ Len(q.states) = Batch(q) - 1
  <2>1. tag = Live => p.commits \in 0..n
    BY <1>4, <1>6
  <2> QED
    BY <1>1, <1>4, <1>5, <1>7, <2>1, PrefixFact
<1>14. ASSUME NEW m \in 0..Len(q.states), tag = Live \/ m <= n
       PROVE  Explained(Version(q, m), End(q, m))'
  <2>1. m \in 0..n /\ m \in 0..Len(p.states)
    BY <1>1, <1>4, <1>5, <1>14
  <2>2. Explained(Version(p, m), End(p, m))
    BY <1>5, <2>1
  <2>3. PICK v, x : v = Version(q, m) /\ x = End(q, m)
    OBVIOUS
  <2>4. Explained(v, x)
    BY <1>7, <2>1, <2>2, <2>3
  <2>5. Explained(v, x)'
    BY <1>3, <2>4, ExplainedStays
  <2> QED
    BY <2>3, <2>5
<1>15. \A m \in 0..Len(q.states) :
          m <= (IF tag = Live \/ pc' \in {"idle", "executed"} THEN Batch(q) ELSE Batch(q) - 1)
          => Explained(Version(q, m), End(q, m))'
  <2>1. tag = Live \/ (IF tag = Live \/ pc' \in {"idle", "executed"}
                       THEN Batch(q) ELSE Batch(q) - 1) = n
    BY <1>1, <1>3, <1>4
  <2> QED
    BY <1>14, <2>1
<1>16. TableExplained'
  BY <1>3, ExplainedStays DEF ConvergeInv
<1> QED
  BY <1>1, <1>3, <1>12, <1>13, <1>15, <1>16, PathConverges DEF p

LEMMA CommitConverges ==
    ASSUME RestoreInv, ConvergeInv, Punctual, Commit
    PROVE  ConvergeInv'
<1> DEFINE p == Path
           n == Batch(p)
<1>1. PICK q : /\ Replaces(q) /\ q.commits = n /\ Batch(q) = n /\ q.states = p.states
               /\ q.offsets = p.offsets
               /\ q.next = Max({Stale(p)} \cup
                               {t - Delay : t \in {r.ts : r \in ToSet(Records(p, n))}})
  BY CommitStep DEF RestoreInv
<1>2. /\ pc = "executed" /\ pc' = "idle" /\ p.commits < n
      /\ UNCHANGED <<topic, table, found, unclear>>
  BY DEF Commit, history
<1>3. /\ p \in Checkpoint /\ q \in Checkpoint /\ Inside(p) /\ Typed
      /\ p.states \in Seq(State) /\ n \in 1..n /\ p.commits \in Nat /\ n \in Nat
  <2>1. n > 0
    BY <1>2 DEF RestoreInv, Typed
  <2> QED
    BY <1>1, <2>1, ProgressFact, CheckpointFact DEF Replaces, RestoreInv
<1>4. /\ Rising(p)
      /\ \A m \in 0..Len(p.states) : m <= n => Explained(Version(p, m), End(p, m))
      /\ tag = Live => Len(p.states) = n
  BY <1>2 DEF ConvergeInv, Paced, Covered, Upto, LiveRun
<1>5. Mark(q.next, End(p, n))
  <2>1. p.commits # Batch(p)
    BY <1>2, <1>3
  <2>2. n = Batch(p)
    OBVIOUS
  <2> HIDE DEF p, n
  <2> QED
    BY <1>1, <1>3, <1>4, <2>1, <2>2, NextMark DEF ConvergeInv
<1> HIDE DEF p
<1>6. /\ \A m : End(q, m) = End(p, m) /\ Version(q, m) = Version(p, m)
      /\ Upcoming(q) = q.next
  BY <1>1 DEF End, Version, Upcoming
<1>7. Rising(q)
  BY <1>1, <1>4, <1>6 DEF Rising
<1> HIDE DEF n
<1>8. tag = Live =>
          /\ Mark(q.next, End(q, q.commits))
          /\ IsPrefix(p.states, q.states) /\ Len(q.states) <= Batch(q)
          /\ Len(q.states) = Batch(q)
  BY <1>1, <1>3, <1>4, <1>5, <1>6, PrefixFact
<1>9. ASSUME NEW m \in 0..Len(q.states), m <= n
      PROVE  Explained(Version(q, m), End(q, m))'
  <2>1. PICK v, x : v = Version(q, m) /\ x = End(q, m)
    OBVIOUS
  <2>2. Explained(v, x)
    BY <1>1, <1>4, <1>6, <1>9, <2>1
  <2>3. Explained(v, x)'
    BY <1>2, <2>2, ExplainedStays
  <2> QED
    BY <2>1, <2>3
<1>10. \A m \in 0..Len(q.states) :
          m <= (IF tag = Live \/ pc' \in {"idle", "executed"} THEN Batch(q) ELSE Batch(q) - 1)
          => Explained(Version(q, m), End(q, m))'
  BY <1>1, <1>2, <1>9
<1>11. TableExplained'
  BY <1>2, ExplainedStays DEF ConvergeInv
<1>12. Mark(Upcoming(q), End(q, Batch(q)))
  BY <1>1, <1>5, <1>6
<1> QED
  BY <1>1, <1>2, <1>7, <1>8, <1>10, <1>11, <1>12, PathConverges DEF p

LEMMA FailConverges ==
    ASSUME RestoreInv, ConvergeInv, Fail \/ StopEngine
    PROVE  ConvergeInv'
<1>1. /\ UNCHANGED <<topic, paths, tag, table, found, snapshots, taken, drill, damage, unclear>>
      /\ pc' \in {"failed", "down"}
  BY DEF Fail, StopEngine, history
<1>2. PICK q : Replaces(q) /\ q = Path
  BY <1>1, SamePath
<1>3. /\ Batch(q) \in Nat /\ Len(q.states) \in Nat /\ q.states \in Seq(State)
      /\ tag = Live \/ tag = Fresh
  BY <1>2, ProgressFact, CheckpointFact, PathFact DEF RestoreInv
<1>4. /\ Rising(q) /\ (tag = Live => Mark(q.next, End(q, q.commits)))
      /\ \A m \in 0..Len(q.states) : m <= Upto => Explained(Version(q, m), End(q, m))
      /\ tag = Live => Len(q.states) <= Batch(q)
  BY <1>2 DEF ConvergeInv, Paced, Covered, LiveRun
<1>5. IsPrefix(Path.states, q.states)
  BY <1>2, <1>3, PrefixFact
<1>6. ASSUME NEW m \in 0..Len(q.states),
             m <= (IF tag = Live THEN Batch(q) ELSE Batch(q) - 1)
      PROVE  Explained(Version(q, m), End(q, m))'
  <2>1. m <= Upto
    BY <1>2, <1>3, <1>6 DEF Upto
  <2>2. PICK v, x : v = Version(q, m) /\ x = End(q, m)
    OBVIOUS
  <2>3. Explained(v, x)
    BY <1>4, <2>1, <2>2
  <2>4. Explained(v, x)'
    BY <1>1, <2>3, ExplainedStays
  <2> QED
    BY <2>2, <2>4
<1>7. TableExplained'
  BY <1>1, ExplainedStays DEF ConvergeInv
<1>8. pc' \notin {"idle", "executed", "planned"}
  BY <1>1
<1>9. \A m \in 0..Len(q.states) :
          m <= (IF tag = Live \/ pc' \in {"idle", "executed"} THEN Batch(q) ELSE Batch(q) - 1)
          => Explained(Version(q, m), End(q, m))'
  BY <1>6, <1>8
<1> QED
  BY <1>2, <1>4, <1>5, <1>7, <1>8, <1>9, PathConverges

LEMMA ExecuteConverges ==
    ASSUME Policy # "HOLD", RestoreInv, ConvergeInv, Execute
    PROVE  ConvergeInv'
<1> DEFINE path == Path
           n == Batch(path)
           p == End(path, n - 1)
           e == End(path, n)
           v == Version(path, n - 1)
           w == path.offsets[n].watermark
           rows == Rows(path, n)
           came == First(rows, Len(rows))
           r == Invoked(path, n)
<1>1. PICK q : /\ Replaces(q) /\ q.commits = path.commits
               /\ Batch(q) = n /\ Len(q.states) = n
               /\ q.offsets = path.offsets /\ q.next = path.next
               /\ q.states[n] = Leaving(path, n)
               /\ \A i \in 1..(n - 1) : q.states[i] = path.states[i]
  BY OutcomeFact DEF RestoreInv
<1>2. pc = "planned" /\ pc' = "executed" /\ topic' = topic /\ Loadable(path)
  BY DEF Execute
<1>3. /\ path \in Checkpoint /\ q \in Checkpoint /\ Inside(path) /\ Typed
      /\ path.states \in Seq(State) /\ q.states \in Seq(State) /\ Len(path.states) \in Nat
      /\ n \in Nat /\ n \in 1..n /\ n - 1 \in 0..n /\ n - 1 \in 0..Len(path.states)
  <2>1. n > 0 /\ Len(path.states) >= n - 1
    BY <1>2 DEF RestoreInv, Typed, Loadable
  <2> QED
    BY <1>1, <2>1, ProgressFact, CheckpointFact DEF Replaces, RestoreInv
<1>4. /\ Rising(path) /\ TableExplained
      /\ tag = Live => Mark(path.next, End(path, path.commits))
      /\ \A m \in 0..Len(path.states) : m <= n - 1 => Explained(Version(path, m), End(path, m))
      /\ tag = Live => Len(path.states) = n - 1
  <2>1. n - 1 <= Upto /\ Upto \in Nat
    BY <1>3 DEF Upto
  <2>2. \A m \in 0..Len(path.states) : m <= n - 1 => m <= Upto
    BY <1>3, <2>1
  <2> QED
    BY <1>2, <2>2 DEF ConvergeInv, Paced, Covered, LiveRun
<1>5. /\ Len(topic) \in Nat /\ \A m \in 0..n : End(path, m) \in 0..Len(topic)
      /\ p <= e /\ Mark(w, p)
  <2>1. n - 1 <= n /\ n = Batch(path)
    BY <1>3
  <2> HIDE DEF path, n
  <2> QED
    BY <1>3, <1>4, <2>1, EndFact DEF Rising
<1>6. /\ v.key \in Key /\ Sound(v.key.acct) /\ Explained(v, p)
  <2>1. n - 1 <= n - 1
    BY <1>3
  <2> HIDE DEF path, n
  <2> QED
    BY <1>3, <1>4, <2>1, VersionFact
<1>7. w \in Nat
  <2>1. path.offsets[n] \in Offset
    <3>1. n = Len(path.offsets) /\ path.offsets \in Seq(Offset)
      BY <1>3, CheckpointFact DEF Batch
    <3> HIDE DEF path, n
    <3> QED
      BY <1>3, <3>1, ElementOfSeq
  <2> QED
    BY <2>1 DEF Offset
<1>8. /\ rows \in Seq(Seqs) /\ p \in 0..Len(topic) /\ e \in 0..Len(topic)
      /\ Seen(e) = Seen(p) \cup came
      /\ \A s \in came : \E j \in (p + 1)..e : topic[j].seq = s
      /\ \A s \in Twice(e) : \/ s \in Twice(p)
                             \/ \E k \in 1..Len(rows) :
                                   rows[k] = s /\ s \in Seen(p) \cup First(rows, k - 1)
  <2>1. n \in 1..Batch(path)
    BY <1>3
  <2> HIDE DEF path, n
  <2> QED
    BY <1>3, <1>5, <2>1, BatchReads
<1>9. r = Invoke(v.key, rows, table, w)
  BY DEF Invoked
<1>10. Sinks(v, rows, r)
  BY DEF Execute, Sinks, Gone
<1> DEFINE u == q.states[n]
<1>11. u \in State /\ u = [key |-> r.key, applied |-> v.applied \cup r.applied]
  <2>1. u \in State
    <3> HIDE DEF n
    <3> QED
      BY <1>1, <1>3, ElementOfSeq
  <2>2. u = Leaving(path, n)
    BY <1>1
  <2> QED
    BY <2>1, <2>2 DEF Leaving
<1>12. /\ \A m : End(q, m) = End(path, m)
       /\ \A m \in 0..(n - 1) : Version(q, m) = Version(path, m)
       /\ Version(q, n) = u
  <2>1. \A m \in 0..(n - 1) : m = 0 \/ m \in 1..(n - 1)
    BY <1>3
  <2>2. n # 0
    BY <1>3
  <2> HIDE DEF n, path, u
  <2> QED
    BY <1>1, <2>1, <2>2 DEF End, Version, u
<1> HIDE DEF path, n, p, e, v, w, rows, r, u
<1>13. \A k \in 1..Len(rows) : OnTime(rows[k], w)
  <2> SUFFICES ASSUME NEW k \in 1..Len(rows), DropLate
               PROVE  EventTs[rows[k]] > w
    BY DEF OnTime
  <2>1. rows[k] \in came
    BY DEF First
  <2>2. PICK j \in (p + 1)..e : topic[j].seq = rows[k]
    BY <1>8, <2>1
  <2>3. j \in (p + 1)..Len(topic)
    BY <1>5, <1>8
  <2>4. rows[k] \in Seqs
    BY <1>8
  <2>5. rows[k] > 0 /\ EventTs[rows[k]] \in Nat
    BY <2>4, EventTsAssumption DEF Seqs
  <2>6. w < EventTs[rows[k]]
    BY <1>5, <2>2, <2>3, <2>5 DEF Mark
  <2> QED
    BY <1>7, <2>5, <2>6
<1> HIDE DEF came
<1>14. r.key \in Key /\ Sound(r.key.acct)
  BY <1>11 DEF State
<1>15. PICK u1, e1 : u1 = u /\ e1 = e
  OBVIOUS
<1>16. /\ Grows /\ Explained(u1, e1)'
       /\ unclear' = {} => Seen(e1) \cap Gone' = {}
  <2>1. PICK p1, v1, w1, rows1, came1, r1 :
            p1 = p /\ v1 = v /\ w1 = w /\ rows1 = rows /\ came1 = came /\ r1 = r
    OBVIOUS
  <2>2. Typed /\ TableExplained /\ Policy # "HOLD"
    BY <1>3, <1>4
  <2>3. p1 \in 0..Len(topic) /\ e1 \in 0..Len(topic) /\ p1 <= e1
    BY <1>5, <1>8, <1>15, <2>1
  <2>4. v1.key \in Key /\ Sound(v1.key.acct) /\ Explained(v1, p1)
    BY <1>6, <2>1
  <2>5. /\ w1 \in Nat /\ rows1 \in Seq(Seqs) /\ \A k \in 1..Len(rows1) : OnTime(rows1[k], w1)
    BY <1>7, <1>8, <1>13, <2>1
  <2>6. came1 = First(rows1, Len(rows1)) /\ Seen(e1) = Seen(p1) \cup came1
    BY <1>8, <1>15, <2>1 DEF came
  <2>7. \A s \in Twice(e1) : \/ s \in Twice(p1)
                             \/ \E k \in 1..Len(rows1) :
                                   rows1[k] = s /\ s \in Seen(p1) \cup First(rows1, k - 1)
    BY <1>8, <1>15, <2>1
  <2>8. r1 = Invoke(v1.key, rows1, table, w1) /\ r1.key \in Key /\ Sound(r1.key.acct)
    BY <1>9, <1>14, <2>1
  <2>9. Sinks(v1, rows1, r1)
    BY <1>10, <2>1
  <2>10. u1 = [key |-> r1.key, applied |-> v1.applied \cup r1.applied]
    BY <1>11, <1>15, <2>1
  <2> QED
    BY <2>2, <2>3, <2>4, <2>5, <2>6, <2>7, <2>8, <2>9, <2>10, SinksExplained
<1>17. Rising(q)
  BY <1>1, <1>4, <1>12 DEF Rising, n
<1>18. tag = Live =>
          /\ Mark(q.next, End(q, q.commits))
          /\ IsPrefix(path.states, q.states) /\ Len(q.states) <= Batch(q)
          /\ Len(q.states) = Batch(q)
  BY <1>1, <1>3, <1>4, <1>12, PrefixFact
<1>19. ASSUME NEW m \in 0..(n - 1)
       PROVE  Explained(Version(q, m), End(q, m))'
  <2>1. m \in 0..Len(path.states) /\ m <= n - 1 /\ m \in 0..n /\ m <= n
    BY <1>3
  <2>2. PICK x, y : x = Version(path, m) /\ y = End(path, m)
    OBVIOUS
  <2>3. x.key \in Key /\ Sound(x.key.acct) /\ Explained(x, y)
    BY <1>3, <1>4, <2>1, <2>2, VersionFact
  <2>4. y \in 0..Len(topic) /\ y <= e1
    <3>1. n \in 0..Batch(path) /\ m \in 0..Batch(path)
      BY <1>3, <2>1 DEF n
    <3>2. End(path, m) <= End(path, n)
      BY <1>4, <2>1, <3>1 DEF Rising
    <3>3. e = End(path, n)
      BY DEF e
    <3> QED
      BY <1>5, <1>15, <2>1, <2>2, <3>2, <3>3
  <2>5. Seen(y) \in SUBSET Seqs /\ Seen(y) \subseteq Seen(e1)
    <3>1. e1 \in 0..Len(topic)
      BY <1>8, <1>15
    <3> QED
      BY <1>3, <2>4, <3>1, SeenFact
  <2>6. Explained(x, y)'
    BY <1>16, <2>3, <2>5, ExplainedKeeps
  <2>7. Version(q, m) = x /\ End(q, m) = y
    BY <1>12, <2>2
  <2> QED
    BY <2>6, <2>7
<1>20. PICK k : k = n
  OBVIOUS
<1>21. Explained(Version(q, k), End(q, k))'
  <2>1. Version(q, k) = u1 /\ End(q, k) = e1
    BY <1>12, <1>20, <1>15 DEF e
  <2> QED
    BY <1>16, <2>1
<1>22. \A m \in 0..Len(q.states) : Explained(Version(q, m), End(q, m))'
  <2> TAKE m \in 0..Len(q.states)
  <2>1. m \in 0..(n - 1) \/ m = k
    BY <1>1, <1>3, <1>20
  <2>2. CASE m \in 0..(n - 1)
    BY <1>19, <2>2
  <2>3. CASE m = k
    BY <1>21, <2>3
  <2> QED
    BY <2>1, <2>2, <2>3
<1>23. TableExplained'
  BY <1>16 DEF Grows
<1> QED
  BY <1>1, <1>2, <1>17, <1>18, <1>22, <1>23, PathConverges DEF path

(***************************************************************************)
(* Snapshots and drills                                                    *)
(***************************************************************************)

(* The engine is left alone.                                               *)
LEMMA OthersConverge ==
    ASSUME ConvergeInv, UNCHANGED <<topic, paths, tag, pc, table, found, unclear>>, Twins'
    PROVE  ConvergeInv'
<1>1. TableExplained' /\ \A v, p : Explained(v, p) => Explained(v, p)'
  BY ExplainedStays DEF ConvergeInv
<1>2. Path' = Path /\ Upto' = Upto
  BY DEF Path, Upto, Batch
<1>3. Paced'
  BY <1>2 DEF ConvergeInv, Paced, Rising, Mark, End, Batch, Upcoming, Stale
<1>4. Covered'
  <2> SUFFICES ASSUME NEW n \in 0..Len(Path.states), n <= Upto
               PROVE  Explained(Version(Path, n), End(Path, n))'
    BY <1>2 DEF Covered
  <2>1. PICK v, p : v = Version(Path, n) /\ p = End(Path, n)
    OBVIOUS
  <2>2. v = Version(Path, n)' /\ p = End(Path, n)'
    BY <1>2, <2>1 DEF Version, End
  <2>3. Explained(v, p)'
    BY <1>1, <2>1 DEF ConvergeInv, Covered
  <2> QED
    BY <2>2, <2>3
<1>5. LiveRun'
  BY <1>2 DEF ConvergeInv, LiveRun, Batch
<1> QED
  BY <1>1, <1>3, <1>4, <1>5 DEF ConvergeInv

LEMMA TwinStays ==
    ASSUME UNCHANGED <<topic, paths>>, NEW path, Twin(path)
    PROVE  Twin(path)'
BY DEF Twin, Mark, End

(* A snapshot is taken, or goes on, before anything was seeded.            *)
LEMMA SnapshotsConverge ==
    ASSUME RestoreInv, ConvergeInv, UNCHANGED <<topic, engine, drill, history>>,
           tag = Live /\ ~ drill.seeded => \A i \in 1..Newest' : Twin(snapshots'[i].path)
    PROVE  ConvergeInv'
<1>1. UNCHANGED <<topic, paths, tag, pc, table, found, unclear>> /\ drill' = drill
  BY DEF engine, history
<1>2. Twins'
  <2>1. ASSUME tag = Live, ~ drill.seeded, NEW i \in 1..Newest'
        PROVE  Twin(snapshots[i].path)'
    <3>1. PICK path : path = snapshots'[i].path
      OBVIOUS
    <3>2. Twin(path)
      BY <2>1, <3>1
    <3>3. Twin(path)'
      BY <1>1, <3>2, TwinStays
    <3> QED
      BY <3>1, <3>3
  <2>2. ASSUME tag = Live, drill.seeded
        PROVE  Twin(paths[Fresh])'
    <3>1. PICK path : path = paths[Fresh]
      OBVIOUS
    <3>2. Twin(path)'
      BY <1>1, <2>2, <3>1, TwinStays DEF ConvergeInv, Twins
    <3> QED
      BY <1>1, <3>1, <3>2
  <2> QED
    BY <1>1, <2>1, <2>2 DEF Twins
<1> QED
  BY <1>1, <1>2, OthersConverge

LEMMA MirrorsConverge ==
    ASSUME RestoreInv, ConvergeInv,
           MirrorCommits \/ MirrorOffsets \/ MirrorStates \/ MirrorFails \/ Prune
    PROVE  ConvergeInv'
<1> DEFINE live == paths[Live]
<1>1. UNCHANGED <<topic, engine, drill, history>>
  BY DEF MirrorCommits, MirrorOffsets, MirrorStates, MirrorFails, Prune
<1> SUFFICES ASSUME tag = Live, ~ drill.seeded
             PROVE  \A i \in 1..Newest' : Twin(snapshots'[i].path)
  BY <1>1, SnapshotsConverge
<1>2. /\ \A i \in 1..Newest : Twin(snapshots[i].path)
      /\ Mark(live.next, End(live, live.commits))
  BY DEF ConvergeInv, Twins, Paced, Path
<1>3. /\ Newest \in Nat /\ Newest = Len(snapshots) /\ snapshots \in Seq(Snapshot)
      /\ live.offsets \in Seq(Offset) /\ live.states \in Seq(State) /\ live.commits \in Nat
      /\ Batch(live) > 0 => ~ Rebuilt
  BY SnapshotsFact, LiveFact DEF Newest
<1>4. /\ IsPrefix(<<>>, live.offsets) /\ IsPrefix(<<>>, live.states)
      /\ IsPrefix(live.offsets, live.offsets) /\ IsPrefix(live.states, live.states)
  <2>1. PICK x : x = <<>>
    OBVIOUS
  <2>2. x \in Seq(Offset) /\ x \in Seq(State) /\ Len(x) = 0 /\ 1..0 = {}
    BY <2>1
  <2>3. /\ Len(live.offsets) \in Nat /\ Len(live.states) \in Nat
        /\ \A i \in 1..Len(x) : x[i] = live.offsets[i] /\ x[i] = live.states[i]
    BY <1>3, <2>2
  <2> HIDE DEF live
  <2>4. IsPrefix(<<>>, live.offsets)
    <3>1. Len(x) <= Len(live.offsets)
      BY <2>2, <2>3
    <3>2. IsPrefix(x, live.offsets)
      BY <1>3, <2>2, <2>3, <3>1, PrefixFact
    <3> QED
      BY <2>1, <3>2
  <2>5. IsPrefix(<<>>, live.states)
    <3>1. Len(x) <= Len(live.states)
      BY <2>2, <2>3
    <3>2. IsPrefix(x, live.states)
      BY <1>3, <2>2, <2>3, <3>1, PrefixFact
    <3> QED
      BY <2>1, <3>2
  <2>6. IsPrefix(live.offsets, live.offsets) /\ IsPrefix(live.states, live.states)
    BY <1>3, PrefixFact
  <2> QED
    BY <2>4, <2>5, <2>6
<1>5. CASE MirrorCommits
  <2>1. PICK x \in Snapshot :
            /\ snapshots' = Append(snapshots, x)
            /\ x.path.offsets = <<>> /\ x.path.states = <<>>
            /\ x.path.commits = live.commits /\ x.path.next = live.next
    BY <1>5, MirrorCommitsKeeps
  <2>2. Twin(x.path)
    BY <1>2, <1>3, <1>4, <2>1 DEF Twin
  <2>3. /\ Newest' = Newest + 1
        /\ \A i \in 1..(Newest + 1) : snapshots'[i] = IF i <= Newest THEN snapshots[i] ELSE x
    BY <1>3, <2>1 DEF Newest
  <2> QED
    BY <1>2, <1>3, <2>2, <2>3
<1>6. ASSUME MirrorOffsets \/ MirrorStates \/ MirrorFails,
             NEW x \in Snapshot, snapshots' = [snapshots EXCEPT ![Newest] = x], Twin(x.path)
      PROVE  \A i \in 1..Newest' : Twin(snapshots'[i].path)
  <2>1. Newest \in 1..Newest
    BY <1>3, <1>6 DEF MirrorOffsets, MirrorStates, MirrorFails, Mirroring
  <2>2. /\ Len(snapshots') = Len(snapshots)
        /\ \A j \in 1..Len(snapshots) : snapshots'[j] = IF j = Newest THEN x ELSE snapshots[j]
    BY <1>3, <1>6, <2>1, ExceptSeq
  <2>3. Newest' = Newest
    BY <2>2 DEF Newest
  <2> QED
    BY <1>2, <1>3, <1>6, <2>2, <2>3
<1>7. CASE MirrorOffsets
  <2>1. PICK x \in Snapshot :
            /\ snapshots' = [snapshots EXCEPT ![Newest] = x]
            /\ x.path.offsets = live.offsets
            /\ x.path.commits = snapshots[Newest].path.commits
            /\ x.path.next = snapshots[Newest].path.next
            /\ x.path.states = snapshots[Newest].path.states
    BY <1>7, MirrorOffsetsKeeps
  <2>2. Newest \in 1..Newest
    BY <1>3, <1>7 DEF MirrorOffsets, Mirroring
  <2>3. Twin(x.path)
    BY <1>2, <1>4, <2>1, <2>2 DEF Twin
  <2> QED
    BY <1>6, <1>7, <2>1, <2>3
<1>8. CASE MirrorStates
  <2>1. PICK x \in Snapshot :
            /\ snapshots' = [snapshots EXCEPT ![Newest] = x]
            /\ x.path.offsets = snapshots[Newest].path.offsets
            /\ x.path.commits = snapshots[Newest].path.commits
            /\ x.path.next = snapshots[Newest].path.next
            /\ x.path.states = live.states
    BY <1>8, MirrorStatesKeeps
  <2>2. Newest \in 1..Newest
    BY <1>3, <1>8 DEF MirrorStates, Mirroring
  <2>3. Twin(x.path)
    BY <1>2, <1>4, <2>1, <2>2 DEF Twin
  <2> QED
    BY <1>6, <1>8, <2>1, <2>3
<1>9. CASE MirrorFails
  <2>1. PICK x \in Snapshot : /\ snapshots' = [snapshots EXCEPT ![Newest] = x]
                              /\ x.path = snapshots[Newest].path
    BY <1>9, MirrorFailsKeeps
  <2>2. Newest \in 1..Newest
    BY <1>3, <1>9 DEF MirrorFails, Mirroring
  <2>3. Twin(x.path)
    BY <1>2, <2>1, <2>2
  <2> QED
    BY <1>6, <1>9, <2>1, <2>3
<1>10. CASE Prune
  <2> DEFINE s == SubSeq(snapshots, Newest - Keep + 1, Newest)
  <2>1. Newest > Keep /\ Keep \in Nat /\ snapshots' = s
    BY <1>10, RestoreAssumption DEF Prune
  <2>2. \A i \in (Newest - Keep + 1)..Newest : snapshots[i] \in Snapshot
    BY <1>3, <2>1, SnapshotsFact
  <2>3. /\ Len(s) = IF Newest - Keep + 1 <= Newest THEN Newest - (Newest - Keep + 1) + 1 ELSE 0
        /\ \A i \in 1..(Newest - (Newest - Keep + 1) + 1) :
              s[i] = snapshots[(Newest - Keep + 1) + i - 1]
    <3>1. Newest - Keep + 1 \in Int /\ Newest \in Int
      BY <1>3, <2>1
    <3> HIDE DEF Newest
    <3> QED
      BY <2>2, <3>1, SubSeqProperties
  <2> HIDE DEF s
  <2>4. Newest' = Keep
    <3>1. Newest - Keep + 1 <= Newest /\ Newest - (Newest - Keep + 1) + 1 = Keep
      BY <1>3, <2>1, RestoreAssumption
    <3> QED
      BY <2>1, <2>3, <3>1 DEF Newest
  <2>5. ASSUME NEW i \in 1..Keep
        PROVE  Twin(s[i].path)
    <3> DEFINE j == (Newest - Keep + 1) + i - 1
    <3>1. i \in 1..(Newest - (Newest - Keep + 1) + 1) /\ j \in 1..Newest
      BY <1>3, <2>1
    <3>2. s[i] = snapshots[j]
      BY <2>3, <3>1
    <3> HIDE DEF j
    <3> QED
      BY <1>2, <3>1, <3>2
  <2> QED
    BY <2>1, <2>4, <2>5
<1> QED
  BY <1>5, <1>7, <1>8, <1>9, <1>10

LEMMA ChooseConverges ==
    ASSUME RestoreInv, ConvergeInv, \E kind \in {"restore", "upgrade"} : ChooseLatest(kind)
    PROVE  ConvergeInv'
<1>1. PICK kind \in {"restore", "upgrade"} : ChooseLatest(kind)
  OBVIOUS
<1>2. /\ drill = NoDrill
      /\ drill' = [NoDrill EXCEPT !.kind = kind, !.chosen = snapshots[Newest].name,
                                  !.whole = snapshots[Newest].mirror = "done"]
      /\ UNCHANGED <<topic, engine, snapshots, taken, history>>
  BY <1>1 DEF ChooseLatest
<1>3. drill.seeded = FALSE /\ drill'.seeded = FALSE
  BY <1>2 DEF NoDrill
<1>4. UNCHANGED <<topic, paths, tag, pc, table, found, unclear, snapshots>>
  BY <1>2 DEF engine, history
<1>5. Twins'
  <2> SUFFICES ASSUME tag = Live, NEW i \in 1..Newest
               PROVE  Twin(snapshots[i].path)'
    BY <1>3, <1>4 DEF Twins, Newest
  <2>1. PICK path : path = snapshots[i].path
    OBVIOUS
  <2>2. Twin(path)'
    BY <1>3, <1>4, <2>1, TwinStays DEF ConvergeInv, Twins
  <2> QED
    BY <1>4, <2>1, <2>2
<1> QED
  BY <1>4, <1>5, OthersConverge

LEMMA CorruptConverges ==
    ASSUME RestoreInv, ConvergeInv, Corrupt \/ NothingToCorrupt
    PROVE  ConvergeInv'
<1>1. ~ drill.seeded /\ ~ drill'.seeded
  BY DEF Corrupt, NothingToCorrupt, NoDrill
<1>2. UNCHANGED <<topic, paths, tag, pc, table, found, unclear, snapshots>>
  BY DEF Corrupt, NothingToCorrupt, engine, history
<1>3. Twins'
  <2> SUFFICES ASSUME tag = Live, NEW i \in 1..Newest
               PROVE  Twin(snapshots[i].path)'
    BY <1>1, <1>2 DEF Twins, Newest
  <2>1. PICK path : path = snapshots[i].path
    OBVIOUS
  <2>2. Twin(path)'
    BY <1>1, <1>2, <2>1, TwinStays DEF ConvergeInv, Twins
  <2> QED
    BY <1>2, <2>1, <2>2
<1> QED
  BY <1>2, <1>3, OthersConverge

LEMMA SeedConverges ==
    ASSUME RestoreInv, ConvergeInv, Seed
    PROVE  ConvergeInv'
<1>1. PICK i \in 1..Newest :
          /\ paths' = [paths EXCEPT ![Fresh] = snapshots[i].path]
          /\ drill' = [drill EXCEPT !.seeded = TRUE, !.partial = snapshots[i].mirror # "done"]
  BY DEF Seed
<1>2. ~ drill.seeded /\ UNCHANGED <<topic, tag, pc, table, found, snapshots, unclear>>
  BY DEF Seed, history
<1>3. tag = Live /\ Live # Fresh /\ paths \in [{Live, Fresh} -> Checkpoint]
  <2>1. tag \in {Live, Fresh} /\ (tag = Fresh => drill.seeded)
    BY DEF RestoreInv, Typed, Running
  <2> QED
    BY <1>2, <2>1 DEF Live, Fresh, RestoreInv, Typed
<1>4. PICK path : path = snapshots[i].path
  OBVIOUS
<1>5. paths'[Live] = paths[Live] /\ paths'[Fresh] = path
  BY <1>1, <1>3, <1>4
<1>6. drill'.seeded
  BY <1>1 DEF RestoreInv, Typed
<1>7. Twin(path)
  BY <1>2, <1>3, <1>4 DEF ConvergeInv, Twins
<1>8. Twins'
  <2>1. Twin(path)'
    BY <1>2, <1>5, <1>7 DEF Twin, Mark, End
  <2> QED
    BY <1>2, <1>3, <1>5, <1>6, <2>1 DEF Twins
<1>9. Path' = Path
  BY <1>2, <1>3, <1>5 DEF Path
<1>10. TableExplained' /\ \A v, p : Explained(v, p) => Explained(v, p)'
  BY <1>2, ExplainedStays DEF ConvergeInv
<1>11. Paced'
  BY <1>2, <1>9 DEF ConvergeInv, Paced, Rising, Mark, End, Batch, Upcoming, Stale
<1>12. Covered'
  <2>1. Upto' = Upto
    BY <1>2, <1>9 DEF Upto, Batch
  <2> SUFFICES ASSUME NEW n \in 0..Len(Path.states), n <= Upto
               PROVE  Explained(Version(Path, n), End(Path, n))'
    BY <1>9, <2>1 DEF Covered
  <2>2. PICK v, p : v = Version(Path, n) /\ p = End(Path, n)
    OBVIOUS
  <2>3. v = Version(Path, n)' /\ p = End(Path, n)'
    BY <1>9, <2>2 DEF Version, End
  <2>4. Explained(v, p)'
    BY <1>10, <2>2 DEF ConvergeInv, Covered
  <2> QED
    BY <2>3, <2>4
<1>13. LiveRun'
  BY <1>2, <1>9 DEF ConvergeInv, LiveRun, Batch
<1> QED
  BY <1>8, <1>10, <1>11, <1>12, <1>13 DEF ConvergeInv

(* The engine starts on the copy: what was explained of the live path is   *)
(* explained of it.                                                        *)
LEMMA StartConverges ==
    ASSUME RestoreInv, ConvergeInv, StartFresh
    PROVE  ConvergeInv'
<1> DEFINE live == paths[Live]
<1>1. /\ drill.seeded /\ tag = Live /\ tag' = Fresh /\ pc' = Resumed(paths[Fresh])
      /\ UNCHANGED <<topic, paths, table, found, snapshots, drill, unclear>>
  BY DEF StartFresh
<1>2. PICK fresh : fresh = paths[Fresh]
  OBVIOUS
<1>3. Path = live /\ Path' = fresh /\ Live # Fresh
  BY <1>1, <1>2 DEF Path, Live, Fresh
<1>4. /\ fresh \in Checkpoint /\ Inside(fresh) /\ live \in Checkpoint /\ Typed
      /\ Twin(fresh) /\ Rising(live) /\ Regular(live)
      /\ Len(live.states) <= Batch(live)
      /\ \A n \in 0..Len(live.states) : n <= Batch(live) => Explained(Version(live, n), End(live, n))
  <2>1. fresh \in Checkpoint /\ Inside(fresh) /\ live \in Checkpoint /\ Regular(live) /\ Typed
    BY <1>2, PathFact, LiveFact DEF RestoreInv
  <2> QED
    BY <1>1, <1>2, <1>3, <2>1 DEF ConvergeInv, Twins, Paced, LiveRun, Covered, Upto
<1> HIDE DEF live
<1>5. /\ IsPrefix(fresh.offsets, live.offsets) /\ IsPrefix(fresh.states, live.states)
      /\ Mark(fresh.next, End(live, fresh.commits))
  BY <1>4 DEF Twin, live
<1>6. /\ Batch(fresh) \in Nat /\ Batch(live) \in Nat /\ Batch(fresh) <= Batch(live)
      /\ \A n \in 1..Batch(fresh) : fresh.offsets[n] = live.offsets[n]
      /\ \A n \in 0..Batch(fresh) : End(fresh, n) = End(live, n)
      /\ Len(fresh.states) \in Nat /\ Len(live.states) \in Nat
      /\ Len(fresh.states) <= Len(live.states)
      /\ \A n \in 0..Len(fresh.states) : Version(fresh, n) = Version(live, n)
  BY <1>4, <1>5, TwinFact
<1>7. Rising(fresh)
  <2>1. ASSUME NEW m \in 0..Batch(fresh), NEW n \in 0..Batch(fresh), m <= n
        PROVE  End(fresh, m) <= End(fresh, n)
    <3>1. m \in 0..Batch(live) /\ n \in 0..Batch(live)
      BY <1>6
    <3> QED
      BY <1>4, <1>6, <2>1, <3>1 DEF Rising
  <2>2. ASSUME NEW n \in 1..Batch(fresh)
        PROVE  Mark(fresh.offsets[n].watermark, End(fresh, n - 1))
    <3>1. n \in 1..Batch(live) /\ n - 1 \in 0..Batch(fresh)
      BY <1>6
    <3> QED
      BY <1>4, <1>6, <3>1 DEF Rising
  <2> QED
    BY <2>1, <2>2 DEF Rising
<1>8. Mark(Upcoming(fresh), End(fresh, Batch(fresh)))
  <2>1. fresh.commits = Batch(fresh) => Mark(fresh.next, End(fresh, Batch(fresh)))
    <3>1. Batch(fresh) \in 0..Batch(fresh)
      BY <1>6
    <3> QED
      BY <1>5, <1>6, <3>1
  <2> QED
    BY <1>4, <1>7, <2>1, UpcomingMark
<1>9. Paced'
  <2>1. Rising(fresh)' /\ Mark(Upcoming(fresh), End(fresh, Batch(fresh)))'
    BY <1>1, <1>7, <1>8 DEF Rising, Mark
  <2> QED
    BY <1>1, <1>3, <2>1 DEF Paced
<1>10. TableExplained' /\ \A v, p : Explained(v, p) => Explained(v, p)'
  BY <1>1, ExplainedStays DEF ConvergeInv
<1>11. Upto' \in Int /\ Upto' <= Batch(fresh)
  BY <1>1, <1>3, <1>6 DEF Upto, Batch
<1>12. Covered'
  <2> SUFFICES ASSUME NEW n \in 0..Len(fresh.states), n <= Upto'
               PROVE  Explained(Version(Path, n), End(Path, n))'
    BY <1>3 DEF Covered
  <2>1. n \in 0..Batch(fresh) /\ n \in 0..Len(live.states) /\ n <= Batch(live)
    BY <1>6, <1>11
  <2>2. PICK v, p : v = Version(fresh, n) /\ p = End(fresh, n)
    OBVIOUS
  <2>3. Explained(v, p)
    BY <1>4, <1>6, <2>1, <2>2
  <2>4. Explained(v, p)'
    BY <1>10, <2>3
  <2>5. v = Version(Path, n)' /\ p = End(Path, n)'
    BY <1>3, <2>2 DEF Version, End
  <2> QED
    BY <2>4, <2>5
<1>13. LiveRun' /\ Twins'
  BY <1>1, <1>3 DEF LiveRun, Twins
<1> QED
  BY <1>9, <1>10, <1>12, <1>13 DEF ConvergeInv

(* A path with nothing on it.                                              *)
LEMMA EmptyConverges ==
    ASSUME Typed
    PROVE  /\ Rising(Empty) /\ Mark(Upcoming(Empty), End(Empty, Batch(Empty)))
           /\ Mark(Empty.next, End(Empty, Empty.commits)) /\ Len(Empty.states) = 0
           /\ TableExplained => Explained(Version(Empty, 0), End(Empty, 0))
<1>1. /\ Batch(Empty) = 0 /\ Empty.commits = 0 /\ Empty.next = 0 /\ Empty.offsets = <<>>
      /\ Len(Empty.states) = 0 /\ End(Empty, 0) = 0
  BY EmptyFact DEF Empty, End
<1>2. Mark(0, 0)
  BY MarkNothing
<1>3. Rising(Empty)
  <2>1. 0..0 = {0} /\ 1..0 = {} /\ 0 <= 0
    OBVIOUS
  <2> QED
    BY <1>1, <2>1 DEF Rising
<1>4. Upcoming(Empty) = 0
  BY <1>1 DEF Upcoming
<1>5. ASSUME TableExplained
      PROVE  Explained(Version(Empty, 0), 0)
  <2> DEFINE v == Version(Empty, 0)
             o == Opened(v.key, table)
  <2>1. v.key = ColdKey /\ v.applied = {}
    BY DEF Version
  <2>2. ColdKey \in Key /\ Sound(ColdKey.acct) /\ ~ ColdKey.exists
    BY BoundsAssumption DEF ColdKey, Key, EmptyAccount, Account, Sound
  <2>3. table \in BalanceRow /\ table.last <= MaxSeq /\ table.last \in Nat
    BY DEF Typed, BalanceRow
  <2> HIDE DEF v
  <2>4. /\ o.buf = {} /\ o.last \in Nat
        /\ (RejoinReseed /\ table.last > 0 /\ o.last = table.last /\ o.bal = table.bal)
              \/ (~ (RejoinReseed /\ table.last > 0) /\ o.last = 0 /\ o.bal = 0)
    BY <2>1, <2>2, <2>3, ColdFact
  <2>5. Earned(Gone, o.last, o.bal) /\ o.last <= table.last
    <3> HIDE DEF o
    <3> QED
      BY <1>5, <2>3, <2>4, EarnedNothing DEF TableExplained
  <2>6. Seen(0) = {} /\ Twice(0) = {}
    BY SeenFact
  <2> QED
    BY <2>1, <2>4, <2>5, <2>6 DEF Explained, v
<1> QED
  BY <1>1, <1>2, <1>3, <1>4, <1>5

LEMMA RebuildConverges ==
    ASSUME RestoreInv, ConvergeInv, Rebuild
    PROVE  ConvergeInv'
<1>1. /\ tag = Fresh /\ pc = "idle" /\ paths' = [t \in DOMAIN paths |-> Empty]
      /\ UNCHANGED <<topic, tag, pc, table, found, unclear>>
  BY DEF Rebuild, Drained
<1>2. Path' = Empty /\ Live # Fresh /\ Typed
  BY <1>1 DEF RestoreInv, Typed, Path, Live, Fresh
<1>3. /\ Rising(Empty) /\ Mark(Upcoming(Empty), End(Empty, Batch(Empty)))
      /\ Len(Empty.states) = 0 /\ Explained(Version(Empty, 0), End(Empty, 0))
  BY <1>2, EmptyConverges DEF ConvergeInv
<1>4. Paced'
  <2>1. Rising(Empty)' /\ Mark(Upcoming(Empty), End(Empty, Batch(Empty)))'
    BY <1>1, <1>3 DEF Rising, Mark
  <2> QED
    BY <1>1, <1>2, <2>1 DEF Paced
<1>5. TableExplained' /\ \A v, p : Explained(v, p) => Explained(v, p)'
  BY <1>1, ExplainedStays DEF ConvergeInv
<1>6. Covered'
  <2> SUFFICES Explained(Version(Path, 0), End(Path, 0))'
    <3>1. \A n \in 0..0 : n = 0
      OBVIOUS
    <3> QED
      BY <1>2, <1>3, <3>1 DEF Covered
  <2>1. PICK v, p : v = Version(Empty, 0) /\ p = End(Empty, 0)
    OBVIOUS
  <2>2. Explained(v, p)'
    BY <1>3, <1>5, <2>1
  <2>3. v = Version(Path, 0)' /\ p = End(Path, 0)'
    BY <1>2, <2>1 DEF Version, End
  <2> QED
    BY <2>2, <2>3
<1>7. LiveRun' /\ Twins'
  BY <1>1, <1>2 DEF LiveRun, Twins
<1> QED
  BY <1>4, <1>5, <1>6, <1>7 DEF ConvergeInv

LEMMA InitConverges ==
    ASSUME Init
    PROVE  ConvergeInv
<1>1. Typed
  BY InitRestoreInv DEF RestoreInv
<1>2. /\ tag = Live /\ pc = "idle" /\ Path = Empty /\ snapshots = <<>> /\ ~ drill.seeded
      /\ table = NoRow /\ found = NothingFound /\ unclear = {}
  BY DEF Init, Path, NoDrill, Live
<1>3. TableExplained
  <2>1. Gone = {} /\ found.overflow = {} /\ table.last = 0 /\ table.bal = 0
    BY <1>2 DEF Gone, NothingFound, NoRow
  <2> QED
    BY <2>1, EarnedNothing DEF TableExplained
<1>4. /\ Rising(Empty) /\ Mark(Upcoming(Empty), End(Empty, Batch(Empty)))
      /\ Mark(Empty.next, End(Empty, Empty.commits)) /\ Len(Empty.states) = 0
      /\ Explained(Version(Empty, 0), End(Empty, 0))
  BY <1>1, <1>3, EmptyConverges
<1>5. Covered
  <2>1. \A n \in 0..0 : n = 0
    OBVIOUS
  <2> QED
    BY <1>2, <1>4, <2>1 DEF Covered
<1>6. Paced
  BY <1>2, <1>4 DEF Paced
<1>7. LiveRun
  BY <1>2, <1>4, EmptyFact DEF LiveRun
<1>8. Twins
  BY <1>2 DEF Twins, Newest
<1> QED
  BY <1>3, <1>5, <1>6, <1>7, <1>8 DEF ConvergeInv

LEMMA ConvergeKeeps ==
    ASSUME Policy # "HOLD", Punctual, RestoreInv, ConvergeInv, [Next]_vars
    PROVE  ConvergeInv'
<1>1. ASSUME UNCHANGED vars
      PROVE  ConvergeInv'
  <2>1. UNCHANGED <<topic, engine, drill, history, snapshots>>
    BY <1>1 DEF vars
  <2>2. tag = Live /\ ~ drill.seeded => \A i \in 1..Newest' : Twin(snapshots'[i].path)
    BY <2>1 DEF ConvergeInv, Twins, Newest
  <2> QED
    BY <2>1, <2>2, SnapshotsConverge
<1>2. CASE Plan \/ Execute \/ Commit \/ Fail
  BY <1>2, PlanConverges, ExecuteConverges, CommitConverges, FailConverges
<1>3. CASE MirrorCommits \/ MirrorOffsets \/ MirrorStates \/ MirrorFails \/ Prune
  BY <1>3, MirrorsConverge
<1>4. CASE Drill
  BY <1>4, ChooseConverges, CorruptConverges, FailConverges, SeedConverges, StartConverges DEF Drill
<1>5. CASE Rebuild
  BY <1>5, RebuildConverges
<1> QED
  BY <1>1, <1>2, <1>3, <1>4, <1>5 DEF Next

(***************************************************************************)
(* What the oracle makes of the topic                                      *)
(***************************************************************************)

Logged(i, log) ==
    IF i = 0 THEN <<>>
    ELSE IF topic[i].seq > 0 THEN Append(log[i - 1], topic[i].seq)
    ELSE log[i - 1]

(* The recursion of the delivery log is sound.                             *)
LEMMA LogSteps ==
    ASSUME Len(topic) \in Nat
    PROVE  \E log : /\ \A i \in 0..Len(topic) : log[i] = Logged(i, log)
                    /\ Log = log[Len(topic)]
<1> DEFINE Good(n) == \E f : f = [i \in 0..n |-> Logged(i, f)]
           S == {n \in Nat : Good(n)}
<1>1. 0 \in S
  <2> DEFINE f == [i \in 0..0 |-> <<>>]
  <2>1. f = [i \in 0..0 |-> Logged(i, f)]
    BY \A i \in 0..0 : i = 0 DEF Logged
  <2> QED
    BY <2>1
<1>2. ASSUME NEW n \in S
      PROVE  n + 1 \in S
  <2>1. PICK f : f = [i \in 0..n |-> Logged(i, f)]
    OBVIOUS
  <2> DEFINE g == [i \in 0..(n + 1) |-> IF i = n + 1 THEN Logged(n + 1, f) ELSE f[i]]
  <2>2. ASSUME NEW i \in 0..(n + 1)
        PROVE  g[i] = Logged(i, g)
    <3>1. CASE i = 0
      <4>1. g[i] = f[i] /\ f[i] = Logged(i, f)
        BY <2>1, <3>1
      <4> QED
        BY <3>1, <4>1 DEF Logged
    <3>2. CASE i # 0
      <4>1. i - 1 \in 0..n /\ i - 1 \in 0..(n + 1) /\ i - 1 # n + 1
        BY <3>2
      <4>2. g[i - 1] = f[i - 1]
        BY <4>1
      <4>3. Logged(i, g) = Logged(i, f)
        BY <3>2, <4>2 DEF Logged
      <4>4. CASE i = n + 1
        BY <4>3, <4>4
      <4>5. CASE i # n + 1
        <5>1. i \in 0..n
          BY <4>5
        <5>2. g[i] = f[i] /\ f[i] = Logged(i, f)
          BY <2>1, <4>5, <5>1
        <5> QED
          BY <4>3, <5>2
      <4> QED
        BY <4>4, <4>5
    <3> QED
      BY <3>1, <3>2
  <2>3. g = [i \in 0..(n + 1) |-> Logged(i, g)]
    BY <2>2
  <2>4. Good(n + 1)
    <3> HIDE DEF g
    <3> QED
      BY <2>3
  <2> QED
    BY <2>4
<1>3. S = Nat
  <2> HIDE DEF S
  <2> QED
    BY <1>1, <1>2, Induction, S \in SUBSET Nat DEF S
<1>4. \E f : f = [i \in 0..Len(topic) |-> Logged(i, f)]
  BY <1>3
<1> DEFINE log == CHOOSE f : f = [i \in 0..Len(topic) |-> Logged(i, f)]
<1>5. Log = log[Len(topic)]
  BY DEF Log, Logged
<1> HIDE DEF log
<1>6. log = [i \in 0..Len(topic) |-> Logged(i, log)]
  BY <1>4 DEF log
<1>7. \A i \in 0..Len(topic) : log[i] = Logged(i, log)
  BY <1>6
<1> QED
  BY <1>5, <1>7

(* Whether a sequence is the log of the first p records.                   *)
Logs(q, p) ==
    /\ q \in Seq(Seqs)
    /\ \A s : s \in ToSet(q) <=> s \in Seen(p)
    /\ \A s : (\E i, j \in 1..Len(q) : i < j /\ q[i] = s /\ q[j] = s) => s \in Twice(p)

LEMMA LogFact ==
    ASSUME Typed
    PROVE  Log \in Seq(Seqs) /\ ToSet(Log) = Events /\ Repeated(Log) \subseteq Twice(Len(topic))
<1>1. /\ Len(topic) \in Nat /\ Seen(0) = {}
      /\ \A i \in 1..Len(topic) : topic[i].seq \in Nat /\ (topic[i].seq # 0 => topic[i].seq \in Seqs)
  BY SeenFact, BoundsAssumption DEF Seqs
<1>2. PICK log : /\ \A i \in 0..Len(topic) : log[i] = Logged(i, log)
                 /\ Log = log[Len(topic)]
  BY <1>1, LogSteps
<1> DEFINE S == {n \in Nat : n <= Len(topic) => Logs(log[n], n)}
<1>3. 0 \in S
  <2>1. log[0] = <<>>
    BY <1>1, <1>2 DEF Logged
  <2>2. PICK q : q = log[0] /\ q \in Seq(Seqs) /\ Len(q) = 0 /\ ToSet(q) = {}
    <3>1. PICK q : q = <<>>
      OBVIOUS
    <3>2. q \in Seq(Seqs) /\ Len(q) = 0 /\ DOMAIN q = {}
      BY <3>1
    <3>3. ToSet(q) = {}
      BY <3>2 DEF ToSet
    <3> QED
      BY <2>1, <3>1, <3>2, <3>3
  <2>3. Logs(q, 0)
    BY <1>1, <2>2 DEF Logs
  <2> QED
    BY <2>2, <2>3
<1>4. ASSUME NEW n \in S
      PROVE  n + 1 \in S
  <2> SUFFICES ASSUME n + 1 <= Len(topic)
               PROVE  Logs(log[n + 1], n + 1)
    OBVIOUS
  <2> DEFINE m == n + 1
  <2>1. /\ n \in Nat /\ Logs(log[n], n) /\ m \in 1..Len(topic) /\ m \in 0..Len(topic)
        /\ m # 0 /\ m - 1 = n /\ 1..m = 1..n \cup {m} /\ m \notin 1..n
    BY <1>1
  <2>2. PICK q, t : q = log[n] /\ t = topic[m].seq
    OBVIOUS
  <2>3. /\ q \in Seq(Seqs)
        /\ \A s : s \in ToSet(q) <=> s \in Seen(n)
        /\ \A s : (\E i, j \in 1..Len(q) : i < j /\ q[i] = s /\ q[j] = s) => s \in Twice(n)
    BY <2>1, <2>2 DEF Logs
  <2>4. log[m] = IF t > 0 THEN Append(q, t) ELSE q
    BY <1>2, <2>1, <2>2 DEF Logged
  <2>5. t \in Nat /\ (t # 0 => t \in Seqs)
    BY <1>1, <2>1, <2>2
  <2> HIDE DEF m, S
  <2>6. Seen(m) = Seen(n) \cup ({t} \ {0})
    <3>1. {topic[i].seq : i \in 1..m} = {topic[i].seq : i \in 1..n} \cup {t}
      BY <2>1, <2>2
    <3> QED
      BY <3>1 DEF Seen
  <2>7. Twice(n) \subseteq Twice(m)
    BY <2>1 DEF Twice
  <2>8. CASE t = 0
    <3>1. log[m] = q /\ Seen(m) = Seen(n)
      BY <2>4, <2>6, <2>8
    <3> QED
      BY <2>3, <2>7, <3>1 DEF Logs, m
  <2>9. CASE t # 0
    <3>1. t > 0 /\ t \in Seqs
      BY <2>5, <2>9
    <3>2. PICK r : r = log[m] /\ r = Append(q, t)
      BY <2>4, <3>1
    <3>3. /\ r \in Seq(Seqs) /\ Len(q) \in Nat /\ Len(r) = Len(q) + 1
          /\ \A i \in 1..Len(q) : r[i] = q[i]
          /\ r[Len(q) + 1] = t
          /\ DOMAIN r = 1..(Len(q) + 1) /\ DOMAIN q = 1..Len(q)
      BY <2>3, <3>1, <3>2
    <3>4. ToSet(r) = ToSet(q) \cup {t}
      <4>1. 1..(Len(q) + 1) = 1..Len(q) \cup {Len(q) + 1}
        BY <3>3
      <4> QED
        BY <3>3, <4>1 DEF ToSet
    <3>5. \A s : s \in ToSet(r) <=> s \in Seen(m)
      BY <2>3, <2>6, <2>9, <3>4
    <3>6. ASSUME NEW s, NEW i \in 1..Len(r), NEW j \in 1..Len(r), i < j, r[i] = s, r[j] = s
          PROVE  s \in Twice(m)
      <4>1. i \in 1..Len(q) /\ i \in DOMAIN q /\ q[i] = s
        BY <3>3, <3>6
      <4>2. CASE j \in 1..Len(q)
        BY <2>3, <2>7, <3>3, <3>6, <4>1, <4>2
      <4>3. CASE j \notin 1..Len(q)
        <5>1. s = t
          BY <3>3, <3>6, <4>3
        <5>2. s \in Seen(n)
          BY <2>3, <4>1 DEF ToSet
        <5>3. PICK k \in 1..n : topic[k].seq = s
          BY <5>2 DEF Seen
        <5>4. k \in 1..m /\ m \in 1..m /\ k < m /\ topic[m].seq = s
          BY <2>1, <2>2, <5>1, <5>3 DEF m
        <5> QED
          BY <3>1, <5>1, <5>3, <5>4 DEF Twice
      <4> QED
        BY <4>2, <4>3
    <3>7. Logs(r, m)
      BY <3>3, <3>5, <3>6 DEF Logs
    <3> QED
      BY <3>2, <3>7 DEF m
  <2> QED
    BY <2>8, <2>9
<1>5. S = Nat
  <2> HIDE DEF S
  <2> QED
    BY <1>3, <1>4, Induction, S \in SUBSET Nat DEF S
<1>6. Logs(Log, Len(topic))
  <2>1. Len(topic) \in S /\ Len(topic) <= Len(topic)
    BY <1>1, <1>5
  <2> QED
    BY <1>2, <2>1
<1>7. PICK q : q = Log
  OBVIOUS
<1>8. q \in Seq(Seqs) /\ ToSet(q) = Events
  BY <1>6, <1>7 DEF Logs, Events
<1>9. Repeated(q) \subseteq Twice(Len(topic))
  <2> SUFFICES ASSUME NEW s \in Repeated(q)
               PROVE  s \in Twice(Len(topic))
    OBVIOUS
  <2>1. Copies(q, s) > 1
    BY DEF Repeated, Copies, Places
  <2>2. \E i, j \in 1..Len(q) : i < j /\ q[i] = s /\ q[j] = s
    BY <1>8, <2>1, TwoPlaces
  <2> QED
    BY <1>6, <1>7, <2>2 DEF Logs
<1> QED
  BY <1>7, <1>8, <1>9

(* It expects no eviction, and so everything to be applied.                *)
LEMMA Expected ==
    ASSUME Policy # "HOLD", Predictable, Typed
    PROVE  PredictedEvicted(Log) = {} /\ PredictedApplied(Log) = Events
<1>1. Log \in Seq(Seqs) /\ ToSet(Log) = Events
  BY LogFact
<1>2. Events \in SUBSET Seqs /\ MaxBuffer \in Nat /\ topic \in Topics /\ Len(topic) \in Nat
  BY SeenFact, BoundsAssumption DEF Typed
<1>3. PredictedEvicted(Log) = {}
  <2> SUFFICES ASSUME NEW s \in Events, HeadWithheld(Log),
                      Cardinality({t \in Events : t > s}) >= MaxBuffer
               PROVE  FALSE
    BY <1>1 DEF PredictedEvicted
  <2>1. 1 \notin Events
    BY <1>1 DEF HeadWithheld, Missing
  <2>2. Cardinality(Events) <= MaxBuffer
    <3>1. DOMAIN topic = 1..Len(topic)
      <4>1. topic \in Seq([seq : 0..MaxSeq, ts : Nat])
        BY TopicFact
      <4> QED
        BY <4>1, LenProperties
    <3>2. Events = {topic[i].seq : i \in DOMAIN topic} \ {0}
      BY <3>1 DEF Events, Seen
    <3> QED
      BY <1>2, <2>1, <3>2 DEF Predictable
  <2> DEFINE T == {t \in Events : t > s}
  <2>3. T \in SUBSET (Events \ {s})
    BY <1>2 DEF Seqs
  <2>4. /\ IsFiniteSet(Events) /\ IsFiniteSet(Events \ {s}) /\ Cardinality(Events) \in Nat
        /\ Cardinality(T) \in Nat /\ Cardinality(Events \ {s}) \in Nat
    BY <1>2, <2>3, SeqsFinite
  <2> HIDE DEF T
  <2>5. Cardinality(Events \ {s}) = Cardinality(Events) - 1
    BY <2>4, FS_RemoveElement
  <2>6. Cardinality(T) <= Cardinality(Events \ {s})
    BY <2>3, <2>4, FS_Subset
  <2> QED
    BY <1>2, <2>2, <2>4, <2>5, <2>6 DEF T
<1> QED
  BY <1>1, <1>3 DEF PredictedApplied

(***************************************************************************)
(* Durable row, state and oracle agree                                     *)
(***************************************************************************)

(* A position the events explain, none of which is missing or beyond.      *)
LEMMA EarnedAll ==
    ASSUME NEW G, NEW last \in Nat, NEW bal, Earned(G, last, bal), Events \in SUBSET Seqs,
           Events \cap G = {}, \A s \in Events : s <= last
    PROVE  /\ bal = Total[Events]
           /\ last = IF Events = {} THEN 0 ELSE Max(Events)
           /\ (1..last) \ Events \subseteq G /\ Events \subseteq 1..last
<1>1. PICK D \in SUBSET Seqs :
          /\ D \subseteq Events /\ D \subseteq 1..last
          /\ bal = Total[D]
          /\ (1..last) \ D \subseteq G
          /\ last = 0 \/ last \in D
  BY DEF Earned
<1>2. Events \subseteq 1..last
  BY DEF Seqs
<1>3. D = Events
  BY <1>1, <1>2
<1>4. last = IF Events = {} THEN 0 ELSE Max(Events)
  <2>1. CASE Events = {}
    BY <1>1, <1>3, <2>1
  <2>2. CASE Events # {}
    <3>1. last \in Events
      <4>1. PICK s \in Events : s \in 1..last
        BY <1>2, <2>2
      <4>2. last # 0
        BY <4>1
      <4> QED
        BY <1>1, <1>3, <4>2
    <3>2. Events \in SUBSET Nat
      BY DEF Seqs
    <3>3. Max(Events) \in Events /\ \A s \in Events : s <= Max(Events)
      BY <2>2, <3>2, MaxOfBounded
    <3>4. Max(Events) \in Nat /\ last <= Max(Events) /\ Max(Events) <= last
      BY <3>1, <3>2, <3>3
    <3> QED
      BY <2>2, <3>4
  <2> QED
    BY <2>1, <2>2
<1> QED
  BY <1>1, <1>2, <1>3, <1>4

(* The comparison of parity_balance.py finds nothing.                      *)
LEMMA NothingDiffers ==
    ASSUME NEW o, NEW row, NEW known,
           row.bal = o.bal, row.last = o.last, DerivedCount(row, known) = o.count,
           o.dup \subseteq known.dup, known.overflow = o.overflow
    PROVE  Mismatches(o, row, known, [Plain EXCEPT !.replay = TRUE]) = {}
<1> DEFINE ask == [Plain EXCEPT !.replay = TRUE]
           wrong == [
            balance  |-> row.bal # o.bal,
            last     |-> row.last # o.last,
            count    |-> DerivedCount(row, known) # o.count,
            dup      |-> IF ask.replay THEN ~(o.dup \subseteq known.dup)
                                       ELSE known.dup # o.dup,
            overflow |-> o.determinate /\ known.overflow # o.overflow,
            ranges   |-> ask.ranges /\ known.gaps # o.gaps,
            drained  |-> ask.drained /\ row.size # 0,
            clean    |-> ask.clean /\ known # NothingFound]
<1>1. ask.replay = TRUE /\ ask.drained = FALSE /\ ask.clean = FALSE /\ ask.ranges = FALSE
  BY DEF Plain
<1>2. Mismatches(o, row, known, ask) = {c \in DOMAIN wrong : wrong[c] /\ (o.determinate \/ ask.strict)}
  BY DEF Mismatches
<1> HIDE DEF ask
<1>3. DOMAIN wrong = {"balance", "last", "count", "dup", "overflow", "ranges", "drained", "clean"}
  OBVIOUS
<1>4. /\ wrong["balance"] = (row.bal # o.bal) /\ wrong["last"] = (row.last # o.last)
      /\ wrong["count"] = (DerivedCount(row, known) # o.count)
      /\ wrong["dup"] = IF ask.replay THEN ~(o.dup \subseteq known.dup) ELSE known.dup # o.dup
      /\ wrong["overflow"] = (o.determinate /\ known.overflow # o.overflow)
      /\ wrong["ranges"] = (ask.ranges /\ known.gaps # o.gaps)
      /\ wrong["drained"] = (ask.drained /\ row.size # 0)
      /\ wrong["clean"] = (ask.clean /\ known # NothingFound)
  OBVIOUS
<1> HIDE DEF wrong
<1>5. /\ ~ wrong["balance"] /\ ~ wrong["last"] /\ ~ wrong["count"] /\ ~ wrong["dup"]
      /\ ~ wrong["overflow"] /\ ~ wrong["ranges"] /\ ~ wrong["drained"] /\ ~ wrong["clean"]
  BY <1>1, <1>4
<1>6. \A c \in DOMAIN wrong : ~ wrong[c]
  BY <1>3, <1>5
<1>7. Mismatches(o, row, known, ask) = {}
  BY <1>2, <1>6
<1> QED
  BY <1>7 DEF ask

LEMMA SettledConverges ==
    ASSUME Policy # "HOLD", Predictable, RestoreInv, ConvergeInv, Settled
    PROVE  ParityWithReplay /\ (Held.exists => table = RowOf(Held.acct))
<1> DEFINE n == Batch(Path)
           o == Opened(Held, table)
<1>1. /\ pc = "idle" /\ End(Path, n) = Len(topic) /\ unclear = {} /\ table.size = 0
      /\ n <= Len(Path.states) /\ Held.acct.buf = {}
  BY DEF Settled, Drained
<1>2. /\ Path \in Checkpoint /\ Inside(Path) /\ Typed /\ n \in Nat
      /\ table \in BalanceRow /\ table.last \in Nat /\ table.last <= MaxSeq /\ MaxSeq \in Nat
      /\ TableExplained
  BY ProgressFact, CheckpointFact, BoundsAssumption DEF RestoreInv, Typed, BalanceRow, ConvergeInv
<1>3. PICK v, p : v = Version(Path, n) /\ p = Len(topic) /\ Explained(v, p)
  <2>1. n \in 0..Len(Path.states) /\ n <= Upto
    <3>1. Len(Path.states) \in Nat
      BY <1>2, CheckpointFact
    <3> QED
      BY <1>1, <1>2, <3>1 DEF Upto
  <2>2. Explained(Version(Path, n), End(Path, n))
    <3> HIDE DEF n
    <3> QED
      BY <2>1 DEF ConvergeInv, Covered
  <2> HIDE DEF n
  <2> QED
    BY <1>1, <2>2
<1>4. v.key = Held /\ Held \in Key /\ Sound(Held.acct)
  <2>1. v.key = Held
    BY <1>3 DEF Held
  <2>2. n \in 0..Len(Path.states)
    <3>1. Len(Path.states) \in Nat
      BY <1>2, CheckpointFact
    <3> QED
      BY <1>1, <1>2, <3>1
  <2> HIDE DEF n
  <2> QED
    BY <1>2, <1>3, <2>1, <2>2, VersionFact
<1>5. /\ Earned(Gone, o.last, o.bal) /\ o.last <= table.last
      /\ \A s \in Events : s <= o.last \/ s \in o.buf
      /\ Events \cap Gone = {} /\ Twice(Len(topic)) \subseteq found.dup
  BY <1>1, <1>3, <1>4 DEF Explained, Events
<1>6. o.buf = {} /\ o.last \in Nat
  <2>1. CASE Held.exists
    BY <1>1, <1>4, <2>1, SoundPieces DEF Opened
  <2>2. CASE ~ Held.exists
    BY <1>2, <1>4, <2>2, ColdFact
  <2> QED
    BY <2>1, <2>2
<1>7. Events \in SUBSET Seqs
  BY <1>2, SeenFact
<1> HIDE DEF o, n
<1>8. \A s \in Events : s <= o.last /\ s <= table.last
  <2>1. \A s \in Events : s \in Nat
    BY <1>2, <1>7 DEF Seqs
  <2>2. \A s \in Events : s <= o.last
    BY <1>5, <1>6
  <2>3. o.last \in Nat /\ table.last \in Nat /\ o.last <= table.last
    BY <1>2, <1>5, <1>6
  <2> QED
    BY <2>1, <2>2, <2>3
<1>9. /\ o.bal = Total[Events] /\ o.last = IF Events = {} THEN 0 ELSE Max(Events)
  BY <1>5, <1>6, <1>7, <1>8, EarnedAll
<1>10. /\ table.bal = Total[Events] /\ table.last = IF Events = {} THEN 0 ELSE Max(Events)
       /\ (1..table.last) \ Events \subseteq Gone /\ Events \subseteq 1..table.last
       /\ Gone \subseteq 1..table.last /\ found.overflow = {}
  BY <1>1, <1>2, <1>5, <1>7, <1>8, EarnedAll DEF TableExplained
<1>11. DerivedCount(table, found) = Cardinality(Events)
  <2> DEFINE All == 1..table.last
             H == All \ Events
  <2>1. Gone = H
    BY <1>5, <1>10
  <2>2. (Gone \cup found.overflow) \cap 1..table.last = H
    BY <1>10, <2>1
  <2>3. IsFiniteSet(All) /\ Cardinality(All) = table.last
    <3>1. table.last >= 1 \/ table.last = 0
      BY <1>2
    <3>2. PICK a \in Int, b \in Int : a = 1 /\ b = table.last
      BY <1>2
    <3>3. IsFiniteSet(a..b) /\ Cardinality(a..b) = IF a > b THEN 0 ELSE b - a + 1
      BY FS_Interval
    <3>4. (IF a > b THEN 0 ELSE b - a + 1) = table.last
      BY <1>2, <3>1, <3>2
    <3> QED
      BY <3>2, <3>3, <3>4
  <2>4. Events \in SUBSET All
    BY <1>10
  <2> HIDE DEF All
  <2>5. /\ IsFiniteSet(Events) /\ IsFiniteSet(H)
        /\ Cardinality(Events) \in Nat /\ Cardinality(H) \in Nat
    BY <2>3, <2>4, FS_Subset, FS_Difference, FS_CardinalityType
  <2>6. Events \cup H = All /\ Events \cap H = {}
    BY <2>4
  <2>7. Cardinality(Events \cup H) = Cardinality(Events) + Cardinality(H)
    <3> HIDE DEF H
    <3>1. Cardinality(Events \cap H) = 0
      BY <2>6, FS_EmptySet
    <3>2. Cardinality(Events \cup H)
             = Cardinality(Events) + Cardinality(H) - Cardinality(Events \cap H)
      BY <2>5, FS_Union, Zenon
    <3> QED
      BY <2>5, <3>1, <3>2
  <2>8. DerivedCount(table, found) = table.last - Cardinality(H)
    BY <2>2 DEF DerivedCount, Gone
  <2> HIDE DEF H
  <2> QED
    BY <1>2, <2>3, <2>5, <2>6, <2>7, <2>8
<1>12. /\ PredictedEvicted(Log) = {} /\ PredictedApplied(Log) = Events
       /\ Repeated(Log) \subseteq found.dup
  BY <1>2, <1>5, Expected, LogFact
<1>13. ParityWithReplay
  <2>1. PICK q : q = Prediction(Log)
    OBVIOUS
  <2>2. /\ q.bal = Total[Events] /\ q.last = IF Events = {} THEN 0 ELSE Max(Events)
        /\ q.count = Cardinality(Events) /\ q.dup = Repeated(Log) /\ q.overflow = {}
    BY <1>12, <2>1 DEF Prediction
  <2>3. Mismatches(q, table, found, [Plain EXCEPT !.replay = TRUE]) = {}
    BY <1>10, <1>11, <1>12, <2>2, NothingDiffers
  <2> QED
    BY <2>1, <2>3 DEF ParityWithReplay
<1>14. ASSUME Held.exists
       PROVE  table = RowOf(Held.acct)
  <2>1. o = Held.acct
    BY <1>14 DEF Opened, o
  <2>2. o.last = table.last /\ o.bal = table.bal /\ Cardinality(o.buf) = 0
    BY <1>6, <1>9, <1>10, FS_EmptySet
  <2>3. RowOf(o) = [last |-> table.last, bal |-> table.bal, size |-> 0]
    BY <2>2 DEF RowOf
  <2>4. table = [last |-> table.last, bal |-> table.bal, size |-> table.size]
    BY <1>2 DEF BalanceRow
  <2> QED
    BY <1>1, <2>1, <2>3, <2>4
<1> QED
  BY <1>13, <1>14

(* parity_balance.py:92-95 and RUNBOOKS/checkpoint_corruption.md: under    *)
(* FLAG_AND_CONTINUE, with topics whose events Spark does not drop as late *)
(* and whose logs the oracle can predict, an engine that has drained and   *)
(* settled on whatever path it was started on - the live one, a snapshot   *)
(* of it, or none - has the balance, position and count that the delivery  *)
(* log predicts, and its state agrees with the durable row: nothing read   *)
(* for the second time is applied twice, and nothing is left out.          *)
THEOREM ReplayAlwaysConverges ==
    ASSUME Policy = "FLAG_AND_CONTINUE", Punctual, Predictable
    PROVE  Spec => []ReplayConverges
<1>1. Init => RestoreInv /\ ConvergeInv
  BY InitRestoreInv, InitConverges
<1>2. RestoreInv /\ ConvergeInv /\ [Next]_vars => (RestoreInv /\ ConvergeInv)'
  <2>1. Policy # "HOLD"
    OBVIOUS
  <2> QED
    BY <2>1, NextKeeps, ConvergeKeeps
<1>3. RestoreInv /\ ConvergeInv => ReplayConverges
  <2>1. Policy # "HOLD"
    OBVIOUS
  <2> QED
    BY <2>1, SettledConverges DEF ReplayConverges, ReplayPassesParity, RestoredStateMatchesTable,
                                  Settled
<1> QED
  BY <1>1, <1>2, <1>3, PTL DEF Spec
=============================================================================
