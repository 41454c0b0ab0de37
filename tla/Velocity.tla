------------------------------ MODULE Velocity ------------------------------
(***************************************************************************)
(* One velocity query (spark/engine/velocity.py): spend and count of an    *)
(* account's debits over a sliding window of event time, every change of a *)
(* window appended to a Delta table, every changed window over its limit   *)
(* announced on the signals topic; and scripts/velocity_recompute.py,      *)
(* which compares the settled windows with a batch over the same topic.    *)
(*                                                                         *)
(* External (Spark): a batch aggregates into the windows it kept, emits    *)
(* those that changed, and forgets those its watermark has passed; a row   *)
(* is dropped when the watermark of the batch before has passed the window.*)
(* One account stands for all.                                             *)
(***************************************************************************)
EXTENDS SequencesExt, FiniteSetsExt

CONSTANTS
    Streams,        \* topics of a run: sequences of [ts, amt], amt < 0 a debit
    Size, Slide,    \* vel_window, vel_slide, or their long forms
    Which,          \* "short" or "long"
    VelLimit,       \* vel_limit
    Delay,          \* watermark_delay
    MaxCrashes      \* crashes in a run (a bound of the model)

ASSUME VelocityAssumption ==
    /\ Streams \subseteq Seq([ts : Nat, amt : Int])
    /\ Size \in Nat \ {0} /\ Slide \in 1..Size
    /\ Which \in {"short", "long"}
    /\ VelLimit \in Nat /\ Delay \in Nat /\ MaxCrashes \in Nat

VARIABLES
    topic,          \* the events of the run
    offset, batch,  \* what the last committed batch had read, and its number
    watermark,      \* of the batch to come
    behind,         \* of the batch before it
    end,            \* where the batch in flight ends
    pc,             \* "idle" | "planned" | "appended" | "signalled"
    windows,        \* the state: the windows kept, by their start
    table,          \* the rows of each window, in the order written
    signals,        \* VELOCITY_BREACH records
    crashes

(* History: the rows dropped as late, as <<window, index in the topic>>.   *)
VARIABLE dropped

vars == <<topic, offset, batch, watermark, behind, end, pc, windows, table, signals,
          crashes, dropped>>

Limit == IF Which = "short" THEN VelLimit ELSE VelLimit * 5

(* The windows, named by their start, that hold an event.                  *)
Starts(ts) == {s \in (ts - Size + 1)..ts : s % Slide = 0}

Ends(w) == w + Size

Abs(n) == IF n < 0 THEN 0 - n ELSE n

Debits == {i \in DOMAIN topic : topic[i].amt < 0}

AllWindows == UNION {Starts(topic[i].ts) : i \in DOMAIN topic}

Spends(log, events) ==
    LET upTo[n \in 0..Len(log)] ==
            IF n = 0 THEN 0
            ELSE upTo[n - 1] + IF n \in events THEN Abs(log[n].amt) ELSE 0
    IN  upTo

SumsOf(log, events) ==
    [spend |-> Spends(log, events)[Len(log)], txns |-> Cardinality(events)]

Sums(events) == SumsOf(topic, events)

NoSums == [spend |-> 0, txns |-> 0]

Breached(sums) == sums.spend > Limit

Init ==
    /\ topic \in Streams
    /\ offset = 0 /\ batch = 0 /\ watermark = 0 /\ behind = 0 /\ end = 0
    /\ pc = "idle"
    /\ windows = <<>> /\ table = <<>> /\ signals = {}
    /\ crashes = 0 /\ dropped = {}

(***************************************************************************)
(* A micro-batch                                                           *)
(***************************************************************************)

Triggered == offset < Len(topic) \/ watermark > behind

Plan ==
    /\ pc = "idle"
    /\ Triggered
    /\ end' \in IF offset = Len(topic) THEN {offset} ELSE (offset + 1)..Len(topic)
    /\ pc' = "planned"
    /\ UNCHANGED <<topic, offset, batch, watermark, behind, windows, table, signals, crashes,
                   dropped>>

Read == (offset + 1)..end

(* Mutation of Late: a window is closed one slide after it opened.         *)
LateByEvent(w) == w + Slide <= behind

Late(w) == Ends(w) <= behind

(* The debits of the batch that count for a window.                        *)
Taken(w) == IF Late(w) THEN {} ELSE {i \in Read \cap Debits : w \in Starts(topic[i].ts)}

Changed == {w \in AllWindows : Taken(w) # {}}

Plus(a, b) == [spend |-> a.spend + b.spend, txns |-> a.txns + b.txns]

KeptSums(w) == IF w \in DOMAIN windows THEN windows[w] ELSE NoSums

(* The sums of the windows the batch changed.                              *)
Emitted == [w \in Changed |-> Plus(KeptSums(w), Sums(Taken(w)))]

RowsWritten(w) == IF w \in DOMAIN table THEN table[w] ELSE <<>>

Write ==
    /\ pc = "planned"
    /\ table' = [w \in DOMAIN table \cup Changed |->
                    IF w \in Changed THEN Append(RowsWritten(w), Emitted[w]) ELSE table[w]]
    /\ pc' = "appended"
    /\ UNCHANGED <<topic, offset, batch, watermark, behind, end, windows, signals, crashes,
                   dropped>>

(* Mutation of Announced: a window is announced by its first row only.     *)
AnnouncedOnce ==
    {[window |-> w, batch |-> batch + 1, spend |-> Emitted[w].spend] :
        w \in {x \in Changed : Breached(Emitted[x]) /\ Len(RowsWritten(x)) <= 1}}

Announced ==
    {[window |-> w, batch |-> batch + 1, spend |-> Emitted[w].spend] :
        w \in {x \in Changed : Breached(Emitted[x])}}

Announce ==
    /\ pc = "appended"
    /\ signals' = signals \cup Announced
    /\ pc' = "signalled"
    /\ UNCHANGED <<topic, offset, batch, watermark, behind, end, windows, table, crashes, dropped>>

Kept == {w \in DOMAIN windows \cup Changed : Ends(w) > watermark}

(* The state version, the offsets and the watermark become the next ones.  *)
Commit ==
    /\ pc = "signalled"
    /\ windows' = [w \in Kept |->
                      IF w \in Changed THEN Emitted[w] ELSE windows[w]]
    /\ dropped' = dropped \cup {late \in AllWindows \X (Read \cap Debits) :
                                    late[1] \in Starts(topic[late[2]].ts) /\ Late(late[1])}
    /\ offset' = end /\ batch' = batch + 1
    /\ behind' = watermark
    /\ watermark' = Max({watermark} \cup {topic[i].ts - Delay : i \in Read})
    /\ pc' = "idle"
    /\ UNCHANGED <<topic, end, table, signals, crashes>>

(* The process is killed and started again: a batch planned is run again.  *)
Crash ==
    /\ crashes < MaxCrashes /\ pc # "idle"
    /\ crashes' = crashes + 1
    /\ pc' = "planned"
    /\ UNCHANGED <<topic, offset, batch, watermark, behind, end, windows, table, signals, dropped>>

Next == Plan \/ Write \/ Announce \/ Commit \/ Crash

Spec == Init /\ [][Next]_vars

(***************************************************************************)
(* velocity_recompute.py                                                   *)
(***************************************************************************)

Drained == pc = "idle" /\ offset = Len(topic) /\ watermark = behind

BatchSide(w) == Sums({i \in Debits : w \in Starts(topic[i].ts)})

(* The row written last.                                                   *)
StreamSide(w) == IF w \in DOMAIN table THEN Last(table[w]) ELSE NoSums

Joined == DOMAIN table \cup UNION {Starts(topic[i].ts) : i \in Debits}

Frontier == Max({topic[i].ts : i \in DOMAIN topic})

Settled == {w \in Joined : Ends(w) <= Frontier - Delay}

Mismatched == {w \in Settled : StreamSide(w) # BatchSide(w)}

ParityPasses == Settled # {} /\ Mismatched = {}

(* A window with no row has no sum to be lower.                            *)
LowerThanBatch(w) == w \in DOMAIN table /\ StreamSide(w).spend < BatchSide(w).spend

(***************************************************************************)
(* Properties                                                              *)
(***************************************************************************)

TypeOK ==
    /\ offset \in 0..Len(topic) /\ end \in 0..Len(topic)
    /\ pc \in {"idle", "planned", "appended", "signalled"}
    /\ DOMAIN windows \subseteq AllWindows /\ DOMAIN table \subseteq AllWindows
    /\ \A w \in DOMAIN windows : Ends(w) > behind
    /\ \A w \in DOMAIN table : \A i \in DOMAIN table[w] : table[w][i].txns \in 1..Len(topic)

(* However the stream was cut into batches, and whichever of them were run *)
(* twice, a settled window is that of the recomputation but for the rows   *)
(* dropped as late.                                                        *)
SettledMatchesUnlessLate ==
    Drained => \A w \in Settled :
        StreamSide(w) = Sums({i \in Debits : w \in Starts(topic[i].ts) /\ <<w, i>> \notin dropped})

(* A stream within the watermark delay passes parity exactly.              *)
OrderlyStreamPasses ==
    LET orderly == \A i, j \in DOMAIN topic : i < j => topic[j].ts > topic[i].ts - Delay
    IN  Drained /\ orderly /\ Settled # {} => ParityPasses

(* A window once forgotten is not begun anew: its rows only grow, so that  *)
(* the last is the whole (velocity.py:53-57), a row run twice apart.       *)
WindowNeverRestarts ==
    \A w \in DOMAIN table : \A i, j \in DOMAIN table[w] :
        i < j => table[w][i].txns <= table[w][j].txns /\ table[w][i].spend <= table[w][j].spend

(* What the stream left is what a batch over the whole topic computes.     *)
StreamAgreesWithBatch ==
    SettledMatchesUnlessLate /\ OrderlyStreamPasses /\ WindowNeverRestarts

(* A breach in the table of a committed batch is on the topic, although    *)
(* the table is written first and the process may die in between.          *)
BreachIsAnnounced ==
    pc = "idle" => \A w \in DOMAIN table : \A i \in DOMAIN table[w] :
        Breached(table[w][i]) =>
            \E s \in signals : s.window = w /\ s.spend = table[w][i].spend

(***************************************************************************)
(* Statements of the repository that the code does not keep: README,       *)
(* section 4.                                                              *)
(***************************************************************************)

(* velocity_recompute.py:148, "every stream value is LOWER than batch ...  *)
(* the query processed only part of the stream, so it died or was stopped  *)
(* before draining".                                                       *)
LowerMeansUndrained ==
    Mismatched # {} /\ (\A w \in Mismatched : LowerThanBatch(w)) => ~Drained
=============================================================================
