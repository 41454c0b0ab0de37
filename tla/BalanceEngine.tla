--------------------------- MODULE BalanceEngine ---------------------------
(***************************************************************************)
(* The streaming job (spark/jobs/balance_engine.py) with its sink          *)
(* (spark/engine/sinks.py): micro-batches over several accounts, the       *)
(* checkpoint, the balances table, the audit sinks, and crashes anywhere.  *)
(*                                                                         *)
(* A batch is planned (offsets/N fixes its rows and its watermark), run    *)
(* against the state of the last committed batch, written by the sink one  *)
(* step at a time, and committed.  A crash loses everything but the        *)
(* checkpoint and what the sinks hold; the restart runs the same batch     *)
(* again, and joins the balances table as it stands THEN.                  *)
(*                                                                         *)
(* External (Spark, Kafka, Delta): offsets/N is durable before the batch   *)
(* runs and replays the same rows; a key with rows is called with them and *)
(* only keys without rows can time out; Delta commits are atomic; a Kafka  *)
(* write may land in part.                                                 *)
(***************************************************************************)
EXTENDS BatchCore

CONSTANTS
    Accounts,       \* account_ids
    Delay,          \* watermark_delay
    Ticks,          \* event times heartbeats may carry (a bound of the model)
    MaxRows,        \* rows of one account in a batch (a bound of the model)
    MaxBatchRows,   \* rows of a batch (a bound of the model)
    MaxCrashes      \* crashes in a run (a bound of the model)

ASSUME EngineAssumption ==
    /\ Delay \in Nat
    /\ Ticks \subseteq Nat
    /\ MaxRows \in Nat
    /\ MaxBatchRows \in Nat
    /\ MaxCrashes \in Nat

VARIABLES
    keys,           \* state store version of the last committed batch
    plan,           \* offsets/N of the batch in flight, NoPlan between batches
    watermark,      \* the watermark of the last batch planned
    nextWatermark,  \* what commits/N says the next one will be
    table,          \* the balances table
    trail,          \* what the audit sinks received of the batch in flight
    pc,             \* where the driver is; "down" after a crash
    out,            \* what the running attempt computed, per account
    crashes

(* History, never read by an action.                                       *)
VARIABLES
    delivered,      \* events Kafka has delivered to each account
    twice,          \* those it delivered at more than one offset
    posted,         \* the events each row of the balances table is made of
    first           \* what the first attempt at the batch computed

checkpoint == <<keys, plan, watermark, nextWatermark>>
sinks      == <<table, trail>>
driver     == <<pc, out, crashes>>
history    == <<delivered, twice, posted, first>>
vars       == <<checkpoint, sinks, driver, history>>

NoPlan  == [open |-> FALSE, rows |-> [a \in Accounts |-> <<>>], tick |-> 0]
NoOut   == [a \in Accounts |-> NoResult(ColdKey)]
NoTrail == [integrity |-> {}, topic |-> {}, dlq |-> {}, signals |-> {}]

Sorted == {q \in BoundedSeq(Seqs, MaxRows) : \A i, j \in DOMAIN q : i < j => q[i] <= q[j]}

RowCount(rows) == MapThenSumSet(LAMBDA a : Len(rows[a]), Accounts)

Batches == {rows \in [Accounts -> Sorted] : RowCount(rows) <= MaxBatchRows}

Records(result) == UNION {{a} \X result[a].recs : a \in Accounts}

OfKind(recs, kind) == {r \in recs : r[2].kind = kind}

AuditRecord == Accounts \X Record

TypeOK ==
    /\ keys \in [Accounts -> Key]
    /\ plan \in [open : BOOLEAN, rows : Batches, tick : Nat]
    /\ watermark \in Nat /\ nextWatermark \in Nat
    /\ table \in [Accounts -> BalanceRow]
    /\ \A sink \in DOMAIN trail : trail[sink] \subseteq AuditRecord
    /\ pc \in {"idle", "execute", "merge", "append", "publish", "dlq", "signals", "commit", "down"}
    /\ \A a \in Accounts : out[a].key \in Key /\ out[a].row \in BalanceRow
    /\ crashes \in 0..MaxCrashes

Init ==
    /\ keys = [a \in Accounts |-> ColdKey]
    /\ plan = NoPlan
    /\ watermark = 0 /\ nextWatermark = 0
    /\ table = [a \in Accounts |-> NoRow]
    /\ trail = NoTrail
    /\ pc = "idle"
    /\ out = NoOut
    /\ crashes = 0
    /\ delivered = [a \in Accounts |-> {}]
    /\ twice = [a \in Accounts |-> {}]
    /\ posted = [a \in Accounts |-> {}]
    /\ first = NoOut

(***************************************************************************)
(* Planning and running a batch                                            *)
(***************************************************************************)

(* Spark skips a trigger with no new rows, unless the watermark has moved. *)
PlanBatch ==
    /\ pc = "idle"
    /\ ~plan.open
    /\ \E rows \in Batches, tick \in Ticks \cup {0} :
          /\ RowCount(rows) > 0 \/ tick > 0 \/ nextWatermark > watermark
          /\ plan' = [open |-> TRUE, rows |-> rows, tick |-> tick]
          /\ delivered' = [a \in Accounts |-> delivered[a] \cup ToSet(rows[a])]
          /\ twice' = [a \in Accounts |-> twice[a] \cup (delivered[a] \cap ToSet(rows[a]))
                         \cup {s \in Seqs : Cardinality({i \in DOMAIN rows[a] : rows[a][i] = s}) > 1}]
    /\ watermark' = nextWatermark
    /\ pc' = "execute"
    /\ trail' = NoTrail
    /\ first' = NoOut
    /\ UNCHANGED <<keys, nextWatermark, table, out, crashes, posted>>

Invocation(a) == Invoke(keys[a], plan.rows[a], table[a], watermark)

(* Mutation of ExecuteBatch: the new state survives a crash on its own.    *)
ExecuteBatchInPlace ==
    /\ pc = "execute"
    /\ out' = [a \in Accounts |-> Invocation(a)]
    /\ keys' = [a \in Accounts |-> out'[a].key]
    /\ first' = IF first = NoOut THEN out' ELSE first
    /\ pc' = "merge"
    /\ UNCHANGED <<plan, watermark, nextWatermark, sinks, crashes, delivered, twice, posted>>

(* Every key of the batch, against state N-1 and the table as it is now.   *)
ExecuteBatch ==
    /\ pc = "execute"
    /\ out' = [a \in Accounts |-> Invocation(a)]
    /\ first' = IF first = NoOut THEN out' ELSE first
    /\ pc' = "merge"
    /\ UNCHANGED <<checkpoint, sinks, crashes, delivered, twice, posted>>

(***************************************************************************)
(* The sink, write_batch, in its order                                     *)
(***************************************************************************)

(* Mutation of AfterMerge: TTL_FLUSH counts as a balance row only.         *)
AfterMergeNoFlushes ==
    IF OfKind(Records(out), "TTL_FLUSH") = Records(out) THEN "commit" ELSE "append"

(* After the MERGE: a batch without integrity rows returns at once.        *)
AfterMerge == IF Records(out) = {} THEN "commit" ELSE "append"

(* Mutation of MergeBalances: a replayed row is an error, not a no-op.     *)
MergeBalancesOnce ==
    /\ pc = "merge"
    /\ LET replayed == {a \in Accounts : out[a].ran /\ out[a].row = table[a]}
       IN  /\ table' = [a \in Accounts |->
                           IF replayed = {} /\ out[a].ran THEN Merged(table[a], out[a].row)
                                                          ELSE table[a]]
           /\ pc' = IF replayed = {} THEN AfterMerge ELSE "down"
    /\ out' = IF pc' = "down" THEN NoOut ELSE out
    /\ UNCHANGED <<checkpoint, trail, crashes, history>>

MergeBalances ==
    /\ pc = "merge"
    /\ table' = [a \in Accounts |->
                    IF out[a].ran THEN Merged(table[a], out[a].row) ELSE table[a]]
    /\ posted' = [a \in Accounts |->
                    IF table'[a].last > table[a].last THEN posted[a] \cup out[a].applied
                                                      ELSE posted[a]]
    /\ pc' = AfterMerge
    /\ UNCHANGED <<checkpoint, trail, out, crashes, delivered, twice, first>>

(* Mutation of AppendIntegrity: the topic is written before the table.     *)
AppendIntegrityLate ==
    /\ pc = "append"
    /\ trail' = [trail EXCEPT !.topic = @ \cup Records(out)]
    /\ pc' = "publish"
    /\ UNCHANGED <<checkpoint, table, out, crashes, history>>

AppendIntegrity ==
    /\ pc = "append"
    /\ trail' = [trail EXCEPT !.integrity = @ \cup Records(out)]
    /\ pc' = "publish"
    /\ UNCHANGED <<checkpoint, table, out, crashes, history>>

PublishIntegrity ==
    /\ pc = "publish"
    /\ trail' = [trail EXCEPT !.topic = @ \cup Records(out)]
    /\ pc' = "dlq"
    /\ UNCHANGED <<checkpoint, table, out, crashes, history>>

PublishOverflow ==
    /\ pc = "dlq"
    /\ trail' = [trail EXCEPT !.dlq = @ \cup OfKind(Records(out), "BUFFER_OVERFLOW")]
    /\ pc' = "signals"
    /\ UNCHANGED <<checkpoint, table, out, crashes, history>>

PublishGaps ==
    /\ pc = "signals"
    /\ trail' = [trail EXCEPT !.signals = @ \cup OfKind(Records(out), "SEQUENCE_GAP")]
    /\ pc' = "commit"
    /\ UNCHANGED <<checkpoint, table, out, crashes, history>>

(* commits/N: the state version becomes current, and the event times seen  *)
(* in the batch set the next watermark.                                    *)
CommitBatch ==
    /\ pc = "commit"
    /\ keys' = [a \in Accounts |-> out[a].key]
    /\ LET seen == {plan.tick} \cup {EventTs[s] : s \in UNION {ToSet(plan.rows[a]) : a \in Accounts}}
       IN  nextWatermark' = Max({watermark, Max(seen) - Delay})
    /\ plan' = NoPlan
    /\ out' = NoOut
    /\ pc' = "idle"
    /\ UNCHANGED <<watermark, sinks, crashes, history>>

(***************************************************************************)
(* Crashes                                                                 *)
(***************************************************************************)

(* The part of a Kafka write that was on its way when the process died.    *)
Landing ==
    CASE pc = "publish" -> {[trail EXCEPT !.topic = @ \cup p] : p \in SUBSET Records(out)}
      [] pc = "dlq"     -> {[trail EXCEPT !.dlq = @ \cup p] :
                                p \in SUBSET OfKind(Records(out), "BUFFER_OVERFLOW")}
      [] pc = "signals" -> {[trail EXCEPT !.signals = @ \cup p] :
                                p \in SUBSET OfKind(Records(out), "SEQUENCE_GAP")}
      [] OTHER          -> {trail}

Crash ==
    /\ pc # "down"
    /\ crashes < MaxCrashes
    /\ trail' \in Landing
    /\ pc' = "down"
    /\ out' = NoOut
    /\ crashes' = crashes + 1
    /\ UNCHANGED <<checkpoint, table, history>>

(* A batch planned and not committed is run again from its offsets.        *)
Restart ==
    /\ pc = "down"
    /\ pc' = IF plan.open THEN "execute" ELSE "idle"
    /\ UNCHANGED <<checkpoint, sinks, out, crashes, history>>

Next ==
    \/ PlanBatch
    \/ ExecuteBatch
    \/ MergeBalances \/ AppendIntegrity \/ PublishIntegrity \/ PublishOverflow \/ PublishGaps
    \/ CommitBatch
    \/ Crash
    \/ Restart

Spec == Init /\ [][Next]_vars

(* The driver runs on, and a stopped engine is started again.              *)
Proceeds ==
    /\ pc \notin {"idle", "down"}
    /\ pc' \in {"merge", "append", "publish", "dlq", "signals", "commit", "idle"} \ {pc}

Restarts == pc = "down" /\ pc' \in {"execute", "idle"}

Fairness == WF_pc(Proceeds) /\ WF_pc(Restarts)

FairSpec == Spec /\ Fairness

(***************************************************************************)
(* Safety                                                                  *)
(***************************************************************************)

(* The balances table keeps the promise of Ledger for every account: its   *)
(* rows only move forward and each is the sum of events posted once,       *)
(* however often a batch is run and wherever it was cut off.               *)
L(a) == INSTANCE Ledger WITH
            position <- table[a].last, balance <- table[a].bal, settled <- posted[a]

TableImplementsLedger ==
    /\ \A a \in Accounts : L(a)!Init
    /\ [][\A a \in Accounts : L(a)!Settle \/ UNCHANGED <<table[a].last, table[a].bal, posted[a]>>]_vars

(* sinks.py:96-97, "a replayed batch reproduces identical state": whatever *)
(* the first attempt left in the table a re-seed reads, every later        *)
(* attempt computes the same state and the same row.                       *)
ReplayReproducesState ==
    pc = "merge" => \A a \in Accounts :
        out[a].key = first[a].key /\ out[a].row = first[a].row

(* Between batches the table and the state agree, the buffer size too.     *)
TableFollowsState ==
    pc = "idle" => \A a \in Accounts :
        keys[a].exists => table[a] = RowOf(keys[a].acct)

(* A committed batch has left its whole audit trail: every record of its   *)
(* first attempt, though a later one did the writing, is in the integrity  *)
(* table and on its topic, evictions on the DLQ and gaps on the signals.   *)
AuditIsComplete ==
    pc = "idle" =>
        /\ Records(first) \subseteq trail.integrity \cap trail.topic
        /\ OfKind(Records(first), "BUFFER_OVERFLOW") \subseteq trail.dlq
        /\ OfKind(Records(first), "SEQUENCE_GAP") \subseteq trail.signals

(* The durable table comes first: nothing is on a topic that an auditor    *)
(* would not find in the integrity table.                                  *)
TopicsFollowTable ==
    trail.topic \cup trail.dlq \cup trail.signals \subseteq trail.integrity

(***************************************************************************)
(* Liveness                                                                *)
(***************************************************************************)

(* A batch once planned is committed, over any number of crashes that ends.*)
EveryBatchCommits == plan.open ~> ~plan.open

(***************************************************************************)
(* Statements of the repository that the code does not keep: README,       *)
(* section 4.                                                              *)
(***************************************************************************)

(* recovery_drill.sh:15-18: "during a clean recovery the state machine's   *)
(* duplicate branch does not engage".  A DUP_DROPPED record is for an      *)
(* event delivered twice or one the ledger had already passed over.        *)
RecoveryAddsNoDuplicates ==
    \A r \in OfKind(Records(out), "DUP_DROPPED") :
        r[2].seq \in twice[r[1]] \cup ((1..table[r[1]].last) \ posted[r[1]])

(* engine_config.yml:3-5 and test_BOUNDED (test_gap_policy.py:95): the     *)
(* first batch whose watermark has reached the alarm of an open gap        *)
(* settles it.                                                             *)
ExpiredGapIsSettled ==
    [][pc = "commit" /\ pc' = "idle" => \A a \in Accounts :
          keys[a].acct.buf # {} /\ Expired(keys[a], watermark)
              => keys'[a].acct.last > keys[a].acct.last]_vars
=============================================================================
