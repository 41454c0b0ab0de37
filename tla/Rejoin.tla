------------------------------- MODULE Rejoin -------------------------------
(***************************************************************************)
(* The drill that shows a balance surviving TTL eviction                   *)
(* (scripts/stage6_proof.sh), with the two scripts that judge it:          *)
(* state_growth.py reads the curve of state rows off progress.jsonl, and   *)
(* rejoin_proof.py compares an account before it went idle and after it    *)
(* came back.                                                              *)
(*                                                                         *)
(* Events are published, one account is recorded, ticks move event time    *)
(* past the TTL, the account returns with one event, the engine is stopped.*)
(* The wait for the engine between two steps may answer too early (see     *)
(* DrainWait.tla), save the first: there an early answer would make the    *)
(* returning event another event of the same seq.  A batch is one step.    *)
(***************************************************************************)
EXTENDS BatchCore

CONSTANTS
    Accounts,       \* account_ids of the run
    Back,           \* the account that returns
    Delay,          \* watermark_delay
    Ticks,          \* event times of the tick run, in order
    MinPoints,      \* batches a curve needs (6 in the code; a bound of the model)
    MinDecline,     \* --min-decline-pct
    VelocityRows    \* state rows a velocity query may report (a bound of the model)

(* An account has events before it returns.  Time passes from one of them  *)
(* to the next, and the event it returns with comes after the ticks.       *)
ASSUME RejoinAssumption ==
    /\ IsFiniteSet(Accounts) /\ Back \in Accounts
    /\ Delay \in Nat /\ Ticks \in Seq(Nat) /\ MaxSeq > 1
    /\ MinPoints \in Nat /\ MinDecline \in 1..100 /\ VelocityRows \subseteq Nat
    /\ \A s, t \in Seqs : s <= t => EventTs[s] <= EventTs[t]
    /\ \A i \in DOMAIN Ticks : Ticks[i] <= EventTs[MaxSeq]

VARIABLES
    phase,          \* "traffic" | "tick" | "return" | "done"
    published,      \* per account, the last seq on the topic
    read,           \* and the last one read
    ticked,         \* ticks published
    tickRead,       \* and read
    watermark,      \* of the last batch
    nextWatermark,  \* of the batch to come
    keys, balances, \* the state and the balances table
    flushes, gaps,  \* TTL_FLUSH and SEQUENCE_GAP rows per account
    file,           \* progress.jsonl: the query and its state rows
    before,         \* logs/before_ttl.json
    grown           \* the verdict on the curve

(* History: a wait answered early; what state the return found.            *)
VARIABLES early, found

engine == <<read, tickRead, watermark, nextWatermark, keys, balances, flushes, gaps, file, found>>
rejoinVars   == <<phase, published, ticked, before, grown, early, engine>>

Query == "balance_engine"

NoState == [row |-> NoRow, flushes |-> 0, gaps |-> 0]

RejoinInit ==
    /\ phase = "traffic"
    /\ published = [a \in Accounts |-> MaxSeq - 1] /\ read = [a \in Accounts |-> 0]
    /\ ticked = 0 /\ tickRead = 0 /\ watermark = 0 /\ nextWatermark = 0
    /\ keys = [a \in Accounts |-> ColdKey] /\ balances = [a \in Accounts |-> NoRow]
    /\ flushes = [a \in Accounts |-> 0] /\ gaps = [a \in Accounts |-> 0]
    /\ file = <<>> /\ before = NoState /\ grown = "unknown"
    /\ early = FALSE /\ found = "nothing"

(***************************************************************************)
(* The engine                                                              *)
(***************************************************************************)

(* The rows of an account from the topic, in order.                        *)
Rows(a, upto) == [i \in 1..(upto - read[a]) |-> read[a] + i]

Invocation(a, upto) == Invoke(keys[a], Rows(a, upto), balances[a], watermark')

Counted(counts, results, kind) ==
    [a \in Accounts |-> counts[a] + Cardinality({r \in results[a].recs : r.kind = kind})]

(* Keys in the store: the accounts', and the tick account's own.           *)
StateRows == Cardinality({a \in Accounts : keys'[a].exists}) + (IF tickRead' > 0 THEN 1 ELSE 0)

Line(name, rows) == [query |-> name, rows |-> rows]

(* The writer may miss a batch, and tags a line of another query.          *)
Reported ==
    {file, Append(file, Line(Query, StateRows))}
        \cup {file \o <<Line(Query, StateRows), Line("velocity_short", n)>> : n \in VelocityRows}

EngineBatch ==
    /\ phase # "done"
    /\ \E upto \in [Accounts -> 0..MaxSeq], ticks \in tickRead..ticked :
          /\ \A a \in Accounts : upto[a] \in read[a]..published[a]
          /\ upto # read \/ ticks > tickRead \/ nextWatermark > watermark
          /\ watermark' = nextWatermark
          /\ \E results \in {[a \in Accounts |-> Invocation(a, upto[a])]} :
                /\ keys' = [a \in Accounts |-> results[a].key]
                /\ balances' = [a \in Accounts |->
                                IF results[a].ran THEN Merged(balances[a], results[a].row)
                                                  ELSE balances[a]]
                /\ flushes' = Counted(flushes, results, "TTL_FLUSH")
                /\ gaps' = Counted(gaps, results, "SEQUENCE_GAP")
                /\ found' = IF MaxSeq \in results[Back].applied
                            THEN IF keys[Back].exists THEN "warm" ELSE "cold"
                            ELSE found
          /\ read' = upto /\ tickRead' = ticks
          /\ LET seen == {EventTs[s] : s \in UNION {(read[a] + 1)..upto[a] : a \in Accounts}}
                             \cup {Ticks[i] : i \in (tickRead + 1)..ticks}
             IN  nextWatermark' = Max({nextWatermark} \cup {ts - Delay : ts \in seen})
    /\ file' \in Reported
    /\ UNCHANGED <<phase, published, ticked, before, grown, early>>

Drained == read = published /\ tickRead = ticked /\ nextWatermark = watermark

(***************************************************************************)
(* The curve (state_growth.py)                                             *)
(***************************************************************************)

(* Mutation of Own: the lines of every query are one curve.                *)
OwnMixed == DOMAIN file

Own == {i \in DOMAIN file : file[i].query = Query}

Peak == Max({file[i].rows : i \in Own})

Final == file[Max(Own)].rows

(* The first line at the peak is the last line of the curve.               *)
PeakIsLast == \A i \in Own : i < Max(Own) => file[i].rows < Peak

(* A curve of zeros has declined by nothing.                               *)
Declined == Peak > 0 /\ 100 * (Peak - Final) >= MinDecline * Peak

CurveVerdict ==
    IF Own = {} THEN "no rows"
    ELSE IF Cardinality(Own) < MinPoints THEN "too few"
    ELSE IF PeakIsLast THEN "never fell"
    ELSE IF Declined THEN "observed" ELSE "insufficient"

(***************************************************************************)
(* The proof (rejoin_proof.py)                                             *)
(***************************************************************************)

State == [row |-> balances[Back], flushes |-> flushes[Back], gaps |-> gaps[Back]]

Expected == Total[{MaxSeq}]

DeltaSeq == State.row.last - before.row.last
DeltaBal == State.row.bal - before.row.bal

Replaced == DeltaBal = Expected - before.row.bal

(* Mutation of ProofPasses: an eviction is taken for granted.              *)
ProofPassesUnflushed ==
    DeltaSeq > 0 /\ State.gaps <= before.gaps /\ DeltaBal = Expected /\ ~Replaced

ProofPasses ==
    /\ State.flushes > before.flushes
    /\ DeltaSeq > 0
    /\ State.gaps <= before.gaps
    /\ DeltaBal = Expected
    /\ ~Replaced

(***************************************************************************)
(* The drill (stage6_proof.sh)                                             *)
(***************************************************************************)

Snapshot ==
    /\ phase = "traffic" /\ Drained
    /\ before' = State
    /\ ticked' = Len(Ticks)
    /\ phase' = "tick"
    /\ UNCHANGED <<published, grown, early, engine>>

(* The curve is judged, and the account sends its next event.              *)
Return ==
    /\ phase = "tick"
    /\ grown' = CurveVerdict
    /\ published' = [published EXCEPT ![Back] = before.row.last + 1]
    /\ early' = ~Drained
    /\ phase' = "return"
    /\ UNCHANGED <<ticked, before, engine>>

Stop ==
    /\ phase = "return"
    /\ early' = (early \/ ~Drained)
    /\ phase' = "done"
    /\ UNCHANGED <<published, ticked, before, grown, engine>>

RejoinNext == EngineBatch \/ Snapshot \/ Return \/ Stop

RejoinSpec == RejoinInit /\ [][RejoinNext]_rejoinVars

(***************************************************************************)
(* Properties                                                              *)
(***************************************************************************)

RejoinTypeOK ==
    /\ phase \in {"traffic", "tick", "return", "done"}
    /\ \A a \in Accounts :
          /\ published[a] \in 0..MaxSeq /\ read[a] \in 0..published[a]
          /\ keys[a] \in Key /\ balances[a] \in BalanceRow
          /\ flushes[a] \in Nat /\ gaps[a] \in Nat
    /\ tickRead \in 0..ticked /\ ticked \in 0..Len(Ticks)
    /\ watermark \in 0..nextWatermark

(* What the proofs take of a drill.  No event reaches the engine after the *)
(* watermark passed it,                                                    *)
InTime ==
    DropLate => /\ EventTs[MaxSeq - 1] - Delay < EventTs[1]
                /\ \A i \in DOMAIN Ticks : Ticks[i] - Delay < EventTs[MaxSeq]

(* and the tick run is as long as the TTL (--tick).                        *)
LongEnough ==
    /\ StateTtl > 0
    /\ \E i \in DOMAIN Ticks : Ticks[i] - Delay >= EventTs[MaxSeq - 1] + StateTtl

(* rejoin_proof.py:106, "the account was flushed and released, came back   *)
(* cold, was re-seeded from its durable row": a proof that passes saw just *)
(* that, even where a wait answered early and the event raced the ticks.   *)
PassMeansCold ==
    phase = "done" /\ ProofPasses =>
        /\ found = "cold"
        /\ balances[Back].last = MaxSeq
        /\ balances[Back].bal = Total[Seqs]

(* A drill whose waits did wait passes, its opening balance not being zero.*)
DrainedDrillPasses ==
    phase = "done" /\ ~early /\ before.row.bal # 0 => ProofPasses

(* The verdict of the proof is right both ways.                            *)
ProofIsRight == PassMeansCold /\ DrainedDrillPasses

(* state_growth.py:139, "state rose to N accounts and fell to M as idle    *)
(* keys were released": whenever it is read, a curve that fell stands for  *)
(* so many accounts released, lines missed and lines of other queries      *)
(* notwithstanding.                                                        *)
FallIsEviction ==
    CurveVerdict = "observed" =>
        100 * Cardinality({a \in Accounts : flushes[a] > 0}) >= MinDecline * Peak

(***************************************************************************)
(* Statements of the repository that the code does not keep: README,       *)
(* section 4.                                                              *)
(***************************************************************************)

(* rejoin_proof.py:97, "the balance was REPLACED rather than continued —   *)
(* the opening balance was lost".                                          *)
ReplacedMeansLost ==
    phase = "done" /\ Replaced => balances[Back].bal # before.row.bal + Expected
=============================================================================
