------------------------------ MODULE Harness ------------------------------
(***************************************************************************)
(* One run of the demonstration: the generator publishes a mangled stream  *)
(* and writes its delivery log, the engine reads the topic in micro-       *)
(* batches, trailing heartbeats move event time past the tail, and the     *)
(* parity script compares the tables with the oracle's prediction.         *)
(*                                                                         *)
(* A micro-batch is one step here: BalanceEngine takes it apart, crashes   *)
(* included.  External: Kafka hashes a key to a partition and hands each   *)
(* partition over in publish order, and Spark reads a prefix of each,      *)
(* whatever the others still hold.                                         *)
(***************************************************************************)
EXTENDS BatchCore, Oracle, Generator

CONSTANTS
    Order,          \* the accounts, in the order the generator interleaves them
    Partitions,     \* of accounts.events (three)
    PartitionOf,    \* the partition a key is hashed to
    Delay,          \* watermark_delay
    Trailing,       \* --trailing-heartbeats
    Streams,        \* the streams a run may publish (an instance of Generator)
    MaxLost,        \* records the broker may refuse (a bound of the model)
    MaxReleases     \* heads released after the run (a bound of the model)

Accounts == ToSet(Order)

(* A heartbeat is a record of its own account that only carries a time.    *)
Heartbeat == "HB-0000"

ASSUME HarnessAssumption ==
    /\ Delay \in Nat
    /\ Trailing \in Nat
    /\ MaxLost \in Nat
    /\ MaxReleases \in Nat
    /\ Order \in Seq(Accounts) /\ Order # <<>> /\ Heartbeat \notin Accounts
    /\ IsFiniteSet(Partitions)
    /\ PartitionOf \in [Accounts \cup {Heartbeat} -> Partitions]

(* event_generator.py stamps event times by logical position, and --dup    *)
(* delivers an event twice; inject_burst.py publishes each of its events   *)
(* once.                                                                   *)
ASSUME StreamAssumption ==
    /\ \A s, t \in Seqs : s <= t => EventTs[s] <= EventTs[t]
    /\ Streams \subseteq Seq([acct : Accounts, seq : Seqs])
    /\ \A st \in Streams : \A i \in DOMAIN st :
          Cardinality({j \in DOMAIN st : st[j] = st[i]}) <= 2

VARIABLES
    stream,         \* what the generator still has to publish
    published,      \* publish_order of the main stream
    trailing,       \* trailing heartbeats sent
    log,            \* the delivery log, by account
    errors,         \* records the producer reported as not delivered
    unread,         \* each partition beyond the engine's offset
    keys,           \* state store
    table,          \* balances table
    found,          \* integrity table, deduplicated
    watermark,
    nextWatermark,
    releases

(* History, never read by an action.                                       *)
VARIABLES
    applied,        \* events added to each balance
    late,           \* events a copy of which came behind the watermark, or the
                    \* first copy at or below the position
    afterGap,       \* events that arrived once a gap had been confirmed
    disordered,     \* an event was still to be read, or to be published, when
                    \* what was read was Delay or more past its time
    released        \* a head released late, with the account's row at that time

generator == <<stream, published, trailing, log, errors, releases>>
engine    == <<keys, table, found, watermark, nextWatermark>>
history   == <<applied, late, afterGap, disordered, released>>
vars      == <<generator, unread, engine, history>>

Tick(time) == [acct |-> Heartbeat, seq |-> time]

TimeOf(record) == IF record.acct = Heartbeat THEN record.seq ELSE EventTs[record.seq]

TypeOK ==
    /\ published \in Nat
    /\ trailing \in 0..Trailing
    /\ \A a \in Accounts : ToSet(log[a]) \subseteq Seqs
    /\ errors \subseteq {Event(a, s) : a \in Accounts, s \in Seqs}
    /\ keys \in [Accounts -> Key]
    /\ table \in [Accounts -> BalanceRow]
    /\ \A a \in Accounts : found[a] \in Found
    /\ watermark \in Nat /\ nextWatermark \in Nat
    /\ releases \in 0..MaxReleases

Init ==
    /\ stream \in Streams
    /\ published = 0 /\ trailing = 0 /\ releases = 0
    /\ log = [a \in Accounts |-> <<>>]
    /\ errors = {}
    /\ unread = [p \in Partitions |-> <<>>]
    /\ keys = [a \in Accounts |-> ColdKey]
    /\ table = [a \in Accounts |-> NoRow]
    /\ found = [a \in Accounts |-> NothingFound]
    /\ watermark = 0 /\ nextWatermark = 0
    /\ applied = [a \in Accounts |-> {}]
    /\ late = [a \in Accounts |-> {}]
    /\ afterGap = [a \in Accounts |-> {}]
    /\ disordered = FALSE
    /\ released = {}

(***************************************************************************)
(* The generator                                                           *)
(***************************************************************************)

(* heartbeat_ts: heartbeats carry the frontier of event time.              *)
Frontier(count, tick) == ((count + Len(Order) - 1) \div Len(Order)) + tick

(* The topic with one record more: its key is its account.                 *)
Produced(topic, record) ==
    [topic EXCEPT ![PartitionOf[record.acct]] = Append(@, record)]

(* A record of the main stream, unless the broker refuses it, and a        *)
(* heartbeat if one is due.                                                *)
Sent(e, lost, beat) ==
    LET topic == IF lost THEN unread ELSE Produced(unread, e)
    IN  IF beat THEN Produced(topic, Tick(Frontier(published + 1, 0))) ELSE topic

(* Mutation of Publish: the delivery log has confirmed records only.       *)
PublishConfirmed ==
    /\ stream # <<>>
    /\ LET e == Head(stream)
       IN  /\ \E lost \in BOOLEAN, beat \in BOOLEAN :
                 /\ lost => Cardinality(errors) < MaxLost
                 /\ log' = IF lost THEN log ELSE [log EXCEPT ![e.acct] = Append(@, e.seq)]
                 /\ errors' = IF lost THEN errors \cup {e} ELSE errors
                 /\ unread' = Sent(e, lost, beat)
           /\ disordered' = (disordered \/ EventTs[e.seq] <= nextWatermark)
    /\ stream' = Tail(stream)
    /\ published' = published + 1
    /\ UNCHANGED <<trailing, releases, engine, applied, late, afterGap, released>>

(* publish: produce() only queues the record and the log line is written   *)
(* at once; a record the broker refuses is known at the flush.             *)
Publish ==
    /\ stream # <<>>
    /\ LET e == Head(stream)
       IN  /\ log' = [log EXCEPT ![e.acct] = Append(@, e.seq)]
           /\ \E lost \in BOOLEAN, beat \in BOOLEAN :
                 /\ lost => Cardinality(errors) < MaxLost
                 /\ errors' = IF lost THEN errors \cup {e} ELSE errors
                 /\ unread' = Sent(e, lost, beat)
           /\ disordered' = (disordered \/ EventTs[e.seq] <= nextWatermark)
    /\ stream' = Tail(stream)
    /\ published' = published + 1
    /\ UNCHANGED <<trailing, releases, engine, applied, late, afterGap, released>>

(* Mutation of SendTrailing: one heartbeat is held enough.                 *)
SendTrailingOnce ==
    /\ stream = <<>>
    /\ trailing < 1
    /\ trailing' = trailing + 1
    /\ unread' = Produced(unread, Tick(Frontier(published, trailing + 1)))
    /\ UNCHANGED <<stream, published, log, errors, releases, engine, history>>

SendTrailing ==
    /\ stream = <<>>
    /\ trailing < Trailing
    /\ trailing' = trailing + 1
    /\ unread' = Produced(unread, Tick(Frontier(published, trailing + 1)))
    /\ UNCHANGED <<stream, published, log, errors, releases, engine, history>>

(***************************************************************************)
(* The engine: one micro-batch                                             *)
(***************************************************************************)

RowsOf(a, records) ==
    InSeqOrder([i \in DOMAIN records |-> IF records[i].acct = a THEN records[i].seq ELSE 0])

Invoked(a, rows) == Invoke(keys[a], rows, table[a], nextWatermark)

OfKind(result, kind) == {r.seq : r \in {q \in result.recs : q.kind = kind}}

(* read_engine_state: duplicates and evictions by seq_no, gaps by range.   *)
Recorded(a, result) ==
    [found[a] EXCEPT
        !.dup      = @ \cup OfKind(result, "DUP_DROPPED"),
        !.overflow = @ \cup OfKind(result, "BUFFER_OVERFLOW"),
        !.gaps     = @ \cup {Hole(keys[a].acct) : s \in OfKind(result, "SEQUENCE_GAP")}]

(* What a batch may take: maxOffsetsPerTrigger allows a prefix of each     *)
(* partition, or nothing when only the watermark has moved.                *)
Cuts ==
    {upto \in [Partitions -> 0..Max({Len(unread[p]) : p \in Partitions})] :
        \A p \in Partitions : upto[p] <= Len(unread[p])}

Took(upto) == [p \in Partitions |-> SubSeq(unread[p], 1, upto[p])]

Rest(upto) == [p \in Partitions |-> SubSeq(unread[p], upto[p] + 1, Len(unread[p]))]

RecordsIn(topic) == UNION {ToSet(topic[p]) : p \in Partitions}

RunBatch ==
    \E upto \in Cuts :
        /\ (\E p \in Partitions : upto[p] > 0) \/ nextWatermark > watermark
        /\ LET records == Took(upto)
               rows    == [a \in Accounts |-> RowsOf(a, records[PartitionOf[a]])]
               result  == [a \in Accounts |-> Invoked(a, rows[a])]
           IN  /\ keys' = [a \in Accounts |-> result[a].key]
               /\ table' = [a \in Accounts |->
                               IF result[a].ran THEN Merged(table[a], result[a].row) ELSE table[a]]
               /\ found' = [a \in Accounts |-> Recorded(a, result[a])]
               /\ nextWatermark' = Max({nextWatermark} \cup
                                       {TimeOf(r) - Delay : r \in RecordsIn(records)})
               /\ applied' = [a \in Accounts |-> applied[a] \cup result[a].applied]
               /\ late' = [a \in Accounts |-> late[a] \cup
                              {s \in ToSet(rows[a]) :
                                  \/ ~OnTime(s, nextWatermark)
                                  \/ s <= table[a].last /\ s \notin applied[a]}]
               /\ afterGap' = [a \in Accounts |-> afterGap[a] \cup
                              {s \in ToSet(rows[a]) : found[a].gaps # {}}]
        /\ watermark' = nextWatermark
        /\ unread' = Rest(upto)
        /\ disordered' = (disordered \/
               \E r \in RecordsIn(Rest(upto)) :
                   r.acct # Heartbeat /\ EventTs[r.seq] <= nextWatermark')
        /\ UNCHANGED <<generator, released>>

(***************************************************************************)
(* After the run                                                           *)
(***************************************************************************)

(* Every record is read and no batch is left to run.                       *)
Drained ==
    /\ stream = <<>> /\ trailing = Trailing
    /\ \A p \in Partitions : unread[p] = <<>>
    /\ nextWatermark = watermark

(* inject_burst.py --append-to, as release_head_drill.sh uses it: a        *)
(* withheld head is published after all, at the end of the same log.  Its  *)
(* event time is now, which the tick behind it stands for.                 *)
ReleaseHead ==
    /\ Drained
    /\ releases < MaxReleases
    /\ \E a \in Accounts :
          /\ log[a] # <<>> /\ Missing(log[a]) # {}
          /\ LET s == Min(Missing(log[a]))
             IN  /\ log' = [log EXCEPT ![a] = Append(@, s)]
                 /\ unread' = Produced(Produced(unread, Event(a, s)),
                                       Tick(Frontier(published, trailing + 1)))
                 /\ released' = {[acct |-> a, seq |-> s, row |-> table[a]]}
    /\ releases' = releases + 1
    /\ UNCHANGED <<stream, published, trailing, errors, engine,
                   applied, late, afterGap, disordered>>

Next == Publish \/ SendTrailing \/ RunBatch \/ ReleaseHead

Spec == Init /\ [][Next]_vars

(* The generator publishes to its end, the trailing heartbeats follow, and *)
(* the engine keeps triggering while there is something to read or the     *)
(* watermark has moved.                                                    *)
Publishes == stream # <<>> /\ stream' = Tail(stream)

Triggers ==
    /\ watermark' = nextWatermark
    /\ \E upto \in Cuts : unread' = Rest(upto)

Fairness == WF_stream(Publishes) /\ WF_vars(SendTrailing) /\ WF_<<unread, watermark>>(Triggers)

FairSpec == Spec /\ Fairness

(***************************************************************************)
(* Properties                                                              *)
(***************************************************************************)

(* Nothing happened to this account that the log cannot tell: no record    *)
(* was refused, no event came after its gap had been confirmed, no evicted *)
(* event was delivered again, nothing waits for a gap that is still open,  *)
(* and if evictions are predicted, or nothing is ever skipped, all of it   *)
(* was in before the first gap was reported.                               *)
Predictable(a) ==
    /\ \A e \in errors : e.acct # a
    /\ late[a] = {}
    /\ found[a].overflow \cap Repeated(log[a]) = {}
    /\ Policy = "HOLD" \/ table[a].size = 0
    /\ PredictedEvicted(log[a]) # {} \/ Policy = "HOLD" => afterGap[a] = {}

(* The oracle is right: after a drained run every account it claims to     *)
(* know agrees with the engine in balance, position, derived count, the    *)
(* duplicates dropped and the events evicted, whatever the order of        *)
(* publication and the batches, and without evictions in the gap ranges.   *)
OraclePredictsEngine ==
    Drained => \A a \in Accounts :
        log[a] # <<>> /\ Predictable(a) =>
            Mismatches(Prediction(log[a]), table[a], found[a],
                       [Plain EXCEPT !.ranges = Policy # "HOLD" /\ found[a].overflow = {}]) = {}

(* A strict pass can be trusted: it is never given to a run that lost a    *)
(* record, applied one that came too late or left one out.  (Under HOLD a  *)
(* record lost behind a hole is not seen: nothing there is applied.)       *)
StrictPassIsEarned ==
    Drained /\ ParityPasses(log, table, found, [Plain EXCEPT !.strict = TRUE]) =>
        /\ Policy # "HOLD" => errors = {}
        /\ \A a \in Accounts : log[a] # <<>> => applied[a] = PredictedApplied(log[a])

(* "derived from balances + integrity" (parity_balance.py:199): the table  *)
(* and the audit trail together say how many events were applied, after    *)
(* every batch, as long as no evicted event got in by a second delivery.   *)
CountIsDerivable ==
    Policy # "HOLD" => \A a \in Accounts :
        found[a].overflow \cap applied[a] = {} =>
            DerivedCount(table[a], found[a]) = Cardinality(applied[a])

(* "A reorder within the watermark is late, not lost" (parity_balance.py:  *)
(* 234, gap_timing_probe.py:168): a gap is reported only over a seq that   *)
(* was really withheld, refused or evicted, unless some event was read or  *)
(* published a whole watermark delay behind what had been read.  (That it  *)
(* was published in time is not enough: another partition may be read      *)
(* further.)                                                               *)
ReorderIsNotLoss ==
    ~disordered /\ releases = 0 => \A a \in Accounts :
        \A s \in UNION found[a].gaps :
            s \notin ToSet(log[a]) \/ Event(a, s) \in errors \/ s \in found[a].overflow

(* event_generator.py:259-261: the trailing heartbeats move event time     *)
(* past the tail, so in the end no buffer holds events behind a gap, or    *)
(* the account's first gap was confirmed, if the last heartbeat is not     *)
(* read before the last event.  (Not every gap: see OverdueGapsAreSettled; *)
(* not whatever is read first: see HeartbeatsSuffice.)                     *)
TailConfirmed ==
    Drained /\ \A a \in Accounts : keys[a].acct.buf = {} \/ found[a].gaps # {}

HeartbeatsReadLast ==
    stream = <<>> /\ trailing = Trailing /\ (\E r \in RecordsIn(unread) : r.acct # Heartbeat)
        => \E r \in RecordsIn(unread) : r.acct = Heartbeat

TailIsConfirmed == []HeartbeatsReadLast => <>[]TailConfirmed

(* late_arrival_proof.py: a head that arrives after its hole was confirmed *)
(* and the buffer let go is dropped with a record, and neither the balance *)
(* nor the position moves.                                                 *)
ReleasedHeadIsDropped ==
    Drained => \A r \in released :
        r.row.size = 0 /\ r.row.last > r.seq =>
            LateArrivalPasses(r.row, r.seq, table[r.acct], found[r.acct])

(* buffer_proof.py: a burst that was all in before the first gap was       *)
(* confirmed leaves the figures of the cap: as many survivors as the cap,  *)
(* the rest shed, the position at the end of the burst.                    *)
BurstKeepsTheCap ==
    Drained /\ releases = 0 /\ Policy # "HOLD" => \A a \in Accounts :
        /\ log[a] # <<>> /\ HeadWithheld(log[a]) /\ Missing(log[a]) = {1}
        /\ Predictable(a) /\ afterGap[a] = {}
        => BufferProofPasses(table[a], applied[a], found[a], Cardinality(ToSet(log[a])))

(* The proofs of the two drills that end a run.                            *)
DrillVerdictsHold == ReleasedHeadIsDropped /\ BurstKeepsTheCap

(***************************************************************************)
(* Statements of the repository that the code does not keep: README,       *)
(* section 4.                                                              *)
(***************************************************************************)

(* conf/engine_config.yml:4-5: "Detection latency is bounded by watermark  *)
(* + trigger".  When the topic is read and no batch is left to run, no gap *)
(* is open whose successors the watermark has passed.  The code confirms   *)
(* one gap an account and watermark; a second one waits for another.       *)
OverdueGapsAreSettled ==
    Drained => \A a \in Accounts :
        keys[a].acct.buf = {} \/ EarliestTs(keys[a].acct.buf) > watermark

(* event_generator.py:259-261: "Trailing heartbeats keep event time moving *)
(* after the main stream ends."  They have a partition of their own, which *)
(* a batch may read to its end while the account's still holds the tail.   *)
HeartbeatsSuffice == <>[]TailConfirmed

(* parity_balance.py:323 announces "engine state == oracle for all N       *)
(* account(s)" whenever nothing failed.                                    *)
PassMeansEqual ==
    Drained /\ ParityPasses(log, table, found, Plain) =>
        \A a \in Accounts : log[a] # <<>> => table[a].bal = Prediction(log[a]).bal

(* oracle.py:54: "every re-delivery is one drop".                          *)
EveryRedeliveryIsDropped ==
    Drained => \A a \in Accounts : Repeated(log[a]) \subseteq found[a].dup

(* release_head_drill.sh:106: "With the head withheld the oracle is        *)
(* DETERMINATE: min-first eviction retains the k largest, so it predicts   *)
(* the survivors exactly."                                                 *)
HeadWithheldIsPredicted ==
    Drained => \A a \in Accounts :
        log[a] # <<>> /\ HeadWithheld(log[a]) /\ (\A e \in errors : e.acct # a) =>
            found[a].overflow = PredictedEvicted(log[a])
=============================================================================
