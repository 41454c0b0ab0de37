------------------------------ MODULE Decoder ------------------------------
(***************************************************************************)
(* The Avro decoder (spark/utils/avro_deserializer.py) under a streaming   *)
(* query: what becomes of a batch with a record that is no event, or whose *)
(* schema the registry does not give out.                                  *)
(*                                                                         *)
(* A record is <<"event", schema>>, <<"short", s>> (null, or less than the *)
(* five bytes of a header), <<"alien", s>> (another magic byte) or         *)
(* <<"corrupt", s>> (not what its schema says).  External (Spark): what    *)
(* the decoder raises ends the query; a restarted one runs the batch again *)
(* in new workers.                                                         *)
(***************************************************************************)
EXTENDS Sequences, Naturals, FiniteSets

CONSTANTS
    Topics,         \* what a topic may hold: sequences of records
    Registered,     \* schemas the registry knows
    MaxOutages      \* outages of the registry (a bound of the model)

ASSUME DecoderAssumption ==
    /\ \A t \in Topics : Len(t) \in Nat
    /\ MaxOutages \in Nat

VARIABLES
    topic,
    offset,         \* what the committed batches have read
    end,            \* where the batch in flight ends; offset between batches
    pos,            \* the last record of the batch decoded
    rows,           \* the rows of the batch so far
    passed,         \* rows of committed batches
    cache,          \* _SCHEMA_CACHE of the worker
    running,        \* is the query?
    registry, outages

decoderVars == <<topic, offset, end, pos, rows, passed, cache, running, registry, outages>>

DecoderInit ==
    /\ topic \in Topics
    /\ offset = 0 /\ end = 0 /\ pos = 0
    /\ rows = <<>> /\ passed = <<>>
    /\ cache = {} /\ running = TRUE
    /\ registry = "up" /\ outages = 0

Record == topic[pos + 1]
Kind   == Record[1]
Schema == Record[2]

(* The schemas _writer_schema can answer with.                             *)
Fetched == cache \cup (IF registry = "up" THEN Registered ELSE {})

(* Mutation of Skipped: a record too short to carry a schema id fails the  *)
(* batch, as any other that cannot be decoded.                             *)
SkippedNever == FALSE

Skipped == Kind = "short"

Decodes == ~Skipped /\ Kind = "event" /\ Schema \in Fetched

Open == running /\ pos < end

PlanBatch ==
    /\ running /\ end = offset
    /\ end' \in (offset + 1)..Len(topic)
    /\ UNCHANGED <<topic, offset, pos, rows, passed, cache, running, registry, outages>>

(* Row by row; a row of nulls is filtered out.                             *)
Decode ==
    /\ Open
    /\ \/ Skipped /\ UNCHANGED <<rows, cache>>
       \/ Decodes /\ rows' = Append(rows, pos + 1) /\ cache' = cache \cup {Schema}
    /\ pos' = pos + 1
    /\ UNCHANGED <<topic, offset, end, passed, running, registry, outages>>

(* Mutation of Raise: the rows decoded before it are handed on.            *)
RaisePartly ==
    /\ Open /\ ~Skipped /\ ~Decodes
    /\ running' = FALSE
    /\ cache' = {} /\ rows' = <<>> /\ passed' = passed \o rows /\ pos' = offset
    /\ UNCHANGED <<topic, offset, end, registry, outages>>

Raise ==
    /\ Open /\ ~Skipped /\ ~Decodes
    /\ running' = FALSE
    /\ cache' = {} /\ rows' = <<>> /\ pos' = offset
    /\ UNCHANGED <<topic, offset, end, passed, registry, outages>>

CommitBatch ==
    /\ running /\ offset < end /\ pos = end
    /\ offset' = end
    /\ passed' = passed \o rows /\ rows' = <<>>
    /\ UNCHANGED <<topic, end, pos, cache, running, registry, outages>>

Restart ==
    /\ ~running /\ running' = TRUE
    /\ UNCHANGED <<topic, offset, end, pos, rows, passed, cache, registry, outages>>

Outage ==
    /\ registry = "up" /\ outages < MaxOutages
    /\ registry' = "down" /\ outages' = outages + 1
    /\ UNCHANGED <<topic, offset, end, pos, rows, passed, cache, running>>

Recover ==
    /\ registry = "down" /\ registry' = "up"
    /\ UNCHANGED <<topic, offset, end, pos, rows, passed, cache, running, outages>>

DecoderNext == PlanBatch \/ Decode \/ Raise \/ CommitBatch \/ Restart \/ Outage \/ Recover

DecoderSpec == DecoderInit /\ [][DecoderNext]_decoderVars

(* The query runs on and is started again, and an outage ends.             *)
DecoderFairSpec ==
    /\ DecoderSpec
    /\ WF_decoderVars(PlanBatch \/ Decode \/ Raise \/ CommitBatch) /\ WF_decoderVars(Restart) /\ WF_decoderVars(Recover)

(***************************************************************************)
(* Properties                                                              *)
(***************************************************************************)

IsEvent(i) == topic[i][1] = "event" /\ topic[i][2] \in Registered

IsPoison(i) == topic[i][1] # "short" /\ ~IsEvent(i)

DecoderTypeOK ==
    /\ offset \in 0..Len(topic) /\ end \in offset..Len(topic) /\ pos \in offset..end
    /\ cache \subseteq Registered
    /\ ~running => cache = {} /\ rows = <<>>

(* The operator gets every event of the topic that was committed, once and *)
(* in order, through any outage of the registry and any number of restarts.*)
EachEventIsPassedOnce ==
    /\ \A j, k \in DOMAIN passed : j < k => passed[j] < passed[k]
    /\ {passed[j] : j \in DOMAIN passed} = {i \in 1..offset : IsEvent(i)}

(* A record that is neither an event nor empty is never read past, however *)
(* often the query is restarted: it is not lost, and it blocks what is     *)
(* behind it for good (avro_deserializer.py:75).                           *)
PoisonIsNeverPassed == \A i \in 1..offset : ~IsPoison(i)

(* What the offsets say was read is what the operator got.                 *)
ReadIsPassed == EachEventIsPassedOnce /\ PoisonIsNeverPassed

(* Without a record of that kind the topic is read to its end.             *)
CleanTopicIsRead == (\A i \in DOMAIN topic : ~IsPoison(i)) ~> offset = Len(topic)
=============================================================================
