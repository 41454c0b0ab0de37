--------------------------- MODULE SequencerCore ---------------------------
(***************************************************************************)
(* The pure core of the engine: what one event, one expired alarm or one   *)
(* re-seed does to the state of ONE account (spark/engine/sequencer.py,    *)
(* gap_policy.py, statecore.py).  Operators only; Sequencer.tla and        *)
(* BalanceEngine.tla run them.                                             *)
(*                                                                         *)
(* An event is its sequence number: a re-delivery carries the same amount  *)
(* and the same event time, so both are functions of seq_no.  Amounts are  *)
(* seen only through Total, the sum over a set of events.                  *)
(***************************************************************************)
EXTENDS FiniteSetsExt

CONSTANTS
    MaxSeq,         \* sequence numbers run from 1 to MaxSeq (a bound of the model)
    MaxBuffer,      \* max_buffer_size: how many early arrivals an account may hold
    Policy,         \* gap_policy: FLAG_AND_CONTINUE or HOLD
    StateTtl,       \* state_ttl_ms: idle event time after which state is released, 0 = never
    Realert,        \* gap_realert_ms: cadence on which HOLD re-asserts an open gap
    RejoinReseed,   \* rejoin_reseed: seed a cold account from the balances table
    DropLate,       \* TRUE: Spark drops rows at or below the watermark; FALSE: none
    Total,          \* Total[S]: the summed amount_minor of the events in S
    EventTs         \* EventTs[s]: event_ts_ms of event s

Seqs == 1..MaxSeq

ASSUME BoundsAssumption ==
    /\ MaxSeq \in Nat \ {0}
    /\ MaxBuffer \in Nat
    /\ StateTtl \in Nat
    /\ Realert \in Nat

ASSUME PolicyAssumption == Policy \in {"FLAG_AND_CONTINUE", "HOLD"}

\* conf/engine_config.yml: "TTL eviction is not safe without this".
ASSUME ReseedAssumption ==
    /\ RejoinReseed \in BOOLEAN
    /\ StateTtl > 0 => RejoinReseed

ASSUME LateAssumption == DropLate \in BOOLEAN

ASSUME TotalAssumption ==
    /\ Total \in [SUBSET Seqs -> Int]
    /\ Total[{}] = 0
    /\ \A S, T \in SUBSET Seqs :
          S \cap T = {} => Total[S \cup T] = Total[S] + Total[T]

ASSUME EventTsAssumption == EventTs \in [Seqs -> Nat \ {0}]

NoAlarm == -1

(* The state tuple without its derived buffer_size field. *)
Account == [last : Nat, bal : Int, buf : SUBSET Seqs, seen : Nat]

EmptyAccount == [last |-> 0, bal |-> 0, buf |-> {}, seen |-> 0]

(* Does a row reach the operator?  The harness of the tests drops none,    *)
(* Spark drops late ones before an event-time timeout operator (external). *)
OnTime(s, watermark) == DropLate => EventTs[s] > watermark

(***************************************************************************)
(* Draining the buffer and stepping over a hole                            *)
(***************************************************************************)

(* Where the drain loop stops: the end of the run last+1, last+2, ... that *)
(* sits in the buffer.                                                     *)
DrainEnd(last, buf) ==
    CHOOSE n \in last..MaxSeq : (last + 1)..n \subseteq buf /\ n + 1 \notin buf

(* The account moved to position `last` with everything contiguous behind  *)
(* it applied; `direct` are the events applied without passing the buffer. *)
MovedTo(a, last, direct) ==
    LET run == (last + 1)..DrainEnd(last, a.buf)
    IN  [a EXCEPT !.last = DrainEnd(last, a.buf),
                  !.bal  = @ + Total[direct] + Total[run],
                  !.buf  = @ \ run]

(* gap_range: the hole below the earliest event held. *)
Hole(a) == (a.last + 1)..(Min(a.buf) - 1)

(* Mutations of AfterGap: the run behind the hole is not drained; the hole *)
(* is never stepped over; the policy is not looked at.                     *)
AfterGapUndrained(a) == [a EXCEPT !.last = Min(a.buf) - 1]
AfterGapStuck(a)     == a
AfterGapAnyPolicy(a) == MovedTo(a, Min(a.buf) - 1, {})

(* advance: HOLD moves nothing, FLAG_AND_CONTINUE steps over the hole. *)
AfterGap(a) ==
    IF Policy = "HOLD" THEN a ELSE MovedTo(a, Min(a.buf) - 1, {})

(***************************************************************************)
(* One row                                                                 *)
(***************************************************************************)

InOrder(a, s)    == s = a.last + 1
Early(a, s)      == s > a.last + 1
Rebuffered(a, s) == Early(a, s) /\ s \in a.buf
Overflows(a, s)  == Early(a, s) /\ s \notin a.buf /\ Cardinality(a.buf) >= MaxBuffer
Buffers(a, s)    == Early(a, s) /\ s \notin a.buf /\ Cardinality(a.buf) < MaxBuffer
Replayed(a, s)   == s <= a.last

(* Mutation of Victim: the arrival is not a candidate. *)
VictimOfBuffer(a, s) == IF a.buf = {} THEN s ELSE Min(a.buf)

(* Min-first eviction over the buffer AND the arrival. *)
Victim(a, s) == Min(a.buf \cup {s})

Touched(a, s) == [a EXCEPT !.seen = IF EventTs[s] > @ THEN EventTs[s] ELSE @]

AfterInOrder(a, s)  == MovedTo(Touched(a, s), s, {s})
AfterOverflow(a, s) == [Touched(a, s) EXCEPT !.buf = (@ \cup {s}) \ {Victim(a, s)}]
AfterBuffer(a, s)   == [Touched(a, s) EXCEPT !.buf = @ \cup {s}]
AfterDrop(a, s)     == Touched(a, s)

(***************************************************************************)
(* The alarm, the TTL and the re-seed                                      *)
(***************************************************************************)

EarliestTs(buf) == Min({EventTs[s] : s \in buf})

(* Mutations of Alarm: an open gap fires at the next watermark; an empty   *)
(* buffer ignores the TTL; no TTL disarms the gap as well.                 *)
AlarmAtOnce(a, watermark, defer) ==
    IF a.buf = {} /\ StateTtl = 0 THEN NoAlarm ELSE watermark + 1
AlarmForGapsOnly(a, watermark, defer) ==
    IF a.buf = {} THEN NoAlarm ELSE Max({EarliestTs(a.buf), watermark + 1})
AlarmForTtlOnly(a, watermark, defer) ==
    IF StateTtl = 0 THEN NoAlarm ELSE Max({a.seen + StateTtl, watermark + 1})

(* compute_alarm: one slot, armed for the gap when something is buffered   *)
(* and for the TTL otherwise, never at or below the watermark.             *)
Alarm(a, watermark, defer) ==
    IF a.buf = {}
    THEN IF StateTtl = 0 THEN NoAlarm
                         ELSE Max({a.seen + StateTtl, watermark + 1})
    ELSE IF defer > 0 THEN watermark + defer
                      ELSE Max({EarliestTs(a.buf), watermark + 1})

(* held_open: only HOLD leaves the gap it announced open. *)
GapDefer == IF Policy = "HOLD" THEN Realert ELSE 0

Idle(a, watermark) == StateTtl > 0 /\ a.seen > 0 /\ watermark - a.seen >= StateTtl

(* Mutations of Reseeded: the balance forgotten; no re-seed at all.        *)
ReseededSeqOnly(oSeq, oBal) ==
    IF RejoinReseed /\ oSeq > 0 THEN [EmptyAccount EXCEPT !.last = oSeq] ELSE EmptyAccount
ReseededNever(oSeq, oBal) == EmptyAccount

(* The durable position a cold account starts from. *)
Reseeded(oSeq, oBal) ==
    IF RejoinReseed /\ oSeq > 0
    THEN [EmptyAccount EXCEPT !.last = oSeq, !.bal = oBal]
    ELSE EmptyAccount

(***************************************************************************)
(* The balances row and the guard of its MERGE                             *)
(***************************************************************************)

BalanceRow == [last : Nat, bal : Int, size : Nat]

NoRow == [last |-> 0, bal |-> 0, size |-> 0]

RowOf(a) == [last |-> a.last, bal |-> a.bal, size |-> Cardinality(a.buf)]

(* Mutations of Merged: whatever comes is taken; the strict > clause alone. *)
MergedBlind(t, s)  == s
MergedStrict(t, s) == IF s.last > t.last THEN s ELSE t

(* whenMatchedUpdateAll: a higher seq, or the same seq with another buffer. *)
Merged(t, s) ==
    IF s.last > t.last \/ (s.last = t.last /\ s.size # t.size) THEN s ELSE t
=============================================================================
