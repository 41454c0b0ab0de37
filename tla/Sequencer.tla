----------------------------- MODULE Sequencer -----------------------------
(***************************************************************************)
(* One account of the balance engine: the grouped-state operator of        *)
(* spark/engine/sequencer.py with the alarm Spark keeps for it and the row *)
(* the sink keeps for it in the balances table.                            *)
(*                                                                         *)
(* A micro-batch calls the operator at most once for the account: with the *)
(* rows of the batch, processed one step per row in seq_no order, or, when *)
(* the alarm has expired, with no rows at all.  Any event may arrive any   *)
(* number of times, in any batch, or never.  Crashes are BalanceEngine's.  *)
(***************************************************************************)
EXTENDS SequencerCore

CONSTANTS
    MaxRows,        \* rows of the account in one micro-batch (a bound of the model)
    MaxWatermark,   \* the watermark stops here (a bound of the model)
    MaxStep,        \* how far the watermark moves in one batch (a bound of the model)
    LastDelivery    \* batches carry rows while the watermark is at most this

ASSUME RunBoundsAssumption ==
    /\ MaxRows \in Nat
    /\ MaxWatermark \in Nat
    /\ MaxStep \in Nat
    /\ LastDelivery \in Nat

VARIABLES
    acct,           \* the state tuple held by the state store
    exists,         \* GroupState.exists
    alarm,          \* the single timeout slot, NoAlarm when unset
    watermark,      \* the watermark of the current batch
    phase,          \* "rows" while an invocation is consuming its rows
    rows,           \* how many copies of each event the invocation has left
    row             \* the account's row of the balances table

(* History: what happened to each event, never read by an action. *)
VARIABLES
    delivered,      \* reached the operator at least once
    applied,        \* its amount was added to the balance
    announced,      \* covered by a SEQUENCE_GAP record
    shed,           \* has a BUFFER_OVERFLOW record, on the DLQ
    dropped,        \* has a DUP_DROPPED record
    asserted        \* last HOLD assertion: first missing seq and watermark

state   == <<acct, exists, alarm, row>>
history == <<delivered, applied, announced, shed, dropped, asserted>>
vars    == <<state, watermark, phase, rows, history>>

NoRows == [s \in Seqs |-> 0]

Batches == {b \in [Seqs -> 0..MaxRows] :
               b # NoRows /\ MapThenSumSet(LAMBDA s : b[s], Seqs) <= MaxRows}

Pending == {s \in Seqs : rows[s] > 0}

TypeOK ==
    /\ acct \in Account
    /\ exists \in BOOLEAN
    /\ alarm \in Nat \cup {NoAlarm}
    /\ watermark \in Nat
    /\ phase \in {"idle", "rows"}
    /\ rows \in [Seqs -> Nat]
    /\ row \in BalanceRow
    /\ delivered \in SUBSET Seqs
    /\ applied \in SUBSET Seqs
    /\ announced \in SUBSET Seqs
    /\ shed \in SUBSET Seqs
    /\ dropped \in SUBSET Seqs
    /\ asserted \in [lo : Nat, at : Nat]

Init ==
    /\ acct = EmptyAccount
    /\ exists = FALSE
    /\ alarm = NoAlarm
    /\ watermark = 0
    /\ phase = "idle"
    /\ rows = NoRows
    /\ row = NoRow
    /\ delivered = {} /\ applied = {} /\ announced = {} /\ shed = {} /\ dropped = {}
    /\ asserted = [lo |-> 0, at |-> 0]

(***************************************************************************)
(* Event time                                                              *)
(***************************************************************************)

Due == phase = "idle" /\ exists /\ alarm # NoAlarm /\ alarm <= watermark

(* Other accounts, the heartbeat among them, move the watermark between    *)
(* two batches.  A batch serves every alarm that has expired at its        *)
(* watermark, so none is left over when the next watermark takes effect.   *)
AdvanceWatermark ==
    /\ phase = "idle"
    /\ ~Due
    /\ \E step \in 1..MaxStep :
          /\ watermark + step <= MaxWatermark
          /\ watermark' = watermark + step
    /\ UNCHANGED <<state, phase, rows, history>>

(***************************************************************************)
(* An invocation with rows                                                 *)
(***************************************************************************)

(* A cold account starts from its balances row, carried in by the join.    *)
BeginRows ==
    /\ phase = "idle"
    /\ watermark <= LastDelivery
    /\ \E batch \in Batches :
          /\ \A s \in Seqs : batch[s] > 0 => OnTime(s, watermark)
          /\ rows' = batch
          /\ delivered' = delivered \cup {s \in Seqs : batch[s] > 0}
    /\ acct' = IF exists THEN acct ELSE Reseeded(row.last, row.bal)
    /\ phase' = "rows"
    /\ UNCHANGED <<exists, alarm, row, watermark,
                   applied, announced, shed, dropped, asserted>>

(* Rows are consumed in seq_no order. *)
Taking(s) ==
    /\ phase = "rows"
    /\ Pending # {}
    /\ s = Min(Pending)
    /\ rows' = [rows EXCEPT ![s] = @ - 1]
    /\ UNCHANGED <<exists, alarm, row, watermark, phase, delivered, announced, asserted>>

ApplyInOrder == \E s \in Seqs :
    /\ Taking(s)
    /\ InOrder(acct, s)
    /\ acct' = AfterInOrder(acct, s)
    /\ applied' = applied \cup {s} \cup (acct.buf \ acct'.buf)
    /\ UNCHANGED <<shed, dropped>>

BufferEarly == \E s \in Seqs :
    /\ Taking(s)
    /\ Buffers(acct, s)
    /\ acct' = AfterBuffer(acct, s)
    /\ UNCHANGED <<applied, shed, dropped>>

DropBuffered == \E s \in Seqs :
    /\ Taking(s)
    /\ Rebuffered(acct, s)
    /\ acct' = AfterDrop(acct, s)
    /\ dropped' = dropped \cup {s}
    /\ UNCHANGED <<applied, shed>>

EvictLowest == \E s \in Seqs :
    /\ Taking(s)
    /\ Overflows(acct, s)
    /\ acct' = AfterOverflow(acct, s)
    /\ shed' = shed \cup {Victim(acct, s)}
    /\ UNCHANGED <<applied, dropped>>

DropReplayed == \E s \in Seqs :
    /\ Taking(s)
    /\ Replayed(acct, s)
    /\ acct' = AfterDrop(acct, s)
    /\ dropped' = dropped \cup {s}
    /\ UNCHANGED <<applied, shed>>

(* Mutation of FinishRows: an alarm that is already set is left alone. *)
FinishRowsArmedOnce ==
    /\ phase = "rows"
    /\ Pending = {}
    /\ exists' = TRUE
    /\ alarm' = IF alarm = NoAlarm THEN Alarm(acct, watermark, 0) ELSE alarm
    /\ row' = Merged(row, RowOf(acct))
    /\ phase' = "idle"
    /\ UNCHANGED <<acct, watermark, rows, history>>

(* The rows are done: re-arm, update the state, and the batch's MERGE.     *)
FinishRows ==
    /\ phase = "rows"
    /\ Pending = {}
    /\ exists' = TRUE
    /\ alarm' = Alarm(acct, watermark, 0)
    /\ row' = Merged(row, RowOf(acct))
    /\ phase' = "idle"
    /\ UNCHANGED <<acct, watermark, rows, history>>

(***************************************************************************)
(* A timed-out invocation                                                  *)
(***************************************************************************)

(* Something is buffered: the hole below it is confirmed.                  *)
ConfirmGap ==
    /\ Due
    /\ acct.buf # {}
    /\ acct' = AfterGap(acct)
    /\ applied' = applied \cup (acct.buf \ acct'.buf)
    /\ announced' = announced \cup Hole(acct)
    /\ asserted' = IF Policy = "HOLD" THEN [lo |-> acct.last + 1, at |-> watermark]
                                      ELSE asserted
    /\ alarm' = Alarm(acct', watermark, GapDefer)
    /\ row' = Merged(row, RowOf(acct'))
    /\ UNCHANGED <<exists, watermark, phase, rows, delivered, shed, dropped>>

(* Nothing is buffered: an idle account is written out and released, any   *)
(* other alarm was stale and is armed again.                               *)
ExpireEmpty ==
    /\ Due
    /\ acct.buf = {}
    /\ row' = Merged(row, RowOf(acct))
    /\ IF Idle(acct, watermark)
       THEN acct' = EmptyAccount /\ exists' = FALSE /\ alarm' = NoAlarm
       ELSE alarm' = Alarm(acct, watermark, 0) /\ UNCHANGED <<acct, exists>>
    /\ UNCHANGED <<watermark, phase, rows, history>>

TakeRow == ApplyInOrder \/ BufferEarly \/ DropBuffered \/ EvictLowest \/ DropReplayed

Next ==
    \/ AdvanceWatermark
    \/ BeginRows
    \/ ApplyInOrder \/ BufferEarly \/ DropBuffered \/ EvictLowest \/ DropReplayed
    \/ FinishRows
    \/ ConfirmGap
    \/ ExpireEmpty

Spec == Init /\ [][Next]_vars

(* Every started invocation finishes, every expired alarm is served by a   *)
(* later trigger once no rows come first, and the heartbeat account moves  *)
(* the watermark however busy this one is.                                 *)
Fairness ==
    /\ WF_vars(TakeRow)
    /\ WF_vars(FinishRows)
    /\ WF_vars(ConfirmGap)
    /\ WF_vars(ExpireEmpty)
    /\ SF_vars(AdvanceWatermark)

FairSpec == Spec /\ Fairness

(***************************************************************************)
(* Safety                                                                  *)
(***************************************************************************)

(* Where the ledger stands: in the state while the key is live, in the     *)
(* balances row once the TTL released it.                                  *)
Live == exists \/ phase = "rows"
Position == IF Live THEN acct.last ELSE row.last
Balance  == IF Live THEN acct.bal ELSE row.bal
Buffered == IF Live THEN acct.buf ELSE {}

(* The balance is the sum of the events applied, each counted once, across *)
(* reordering, re-delivery, eviction, gaps, TTL release and rejoin.        *)
BalanceIsAppliedSum == Balance = Total[applied]

(* Nothing below the ledger's position was skipped in silence: every seq   *)
(* was applied or is covered by a SEQUENCE_GAP record.                     *)
EverySkipAnnounced ==
    /\ 1..Position \subseteq applied \cup announced
    /\ applied \subseteq 1..Position

(* FLAG_AND_CONTINUE keeps its verdict: an event it reported lost is never *)
(* applied afterwards, and a hole is reported only once it is stepped over.*)
VerdictHolds ==
    Policy = "FLAG_AND_CONTINUE" =>
        announced \cap applied = {} /\ announced \subseteq 1..Position

(* Every event that reached the operator is in the balance, in the buffer, *)
(* still to be read, or has a record of its own: on the DLQ if it was      *)
(* evicted, DUP_DROPPED if it was a replay or came after the verdict.      *)
NothingSilentlyDropped ==
    delivered \subseteq applied \cup Buffered \cup Pending \cup shed \cup dropped

(* Min-first eviction leaves the largest events: while an evicted event is *)
(* unresolved the buffer is full, of higher events only.  The oracle's     *)
(* prediction of the DLQ rests on it (sequencer.py:104-107).               *)
KeepsKLargest ==
    \A v \in shed : v > Position =>
        Cardinality(Buffered) = MaxBuffer /\ \A b \in Buffered : v < b

(* The account keeps the promise of Ledger: its position moves forward     *)
(* only over events it applies, once each, or gives up for good, and       *)
(* HOLD gives up none.                                                     *)
L == INSTANCE Ledger WITH
        position <- Position, balance <- Balance, settled <- applied

ImplementsLedger == L!Spec

(* HOLD never steps over a hole: what it applied is a prefix of the        *)
(* account's events, whatever was evicted or announced meanwhile.          *)
HoldAppliesPrefix == Policy = "HOLD" => applied = 1..Position

(* The buffer is bounded, and never holds the event the ledger waits for   *)
(* nor anything below it: a drain always runs to its end.                  *)
BufferIsEarly ==
    /\ Cardinality(Buffered) <= MaxBuffer
    /\ \A b \in Buffered : b > Position + 1

(* Between batches the balances table tells the truth about the account,   *)
(* its buffer size included, though the MERGE writes a row only when one   *)
(* of the two clauses of its guard fires (sinks.py:87-103).                *)
RowIsCurrent ==
    phase = "idle" /\ exists => row = RowOf(acct)

(* An open gap always has an alarm, and under FLAG_AND_CONTINUE one no     *)
(* later than the earliest event buffered behind it or the next watermark: *)
(* the slot never still holds the later alarm set for the TTL.             *)
OpenGapIsArmed ==
    phase = "idle" /\ exists /\ acct.buf # {} =>
        /\ alarm # NoAlarm
        /\ Policy = "FLAG_AND_CONTINUE" =>
              alarm <= Max({EarliestTs(acct.buf), watermark + 1})

(* An alarm that expires with nothing buffered means an idle account: the  *)
(* slot never still holds the alarm of a gap that has since closed.        *)
NoStaleAlarm == Due /\ acct.buf = {} => Idle(acct, watermark)

(***************************************************************************)
(* What a step may never do                                                *)
(***************************************************************************)

(* The ledger never moves back, not even through a release and a rejoin.   *)
LedgerNeverRegresses == [][Position <= Position']_vars

(* No false alarm: a gap is announced only when the watermark has passed   *)
(* the earliest event held behind it ("late, not lost").                   *)
NoGapBeforeWatermark ==
    [][announced' # announced => watermark >= EarliestTs(acct.buf)]_vars

(* setTimeoutTimestamp throws on a value at or below the watermark: every  *)
(* alarm the operator sets is ahead of it.                                 *)
AlarmAheadWhenSet ==
    [][alarm' # alarm /\ alarm' # NoAlarm => alarm' > watermark]_vars

(* conf/engine_config.yml:35-38 and test_gap_policy.py:182-183: HOLD       *)
(* asserts one and the same hole at most once per gap_realert_ms.          *)
HoldCadence ==
    [][asserted' # asserted /\ asserted'.lo = asserted.lo
          => asserted'.at - asserted.at >= Realert]_vars

(***************************************************************************)
(* Liveness                                                                *)
(***************************************************************************)

(* "Not never": once deliveries pause, every hole is filled or announced   *)
(* and stepped over, so nothing stays buffered.                            *)
GapsResolve == Policy = "FLAG_AND_CONTINUE" => (acct.buf # {} ~> acct.buf = {})

(* Once deliveries pause an account with a TTL is released.                *)
IdleStateReleased == StateTtl > 0 => (exists ~> ~exists)

(* Under HOLD every open hole is asserted.                                 *)
HeldGapAsserted ==
    Policy = "HOLD" => (acct.buf # {} ~> acct.buf = {} \/ asserted.lo = acct.last + 1)

(***************************************************************************)
(* The inductive invariant behind the safety theorems (SequencerProofs)    *)
(***************************************************************************)

(* A released key keeps nothing, no rows are left between batches, and no  *)
(* position exceeds the last event.                                        *)
StateShape ==
    /\ phase = "idle" => Pending = {}
    /\ ~Live => acct.buf = {}
    /\ acct.last <= MaxSeq
    /\ row.last <= MaxSeq

(* The row never runs ahead of the ledger, and agrees with it at equal seq *)
(* and between batches; without a TTL no row is ever needed for a rejoin.  *)
RowFollowsLedger ==
    /\ row.last <= Position
    /\ row.last = Position => row.bal = Balance
    /\ phase = "idle" => row.last = Position
    /\ StateTtl = 0 /\ ~Live => row.last = 0

(* What the alarm was computed from still holds while it is armed.         *)
AlarmFollowsState ==
    /\ phase = "rows" => acct.seen > 0 \/ Pending # {}
    /\ phase = "idle" /\ exists =>
          /\ acct.seen > 0
          /\ acct.buf # {} => alarm >= EarliestTs(acct.buf)
          /\ acct.buf = {} =>
                IF StateTtl = 0 THEN alarm = NoAlarm ELSE alarm >= acct.seen + StateTtl

IInv ==
    /\ TypeOK
    /\ StateShape
    /\ BufferIsEarly
    /\ BalanceIsAppliedSum
    /\ EverySkipAnnounced
    /\ VerdictHolds
    /\ NothingSilentlyDropped
    /\ KeepsKLargest
    /\ RowFollowsLedger
    /\ RowIsCurrent
    /\ AlarmFollowsState
=============================================================================
