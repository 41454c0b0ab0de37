----------------------------- MODULE BatchCore -----------------------------
(***************************************************************************)
(* One whole invocation of the grouped-state operator (make_sequencer and  *)
(* step of spark/engine/sequencer.py) as a function of the key's state,    *)
(* its rows and the watermark.  Sequencer.tla takes the same invocation    *)
(* apart row by row; here it is what one micro-batch computes for a key.   *)
(***************************************************************************)
EXTENDS SequencerCore, SequencesExt

(* What the state store keeps of a key: the tuple, GroupState.exists and   *)
(* the timeout slot.                                                       *)
Key == [acct : Account, exists : BOOLEAN, alarm : Nat \cup {NoAlarm}]

ColdKey == [acct |-> EmptyAccount, exists |-> FALSE, alarm |-> NoAlarm]

(* An integrity record as its readers know it, (kind, seq_no); lo..hi of a *)
(* gap is kept as its first seq.                                           *)
Kinds == {"DUP_DROPPED", "BUFFER_OVERFLOW", "SEQUENCE_GAP", "TTL_FLUSH"}

Record == [kind : Kinds, seq : Nat]

Rec(kind, seq) == [kind |-> kind, seq |-> seq]

(* Mutation of Dropped: no record is left. *)
DroppedSilently(run, s) == [run EXCEPT !.acct = AfterDrop(run.acct, s)]

(* A replay, of an event applied or of one buffered, leaves a record. *)
Dropped(run, s) ==
    [run EXCEPT !.acct = AfterDrop(run.acct, s), !.recs = @ \cup {Rec("DUP_DROPPED", s)}]

(* sorted(..., key=seq_no): the k-th row is the least that k of the rows   *)
(* do not exceed; 0 stands for a record that is no row of the key.         *)
InSeqOrder(seqs) ==
    LET upto(s) == {j \in DOMAIN seqs : seqs[j] \in 1..s}
    IN  [k \in 1..Cardinality(upto(MaxSeq)) |-> Min({s \in Seqs : Cardinality(upto(s)) >= k})]

(* One row against the account and the outputs of the rows before it.      *)
WithRow(run, s) ==
    LET a == run.acct
    IN  CASE InOrder(a, s) ->
               LET b == AfterInOrder(a, s)
               IN  [run EXCEPT !.acct = b, !.applied = @ \cup {s} \cup (a.buf \ b.buf)]
          [] Rebuffered(a, s) \/ Replayed(a, s) -> Dropped(run, s)
          [] Overflows(a, s) ->
               [run EXCEPT !.acct = AfterOverflow(a, s),
                           !.recs = @ \cup {Rec("BUFFER_OVERFLOW", Victim(a, s))}]
          [] Buffers(a, s) ->
               [run EXCEPT !.acct = AfterBuffer(a, s)]

(* What an invocation returns: the key's next state, the row for balances, *)
(* the integrity records, and (history) the events it applied.             *)
Result(key, last, recs, applied) ==
    [ran |-> TRUE, key |-> key, row |-> RowOf(last), recs |-> recs, applied |-> applied]

NoResult(key) ==
    [ran |-> FALSE, key |-> key, row |-> NoRow, recs |-> {}, applied |-> {}]

(* A cold key starts from the balances row that rode in on its rows.       *)
Start(key, opening) ==
    [acct    |-> IF key.exists THEN key.acct ELSE Reseeded(opening.last, opening.bal),
     recs    |-> {},
     applied |-> {}]

(* What is made of the first i rows, for every i; a late row is not among  *)
(* those the operator sees.                                                *)
Runs(start, rows, watermark) ==
    LET run[i \in 0..Len(rows)] ==
            IF i = 0 THEN start
            ELSE IF OnTime(rows[i], watermark) THEN WithRow(run[i - 1], rows[i])
            ELSE run[i - 1]
    IN  run

(* An invocation with rows, in seq_no order.                               *)
WithRows(key, rows, opening, watermark) ==
    LET run  == Runs(Start(key, opening), rows, watermark)[Len(rows)]
        next == [acct |-> run.acct, exists |-> TRUE, alarm |-> Alarm(run.acct, watermark, 0)]
    IN  Result(next, run.acct, run.recs, run.applied)

Expired(key, watermark) == key.exists /\ key.alarm # NoAlarm /\ key.alarm <= watermark

(* A timed-out invocation: the gap is confirmed, or the idle key is        *)
(* released, or a stale alarm is armed again.                              *)
TimedOut(key, watermark) ==
    LET a == key.acct
        b == AfterGap(a)
    IN  IF a.buf # {}
        THEN Result([key EXCEPT !.acct = b, !.alarm = Alarm(b, watermark, GapDefer)],
                    b, {Rec("SEQUENCE_GAP", a.last + 1)}, a.buf \ b.buf)
        ELSE IF Idle(a, watermark)
        THEN Result(ColdKey, a, {Rec("TTL_FLUSH", a.last)}, {})
        ELSE Result([key EXCEPT !.alarm = Alarm(a, watermark, 0)], a, {}, {})

Reached(rows, watermark) == \E i \in DOMAIN rows : OnTime(rows[i], watermark)

(* What a batch computes for a key: a key with a row is called with its    *)
(* rows, and only a key without can time out (external: Spark).            *)
Invoke(key, rows, opening, watermark) ==
    IF Reached(rows, watermark) THEN WithRows(key, rows, opening, watermark)
    ELSE IF Expired(key, watermark) THEN TimedOut(key, watermark)
    ELSE NoResult(key)
=============================================================================
