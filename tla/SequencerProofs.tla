-------------------------- MODULE SequencerProofs --------------------------
(***************************************************************************)
(* Proofs about Sequencer, for every value of its constants.               *)
(***************************************************************************)
EXTENDS Sequencer, BatchProofs

(***************************************************************************)
(* What each action does, in terms the invariant speaks about              *)
(***************************************************************************)

Shape == TypeOK /\ StateShape /\ BufferIsEarly

(* Before anything is applied: the types of the pieces of the state. *)
LEMMA Pieces ==
    ASSUME Shape
    PROVE  /\ acct \in Account /\ acct.last \in 0..MaxSeq /\ acct.bal \in Int
           /\ acct.buf \in SUBSET Seqs /\ acct.seen \in Nat
           /\ row \in BalanceRow /\ row.last \in 0..MaxSeq /\ row.bal \in Int
           /\ Position \in 0..MaxSeq /\ Balance \in Int
           /\ Buffered \in SUBSET Seqs /\ Buffered = acct.buf
           /\ MaxSeq \in Nat
<1>1. acct \in Account /\ row \in BalanceRow /\ acct.last <= MaxSeq /\ row.last <= MaxSeq
  BY DEF Shape, TypeOK, StateShape
<1>2. Buffered = acct.buf
  BY DEF Shape, StateShape, Buffered
<1> QED
  BY <1>1, <1>2, BoundsAssumption DEF Account, BalanceRow, Position, Balance

LEMMA ShapeIsSound ==
    ASSUME Shape
    PROVE  Sound(acct)
<1>1. acct \in Account /\ acct.last <= MaxSeq
  BY DEF Shape, TypeOK, StateShape
<1>2. ASSUME NEW b \in acct.buf
      PROVE  acct.last + 1 < b
  <2>1. Live
    BY DEF Shape, StateShape
  <2>2. b > acct.last + 1
    BY <2>1 DEF Shape, BufferIsEarly, Buffered, Position
  <2> QED
    BY <1>1, <2>2 DEF Account, Seqs
<1> QED
  BY <1>1, <1>2 DEF Sound

(* One row is consumed; the invocation stays open. *)
LEMMA TakingFact ==
    ASSUME Shape, NEW s \in Seqs, Taking(s)
    PROVE  /\ phase = "rows" /\ phase' = "rows" /\ Live /\ Live'
           /\ s \in Pending /\ Pending \subseteq Pending' \cup {s} /\ Pending' \subseteq Pending
           /\ rows' \in [Seqs -> Nat]
           /\ Position = acct.last /\ Position' = acct'.last
           /\ Balance = acct.bal /\ Balance' = acct'.bal
           /\ Buffered = acct.buf /\ Buffered' = acct'.buf
<1>1. phase = "rows" /\ phase' = "rows" /\ rows' = [rows EXCEPT ![s] = @ - 1]
      /\ rows \in [Seqs -> Nat]
  BY DEF Taking, Shape, TypeOK
<1>2. Live /\ Live'
  BY <1>1 DEF Live
<1>3. Pending # {} /\ s = Min(Pending) /\ Pending \in SUBSET Nat
  BY DEF Taking, Pending, Seqs
<1>4. s \in Pending
  BY <1>3, MinFact
<1>5. rows[s] > 0 /\ rows[s] \in Nat
  BY <1>1, <1>4 DEF Pending
<1>6. rows' \in [Seqs -> Nat] /\ \A r \in Seqs : rows'[r] = IF r = s THEN rows[r] - 1 ELSE rows[r]
  BY <1>1, <1>5
<1>7. Pending \subseteq Pending' \cup {s} /\ Pending' \subseteq Pending
  BY <1>1, <1>5, <1>6 DEF Pending
<1> QED
  BY <1>1, <1>2, <1>4, <1>6, <1>7 DEF Position, Balance, Buffered

(* In-order application adds exactly the events from s to the new position. *)
LEMMA InOrderEffect ==
    ASSUME Shape, NEW s \in Seqs, Taking(s), InOrder(acct, s),
           acct' = AfterInOrder(acct, s),
           applied' = applied \cup {s} \cup (acct.buf \ acct'.buf)
    PROVE  /\ acct' \in Account /\ acct'.seen > 0
           /\ s = acct.last + 1 /\ s <= acct'.last /\ acct'.last <= MaxSeq
           /\ (s + 1)..acct'.last \subseteq acct.buf
           /\ acct'.last + 1 \notin acct.buf
           /\ acct'.buf = acct.buf \ ((s + 1)..acct'.last)
           /\ s..acct'.last \in SUBSET Seqs
           /\ acct'.bal = acct.bal + Total[s..acct'.last]
           /\ applied' = applied \cup s..acct'.last
<1>1. Sound(acct)
  BY ShapeIsSound
<1>2. applied' = applied \cup ({s} \cup (acct.buf \ acct'.buf))
  OBVIOUS
<1> QED
  BY <1>1, <1>2, InOrderFact DEF Sound

(* Buffering keeps the ledger and adds the event. *)
LEMMA BufferEffect ==
    ASSUME Shape, NEW s \in Seqs, Early(acct, s), acct' = AfterBuffer(acct, s)
    PROVE  /\ acct' \in Account /\ acct'.seen > 0
           /\ acct'.last = acct.last /\ acct'.bal = acct.bal
           /\ acct'.buf = acct.buf \cup {s}
BY ShapeIsSound, BufferFact DEF Sound

(* A dropped row leaves its event time and nothing else. *)
LEMMA DropEffect ==
    ASSUME Shape, NEW s \in Seqs, acct' = AfterDrop(acct, s)
    PROVE  /\ acct' \in Account /\ acct'.seen > 0
           /\ acct'.last = acct.last /\ acct'.bal = acct.bal /\ acct'.buf = acct.buf
BY ShapeIsSound, DropFact DEF Sound

(* Eviction takes the least event of the buffer and the arrival, and keeps *)
(* the buffer as full as it was.                                           *)
LEMMA OverflowEffect ==
    ASSUME Shape, NEW s \in Seqs, Early(acct, s), s \notin acct.buf,
           acct' = AfterOverflow(acct, s)
    PROVE  /\ acct' \in Account /\ acct'.seen > 0
           /\ acct'.last = acct.last /\ acct'.bal = acct.bal
           /\ Victim(acct, s) \in acct.buf \cup {s} /\ Victim(acct, s) \in Seqs
           /\ acct'.buf = (acct.buf \cup {s}) \ {Victim(acct, s)}
           /\ \A b \in acct'.buf : Victim(acct, s) < b
           /\ Cardinality(acct'.buf) = Cardinality(acct.buf)
BY ShapeIsSound, OverflowFact DEF Sound

(* Stepping over a hole applies the run that was waiting behind it. *)
LEMMA GapEffect ==
    ASSUME Shape, acct.buf # {}, acct' = AfterGap(acct),
           applied' = applied \cup (acct.buf \ acct'.buf),
           Policy # "HOLD"
    PROVE  LET h == Min(acct.buf)
           IN  /\ acct' \in Account /\ acct'.seen = acct.seen
               /\ h \in acct.buf /\ \A b \in acct.buf : h <= b
               /\ acct.last + 1 < h /\ h <= acct'.last /\ acct'.last <= MaxSeq
               /\ h..acct'.last \subseteq acct.buf
               /\ acct'.last + 1 \notin acct.buf
               /\ acct'.buf = acct.buf \ (h..acct'.last)
               /\ acct'.bal = acct.bal + Total[h..acct'.last]
               /\ applied' = applied \cup h..acct'.last
BY ShapeIsSound, GapFact DEF Sound

(***************************************************************************)
(* The inductive invariant                                                 *)
(***************************************************************************)

(* It holds before the first batch. *)
LEMMA InitEstablishes == Init => IInv
<1> SUFFICES ASSUME Init
             PROVE  IInv
  OBVIOUS
<1> USE DEF Init
<1>1. Live = FALSE /\ Position = 0 /\ Balance = 0 /\ Buffered = {} /\ Pending = {}
  BY DEF Live, Position, Balance, Buffered, NoRow, Pending, NoRows
<1>2. TypeOK
  <2>1. EmptyAccount \in Account
    BY DEF EmptyAccount, Account
  <2>2. NoRow \in BalanceRow
    BY DEF NoRow, BalanceRow
  <2>3. NoRows \in [Seqs -> Nat]
    BY DEF NoRows
  <2> QED
    BY <2>1, <2>2, <2>3 DEF TypeOK
<1>3. StateShape
  BY <1>1, BoundsAssumption DEF StateShape, EmptyAccount, NoRow
<1>4. BufferIsEarly
  BY <1>1, FS_EmptySet, BoundsAssumption DEF BufferIsEarly
<1>5. BalanceIsAppliedSum
  BY <1>1, TotalAssumption DEF BalanceIsAppliedSum
<1>6. EverySkipAnnounced /\ VerdictHolds
  BY <1>1 DEF EverySkipAnnounced, VerdictHolds
<1>7. NothingSilentlyDropped /\ KeepsKLargest
  BY DEF NothingSilentlyDropped, KeepsKLargest
<1>8. RowFollowsLedger /\ RowIsCurrent
  BY <1>1 DEF RowFollowsLedger, RowIsCurrent, NoRow
<1>9. AlarmFollowsState
  BY DEF AlarmFollowsState
<1> QED
  BY <1>2, <1>3, <1>4, <1>5, <1>6, <1>7, <1>8, <1>9 DEF IInv

(* Between batches only the watermark moves. *)
LEMMA AdvanceKeeps == IInv /\ AdvanceWatermark => IInv'
<1> SUFFICES ASSUME IInv, AdvanceWatermark
             PROVE  IInv'
  OBVIOUS
<1>1. UNCHANGED <<acct, exists, alarm, row, phase, rows, delivered, applied, announced, shed,
                  dropped, asserted>>
  BY DEF AdvanceWatermark, state, history
<1>2. watermark' \in Nat
  BY DEF AdvanceWatermark, IInv, TypeOK
<1>3. TypeOK'
  BY <1>1, <1>2 DEF IInv, TypeOK
<1>4. Live' = Live /\ Position' = Position /\ Balance' = Balance /\ Buffered' = Buffered
      /\ Pending' = Pending
  BY <1>1 DEF Live, Position, Balance, Buffered, Pending
<1>5. StateShape' /\ BufferIsEarly' /\ BalanceIsAppliedSum' /\ EverySkipAnnounced'
      /\ VerdictHolds' /\ NothingSilentlyDropped' /\ KeepsKLargest'
  BY <1>1, <1>4 DEF IInv, StateShape, BufferIsEarly, BalanceIsAppliedSum, EverySkipAnnounced,
                    VerdictHolds, NothingSilentlyDropped, KeepsKLargest
<1>6. RowFollowsLedger' /\ RowIsCurrent' /\ AlarmFollowsState'
  BY <1>1, <1>4 DEF IInv, RowFollowsLedger, RowIsCurrent, AlarmFollowsState
<1> QED
  BY <1>3, <1>5, <1>6 DEF IInv

(* Opening an invocation leaves the ledger where it was: a cold account    *)
(* with a history restarts from its balances row.                          *)
LEMMA BeginKeeps == IInv /\ BeginRows => IInv' /\ Position' = Position
<1> SUFFICES ASSUME IInv, BeginRows
             PROVE  IInv' /\ Position' = Position
  OBVIOUS
<1>0. Shape
  BY DEF IInv, Shape
<1>1. /\ phase = "idle" /\ phase' = "rows"
      /\ acct' = IF exists THEN acct ELSE Reseeded(row.last, row.bal)
      /\ UNCHANGED <<exists, alarm, row, watermark, applied, announced, shed, dropped, asserted>>
  BY DEF BeginRows
<1>2. PICK batch \in Batches : /\ rows' = batch
                               /\ delivered' = delivered \cup {s \in Seqs : batch[s] > 0}
  BY DEF BeginRows
<1>3. batch \in [Seqs -> Nat] /\ batch # NoRows
  BY <1>2, RunBoundsAssumption DEF Batches
<1>4. Pending' = {s \in Seqs : batch[s] > 0} /\ Pending' # {}
  BY <1>2, <1>3 DEF Pending, NoRows
<1>5. Live' /\ (Live <=> exists)
  BY <1>1 DEF Live
<1>6. /\ acct' \in Account /\ acct'.last = Position /\ acct'.bal = Balance
      /\ acct'.buf = Buffered
  <2>1. CASE exists
    BY <1>0, <1>1, <1>5, <2>1, Pieces DEF Position, Balance
  <2>2. CASE ~exists
    <3>1. Position = row.last /\ Balance = row.bal /\ Buffered = {}
      BY <1>5, <2>2 DEF Position, Balance, Buffered
    <3>2. row.last = 0 => row.bal = 0
      <4>1. Balance = Total[applied] /\ applied \subseteq 1..Position
        BY DEF IInv, BalanceIsAppliedSum, EverySkipAnnounced
      <4>2. row.last = 0 => applied = {}
        BY <3>1, <4>1
      <4> QED
        BY <3>1, <4>1, <4>2, TotalAssumption
    <3>3. StateTtl = 0 => row.last = 0
      BY <1>5, <2>2 DEF IInv, RowFollowsLedger
    <3>4. row.last \in Nat /\ row.bal \in Int /\ StateTtl \in Nat
      BY <1>0, Pieces, BoundsAssumption
    <3>5. Reseeded(row.last, row.bal) = [last |-> row.last, bal |-> row.bal, buf |-> {}, seen |-> 0]
      <4>1. CASE RejoinReseed /\ row.last > 0
        <5>1. Reseeded(row.last, row.bal) =
                 [EmptyAccount EXCEPT !.last = row.last, !.bal = row.bal]
          BY <4>1 DEF Reseeded
        <5> QED
          BY <5>1, Zenon DEF EmptyAccount
      <4>2. CASE ~(RejoinReseed /\ row.last > 0)
        <5>1. row.last = 0 /\ row.bal = 0
          BY <3>2, <3>3, <3>4, <4>2, ReseedAssumption
        <5> QED
          BY <4>2, <5>1 DEF Reseeded, EmptyAccount
      <4> QED
        BY <4>1, <4>2
    <3> QED
      BY <1>1, <2>2, <3>1, <3>4, <3>5 DEF Account
  <2> QED
    BY <2>1, <2>2
<1>7. Position' = Position /\ Balance' = Balance /\ Buffered' = Buffered
  BY <1>5, <1>6 DEF Position, Balance, Buffered
<1>8. TypeOK'
  BY <1>1, <1>2, <1>3, <1>6 DEF IInv, TypeOK
<1>9. StateShape' /\ BufferIsEarly'
  BY <1>0, <1>1, <1>5, <1>6, <1>7, Pieces DEF IInv, StateShape, BufferIsEarly
<1>10. BalanceIsAppliedSum' /\ EverySkipAnnounced' /\ VerdictHolds' /\ KeepsKLargest'
  BY <1>1, <1>7 DEF IInv, BalanceIsAppliedSum, EverySkipAnnounced, VerdictHolds, KeepsKLargest
<1>11. NothingSilentlyDropped'
  BY <1>1, <1>2, <1>4, <1>7 DEF IInv, StateShape, NothingSilentlyDropped
<1>12. RowFollowsLedger' /\ RowIsCurrent'
  BY <1>1, <1>5, <1>7 DEF IInv, RowFollowsLedger, RowIsCurrent
<1>13. AlarmFollowsState'
  BY <1>1, <1>4 DEF AlarmFollowsState
<1> QED
  BY <1>7, <1>8, <1>9, <1>10, <1>11, <1>12, <1>13 DEF IInv

(* Whatever a row does, while the invocation is open the row of the        *)
(* balances table stays put and the alarm is not looked at.                *)
LEMMA TakingKeeps ==
    ASSUME IInv, NEW s \in Seqs, Taking(s),
           acct' \in Account, acct'.seen > 0, acct'.last <= MaxSeq, acct.last <= acct'.last,
           acct'.last = acct.last => acct'.bal = acct.bal,
           applied' \in SUBSET Seqs, shed' \in SUBSET Seqs, dropped' \in SUBSET Seqs
    PROVE  TypeOK' /\ StateShape' /\ RowFollowsLedger' /\ RowIsCurrent' /\ AlarmFollowsState'
<1>1. Shape
  BY DEF IInv, Shape
<1>2. UNCHANGED <<exists, alarm, row, watermark, phase, delivered, announced, asserted>>
  BY DEF Taking
<1>3. /\ phase = "rows" /\ phase' = "rows" /\ Live /\ Live' /\ rows' \in [Seqs -> Nat]
      /\ Position = acct.last /\ Position' = acct'.last
      /\ Balance = acct.bal /\ Balance' = acct'.bal
  BY <1>1, TakingFact
<1>4. TypeOK'
  BY <1>2, <1>3 DEF IInv, TypeOK
<1>5. StateShape'
  BY <1>2, <1>3 DEF IInv, StateShape
<1>6. RowFollowsLedger'
  <2>1. row.last \in Nat /\ acct.last \in Nat /\ acct'.last \in Nat
    BY <1>1, Pieces DEF Account
  <2>2. row.last <= acct.last /\ (row.last = acct.last => row.bal = acct.bal)
    BY <1>3 DEF IInv, RowFollowsLedger
  <2> QED
    BY <1>2, <1>3, <2>1, <2>2 DEF RowFollowsLedger
<1>7. RowIsCurrent' /\ AlarmFollowsState'
  BY <1>3 DEF RowIsCurrent, AlarmFollowsState
<1> QED
  BY <1>4, <1>5, <1>6, <1>7

(* In-order application and the drain behind it. *)
LEMMA InOrderKeeps == IInv /\ ApplyInOrder => IInv' /\ Position <= Position'
<1> SUFFICES ASSUME IInv, ApplyInOrder
             PROVE  IInv' /\ Position <= Position'
  OBVIOUS
<1>1. Shape
  BY DEF IInv, Shape
<1>2. PICK s \in Seqs : /\ Taking(s) /\ InOrder(acct, s) /\ acct' = AfterInOrder(acct, s)
                        /\ applied' = applied \cup {s} \cup (acct.buf \ acct'.buf)
                        /\ UNCHANGED <<shed, dropped>>
  BY DEF ApplyInOrder
<1> DEFINE n == acct'.last
<1>3. /\ acct' \in Account /\ acct'.seen > 0
      /\ s = acct.last + 1 /\ s <= n /\ n <= MaxSeq
      /\ (s + 1)..n \subseteq acct.buf /\ n + 1 \notin acct.buf
      /\ acct'.buf = acct.buf \ ((s + 1)..n)
      /\ s..n \in SUBSET Seqs
      /\ acct'.bal = acct.bal + Total[s..n]
      /\ applied' = applied \cup s..n
  BY <1>1, <1>2, InOrderEffect
<1>4. /\ phase = "rows" /\ Live /\ Live' /\ phase' = "rows"
      /\ s \in Pending /\ Pending \subseteq Pending' \cup {s}
      /\ Position = acct.last /\ Position' = n
      /\ Balance = acct.bal /\ Balance' = acct'.bal
      /\ Buffered = acct.buf /\ Buffered' = acct'.buf
  BY <1>1, <1>2, TakingFact
<1>5. UNCHANGED <<delivered, announced>>
  BY <1>2 DEF Taking
<1>6. /\ n \in Nat /\ acct.last \in Nat /\ acct.bal \in Int /\ acct.buf \in SUBSET Seqs
      /\ MaxSeq \in Nat /\ applied \in SUBSET Seqs /\ s \in Nat
  <2>1. acct \in Account /\ applied \in SUBSET Seqs
    BY <1>1 DEF IInv, TypeOK
  <2>2. n \in Nat
    BY <1>3 DEF Account
  <2>3. acct.last \in Nat /\ acct.bal \in Int /\ acct.buf \in SUBSET Seqs
    BY <2>1 DEF Account
  <2>4. MaxSeq \in Nat /\ s \in Nat
    BY <1>3, <2>3, BoundsAssumption
  <2> QED
    BY <2>1, <2>2, <2>3, <2>4
<1>7. /\ 1..acct.last \subseteq applied \cup announced /\ applied \subseteq 1..acct.last
      /\ Policy = "FLAG_AND_CONTINUE" => announced \cap applied = {} /\ announced \subseteq 1..acct.last
  BY <1>4 DEF IInv, EverySkipAnnounced, VerdictHolds
<1> HIDE DEF n
<1>8. acct.last <= n /\ n # acct.last
  BY <1>3, <1>6
<1>9. TypeOK' /\ StateShape' /\ RowFollowsLedger' /\ RowIsCurrent' /\ AlarmFollowsState'
  <2>1. applied' \in SUBSET Seqs /\ shed' \in SUBSET Seqs /\ dropped' \in SUBSET Seqs
    BY <1>2, <1>3, <1>6 DEF IInv, TypeOK
  <2> QED
    BY <1>2, <1>3, <1>8, <2>1, TakingKeeps DEF n
<1>10. BufferIsEarly'
  <2>1. Cardinality(acct'.buf) <= MaxBuffer
    <3>1. IsFiniteSet(acct.buf) /\ Cardinality(acct.buf) \in Nat
      BY <1>6, SeqsFinite
    <3>2. IsFiniteSet(acct'.buf) /\ Cardinality(acct'.buf) <= Cardinality(acct.buf)
      BY <1>3, <3>1, FS_Subset
    <3>3. Cardinality(acct'.buf) \in Nat
      BY <3>2, FS_CardinalityType
    <3>4. Cardinality(acct.buf) <= MaxBuffer
      BY <1>4 DEF IInv, BufferIsEarly
    <3> QED
      BY <3>1, <3>2, <3>3, <3>4, BoundsAssumption
  <2>2. ASSUME NEW b \in acct'.buf
        PROVE  b > n + 1
    <3>1. b \in acct.buf /\ b \notin (s + 1)..n /\ b # n + 1 /\ b \in Nat
      BY <1>3, <1>6 DEF Seqs
    <3>2. b > acct.last + 1
      BY <1>4, <3>1 DEF IInv, BufferIsEarly
    <3> QED
      BY <1>3, <1>6, <3>1, <3>2
  <2> QED
    BY <1>4, <2>1, <2>2 DEF BufferIsEarly
<1>11. BalanceIsAppliedSum'
  <2>1. applied \cap s..n = {}
    BY <1>3, <1>6, <1>7
  <2>2. Total[applied \cup s..n] = Total[applied] + Total[s..n]
    BY <1>3, <1>6, <2>1, TotalAdds
  <2> QED
    BY <1>3, <1>4, <2>2 DEF IInv, BalanceIsAppliedSum
<1>12. EverySkipAnnounced'
  <2>1. 1..n = 1..acct.last \cup s..n
    BY <1>3, <1>6
  <2>2. 1..n \subseteq applied' \cup announced' /\ applied' \subseteq 1..n
    BY <1>3, <1>5, <1>7, <2>1
  <2> QED
    BY <1>4, <2>2 DEF EverySkipAnnounced
<1>13. VerdictHolds'
  BY <1>3, <1>4, <1>5, <1>6, <1>7 DEF VerdictHolds
<1>14. NothingSilentlyDropped'
  <2>1. acct.buf \subseteq acct'.buf \cup applied' /\ s \in applied' /\ applied \subseteq applied'
    BY <1>3, <1>6
  <2>2. delivered \subseteq applied \cup acct.buf \cup Pending \cup shed \cup dropped
    BY <1>4 DEF IInv, NothingSilentlyDropped
  <2>3. delivered' \subseteq applied' \cup acct'.buf \cup Pending' \cup shed' \cup dropped'
    BY <1>2, <1>4, <1>5, <2>1, <2>2
  <2> QED
    BY <1>4, <2>3 DEF NothingSilentlyDropped
<1>15. KeepsKLargest'
  <2> SUFFICES ASSUME NEW v \in shed, v > n
               PROVE  Cardinality(acct'.buf) = MaxBuffer /\ \A b \in acct'.buf : v < b
    BY <1>2, <1>4 DEF KeepsKLargest
  <2>0. shed \in SUBSET Seqs
    BY DEF IInv, TypeOK
  <2>1. v \in Nat /\ v > acct.last
    BY <1>3, <1>6, <2>0 DEF Seqs
  <2>2. Cardinality(acct.buf) = MaxBuffer /\ \A b \in acct.buf : v < b
    BY <1>4, <2>1 DEF IInv, KeepsKLargest
  <2>3. n \notin (s + 1)..n
    BY <1>3, <1>6, <2>1, <2>2
  <2>4. acct'.buf = acct.buf
    BY <1>3, <1>6, <2>3
  <2> QED
    BY <2>2, <2>4
<1> QED
  BY <1>4, <1>8, <1>9, <1>10, <1>11, <1>12, <1>13, <1>14, <1>15 DEF IInv

(* The rows that apply nothing: the ledger stays, and whatever leaves the  *)
(* buffer or is not taken in has its record.                               *)
LEMMA ParkingKeeps ==
    ASSUME IInv, NEW s \in Seqs, Taking(s),
           acct' \in Account, acct'.seen > 0,
           acct'.last = acct.last, acct'.bal = acct.bal, UNCHANGED applied,
           shed' \in SUBSET Seqs, dropped' \in SUBSET Seqs,
           acct'.buf \subseteq acct.buf \cup {s},
           s \in acct'.buf => s > acct.last + 1,
           Cardinality(acct'.buf) <= MaxBuffer,
           shed \subseteq shed', dropped \subseteq dropped',
           acct.buf \cup {s} \subseteq acct'.buf \cup shed' \cup dropped',
           KeepsKLargest'
    PROVE  IInv' /\ Position' = Position
<1>1. Shape
  BY DEF IInv, Shape
<1>2. UNCHANGED <<delivered, announced>>
  BY DEF Taking
<1>3. /\ Position = acct.last /\ Position' = acct'.last
      /\ Balance = acct.bal /\ Balance' = acct'.bal
      /\ Buffered = acct.buf /\ Buffered' = acct'.buf
      /\ Pending \subseteq Pending' \cup {s}
  BY <1>1, TakingFact
<1>4. TypeOK' /\ StateShape' /\ RowFollowsLedger' /\ RowIsCurrent' /\ AlarmFollowsState'
  <2>1. applied' \in SUBSET Seqs /\ acct.last \in Nat /\ acct.last <= MaxSeq
    BY <1>1, Pieces DEF IInv, TypeOK
  <2> QED
    BY <2>1, TakingKeeps
<1>5. BufferIsEarly'
  <2>1. \A b \in acct.buf : b > acct.last + 1
    BY <1>3 DEF IInv, BufferIsEarly
  <2> QED
    BY <1>3, <2>1 DEF BufferIsEarly
<1>6. BalanceIsAppliedSum' /\ EverySkipAnnounced' /\ VerdictHolds'
  BY <1>2, <1>3 DEF IInv, BalanceIsAppliedSum, EverySkipAnnounced, VerdictHolds
<1>7. NothingSilentlyDropped'
  <2>1. delivered \subseteq applied \cup acct.buf \cup Pending \cup shed \cup dropped
    BY <1>3 DEF IInv, NothingSilentlyDropped
  <2>2. delivered' \subseteq applied' \cup acct'.buf \cup Pending' \cup shed' \cup dropped'
    BY <1>2, <1>3, <2>1
  <2> QED
    BY <1>3, <2>2 DEF NothingSilentlyDropped
<1> QED
  BY <1>3, <1>4, <1>5, <1>6, <1>7 DEF IInv

(* An early arrival is buffered while there is room.                       *)
LEMMA BufferKeeps == IInv /\ BufferEarly => IInv' /\ Position' = Position
<1> SUFFICES ASSUME IInv, BufferEarly
             PROVE  IInv' /\ Position' = Position
  OBVIOUS
<1>1. Shape
  BY DEF IInv, Shape
<1>2. PICK s \in Seqs : /\ Taking(s) /\ Buffers(acct, s) /\ acct' = AfterBuffer(acct, s)
                        /\ UNCHANGED <<applied, shed, dropped>>
  BY DEF BufferEarly
<1>3. /\ acct' \in Account /\ acct'.seen > 0
      /\ acct'.last = acct.last /\ acct'.bal = acct.bal
      /\ acct'.buf = acct.buf \cup {s}
  BY <1>1, <1>2, BufferEffect DEF Buffers
<1>4. Position = acct.last /\ Position' = acct.last /\ Buffered = acct.buf /\ Buffered' = acct'.buf
  BY <1>1, <1>2, <1>3, TakingFact
<1>5. s > acct.last + 1 /\ s \notin acct.buf /\ Cardinality(acct.buf) < MaxBuffer
  BY <1>2 DEF Buffers, Early
<1>6. IsFiniteSet(acct.buf) /\ Cardinality(acct.buf) \in Nat
  BY <1>1, Pieces, SeqsFinite
<1>7. Cardinality(acct'.buf) <= MaxBuffer
  <2>1. Cardinality(acct'.buf) = Cardinality(acct.buf) + 1
    BY <1>3, <1>5, <1>6, FS_AddElement
  <2> QED
    BY <1>5, <1>6, <2>1, BoundsAssumption
<1>8. KeepsKLargest'
  <2>1. \A v \in shed : ~ (v > acct.last)
    BY <1>4, <1>5, <1>6, BoundsAssumption DEF IInv, KeepsKLargest
  <2> QED
    BY <1>2, <1>4, <2>1 DEF KeepsKLargest
<1>9. shed \in SUBSET Seqs /\ dropped \in SUBSET Seqs
  BY DEF IInv, TypeOK
<1> QED
  BY <1>2, <1>3, <1>5, <1>7, <1>8, <1>9, ParkingKeeps

(* Both kinds of duplicate leave their record.                             *)
LEMMA DropKeeps == IInv /\ (DropBuffered \/ DropReplayed) => IInv' /\ Position' = Position
<1> SUFFICES ASSUME IInv, DropBuffered \/ DropReplayed
             PROVE  IInv' /\ Position' = Position
  OBVIOUS
<1>1. Shape
  BY DEF IInv, Shape
<1>2. PICK s \in Seqs : /\ Taking(s) /\ acct' = AfterDrop(acct, s)
                        /\ dropped' = dropped \cup {s} /\ UNCHANGED <<applied, shed>>
  BY DEF DropBuffered, DropReplayed
<1>3. /\ acct' \in Account /\ acct'.seen > 0
      /\ acct'.last = acct.last /\ acct'.bal = acct.bal /\ acct'.buf = acct.buf
  BY <1>1, <1>2, DropEffect
<1>4. Position = acct.last /\ Position' = acct.last /\ Buffered = acct.buf /\ Buffered' = acct'.buf
  BY <1>1, <1>2, <1>3, TakingFact
<1>5. (\A b \in acct.buf : b > acct.last + 1) /\ Cardinality(acct.buf) <= MaxBuffer
  BY <1>4 DEF IInv, BufferIsEarly
<1>6. KeepsKLargest'
  BY <1>2, <1>3, <1>4 DEF IInv, KeepsKLargest
<1>7. shed \in SUBSET Seqs /\ dropped \in SUBSET Seqs
  BY DEF IInv, TypeOK
<1> QED
  BY <1>2, <1>3, <1>5, <1>6, <1>7, ParkingKeeps

(* Eviction puts the least event on the DLQ and leaves the buffer full of  *)
(* larger ones.                                                            *)
LEMMA EvictKeeps == IInv /\ EvictLowest => IInv' /\ Position' = Position
<1> SUFFICES ASSUME IInv, EvictLowest
             PROVE  IInv' /\ Position' = Position
  OBVIOUS
<1>1. Shape
  BY DEF IInv, Shape
<1>2. PICK s \in Seqs : /\ Taking(s) /\ Overflows(acct, s) /\ acct' = AfterOverflow(acct, s)
                        /\ shed' = shed \cup {Victim(acct, s)} /\ UNCHANGED <<applied, dropped>>
  BY DEF EvictLowest
<1>3. s > acct.last + 1 /\ s \notin acct.buf /\ Cardinality(acct.buf) >= MaxBuffer
  BY <1>2 DEF Overflows, Early
<1> DEFINE v == Victim(acct, s)
<1>4. /\ acct' \in Account /\ acct'.seen > 0
      /\ acct'.last = acct.last /\ acct'.bal = acct.bal
      /\ v \in acct.buf \cup {s} /\ v \in Seqs
      /\ acct'.buf = (acct.buf \cup {s}) \ {v}
      /\ \A b \in acct'.buf : v < b
      /\ Cardinality(acct'.buf) = Cardinality(acct.buf)
  BY <1>1, <1>2, <1>3, OverflowEffect DEF Early
<1>5. Position = acct.last /\ Position' = acct.last /\ Buffered = acct.buf /\ Buffered' = acct'.buf
  BY <1>1, <1>2, <1>4, TakingFact
<1>6. shed' = shed \cup {v}
  BY <1>2
<1> HIDE DEF v
<1>7. Cardinality(acct.buf) = MaxBuffer
  <2>1. Cardinality(acct.buf) \in Nat /\ Cardinality(acct.buf) <= MaxBuffer
    BY <1>1, <1>5, Pieces, SeqsFinite DEF IInv, BufferIsEarly
  <2> QED
    BY <1>3, <2>1, BoundsAssumption
<1>8. shed \in SUBSET Seqs /\ dropped \in SUBSET Seqs /\ acct.buf \in SUBSET Seqs
  BY <1>1, Pieces DEF IInv, TypeOK
<1>9. KeepsKLargest'
  <2> SUFFICES ASSUME NEW u \in shed', u > acct.last
               PROVE  \A b \in acct'.buf : u < b
    BY <1>4, <1>5, <1>7 DEF KeepsKLargest
  <2>1. CASE u = v
    BY <1>4, <2>1
  <2>2. CASE u \in shed
    <3>1. \A b \in acct.buf : u < b
      BY <1>5, <2>2 DEF IInv, KeepsKLargest
    <3>2. u \in Nat /\ s \in Nat /\ v \in Nat
      BY <1>4, <1>8, <2>2 DEF Seqs
    <3>3. CASE v = s
      BY <1>4, <3>1, <3>3
    <3>4. CASE v # s
      <4>1. v \in acct.buf /\ u < v
        BY <1>4, <3>1, <3>4
      <4>2. \A b \in acct'.buf : b \in Nat
        BY <1>4, <1>8 DEF Seqs
      <4> QED
        BY <1>4, <3>2, <4>1, <4>2
    <3> QED
      BY <3>3, <3>4
  <2> QED
    BY <1>6, <2>1, <2>2
<1>10. Cardinality(acct'.buf) <= MaxBuffer
  BY <1>4, <1>7, BoundsAssumption
<1>11. acct.buf \cup {s} \subseteq acct'.buf \cup shed'
  BY <1>4, <1>6
<1>12. shed' \in SUBSET Seqs /\ shed \subseteq shed'
  BY <1>4, <1>6, <1>8
<1> QED
  BY <1>2, <1>3, <1>4, <1>8, <1>9, <1>10, <1>11, <1>12, ParkingKeeps

(* The MERGE always leaves the row equal to the account: when neither      *)
(* clause of its guard fires, the row already is.                          *)
LEMMA MergeFact ==
    ASSUME NEW t \in BalanceRow, NEW a \in Account,
           t.last <= a.last, t.last = a.last => t.bal = a.bal
    PROVE  Merged(t, RowOf(a)) = RowOf(a) /\ RowOf(a) \in BalanceRow
<1> DEFINE r == RowOf(a)
<1>1. a.last \in Nat /\ a.bal \in Int /\ Cardinality(a.buf) \in Nat
  BY SeqsFinite DEF Account
<1>2. r = [last |-> a.last, bal |-> a.bal, size |-> Cardinality(a.buf)]
  BY DEF RowOf
<1>3. r \in BalanceRow /\ r.last = a.last /\ r.bal = a.bal
  BY <1>1, <1>2 DEF BalanceRow
<1> HIDE DEF r
<1>4. CASE r.last > t.last \/ (r.last = t.last /\ r.size # t.size)
  BY <1>3, <1>4 DEF Merged, r
<1>5. CASE ~(r.last > t.last \/ (r.last = t.last /\ r.size # t.size))
  <2>1. r.last = t.last /\ r.size = t.size /\ r.bal = t.bal
    BY <1>1, <1>3, <1>5 DEF BalanceRow
  <2>2. r = t
    BY <1>3, <2>1 DEF BalanceRow
  <2> QED
    BY <1>3, <1>5, <2>2 DEF Merged, r
<1> QED
  BY <1>4, <1>5

(* Closing an invocation writes the row and arms the alarm.                *)
LEMMA FinishKeeps == IInv /\ FinishRows => IInv' /\ Position' = Position
<1> SUFFICES ASSUME IInv, FinishRows
             PROVE  IInv' /\ Position' = Position
  OBVIOUS
<1>1. Shape
  BY DEF IInv, Shape
<1>2. /\ phase = "rows" /\ Pending = {} /\ exists' = TRUE /\ phase' = "idle"
      /\ alarm' = Alarm(acct, watermark, 0) /\ row' = Merged(row, RowOf(acct))
      /\ UNCHANGED <<acct, watermark, rows, delivered, applied, announced, shed, dropped, asserted>>
  BY DEF FinishRows, history
<1>3. Live /\ Live' /\ Pending' = {}
  BY <1>2 DEF Live, Pending
<1>4. /\ Position = acct.last /\ Position' = acct.last /\ Balance = acct.bal /\ Balance' = acct.bal
      /\ Buffered = acct.buf /\ Buffered' = acct.buf
  BY <1>2, <1>3 DEF Position, Balance, Buffered
<1>5. acct \in Account /\ row \in BalanceRow /\ watermark \in Nat /\ acct.last \in Nat
  BY <1>1, Pieces DEF IInv, TypeOK
<1>6. row' = RowOf(acct) /\ row' \in BalanceRow
  BY <1>2, <1>4, <1>5, MergeFact DEF IInv, RowFollowsLedger
<1>7. row'.last = acct.last /\ row'.bal = acct.bal
  BY <1>6 DEF RowOf
<1>8. /\ alarm' \in Nat \cup {NoAlarm}
      /\ acct.buf # {} => alarm' >= EarliestTs(acct.buf)
      /\ acct.buf = {} => IF StateTtl = 0 THEN alarm' = NoAlarm ELSE alarm' >= acct.seen + StateTtl
  BY <1>2, <1>5, AlarmFact
<1>9. TypeOK'
  BY <1>2, <1>6, <1>8 DEF IInv, TypeOK
<1>10. StateShape' /\ BufferIsEarly'
  BY <1>2, <1>3, <1>4, <1>7 DEF IInv, StateShape, BufferIsEarly
<1>11. BalanceIsAppliedSum' /\ EverySkipAnnounced' /\ VerdictHolds' /\ KeepsKLargest'
       /\ NothingSilentlyDropped'
  BY <1>2, <1>3, <1>4 DEF IInv, BalanceIsAppliedSum, EverySkipAnnounced, VerdictHolds,
                          KeepsKLargest, NothingSilentlyDropped
<1>12. RowFollowsLedger' /\ RowIsCurrent'
  BY <1>2, <1>3, <1>4, <1>5, <1>6, <1>7 DEF RowFollowsLedger, RowIsCurrent
<1>13. AlarmFollowsState'
  <2>1. acct.seen > 0
    BY <1>2 DEF IInv, AlarmFollowsState
  <2> QED
    BY <1>2, <1>8, <2>1 DEF AlarmFollowsState
<1> QED
  BY <1>4, <1>9, <1>10, <1>11, <1>12, <1>13 DEF IInv

(* An idle account is released with its row written; a fresh one is kept.  *)
LEMMA ExpireKeeps == IInv /\ ExpireEmpty => IInv' /\ Position' = Position
<1> SUFFICES ASSUME IInv, ExpireEmpty
             PROVE  IInv' /\ Position' = Position
  OBVIOUS
<1>1. Shape
  BY DEF IInv, Shape
<1>2. /\ phase = "idle" /\ phase' = "idle" /\ exists /\ acct.buf = {}
      /\ row' = Merged(row, RowOf(acct))
      /\ UNCHANGED <<watermark, rows, delivered, applied, announced, shed, dropped, asserted>>
  BY DEF ExpireEmpty, Due, history
<1>3. acct \in Account /\ row \in BalanceRow /\ watermark \in Nat /\ acct.last \in Nat
      /\ acct.last <= MaxSeq /\ Live
  BY <1>1, <1>2, Pieces DEF IInv, TypeOK, Live
<1>4. Position = acct.last /\ Balance = acct.bal /\ Buffered = {}
  BY <1>2, <1>3 DEF Position, Balance, Buffered
<1>5. row' = RowOf(acct) /\ row' \in BalanceRow
  BY <1>2, <1>3, <1>4, MergeFact DEF IInv, RowFollowsLedger
<1>6. row'.last = acct.last /\ row'.bal = acct.bal
  BY <1>5 DEF RowOf
<1>7. /\ \/ acct' = EmptyAccount /\ exists' = FALSE /\ alarm' = NoAlarm /\ StateTtl > 0
         \/ alarm' = Alarm(acct, watermark, 0) /\ UNCHANGED <<acct, exists>>
  BY DEF ExpireEmpty, Idle
<1>8. Alarm(acct, watermark, 0) \in Nat \cup {NoAlarm} /\ EmptyAccount \in Account
  BY <1>3, AlarmFact DEF EmptyAccount, Account
<1>9. Position' = acct.last /\ Balance' = acct.bal /\ Buffered' = {} /\ acct'.buf = {}
      /\ acct'.last \in 0..MaxSeq
  <2>1. CASE acct' = EmptyAccount /\ exists' = FALSE
    <3>1. ~Live'
      BY <1>2, <2>1 DEF Live
    <3>2. acct'.buf = {} /\ acct'.last = 0
      BY <2>1 DEF EmptyAccount
    <3> QED
      BY <1>6, <3>1, <3>2, BoundsAssumption DEF Position, Balance, Buffered
  <2>2. CASE UNCHANGED <<acct, exists>>
    <3>1. Live'
      BY <1>2, <2>2 DEF Live
    <3>2. acct' = acct /\ acct.last \in 0..MaxSeq
      BY <1>3, <2>2, BoundsAssumption
    <3> QED
      BY <1>2, <1>4, <3>1, <3>2, <1>3 DEF Position, Balance, Buffered
  <2> QED
    BY <1>7, <2>1, <2>2
<1>10. Pending' = Pending /\ Pending = {}
  BY <1>2 DEF IInv, StateShape, Pending
<1>11. TypeOK'
  BY <1>2, <1>5, <1>7, <1>8 DEF IInv, TypeOK
<1>12. StateShape' /\ BufferIsEarly'
  <2>1. StateShape'
    BY <1>3, <1>6, <1>9, <1>10 DEF StateShape
  <2>2. BufferIsEarly'
    BY <1>4, <1>9 DEF IInv, BufferIsEarly
  <2> QED
    BY <2>1, <2>2
<1>13. BalanceIsAppliedSum' /\ EverySkipAnnounced' /\ VerdictHolds' /\ KeepsKLargest'
       /\ NothingSilentlyDropped'
  BY <1>2, <1>4, <1>9, <1>10 DEF IInv, BalanceIsAppliedSum, EverySkipAnnounced, VerdictHolds,
                          KeepsKLargest, NothingSilentlyDropped
<1>14. RowFollowsLedger'
  <2>1. StateTtl = 0 => Live'
    BY <1>2, <1>7 DEF Live
  <2> QED
    BY <1>3, <1>6, <1>9, <2>1 DEF RowFollowsLedger
<1>15. RowIsCurrent'
  BY <1>5, <1>7 DEF RowIsCurrent
<1>16. AlarmFollowsState'
  <2>1. CASE exists' = FALSE
    BY <1>2, <2>1 DEF AlarmFollowsState
  <2>2. CASE alarm' = Alarm(acct, watermark, 0) /\ UNCHANGED <<acct, exists>>
    <3>1. acct.seen > 0
      BY <1>2 DEF IInv, AlarmFollowsState
    <3>2. IF StateTtl = 0 THEN alarm' = NoAlarm ELSE alarm' >= acct.seen + StateTtl
      BY <1>2, <1>3, <2>2, AlarmFact
    <3> QED
      BY <1>2, <2>2, <3>1, <3>2 DEF AlarmFollowsState
  <2> QED
    BY <1>7, <2>1, <2>2
<1> QED
  BY <1>4, <1>9, <1>11, <1>12, <1>13, <1>14, <1>15, <1>16 DEF IInv

(* A confirmed gap: FLAG_AND_CONTINUE announces the hole, steps over it    *)
(* and applies the run behind it; HOLD announces it and waits.             *)
LEMMA GapKeeps == IInv /\ ConfirmGap => IInv' /\ Position <= Position'
<1> SUFFICES ASSUME IInv, ConfirmGap
             PROVE  IInv' /\ Position <= Position'
  OBVIOUS
<1>1. Shape
  BY DEF IInv, Shape
<1>2. /\ phase = "idle" /\ phase' = "idle" /\ exists /\ exists' /\ exists' = exists
      /\ acct.buf # {} /\ alarm <= watermark
      /\ acct' = AfterGap(acct)
      /\ applied' = applied \cup (acct.buf \ acct'.buf)
      /\ announced' = announced \cup Hole(acct)
      /\ alarm' = Alarm(acct', watermark, GapDefer) /\ row' = Merged(row, RowOf(acct'))
      /\ UNCHANGED <<watermark, rows, delivered, shed, dropped>>
  BY DEF ConfirmGap, Due
<1>3. Live /\ Live' /\ Pending = {} /\ Pending' = {}
  BY <1>2 DEF Live, Pending, IInv, StateShape
<1>4. /\ Position = acct.last /\ Position' = acct'.last /\ Balance = acct.bal /\ Balance' = acct'.bal
      /\ Buffered = acct.buf /\ Buffered' = acct'.buf
  BY <1>3 DEF Position, Balance, Buffered
<1>5. /\ acct \in Account /\ acct.last \in Nat /\ acct.last <= MaxSeq /\ acct.bal \in Int
      /\ acct.buf \in SUBSET Seqs /\ row \in BalanceRow /\ row.last \in Nat
      /\ watermark \in Nat /\ MaxSeq \in Nat
      /\ applied \in SUBSET Seqs /\ announced \in SUBSET Seqs /\ shed \in SUBSET Seqs
  BY <1>1, Pieces DEF IInv, TypeOK
<1>6. /\ \A b \in acct.buf : b > acct.last + 1
      /\ Cardinality(acct.buf) <= MaxBuffer
      /\ acct.bal = Total[applied]
      /\ 1..acct.last \subseteq applied \cup announced /\ applied \subseteq 1..acct.last
      /\ Policy = "FLAG_AND_CONTINUE" => announced \cap applied = {} /\ announced \subseteq 1..acct.last
      /\ \A v \in shed : v > acct.last =>
            Cardinality(acct.buf) = MaxBuffer /\ \A b \in acct.buf : v < b
      /\ delivered \subseteq applied \cup acct.buf \cup shed \cup dropped
      /\ row.last = acct.last /\ row.bal = acct.bal
      /\ acct.seen > 0 /\ alarm >= EarliestTs(acct.buf)
  BY <1>2, <1>3, <1>4 DEF IInv, BufferIsEarly, BalanceIsAppliedSum, EverySkipAnnounced, VerdictHolds,
     KeepsKLargest, NothingSilentlyDropped, RowFollowsLedger, AlarmFollowsState
<1> DEFINE h == Min(acct.buf)
<1>7. h \in acct.buf /\ (\A b \in acct.buf : h <= b) /\ h \in Nat /\ h <= MaxSeq /\ acct.last + 1 < h
  <2>1. acct.buf \in SUBSET Nat
    BY <1>5 DEF Seqs
  <2>2. h \in acct.buf /\ \A b \in acct.buf : h <= b
    BY <1>2, <2>1, MinFact
  <2> QED
    BY <1>5, <1>6, <2>2 DEF Seqs
<1>8. announced' = announced \cup ((acct.last + 1)..(h - 1))
  BY <1>2 DEF Hole
<1> HIDE DEF h
<1>9. announced' \in SUBSET Seqs
  <2>1. ((acct.last + 1)..(h - 1)) \in SUBSET Seqs
    BY <1>5, <1>7 DEF Seqs
  <2> QED
    BY <1>5, <1>8, <2>1
(* What the policy decides, as far as the rest needs it. *)
<1>10. /\ acct' \in Account /\ acct'.seen = acct.seen
       /\ acct.last <= acct'.last /\ acct'.last <= MaxSeq
       /\ acct'.buf \subseteq acct.buf
       /\ \A b \in acct'.buf : b > acct'.last + 1
       /\ acct'.bal = Total[applied']
       /\ applied' \in SUBSET Seqs /\ applied \subseteq applied'
       /\ 1..acct'.last \subseteq applied' \cup announced' /\ applied' \subseteq 1..acct'.last
       /\ Policy = "FLAG_AND_CONTINUE" => announced' \cap applied' = {} /\ announced' \subseteq 1..acct'.last
       /\ acct'.last = acct.last => acct'.bal = acct.bal
       /\ acct' = acct \/ h <= acct'.last
  <2>1. CASE Policy = "HOLD"
    <3>1. acct' = acct /\ applied' = applied
      BY <1>2, <2>1 DEF AfterGap
    <3> QED
      BY <1>5, <1>6, <1>8, <2>1, <3>1
  <2>2. CASE Policy # "HOLD"
    <3> DEFINE n == acct'.last
    <3>1. /\ acct' \in Account /\ acct'.seen = acct.seen
          /\ h <= n /\ n <= MaxSeq /\ h..n \subseteq acct.buf /\ n + 1 \notin acct.buf
          /\ acct'.buf = acct.buf \ (h..n)
          /\ acct'.bal = acct.bal + Total[h..n]
          /\ applied' = applied \cup h..n
      BY <1>1, <1>2, <2>2, GapEffect DEF h
    <3>2. n \in Nat
      BY <3>1 DEF Account
    <3> HIDE DEF n
    <3>3. acct.last < n /\ h..n \in SUBSET Seqs /\ h \in Nat
      BY <1>5, <1>7, <3>1, <3>2
    <3>4. Total[applied \cup h..n] = Total[applied] + Total[h..n]
      <4>1. applied \cap h..n = {}
        BY <1>5, <1>6, <1>7, <3>2
      <4> QED
        BY <1>5, <3>3, <4>1, TotalAdds
    <3>5. \A b \in acct'.buf : b > n + 1
      <4> SUFFICES ASSUME NEW b \in acct'.buf
                   PROVE  b > n + 1
        OBVIOUS
      <4>1. b \in acct.buf /\ b \notin h..n /\ b # n + 1 /\ b \in Nat /\ h <= b
        BY <1>5, <1>7, <3>1 DEF Seqs
      <4> QED
        BY <3>1, <3>2, <3>3, <4>1
    <3>6. 1..n = 1..acct.last \cup ((acct.last + 1)..(h - 1)) \cup h..n
      BY <1>5, <1>7, <3>1, <3>2, <3>3
    <3>7. 1..n \subseteq applied' \cup announced' /\ applied' \subseteq 1..n
      BY <1>6, <1>8, <3>1, <3>6
    <3>8. Policy = "FLAG_AND_CONTINUE" => announced' \cap applied' = {} /\ announced' \subseteq 1..n
      <4> SUFFICES ASSUME Policy = "FLAG_AND_CONTINUE"
                   PROVE  announced' \cap applied' = {} /\ announced' \subseteq 1..n
        OBVIOUS
      <4>1. announced \cap applied = {} /\ announced \subseteq 1..acct.last /\ applied \subseteq 1..acct.last
        BY <1>6
      <4>2. /\ ((acct.last + 1)..(h - 1)) \cap 1..acct.last = {}
            /\ ((acct.last + 1)..(h - 1)) \cap h..n = {}
            /\ 1..acct.last \cap h..n = {}
        BY <1>5, <1>7, <3>2
      <4>3. announced' \cap applied' = {}
        BY <1>8, <3>1, <4>1, <4>2
      <4>4. announced' \subseteq 1..n
        BY <1>8, <3>6, <4>1
      <4> QED
        BY <4>3, <4>4
    <3>9. acct'.buf \subseteq acct.buf /\ applied' \in SUBSET Seqs /\ applied \subseteq applied'
      BY <1>5, <3>1, <3>3
    <3>10. acct'.bal = Total[applied']
      BY <1>6, <3>1, <3>4
    <3>11. acct'.last = n
      BY DEF n
    <3>12. acct.last <= n /\ acct.last # n
      BY <1>5, <3>2, <3>3
    <3> QED
      BY <3>1, <3>5, <3>7, <3>8, <3>9, <3>10, <3>11, <3>12
  <2> QED
    BY <2>1, <2>2
<1>11. acct'.last \in Nat
  BY <1>10 DEF Account
<1>12. row' = RowOf(acct') /\ row' \in BalanceRow
  BY <1>2, <1>5, <1>6, <1>10, MergeFact
<1>13. row'.last = acct'.last /\ row'.bal = acct'.bal
  BY <1>12 DEF RowOf
<1>14. GapDefer \in Nat
  BY BoundsAssumption DEF GapDefer
<1>15. /\ alarm' \in Nat \cup {NoAlarm}
       /\ acct'.buf = {} => IF StateTtl = 0 THEN alarm' = NoAlarm ELSE alarm' >= acct'.seen + StateTtl
  BY <1>2, <1>5, <1>10, <1>14, AlarmFact
<1>16. acct'.buf # {} => alarm' >= EarliestTs(acct'.buf)
  <2> SUFFICES ASSUME acct'.buf # {}
               PROVE  alarm' >= EarliestTs(acct'.buf)
    OBVIOUS
  <2>1. CASE GapDefer = 0
    <3>1. IF GapDefer > 0 THEN Alarm(acct', watermark, GapDefer) = watermark + GapDefer
                          ELSE Alarm(acct', watermark, GapDefer) >= EarliestTs(acct'.buf)
      BY <1>5, <1>10, <1>14, AlarmFact
    <3> QED
      BY <1>2, <2>1, <3>1
  <2>2. CASE GapDefer > 0
    <3>1. acct' = acct
      BY <1>2, <2>2 DEF GapDefer, AfterGap
    <3>2. alarm' = watermark + GapDefer /\ EarliestTs(acct.buf) \in Nat
      BY <1>2, <1>5, <1>14, <2>2, <3>1, AlarmFact
    <3>3. alarm \in Nat \cup {NoAlarm} /\ alarm # NoAlarm
      BY DEF IInv, TypeOK, ConfirmGap, Due
    <3> QED
      BY <1>2, <1>5, <1>6, <1>14, <2>2, <3>1, <3>2, <3>3
  <2> QED
    BY <1>14, <2>1, <2>2
<1>17. TypeOK'
  <2>1. asserted' \in [lo : Nat, at : Nat]
    <3>1. asserted \in [lo : Nat, at : Nat]
      BY DEF IInv, TypeOK
    <3>2. asserted' = IF Policy = "HOLD" THEN [lo |-> acct.last + 1, at |-> watermark] ELSE asserted
      BY DEF ConfirmGap
    <3> QED
      BY <1>5, <3>1, <3>2
  <2> QED
    BY <1>2, <1>9, <1>10, <1>12, <1>15, <2>1 DEF IInv, TypeOK
<1>18. StateShape' /\ BufferIsEarly'
  <2>1. Cardinality(acct'.buf) <= MaxBuffer
    <3>1. IsFiniteSet(acct.buf) /\ Cardinality(acct.buf) \in Nat
      BY <1>5, SeqsFinite
    <3>2. IsFiniteSet(acct'.buf) /\ Cardinality(acct'.buf) <= Cardinality(acct.buf)
      BY <1>10, <3>1, FS_Subset
    <3>3. Cardinality(acct'.buf) \in Nat
      BY <3>2, FS_CardinalityType
    <3> QED
      BY <1>6, <3>1, <3>2, <3>3, BoundsAssumption
  <2> QED
    BY <1>3, <1>4, <1>10, <1>13, <2>1 DEF StateShape, BufferIsEarly
<1>19. BalanceIsAppliedSum' /\ EverySkipAnnounced' /\ VerdictHolds'
  BY <1>4, <1>10 DEF BalanceIsAppliedSum, EverySkipAnnounced, VerdictHolds
<1>20. NothingSilentlyDropped'
  <2>1. acct.buf \subseteq acct'.buf \cup applied'
    BY <1>2
  <2>2. delivered' \subseteq applied' \cup acct'.buf \cup shed' \cup dropped'
    BY <1>2, <1>6, <1>10, <2>1
  <2> QED
    BY <1>4, <2>2 DEF NothingSilentlyDropped
<1>21. KeepsKLargest'
  <2> SUFFICES ASSUME NEW v \in shed, v > acct'.last
               PROVE  Cardinality(acct'.buf) = MaxBuffer /\ \A b \in acct'.buf : v < b
    BY <1>2, <1>4 DEF KeepsKLargest
  <2>1. v \in Nat /\ v > acct.last
    BY <1>5, <1>10, <1>11 DEF Seqs
  <2>2. v < h
    BY <1>6, <1>7, <2>1
  <2>3. acct' = acct
    BY <1>7, <1>10, <1>11, <2>1, <2>2
  <2> QED
    BY <1>6, <2>1, <2>3
<1>22. RowFollowsLedger' /\ RowIsCurrent'
  BY <1>2, <1>3, <1>4, <1>11, <1>12, <1>13 DEF RowFollowsLedger, RowIsCurrent
<1>23. AlarmFollowsState'
  BY <1>2, <1>6, <1>10, <1>15, <1>16 DEF AlarmFollowsState
<1> QED
  BY <1>4, <1>10, <1>17, <1>18, <1>19, <1>20, <1>21, <1>22, <1>23 DEF IInv

(* A stuttering step changes nothing the invariant reads.                  *)
LEMMA StutterKeeps == IInv /\ UNCHANGED vars => IInv' /\ Position' = Position
<1> SUFFICES ASSUME IInv, UNCHANGED vars
             PROVE  IInv' /\ Position' = Position
  OBVIOUS
<1>1. UNCHANGED <<acct, exists, alarm, row, watermark, phase, rows, delivered, applied, announced,
                  shed, dropped, asserted>>
  BY DEF vars, state, history
<1>2. Live' = Live /\ Position' = Position /\ Balance' = Balance /\ Buffered' = Buffered
      /\ Pending' = Pending /\ Due' = Due
  BY <1>1 DEF Live, Position, Balance, Buffered, Pending, Due
<1>3. TypeOK' /\ StateShape' /\ BufferIsEarly'
  BY <1>1, <1>2 DEF IInv, TypeOK, StateShape, BufferIsEarly
<1>4. BalanceIsAppliedSum' /\ EverySkipAnnounced' /\ VerdictHolds' /\ NothingSilentlyDropped'
      /\ KeepsKLargest'
  BY <1>1, <1>2 DEF IInv, BalanceIsAppliedSum, EverySkipAnnounced, VerdictHolds,
                    NothingSilentlyDropped, KeepsKLargest
<1>5. RowFollowsLedger' /\ RowIsCurrent' /\ AlarmFollowsState'
  BY <1>1, <1>2 DEF IInv, RowFollowsLedger, RowIsCurrent, AlarmFollowsState
<1> QED
  BY <1>2, <1>3, <1>4, <1>5 DEF IInv

(* Every step keeps the invariant and never moves the ledger back.         *)
LEMMA NextKeeps == IInv /\ [Next]_vars => IInv' /\ Position <= Position'
<1> SUFFICES ASSUME IInv, [Next]_vars
             PROVE  IInv' /\ Position <= Position'
  OBVIOUS
<1>0. Position \in Nat
  BY Pieces DEF IInv, Shape
<1>1. CASE AdvanceWatermark
  <2>1. Position' = Position
    BY <1>1 DEF AdvanceWatermark, state, Position, Live
  <2> QED
    BY <1>0, <1>1, <2>1, AdvanceKeeps
<1>2. CASE BeginRows
  BY <1>0, <1>2, BeginKeeps
<1>3. CASE ApplyInOrder
  BY <1>3, InOrderKeeps
<1>4. CASE BufferEarly
  BY <1>0, <1>4, BufferKeeps
<1>5. CASE DropBuffered \/ DropReplayed
  BY <1>0, <1>5, DropKeeps
<1>6. CASE EvictLowest
  BY <1>0, <1>6, EvictKeeps
<1>7. CASE FinishRows
  BY <1>0, <1>7, FinishKeeps
<1>8. CASE ConfirmGap
  BY <1>8, GapKeeps
<1>9. CASE ExpireEmpty
  BY <1>0, <1>9, ExpireKeeps
<1>10. CASE UNCHANGED vars
  BY <1>0, <1>10, StutterKeeps
<1> QED
  BY <1>1, <1>2, <1>3, <1>4, <1>5, <1>6, <1>7, <1>8, <1>9, <1>10 DEF Next

(***************************************************************************)
(* The theorems                                                            *)
(***************************************************************************)

(* The inductive invariant holds throughout every behaviour.               *)
THEOREM InductiveInvariant == Spec => []IInv
<1>1. Init => IInv
  BY InitEstablishes
<1>2. IInv /\ [Next]_vars => IInv'
  BY NextKeeps
<1> QED
  BY <1>1, <1>2, PTL DEF Spec

(* The state tuple, the alarm and the balances row keep their types.       *)
THEOREM TypeCorrect == Spec => []TypeOK
<1>1. IInv => TypeOK
  BY DEF IInv
<1> QED
  BY <1>1, InductiveInvariant, PTL

(* The balance is the sum of the applied events, each counted once: drain, *)
(* duplicates, eviction, gaps, TTL release and rejoin neither lose nor     *)
(* repeat an amount (sequencer.py:37-171, gap_policy.py:12-71).            *)
THEOREM BalanceIsSound == Spec => []BalanceIsAppliedSum
<1>1. IInv => BalanceIsAppliedSum
  BY DEF IInv
<1> QED
  BY <1>1, InductiveInvariant, PTL

(* Every seq the ledger passed was applied or announced lost.              *)
THEOREM SkipsAreAnnounced == Spec => []EverySkipAnnounced
<1>1. IInv => EverySkipAnnounced
  BY DEF IInv
<1> QED
  BY <1>1, InductiveInvariant, PTL

(* Under FLAG_AND_CONTINUE no event reported lost is ever applied.         *)
THEOREM VerdictIsFinal == Spec => []VerdictHolds
<1>1. IInv => VerdictHolds
  BY DEF IInv
<1> QED
  BY <1>1, InductiveInvariant, PTL

(* Every delivered event is accounted for.                                 *)
THEOREM NothingIsLost == Spec => []NothingSilentlyDropped
<1>1. IInv => NothingSilentlyDropped
  BY DEF IInv
<1> QED
  BY <1>1, InductiveInvariant, PTL

(* Under overflow the buffer holds the largest early events, whatever the  *)
(* order of arrival (the claim at sequencer.py:104-107).                   *)
THEOREM LargestAreKept == Spec => []KeepsKLargest
<1>1. IInv => KeepsKLargest
  BY DEF IInv
<1> QED
  BY <1>1, InductiveInvariant, PTL

(* The buffer respects its cap and is always fully drained.                *)
THEOREM BufferIsBounded == Spec => []BufferIsEarly
<1>1. IInv => BufferIsEarly
  BY DEF IInv
<1> QED
  BY <1>1, InductiveInvariant, PTL

(* The guarded MERGE keeps the balances row equal to the live state.       *)
THEOREM TableIsCurrent == Spec => []RowIsCurrent
<1>1. IInv => RowIsCurrent
  BY DEF IInv
<1> QED
  BY <1>1, InductiveInvariant, PTL

(* The single timeout slot is never stale: with nothing buffered, only the *)
(* TTL alarm of an idle account can expire (sequencer.py:58-72).           *)
THEOREM AlarmsAreFresh == Spec => []NoStaleAlarm
<1>1. IInv => NoStaleAlarm
  <2> SUFFICES ASSUME IInv, Due, acct.buf = {}
               PROVE  Idle(acct, watermark)
    BY DEF NoStaleAlarm
  <2>1. phase = "idle" /\ exists /\ alarm # NoAlarm /\ alarm <= watermark
    BY DEF Due
  <2>2. acct.seen > 0 /\ IF StateTtl = 0 THEN alarm = NoAlarm ELSE alarm >= acct.seen + StateTtl
    BY <2>1 DEF IInv, AlarmFollowsState
  <2>3. acct.seen \in Nat /\ StateTtl \in Nat /\ watermark \in Nat /\ alarm \in Nat
    BY <2>1, Pieces, BoundsAssumption DEF IInv, TypeOK, Shape
  <2> QED
    BY <2>1, <2>2, <2>3 DEF Idle
<1> QED
  BY <1>1, InductiveInvariant, PTL

(* Every invocation that leaves the gap open sets the alarm anew, and a    *)
(* later watermark only moves what it is compared with.                    *)
LEMMA NextKeepsArmed == IInv /\ IInv' /\ OpenGapIsArmed /\ [Next]_vars => OpenGapIsArmed'
<1> SUFFICES ASSUME IInv, IInv', OpenGapIsArmed, [Next]_vars,
                    phase' = "idle", exists', acct'.buf # {}
             PROVE  /\ alarm' # NoAlarm
                    /\ Policy = "FLAG_AND_CONTINUE" =>
                          alarm' <= Max({EarliestTs(acct'.buf), watermark' + 1})
  BY DEF OpenGapIsArmed
<1>1. /\ acct \in Account /\ watermark \in Nat
      /\ acct' \in Account /\ watermark' \in Nat /\ alarm' \in Nat \cup {NoAlarm}
  BY DEF IInv, TypeOK
<1>2. EarliestTs(acct'.buf) \in Nat
  BY <1>1, AlarmFact
<1>3. alarm' \in Nat /\ alarm' # NoAlarm
  BY <1>1, <1>2 DEF IInv, AlarmFollowsState, NoAlarm
<1>4. ASSUME Policy = "FLAG_AND_CONTINUE"
      PROVE  alarm' <= Max({EarliestTs(acct'.buf), watermark' + 1})
  <2>1. ASSUME alarm' = Alarm(acct', watermark', 0)
        PROVE  alarm' <= Max({EarliestTs(acct'.buf), watermark' + 1})
    <3>1. alarm' = Max({EarliestTs(acct'.buf), watermark' + 1})
      BY <2>1 DEF Alarm
    <3> QED
      BY <1>3, <3>1
  <2>2. ASSUME acct' = acct, exists' = exists, alarm' = alarm, phase' = phase,
               watermark <= watermark'
        PROVE  alarm' <= Max({EarliestTs(acct'.buf), watermark' + 1})
    <3> DEFINE e == EarliestTs(acct.buf)
    <3>1. alarm <= Max({e, watermark + 1})
      BY <1>4, <2>2 DEF OpenGapIsArmed
    <3>2. e \in Int
      BY <1>2, <2>2
    <3> HIDE DEF e
    <3>3. watermark \in Int /\ watermark' \in Int /\ alarm \in Int
      BY <1>1, <1>3, <2>2
    <3>4. alarm <= Max({e, watermark' + 1})
      BY <2>2, <3>1, <3>2, <3>3, MaxGrows
    <3> QED
      BY <2>2, <3>4 DEF e
  <2>3. CASE AdvanceWatermark
    <3>1. watermark <= watermark'
      BY <1>1, <2>3 DEF AdvanceWatermark
    <3> QED
      BY <2>2, <2>3, <3>1 DEF AdvanceWatermark, state
  <2>4. CASE BeginRows
    BY <2>4 DEF BeginRows
  <2>5. CASE TakeRow
    BY <2>5 DEF TakeRow, ApplyInOrder, BufferEarly, DropBuffered, EvictLowest, DropReplayed, Taking
  <2>6. CASE FinishRows
    BY <2>1, <2>6 DEF FinishRows
  <2>7. CASE ConfirmGap
    <3>1. GapDefer = 0
      BY <1>4 DEF GapDefer
    <3> QED
      BY <2>1, <2>7, <3>1 DEF ConfirmGap
  <2>8. CASE ExpireEmpty
    <3>1. ~exists' \/ acct' = acct
      BY <2>8 DEF ExpireEmpty
    <3> QED
      BY <2>8, <3>1 DEF ExpireEmpty
  <2>9. CASE UNCHANGED vars
    <3>1. /\ acct' = acct /\ exists' = exists /\ alarm' = alarm /\ phase' = phase
          /\ watermark' = watermark
      BY <2>9 DEF vars, state
    <3>2. watermark <= watermark'
      BY <1>1, <3>1
    <3> QED
      BY <2>2, <3>1, <3>2
  <2> QED
    BY <2>3, <2>4, <2>5, <2>6, <2>7, <2>8, <2>9 DEF Next, TakeRow
<1> QED
  BY <1>3, <1>4

(* An open gap has an alarm, under FLAG_AND_CONTINUE that of its earliest  *)
(* event or the next watermark: the slot never still holds the later alarm *)
(* of the TTL (sequencer.py:58-72,147-150).                                *)
THEOREM OpenGapsAreArmed == Spec => []OpenGapIsArmed
<1>1. Init => OpenGapIsArmed
  BY DEF Init, OpenGapIsArmed
<1>2. IInv /\ IInv' /\ OpenGapIsArmed /\ [Next]_vars => OpenGapIsArmed'
  BY NextKeepsArmed
<1> QED
  BY <1>1, <1>2, InductiveInvariant, PTL DEF Spec

(* HOLD applies a prefix: with nothing stepped over, the applied events    *)
(* are exactly those up to the ledger's position.                          *)
THEOREM HoldAppliesAPrefix == Spec => []HoldAppliesPrefix
<1>1. Init => HoldAppliesPrefix
  BY DEF Init, HoldAppliesPrefix, Position, Live, NoRow
<1>2. IInv /\ HoldAppliesPrefix /\ [Next]_vars => HoldAppliesPrefix'
  <2> SUFFICES ASSUME IInv, HoldAppliesPrefix, [Next]_vars, Policy = "HOLD"
               PROVE  applied' = 1..Position'
    BY DEF HoldAppliesPrefix
  <2>0. applied = 1..Position
    BY DEF HoldAppliesPrefix
  <2>1. CASE ApplyInOrder
    <3>1. Shape
      BY DEF IInv, Shape
    <3>2. PICK s \in Seqs : /\ Taking(s) /\ InOrder(acct, s) /\ acct' = AfterInOrder(acct, s)
                            /\ applied' = applied \cup {s} \cup (acct.buf \ acct'.buf)
      BY <2>1 DEF ApplyInOrder
    <3>3. /\ acct' \in Account /\ s = acct.last + 1 /\ s <= acct'.last
          /\ applied' = applied \cup s..acct'.last
      BY <3>1, <3>2, InOrderEffect
    <3>4. Position = acct.last /\ Position' = acct'.last
      BY <3>1, <3>2, TakingFact
    <3>5. acct.last \in Nat /\ acct'.last \in Nat
      BY <3>1, <3>3, Pieces DEF Account
    <3> QED
      BY <2>0, <3>3, <3>4, <3>5
  <2>2. CASE ConfirmGap
    <3>1. /\ acct' = acct
          /\ applied' = applied \cup (acct.buf \ acct'.buf)
          /\ Live /\ Live'
      BY <2>2 DEF ConfirmGap, AfterGap, Due, Live
    <3>2. Position' = Position /\ applied' = applied
      BY <2>2, <3>1 DEF Position, Live, ConfirmGap, Due
    <3> QED
      BY <2>0, <3>2
  <2>3. CASE AdvanceWatermark
    BY <2>0, <2>3 DEF AdvanceWatermark, state, history, Position, Live
  <2>4. CASE BeginRows
    BY <2>0, <2>4, BeginKeeps DEF BeginRows
  <2>5. CASE BufferEarly
    BY <2>0, <2>5, BufferKeeps DEF BufferEarly
  <2>6. CASE DropBuffered \/ DropReplayed
    BY <2>0, <2>6, DropKeeps DEF DropBuffered, DropReplayed
  <2>7. CASE EvictLowest
    BY <2>0, <2>7, EvictKeeps DEF EvictLowest
  <2>8. CASE FinishRows
    BY <2>0, <2>8, FinishKeeps DEF FinishRows, history
  <2>9. CASE ExpireEmpty
    BY <2>0, <2>9, ExpireKeeps DEF ExpireEmpty, history
  <2>10. CASE UNCHANGED vars
    BY <2>0, <2>10, StutterKeeps DEF vars, history
  <2> QED
    BY <2>1, <2>2, <2>3, <2>4, <2>5, <2>6, <2>7, <2>8, <2>9, <2>10 DEF Next
<1> QED
  BY <1>1, <1>2, InductiveInvariant, PTL DEF Spec

(* The ledger never moves back, release and rejoin included.               *)
THEOREM LedgerIsMonotone == Spec => LedgerNeverRegresses
<1>1. IInv /\ [Next]_vars => Position <= Position'
  BY NextKeeps
<1>2. IInv /\ [Next]_vars => [Position <= Position']_vars
  BY <1>1
<1> QED
  BY <1>2, InductiveInvariant, PTL DEF Spec, LedgerNeverRegresses

(* "Late, not lost": no gap is announced before the watermark has passed   *)
(* the earliest event held behind it.                                      *)
THEOREM GapsWaitForWatermark == Spec => NoGapBeforeWatermark
<1>1. IInv /\ [Next]_vars => [announced' # announced => watermark >= EarliestTs(acct.buf)]_vars
  <2> SUFFICES ASSUME IInv, [Next]_vars, announced' # announced
               PROVE  watermark >= EarliestTs(acct.buf)
    OBVIOUS
  <2>1. ConfirmGap
    BY DEF Next, AdvanceWatermark, BeginRows, ApplyInOrder, BufferEarly, DropBuffered, EvictLowest,
           DropReplayed, Taking, FinishRows, ExpireEmpty, vars, history
  <2>2. phase = "idle" /\ exists /\ acct.buf # {} /\ alarm <= watermark /\ alarm # NoAlarm
    BY <2>1 DEF ConfirmGap, Due
  <2>3. alarm >= EarliestTs(acct.buf) /\ alarm \in Nat /\ watermark \in Nat
    BY <2>2 DEF IInv, AlarmFollowsState, TypeOK
  <2>4. EarliestTs(acct.buf) \in Nat
    BY <2>2, <2>3, Pieces, AlarmFact DEF IInv, Shape
  <2> QED
    BY <2>2, <2>3, <2>4
<1> QED
  BY <1>1, InductiveInvariant, PTL DEF Spec, NoGapBeforeWatermark

(* setTimeoutTimestamp is never handed a value at or below the watermark.  *)
THEOREM AlarmsAreAhead == Spec => AlarmAheadWhenSet
<1>1. IInv /\ [Next]_vars => [alarm' # alarm /\ alarm' # NoAlarm => alarm' > watermark]_vars
  <2> SUFFICES ASSUME IInv, [Next]_vars, alarm' # alarm, alarm' # NoAlarm
               PROVE  alarm' > watermark
    OBVIOUS
  <2>1. FinishRows \/ ConfirmGap \/ ExpireEmpty
    BY DEF Next, AdvanceWatermark, BeginRows, ApplyInOrder, BufferEarly, DropBuffered, EvictLowest,
           DropReplayed, Taking, state, vars
  <2>2. acct \in Account /\ acct' \in Account /\ watermark \in Nat
    BY NextKeeps DEF IInv, TypeOK
  <2>3. GapDefer \in Nat
    BY BoundsAssumption DEF GapDefer
  <2>4. \/ alarm' = Alarm(acct, watermark, 0)
        \/ alarm' = Alarm(acct', watermark, GapDefer)
    BY <2>1 DEF FinishRows, ConfirmGap, ExpireEmpty
  <2> QED
    BY <2>2, <2>3, <2>4, AlarmFact
<1> QED
  BY <1>1, InductiveInvariant, PTL DEF Spec, AlarmAheadWhenSet

(***************************************************************************)
(* The account implements Ledger                                           *)
(***************************************************************************)

(* Applying new events up to the new position is a step of Ledger: the     *)
(* invariant says both balances are sums, and sums of disjoint sets add.   *)
LEMMA SettleFact ==
    ASSUME IInv, IInv', NEW taken \in SUBSET ((Position + 1)..Position'),
           Position' \in taken, applied' = applied \cup taken,
           Policy = "HOLD" => taken = (Position + 1)..Position'
    PROVE  L!Settle
<1>1. Position \in Nat /\ Position' \in Nat /\ MaxSeq \in Nat
  <2>1. Position \in Nat /\ MaxSeq \in Nat
    BY Pieces DEF IInv, Shape
  <2>2. acct'.last \in Nat /\ row'.last \in Nat
    BY DEF IInv, TypeOK, Account, BalanceRow
  <2> QED
    BY <2>1, <2>2 DEF Position
<1>2. applied \in SUBSET Seqs /\ applied' \in SUBSET Seqs
  BY DEF IInv, TypeOK
<1>3. taken \in SUBSET Seqs /\ Position' \in (Position + 1)..MaxSeq
  <2>1. taken \subseteq applied'
    OBVIOUS
  <2> QED
    BY <1>1, <1>2, <2>1 DEF Seqs
<1>4. applied \cap taken = {}
  <2>1. applied \subseteq 1..Position
    BY DEF IInv, EverySkipAnnounced
  <2> QED
    BY <1>1, <2>1
<1>5. Balance = Total[applied] /\ Balance' = Total[applied']
  BY DEF IInv, BalanceIsAppliedSum
<1>6. Total[applied'] = Total[applied] + Total[taken]
  BY <1>2, <1>3, <1>4, TotalAdds
<1>7. Balance' = Balance + Total[taken]
  BY <1>5, <1>6
<1> QED
  BY <1>3, <1>7 DEF L!Settle

(* A step that applies nothing and moves nothing leaves the ledger alone.  *)
LEMMA LedgerUnmoved ==
    ASSUME IInv, IInv', Position' = Position, applied' = applied
    PROVE  UNCHANGED L!ledger
<1>1. Balance' = Balance
  BY DEF IInv, BalanceIsAppliedSum
<1> QED
  BY <1>1 DEF L!ledger

(* In-order application settles the event and the run drained behind it.   *)
LEMMA InOrderSettles == IInv /\ IInv' /\ ApplyInOrder => L!Settle
<1> SUFFICES ASSUME IInv, IInv', ApplyInOrder
             PROVE  L!Settle
  OBVIOUS
<1>1. Shape
  BY DEF IInv, Shape
<1>2. PICK s \in Seqs : /\ Taking(s) /\ InOrder(acct, s) /\ acct' = AfterInOrder(acct, s)
                        /\ applied' = applied \cup {s} \cup (acct.buf \ acct'.buf)
  BY DEF ApplyInOrder
<1>3. /\ acct' \in Account /\ s = acct.last + 1 /\ s <= acct'.last
      /\ applied' = applied \cup s..acct'.last
  BY <1>1, <1>2, InOrderEffect
<1>4. Position = acct.last /\ Position' = acct'.last
  BY <1>1, <1>2, TakingFact
<1>5. acct.last \in Nat /\ acct'.last \in Nat
  BY <1>1, <1>3, Pieces DEF Account
<1>6. /\ Position' \in (Position + 1)..Position'
      /\ applied' = applied \cup (Position + 1)..Position'
  BY <1>3, <1>4, <1>5
<1> DEFINE taken == (Position + 1)..Position'
<1>7. taken \in SUBSET ((Position + 1)..Position') /\ Position' \in taken
      /\ applied' = applied \cup taken
  BY <1>6
<1> QED
  BY <1>7, SettleFact

(* A confirmed gap settles the run behind the hole, or, under HOLD, none.  *)
LEMMA GapSettles == IInv /\ IInv' /\ ConfirmGap => L!Settle \/ UNCHANGED L!ledger
<1> SUFFICES ASSUME IInv, IInv', ConfirmGap
             PROVE  L!Settle \/ UNCHANGED L!ledger
  OBVIOUS
<1>1. Shape
  BY DEF IInv, Shape
<1>2. /\ acct.buf # {} /\ acct' = AfterGap(acct)
      /\ applied' = applied \cup (acct.buf \ acct'.buf)
      /\ Live /\ Live'
  BY DEF ConfirmGap, Due, Live
<1>3. Position = acct.last /\ Position' = acct'.last
  BY <1>2 DEF Position
<1>4. CASE Policy = "HOLD"
  <2>1. acct' = acct
    BY <1>2, <1>4 DEF AfterGap
  <2>2. Position' = Position /\ applied' = applied
    BY <1>2, <1>3, <2>1
  <2> QED
    BY <2>2, LedgerUnmoved
<1>5. CASE Policy # "HOLD"
  <2> DEFINE h == Min(acct.buf)
             taken == h..acct'.last
  <2>1. /\ acct' \in Account /\ h \in acct.buf /\ acct.last + 1 < h /\ h <= acct'.last
        /\ applied' = applied \cup taken
    BY <1>1, <1>2, <1>5, GapEffect
  <2>2. h \in Nat /\ acct.last \in Nat /\ acct'.last \in Nat
    BY <1>1, <2>1, Pieces DEF Seqs, Account
  <2> HIDE DEF h
  <2>3. taken \in SUBSET ((Position + 1)..Position') /\ Position' \in taken
    BY <1>3, <2>1, <2>2
  <2> QED
    BY <1>5, <2>1, <2>3, SettleFact
<1> QED
  BY <1>4, <1>5

(* The state tuple, while the key is live, and the balances row, while it  *)
(* is released, implement Ledger: every step settles new events in order   *)
(* or leaves position, balance and settled events alone.                   *)
THEOREM AccountImplementsLedger == Spec => ImplementsLedger
<1>1. Init => L!Init
  BY DEF Init, L!Init, Position, Balance, Live, NoRow
<1>2. IInv /\ IInv' /\ [Next]_vars => [L!Settle]_L!ledger
  <2> SUFFICES ASSUME IInv, IInv', [Next]_vars
               PROVE  L!Settle \/ UNCHANGED L!ledger
    OBVIOUS
  <2>1. CASE ApplyInOrder
    BY <2>1, InOrderSettles
  <2>2. CASE ConfirmGap
    BY <2>2, GapSettles
  <2>3. CASE AdvanceWatermark
    <3>1. Position' = Position /\ applied' = applied
      BY <2>3 DEF AdvanceWatermark, state, history, Position, Live
    <3> QED
      BY <3>1, LedgerUnmoved
  <2>4. CASE BeginRows
    <3>1. Position' = Position /\ applied' = applied
      BY <2>4, BeginKeeps DEF BeginRows
    <3> QED
      BY <3>1, LedgerUnmoved
  <2>5. CASE BufferEarly
    <3>1. Position' = Position /\ applied' = applied
      BY <2>5, BufferKeeps DEF BufferEarly
    <3> QED
      BY <3>1, LedgerUnmoved
  <2>6. CASE DropBuffered \/ DropReplayed
    <3>1. Position' = Position /\ applied' = applied
      BY <2>6, DropKeeps DEF DropBuffered, DropReplayed
    <3> QED
      BY <3>1, LedgerUnmoved
  <2>7. CASE EvictLowest
    <3>1. Position' = Position /\ applied' = applied
      BY <2>7, EvictKeeps DEF EvictLowest
    <3> QED
      BY <3>1, LedgerUnmoved
  <2>8. CASE FinishRows
    <3>1. Position' = Position /\ applied' = applied
      BY <2>8, FinishKeeps DEF FinishRows, history
    <3> QED
      BY <3>1, LedgerUnmoved
  <2>9. CASE ExpireEmpty
    <3>1. Position' = Position /\ applied' = applied
      BY <2>9, ExpireKeeps DEF ExpireEmpty, history
    <3> QED
      BY <3>1, LedgerUnmoved
  <2>10. CASE UNCHANGED vars
    <3>1. Position' = Position /\ applied' = applied
      BY <2>10, StutterKeeps DEF vars, history
    <3> QED
      BY <3>1, LedgerUnmoved
  <2> QED
    BY <2>1, <2>2, <2>3, <2>4, <2>5, <2>6, <2>7, <2>8, <2>9, <2>10 DEF Next
<1> QED
  BY <1>1, <1>2, InductiveInvariant, PTL DEF Spec, ImplementsLedger, L!Spec
=============================================================================
