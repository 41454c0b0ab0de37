------------------------ MODULE BalanceEngineProofs ------------------------
(***************************************************************************)
(* Proofs about BalanceEngine, for every value of its constants.           *)
(***************************************************************************)
EXTENDS BalanceEngine, BatchProofs

(***************************************************************************)
(* The sinks                                                               *)
(***************************************************************************)

(* The four sinks of a batch.                                              *)
Sinks(t) == [integrity |-> t.integrity, topic |-> t.topic, dlq |-> t.dlq, signals |-> t.signals]

Follows(t) == t = Sinks(t) /\ t.topic \cup t.dlq \cup t.signals \subseteq t.integrity

(* A step of the sink that has come to the topics has the whole of what    *)
(* the attempt computed in the table.  After a crash nothing is said: the  *)
(* next attempt goes through the table again.                              *)
SinkInv ==
    /\ Follows(trail)
    /\ pc \in {"publish", "dlq", "signals"} => Records(out) \subseteq trail.integrity

LEMMA KindFact ==
    ASSUME NEW recs, NEW kind
    PROVE  OfKind(recs, kind) \subseteq recs
BY DEF OfKind

(* From t to u one of the topics gained p.                                 *)
Gains(t, u, p) ==
    \/ u = [t EXCEPT !.topic = @ \cup p]
    \/ u = [t EXCEPT !.dlq = @ \cup p]
    \/ u = [t EXCEPT !.signals = @ \cup p]

(* What a Kafka write adds to a topic is in the table already.             *)
LEMMA PublishFact ==
    ASSUME NEW t, Follows(t), NEW p, p \subseteq t.integrity, NEW u, Gains(t, u, p)
    PROVE  Follows(u) /\ u.integrity = t.integrity
<1>1. t = Sinks(t)
  BY DEF Follows
<1>2. Gains(Sinks(t), u, p)
  BY <1>1, Zenon
<1>3. \/ u = [Sinks(t) EXCEPT !.topic = @ \cup p]
      \/ u = [Sinks(t) EXCEPT !.dlq = @ \cup p]
      \/ u = [Sinks(t) EXCEPT !.signals = @ \cup p]
  BY <1>2 DEF Gains
<1> QED
  BY <1>3 DEF Follows, Sinks

LEMMA AppendFact ==
    ASSUME NEW t, Follows(t), NEW recs
    PROVE  /\ Follows([t EXCEPT !.integrity = @ \cup recs])
           /\ recs \subseteq [t EXCEPT !.integrity = @ \cup recs].integrity
<1>1. t = Sinks(t)
  BY DEF Follows
<1>2. [t EXCEPT !.integrity = @ \cup recs] = [Sinks(t) EXCEPT !.integrity = @ \cup recs]
  BY <1>1, Zenon
<1> QED
  BY <1>2 DEF Follows, Sinks

LEMMA SinkKeeps == SinkInv /\ [Next]_vars => SinkInv'
<1> SUFFICES ASSUME SinkInv, [Next]_vars
             PROVE  SinkInv'
  OBVIOUS
<1> DEFINE recs == Records(out)
           over == OfKind(recs, "BUFFER_OVERFLOW")
           gaps == OfKind(recs, "SEQUENCE_GAP")
<1>1. Follows(trail)
  BY DEF SinkInv
<1>2. over \subseteq recs /\ gaps \subseteq recs
  <2> HIDE DEF recs
  <2> QED
    BY KindFact
<1>3. CASE PlanBatch
  <2>1. Follows(NoTrail)
    BY DEF Follows, Sinks, NoTrail
  <2> QED
    BY <1>3, <2>1 DEF PlanBatch, SinkInv
<1>4. CASE ExecuteBatch
  BY <1>1, <1>4 DEF ExecuteBatch, SinkInv, sinks
<1>5. CASE MergeBalances
  <2>1. pc' \in {"commit", "append"} /\ trail' = trail
    BY <1>5 DEF MergeBalances, AfterMerge
  <2> QED
    BY <1>1, <2>1 DEF SinkInv
<1>6. CASE AppendIntegrity
  <2>1. trail' = [trail EXCEPT !.integrity = @ \cup recs] /\ out' = out /\ pc' = "publish"
    BY <1>6 DEF AppendIntegrity
  <2>2. Records(out)' = recs
    BY <2>1 DEF Records
  <2> HIDE DEF recs
  <2>3. Follows(trail') /\ recs \subseteq trail'.integrity
    BY <1>1, <2>1, AppendFact
  <2> QED
    BY <2>2, <2>3 DEF SinkInv, Follows, Sinks
<1>7. CASE PublishIntegrity \/ PublishOverflow \/ PublishGaps
  <2>1. pc \in {"publish", "dlq", "signals"} /\ out' = out
    BY <1>7 DEF PublishIntegrity, PublishOverflow, PublishGaps
  <2>2. Records(out)' = recs
    BY <2>1 DEF Records
  <2>3. \E p \in {recs, over, gaps} : Gains(trail, trail', p)
    BY <1>7 DEF PublishIntegrity, PublishOverflow, PublishGaps, Gains
  <2>4. recs \subseteq trail.integrity
    BY <2>1 DEF SinkInv
  <2> HIDE DEF recs, over, gaps
  <2>5. over \subseteq trail.integrity /\ gaps \subseteq trail.integrity
    BY <1>2, <2>4
  <2>6. Follows(trail') /\ trail'.integrity = trail.integrity
    BY <1>1, <2>3, <2>4, <2>5, PublishFact
  <2> QED
    BY <2>2, <2>4, <2>6 DEF SinkInv, Follows, Sinks
<1>8. CASE CommitBatch
  BY <1>1, <1>8 DEF CommitBatch, SinkInv, sinks
<1>9. CASE Crash
  <2>1. trail' \in Landing /\ pc' = "down"
    BY <1>9 DEF Crash
  <2>2. pc \in {"publish", "dlq", "signals"} => recs \subseteq trail.integrity
    BY DEF SinkInv
  <2> HIDE DEF recs, over, gaps
  <2>3. \/ trail' = trail
        \/ /\ pc \in {"publish", "dlq", "signals"}
           /\ \E p \in SUBSET recs : Gains(trail, trail', p)
    <3>1. CASE pc = "publish"
      BY <2>1, <3>1 DEF Landing, Gains, recs
    <3>2. CASE pc = "dlq"
      <4>1. \E p \in SUBSET over : Gains(trail, trail', p)
        BY <2>1, <3>2 DEF Landing, Gains, recs, over
      <4> QED
        BY <1>2, <3>2, <4>1
    <3>3. CASE pc = "signals"
      <4>1. \E p \in SUBSET gaps : Gains(trail, trail', p)
        BY <2>1, <3>3 DEF Landing, Gains, recs, gaps
      <4> QED
        BY <1>2, <3>3, <4>1
    <3>4. CASE pc \notin {"publish", "dlq", "signals"}
      BY <2>1, <3>4 DEF Landing
    <3> QED
      BY <3>1, <3>2, <3>3, <3>4
  <2>4. Follows(trail')
    BY <1>1, <2>2, <2>3, PublishFact
  <2> QED
    BY <2>1, <2>4 DEF SinkInv, Follows, Sinks
<1>10. CASE Restart
  BY <1>1, <1>10 DEF Restart, SinkInv, sinks
<1>11. CASE UNCHANGED vars
  <2>1. pc' = pc /\ out' = out /\ trail' = trail
    BY <1>11 DEF vars, sinks, driver
  <2> QED
    BY <2>1 DEF SinkInv, Records
<1> QED
  BY <1>3, <1>4, <1>5, <1>6, <1>7, <1>8, <1>9, <1>10, <1>11 DEF Next

(* Nothing is on a topic that the integrity table does not have, over any  *)
(* number of crashes between the writes or inside one (sinks.py:127-156).  *)
THEOREM TableComesFirst == Spec => []TopicsFollowTable
<1>1. Init => SinkInv
  BY DEF Init, SinkInv, Follows, Sinks, NoTrail
<1>2. SinkInv /\ [Next]_vars => SinkInv'
  BY SinkKeeps
<1>3. SinkInv => TopicsFollowTable
  BY DEF SinkInv, Follows, TopicsFollowTable
<1> QED
  BY <1>1, <1>2, <1>3, PTL DEF Spec
(***************************************************************************)
(* The table and the state                                                 *)
(***************************************************************************)

Posting == {"append", "publish", "dlq", "signals", "commit"}

Running == {"execute", "merge"} \cup Posting

(* The values the proof needs to know.                                     *)
Typed ==
    /\ pc \in Running \cup {"idle", "down"}
    /\ plan.tick \in Nat
    /\ \A a \in Accounts : Ordered(plan.rows[a])
    /\ watermark \in Nat /\ nextWatermark \in Nat
    /\ pc = "idle" => ~ plan.open
    /\ pc \in Running => plan.open

(* A row of the table is the sum of the events posted to it.               *)
Accounted(a) ==
    /\ table[a] \in BalanceRow /\ table[a].last <= MaxSeq
    /\ posted[a] \in SUBSET (1..table[a].last)
    /\ table[a].bal = Total[posted[a]]

(* What a later attempt made of an account is what the first attempt did,  *)
(* but for more DUP_DROPPED.                                               *)
Repeats(r, f) == r.key = f.key /\ r.row = f.row /\ f.recs \subseteq r.recs

(* Before its rows are merged a batch starts from a state and a table that *)
(* agree, and whoever ran it first computed what is computed now.          *)
Fresh(a) ==
    /\ Agree(keys[a], table[a])
    /\ first = NoOut \/ first[a] = Invocation(a)

(* Once they are merged the table is where the batch ends: it is computed  *)
(* again to the same end, and merged again without effect.                 *)
Done(a) ==
    /\ first = NoOut \/ Repeats(Invocation(a), first[a])
    /\ Left(table[a], Invocation(a)) = table[a]
    /\ Agree(Invocation(a).key, table[a])

(* The attempt that is running.                                            *)
Attempt(a) ==
    /\ pc = "merge" => out[a] = Invocation(a)
    /\ pc \in Posting => out[a].key = Invocation(a).key /\ Done(a)
    /\ pc \in Posting \cup {"merge"} => Repeats(out[a], first[a])

BatchInv ==
    /\ Typed
    /\ \A a \in Accounts : Accounted(a)
    /\ ~ plan.open => \A a \in Accounts : Agree(keys[a], table[a])
    /\ plan.open => (\A a \in Accounts : Fresh(a)) \/ (\A a \in Accounts : Done(a))
    /\ \A a \in Accounts : Attempt(a)

LEMMA BatchesFact ==
    ASSUME NEW rows \in Batches
    PROVE  \A a \in Accounts : Ordered(rows[a])
<1> SUFFICES ASSUME NEW a \in Accounts
             PROVE  Ordered(rows[a])
  OBVIOUS
<1>1. rows[a] \in Sorted
  BY DEF Batches
<1>2. rows[a] \in BoundedSeq(Seqs, MaxRows) /\ \A i, j \in DOMAIN rows[a] : i < j => rows[a][i] <= rows[a][j]
  BY <1>1 DEF Sorted
<1>3. PICK m \in 0..MaxRows : rows[a] \in [1..m -> Seqs]
  BY <1>2 DEF BoundedSeq, SeqOf
<1>4. rows[a] \in Seq(Seqs)
  BY <1>3, EngineAssumption, SMT
<1> QED
  BY <1>2, <1>4 DEF Ordered

LEMMA InitBatch == Init => BatchInv
<1> SUFFICES ASSUME Init
             PROVE  BatchInv
  OBVIOUS
<1>1. Typed
  <2>1. \A a \in Accounts : Ordered(plan.rows[a])
    BY DEF Init, NoPlan, Ordered
  <2> QED
    BY <2>1 DEF Init, Typed, NoPlan, Running, Posting
<1>2. \A a \in Accounts : Accounted(a)
  <2>1. NoRow \in BalanceRow /\ NoRow.last = 0 /\ NoRow.bal = 0
    BY DEF NoRow, BalanceRow
  <2> QED
    BY <2>1, BoundsAssumption, TotalAssumption DEF Init, Accounted
<1>3. \A a \in Accounts : Agree(keys[a], table[a])
  <2>1. ColdKey \in Key /\ Sound(ColdKey.acct) /\ ColdKey.exists = FALSE
    BY BoundsAssumption DEF ColdKey, EmptyAccount, Sound, Account, Key
  <2>2. NoRow \in BalanceRow /\ NoRow.last = 0 /\ NoRow.bal = 0
    BY DEF NoRow, BalanceRow
  <2>3. Agree(ColdKey, NoRow)
    BY <2>1, <2>2, BoundsAssumption DEF Agree
  <2> QED
    BY <2>3 DEF Init
<1>4. \A a \in Accounts : Attempt(a)
  BY DEF Init, Attempt, Posting
<1>5. ~ plan.open
  BY DEF Init, NoPlan
<1> QED
  BY <1>1, <1>2, <1>3, <1>4, <1>5 DEF BatchInv

(* A step that changes neither state nor table nor plan.                   *)
LEMMA BatchRests ==
    ASSUME BatchInv, UNCHANGED <<keys, plan, watermark, nextWatermark, table, posted, first>>,
           \/ UNCHANGED <<pc, out>>
           \/ /\ pc \in Posting /\ pc' \in Posting /\ UNCHANGED out
           \/ pc' = "down"
           \/ pc = "down" /\ pc' = IF plan.open THEN "execute" ELSE "idle"
    PROVE  BatchInv'
<1>1. /\ Typed /\ \A a \in Accounts : Accounted(a) /\ Attempt(a)
      /\ ~ plan.open => \A a \in Accounts : Agree(keys[a], table[a])
      /\ plan.open => (\A a \in Accounts : Fresh(a)) \/ (\A a \in Accounts : Done(a))
  BY DEF BatchInv
<1>2. \A a \in Accounts :
         /\ Invocation(a)' = Invocation(a)
         /\ Accounted(a)' = Accounted(a)
         /\ Fresh(a)' = Fresh(a)
         /\ Done(a)' = Done(a)
  BY DEF Invocation, Accounted, Fresh, Done
<1>3. Typed'
  BY <1>1 DEF Typed, Posting, Running
<1>4. \A a \in Accounts : Attempt(a)'
  BY <1>1, <1>2 DEF Attempt, Posting
<1> QED
  BY <1>1, <1>2, <1>3, <1>4 DEF BatchInv

LEMMA PlanKeeps == BatchInv /\ PlanBatch => BatchInv'
<1> SUFFICES ASSUME BatchInv, PlanBatch
             PROVE  BatchInv'
  OBVIOUS
<1>1. /\ Typed /\ \A a \in Accounts : Accounted(a)
      /\ \A a \in Accounts : Agree(keys[a], table[a])
  BY DEF BatchInv, PlanBatch
<1>2. PICK rows \in Batches, tick \in Ticks \cup {0} :
         plan' = [open |-> TRUE, rows |-> rows, tick |-> tick]
  BY DEF PlanBatch
<1>3. /\ watermark' = nextWatermark /\ nextWatermark' = nextWatermark
      /\ pc' = "execute" /\ first' = NoOut
      /\ keys' = keys /\ table' = table /\ posted' = posted
  BY DEF PlanBatch
<1>4. Typed'
  <2>1. \A a \in Accounts : Ordered(rows[a])
    BY BatchesFact
  <2>2. tick \in Nat
    BY EngineAssumption
  <2> QED
    BY <1>1, <1>2, <1>3, <2>1, <2>2 DEF Typed, Running
<1>5. \A a \in Accounts : Accounted(a)' /\ Fresh(a)' /\ Attempt(a)'
  BY <1>1, <1>3 DEF Accounted, Fresh, Attempt, Posting
<1>6. plan'.open
  BY <1>2
<1> QED
  BY <1>4, <1>5, <1>6 DEF BatchInv

LEMMA ExecuteKeeps == BatchInv /\ ExecuteBatch => BatchInv'
<1> SUFFICES ASSUME BatchInv, ExecuteBatch
             PROVE  BatchInv'
  OBVIOUS
<1>1. /\ Typed /\ \A a \in Accounts : Accounted(a)
      /\ (\A a \in Accounts : Fresh(a)) \/ (\A a \in Accounts : Done(a))
  BY DEF BatchInv, Typed, Running, ExecuteBatch
<1>2. /\ out' = [a \in Accounts |-> Invocation(a)]
      /\ first' = IF first = NoOut THEN out' ELSE first
      /\ pc = "execute" /\ pc' = "merge"
      /\ UNCHANGED <<keys, plan, watermark, nextWatermark, table, posted>>
  BY DEF ExecuteBatch, checkpoint, sinks
<1>3. \A a \in Accounts :
         Invocation(a)' = Invocation(a) /\ out'[a] = Invocation(a) /\ Accounted(a)' = Accounted(a)
  BY <1>2 DEF Invocation, Accounted
<1>4. Typed' /\ plan'.open
  BY <1>1, <1>2 DEF Typed, Running
<1>5. CASE \A a \in Accounts : Fresh(a)
  <2>1. \A a \in Accounts : Agree(keys[a], table[a]) /\ first'[a] = Invocation(a)
    BY <1>2, <1>3, <1>5 DEF Fresh
  <2>2. \A a \in Accounts : Fresh(a)' /\ Attempt(a)'
    BY <1>2, <1>3, <2>1 DEF Fresh, Attempt, Repeats, Posting
  <2> QED
    BY <1>1, <1>3, <1>4, <2>2 DEF BatchInv
<1>6. CASE \A a \in Accounts : Done(a)
  <2>1. \A a \in Accounts : Repeats(Invocation(a), first'[a])
    BY <1>2, <1>3, <1>6 DEF Done, Repeats
  <2>2. \A a \in Accounts : Done(a)' /\ Attempt(a)'
    BY <1>2, <1>3, <1>6, <2>1 DEF Done, Attempt, Posting
  <2> QED
    BY <1>1, <1>3, <1>4, <2>2 DEF BatchInv
<1> QED
  BY <1>1, <1>5, <1>6

(* What a first merge does to a row: the events of the attempt, new to it, *)
(* are posted together.                                                    *)
LEMMA MergePosts ==
    ASSUME NEW a \in Accounts, BatchInv, MergeBalances
    PROVE  /\ out[a] = Invocation(a)
           /\ table'[a] = Left(table[a], out[a])
           /\ posted'[a] = IF table'[a].last > table[a].last THEN posted[a] \cup out[a].applied
                                                             ELSE posted[a]
           /\ \/ table'[a] = table[a]
              \/ out[a].ran /\ table'[a] = out[a].row /\ Continues(table[a], out[a])
<1>1. /\ pc = "merge" /\ plan.open /\ out[a] = Invocation(a)
      /\ watermark \in Nat /\ Ordered(plan.rows[a])
      /\ Fresh(a) \/ Done(a)
  BY DEF MergeBalances, BatchInv, Typed, Running, Attempt
<1>2. /\ table'[a] = Left(table[a], out[a])
      /\ posted'[a] = IF table'[a].last > table[a].last THEN posted[a] \cup out[a].applied
                                                        ELSE posted[a]
  BY DEF MergeBalances, Left
<1>3. CASE Done(a)
  BY <1>1, <1>2, <1>3 DEF Done
<1>4. CASE Fresh(a)
  <2>1. Agree(keys[a], table[a])
    BY <1>4 DEF Fresh
  <2>2. /\ out[a].ran => Continues(table[a], out[a])
        /\ out[a].ran => Left(table[a], out[a]) = out[a].row
    BY <1>1, <2>1, InvokeFact, InvokeAgain DEF Invocation
  <2>3. ~ out[a].ran => Left(table[a], out[a]) = table[a]
    BY DEF Left
  <2> QED
    BY <1>1, <1>2, <2>2, <2>3
<1> QED
  BY <1>1, <1>3, <1>4

LEMMA MergeAccounts ==
    ASSUME NEW a \in Accounts, BatchInv, MergeBalances
    PROVE  /\ Accounted(a)'
           /\ L(a)!Settle \/ UNCHANGED <<table[a].last, table[a].bal, posted[a]>>
<1> DEFINE t == table[a]
           u == table'[a]
           taken == out[a].applied
<1>1. /\ t \in BalanceRow /\ t.last \in Nat /\ t.bal \in Int /\ t.last <= MaxSeq
      /\ posted[a] \in SUBSET (1..t.last) /\ t.bal = Total[posted[a]]
  BY DEF BatchInv, Accounted, BalanceRow
<1>2. /\ posted'[a] = IF u.last > t.last THEN posted[a] \cup taken ELSE posted[a]
      /\ \/ u = t
         \/ out[a].ran /\ u = out[a].row /\ Continues(t, out[a])
  BY MergePosts
<1> HIDE DEF t, u, taken
<1>3. CASE u.last = t.last
  <2>1. u \in BalanceRow /\ u.bal = t.bal /\ posted'[a] = posted[a]
    BY <1>1, <1>2, <1>3 DEF Continues
  <2> QED
    BY <1>1, <1>3, <2>1 DEF Accounted, t, u
<1>4. CASE u.last # t.last
  <2>1. /\ u = out[a].row /\ u \in BalanceRow /\ u.last \in Nat
        /\ t.last < u.last /\ u.last <= MaxSeq
        /\ taken \in SUBSET ((t.last + 1)..u.last) /\ u.last \in taken
        /\ Policy = "HOLD" => taken = (t.last + 1)..u.last
        /\ u.bal = t.bal + Total[taken]
    BY <1>1, <1>2, <1>4 DEF Continues, BalanceRow, taken
  <2>2. posted'[a] = posted[a] \cup taken
    BY <1>1, <1>2, <2>1
  <2>3. posted[a] \in SUBSET Seqs /\ taken \in SUBSET Seqs /\ posted[a] \cap taken = {}
    BY <1>1, <2>1, BoundsAssumption DEF Seqs
  <2>4. u.bal = Total[posted[a] \cup taken]
    BY <1>1, <2>1, <2>3, TotalAssumption
  <2>5. posted[a] \cup taken \in SUBSET (1..u.last)
    BY <1>1, <2>1
  <2>6. Accounted(a)'
    BY <2>1, <2>2, <2>4, <2>5 DEF Accounted, u
  <2>7. u.last \in (t.last + 1)..MaxSeq /\ taken \in SUBSET ((t.last + 1)..u.last)
    BY <1>1, <2>1, BoundsAssumption
  <2>8. L(a)!Settle
    BY <2>1, <2>2, <2>7 DEF L!Settle, t, u
  <2> QED
    BY <2>6, <2>8
<1> QED
  BY <1>3, <1>4

LEMMA MergeKeeps == BatchInv /\ MergeBalances => BatchInv'
<1> SUFFICES ASSUME BatchInv, MergeBalances
             PROVE  BatchInv'
  OBVIOUS
<1>1. /\ Typed /\ plan.open /\ pc = "merge"
      /\ (\A a \in Accounts : Fresh(a)) \/ (\A a \in Accounts : Done(a))
      /\ \A a \in Accounts : Attempt(a)
  BY DEF BatchInv, Typed, Running, MergeBalances
<1>2. /\ pc' \in {"commit", "append"} /\ out' = out /\ first' = first
      /\ UNCHANGED <<keys, plan, watermark, nextWatermark>>
  BY DEF MergeBalances, AfterMerge, checkpoint
<1>3. Typed' /\ plan'.open
  BY <1>1, <1>2 DEF Typed, Running, Posting
<1>4. \A a \in Accounts : Accounted(a)'
  BY MergeAccounts
<1>5. ASSUME NEW a \in Accounts
      PROVE  Done(a)' /\ Attempt(a)'
  <2>1. /\ out[a] = Invocation(a) /\ table'[a] = Left(table[a], out[a])
        /\ Repeats(out[a], first[a])
    BY <1>1, MergePosts DEF Attempt
  <2>2. /\ Repeats(Invocation(a)', first'[a])
        /\ Left(table'[a], Invocation(a)') = table'[a]
        /\ Agree(Invocation(a)'.key, table'[a])
        /\ out'[a].key = Invocation(a)'.key
    <3>1. CASE Done(a)
      <4>1. table'[a] = table[a]
        BY <2>1, <3>1 DEF Done
      <4>2. Invocation(a)' = Invocation(a)
        BY <1>2, <4>1 DEF Invocation
      <4> QED
        BY <1>2, <2>1, <3>1, <4>1, <4>2 DEF Done
    <3>2. CASE Fresh(a)
      <4>1. Agree(keys[a], table[a]) /\ Ordered(plan.rows[a]) /\ watermark \in Nat
        BY <1>1, <3>2 DEF Fresh, Typed
      <4>2. Invocation(a)' = Invoke(keys[a], plan.rows[a], Left(table[a], out[a]), watermark)
        BY <1>2, <2>1 DEF Invocation
      <4>3. /\ Invocation(a)'.key = out[a].key /\ Invocation(a)'.row = out[a].row
            /\ out[a].recs \subseteq Invocation(a)'.recs
            /\ Left(Left(table[a], out[a]), Invocation(a)') = Left(table[a], out[a])
        BY <2>1, <4>1, <4>2, InvokeAgain DEF Invocation
      <4>4. Agree(out[a].key, Left(table[a], out[a]))
        BY <2>1, <4>1, InvokeAgrees DEF Invocation
      <4> QED
        BY <1>2, <2>1, <4>3, <4>4 DEF Repeats
    <3> QED
      BY <1>1, <3>1, <3>2
  <2> QED
    BY <1>2, <2>1, <2>2 DEF Done, Attempt, Posting
<1> QED
  BY <1>3, <1>4, <1>5 DEF BatchInv

LEMMA CommitKeeps == BatchInv /\ CommitBatch => BatchInv'
<1> SUFFICES ASSUME BatchInv, CommitBatch
             PROVE  BatchInv'
  OBVIOUS
<1>1. /\ Typed /\ pc = "commit"
      /\ \A a \in Accounts : Accounted(a) /\ Done(a) /\ out[a].key = Invocation(a).key
  BY DEF BatchInv, CommitBatch, Attempt, Posting
<1>2. /\ keys' = [a \in Accounts |-> out[a].key] /\ plan' = NoPlan /\ pc' = "idle"
      /\ UNCHANGED <<watermark, table, posted>>
  BY DEF CommitBatch, sinks, history
<1>3. nextWatermark' \in Nat
  <2> DEFINE seen == {plan.tick} \cup
                     {EventTs[s] : s \in UNION {ToSet(plan.rows[a]) : a \in Accounts}}
  <2>1. nextWatermark' = Max({watermark, Max(seen) - Delay})
    BY DEF CommitBatch
  <2>2. UNION {ToSet(plan.rows[a]) : a \in Accounts} \in SUBSET Seqs
    BY <1>1 DEF Typed, Ordered, ToSet
  <2>3. seen \in SUBSET Nat /\ seen # {}
    BY <1>1, <2>2, EventTsAssumption DEF Typed
  <2>4. PICK b \in Nat : \A s \in Seqs : EventTs[s] <= b
    BY EventTsBounded
  <2>5. \A x \in seen : x <= b + plan.tick
    <3>1. plan.tick \in Nat /\ b <= b + plan.tick /\ plan.tick <= b + plan.tick
      BY <1>1 DEF Typed
    <3>2. \A s \in Seqs : EventTs[s] \in Nat /\ EventTs[s] <= b + plan.tick
      BY <2>4, <3>1, EventTsAssumption
    <3> QED
      BY <2>2, <3>1, <3>2
  <2> HIDE DEF seen
  <2>6. Max(seen) \in Nat
    <3>1. b + plan.tick \in Nat
      BY <1>1 DEF Typed
    <3> QED
      BY <2>3, <2>5, <3>1, MaxOfBounded
  <2> DEFINE d == Max(seen) - Delay
  <2>7. d \in Int /\ watermark \in Nat
    BY <1>1, <2>6, EngineAssumption DEF Typed
  <2> HIDE DEF d
  <2>8. Max({watermark, d}) = IF watermark >= d THEN watermark ELSE d
    BY <2>7, MaxFact
  <2> QED
    BY <2>1, <2>7, <2>8 DEF d
<1>4. Typed' /\ ~ plan'.open
  <2>1. \A a \in Accounts : Ordered(NoPlan.rows[a])
    BY DEF NoPlan, Ordered
  <2> QED
    BY <1>1, <1>2, <1>3, <2>1 DEF Typed, Running, NoPlan, Posting
<1>5. \A a \in Accounts : Accounted(a)' /\ Agree(keys[a], table[a])' /\ Attempt(a)'
  BY <1>1, <1>2 DEF Accounted, Done, Attempt, Posting
<1> QED
  BY <1>4, <1>5 DEF BatchInv

LEMMA BatchKeeps == BatchInv /\ [Next]_vars => BatchInv'
<1> SUFFICES ASSUME BatchInv, [Next]_vars
             PROVE  BatchInv'
  OBVIOUS
<1>1. CASE AppendIntegrity \/ PublishIntegrity \/ PublishOverflow \/ PublishGaps
  <2>1. /\ pc \in Posting /\ pc' \in Posting /\ out' = out
        /\ UNCHANGED <<keys, plan, watermark, nextWatermark, table, posted, first>>
    BY <1>1 DEF AppendIntegrity, PublishIntegrity, PublishOverflow, PublishGaps, Posting,
                checkpoint, history
  <2> QED
    BY <2>1, BatchRests
<1>2. CASE Crash \/ Restart
  <2>1. /\ pc' = "down" \/ (pc = "down" /\ pc' = IF plan.open THEN "execute" ELSE "idle")
        /\ UNCHANGED <<keys, plan, watermark, nextWatermark, table, posted, first>>
    BY <1>2 DEF Crash, Restart, checkpoint, sinks, history
  <2> QED
    BY <2>1, BatchRests
<1>3. CASE UNCHANGED vars
  <2>1. UNCHANGED <<keys, plan, watermark, nextWatermark, table, posted, first, pc, out>>
    BY <1>3 DEF vars, checkpoint, sinks, driver, history
  <2> QED
    BY <2>1, BatchRests
<1> QED
  BY <1>1, <1>2, <1>3, PlanKeeps, ExecuteKeeps, MergeKeeps, CommitKeeps DEF Next

LEMMA BatchInvariant == Spec => []BatchInv
<1> QED
  BY InitBatch, BatchKeeps, PTL DEF Spec

(* Between two batches the balances table says of every account what the   *)
(* state store says, over any crashes and re-executions: the MERGE of      *)
(* sinks.py:82-105 never leaves the table behind the state or ahead of it. *)
THEOREM StateAndTableAgree == Spec => []TableFollowsState
<1>1. BatchInv => TableFollowsState
  BY DEF BatchInv, Typed, Agree, TableFollowsState
<1> QED
  BY <1>1, BatchInvariant, PTL

(* sinks.py:96-97: a batch that is run again computes the state and the    *)
(* rows of its first attempt, though a cold account is seeded from a table *)
(* that may hold what that attempt left.                                   *)
THEOREM ReplayIsIdentical == Spec => []ReplayReproducesState
<1>1. BatchInv => ReplayReproducesState
  BY DEF BatchInv, Attempt, Repeats, ReplayReproducesState
<1> QED
  BY <1>1, BatchInvariant, PTL

(* The balances table implements Ledger for every account: crashes and     *)
(* re-executions included, each row moves forward only, and by events that *)
(* were not in it.                                                         *)
THEOREM TableIsLedger == Spec => TableImplementsLedger
<1>1. Init => \A a \in Accounts : L(a)!Init
  BY DEF Init, L!Init, NoRow
<1>2. BatchInv /\ [Next]_vars =>
        [\A a \in Accounts : L(a)!Settle \/ UNCHANGED <<table[a].last, table[a].bal, posted[a]>>]_vars
  <2> SUFFICES ASSUME BatchInv, Next, NEW a \in Accounts
               PROVE  L(a)!Settle \/ UNCHANGED <<table[a].last, table[a].bal, posted[a]>>
    OBVIOUS
  <2>1. CASE MergeBalances
    BY <2>1, MergeAccounts
  <2>2. CASE ~ MergeBalances
    <3>1. table' = table /\ posted' = posted
      BY <2>2 DEF Next, PlanBatch, ExecuteBatch, AppendIntegrity, PublishIntegrity,
                  PublishOverflow, PublishGaps, CommitBatch, Crash, Restart, sinks, history
    <3> QED
      BY <3>1
  <2> QED
    BY <2>1, <2>2
<1> QED
  BY <1>1, <1>2, BatchInvariant, PTL DEF Spec, TableImplementsLedger

(***************************************************************************)
(* The audit trail                                                         *)
(***************************************************************************)

(* Every record of recs is where its readers look for it.                  *)
Audited(recs) ==
    /\ recs \subseteq trail.integrity \cap trail.topic
    /\ OfKind(recs, "BUFFER_OVERFLOW") \subseteq trail.dlq
    /\ OfKind(recs, "SEQUENCE_GAP") \subseteq trail.signals

(* What the running attempt has written by now; between two batches the    *)
(* whole of what the first attempt at the last one computed.  A batch      *)
(* without records commits after its merge, with nothing to write.         *)
AuditInv ==
    /\ trail = Sinks(trail)
    /\ pc \in {"publish", "dlq", "signals", "commit"} => Records(out) \subseteq trail.integrity
    /\ pc \in {"dlq", "signals", "commit"} => Records(out) \subseteq trail.topic
    /\ pc \in {"signals", "commit"} => OfKind(Records(out), "BUFFER_OVERFLOW") \subseteq trail.dlq
    /\ pc = "commit" => OfKind(Records(out), "SEQUENCE_GAP") \subseteq trail.signals
    /\ ~ plan.open => Audited(Records(first))

LEMMA AuditWritten ==
    ASSUME NEW t, t = Sinks(t), NEW p
    PROVE  /\ [t EXCEPT !.integrity = @ \cup p] = [Sinks(t) EXCEPT !.integrity = @ \cup p]
           /\ [t EXCEPT !.topic = @ \cup p] = [Sinks(t) EXCEPT !.topic = @ \cup p]
           /\ [t EXCEPT !.dlq = @ \cup p] = [Sinks(t) EXCEPT !.dlq = @ \cup p]
           /\ [t EXCEPT !.signals = @ \cup p] = [Sinks(t) EXCEPT !.signals = @ \cup p]
BY Zenon

LEMMA AuditKeeps == BatchInv /\ AuditInv /\ [Next]_vars => AuditInv'
<1> SUFFICES ASSUME BatchInv, AuditInv, [Next]_vars
             PROVE  AuditInv'
  OBVIOUS
<1> DEFINE recs == Records(out)
           over == OfKind(recs, "BUFFER_OVERFLOW")
           gaps == OfKind(recs, "SEQUENCE_GAP")
<1>1. trail = Sinks(trail) /\ (pc \in Running => plan.open)
  BY DEF AuditInv, BatchInv, Typed
<1>2. CASE PlanBatch
  <2>1. plan'.open /\ pc' = "execute" /\ trail' = NoTrail
    BY <1>2 DEF PlanBatch
  <2> QED
    BY <2>1 DEF AuditInv, Sinks, NoTrail
<1>3. CASE ExecuteBatch
  <2>1. plan.open /\ plan' = plan /\ pc' = "merge" /\ trail' = trail
    BY <1>1, <1>3 DEF ExecuteBatch, checkpoint, sinks, Running
  <2> QED
    BY <1>1, <2>1 DEF AuditInv, Sinks
<1>4. CASE MergeBalances
  <2>1. /\ plan.open /\ plan' = plan /\ trail' = trail /\ out' = out
        /\ pc' = IF recs = {} THEN "commit" ELSE "append"
    BY <1>1, <1>4 DEF MergeBalances, AfterMerge, checkpoint, Running
  <2>2. Records(out)' = recs
    BY <2>1 DEF Records
  <2>3. CASE recs = {}
    <3>1. pc' = "commit" /\ Records(out)' = {}
      BY <2>1, <2>2, <2>3
    <3> QED
      BY <1>1, <2>1, <3>1 DEF AuditInv, Sinks, OfKind
  <2>4. CASE recs # {}
    BY <1>1, <2>1, <2>4 DEF AuditInv, Sinks
  <2> QED
    BY <2>3, <2>4
<1>5. CASE AppendIntegrity \/ PublishIntegrity \/ PublishOverflow \/ PublishGaps
  <2>1. plan.open /\ plan' = plan /\ out' = out
    BY <1>1, <1>5 DEF AppendIntegrity, PublishIntegrity, PublishOverflow, PublishGaps,
                      checkpoint, Running, Posting
  <2>2. Records(out)' = recs
    BY <2>1 DEF Records
  <2>3. \/ /\ pc = "append" /\ pc' = "publish"
           /\ trail' = [trail EXCEPT !.integrity = @ \cup recs]
        \/ /\ pc = "publish" /\ pc' = "dlq"
           /\ trail' = [trail EXCEPT !.topic = @ \cup recs]
        \/ /\ pc = "dlq" /\ pc' = "signals"
           /\ trail' = [trail EXCEPT !.dlq = @ \cup over]
        \/ /\ pc = "signals" /\ pc' = "commit"
           /\ trail' = [trail EXCEPT !.signals = @ \cup gaps]
    BY <1>5 DEF AppendIntegrity, PublishIntegrity, PublishOverflow, PublishGaps
  <2>4. /\ pc \in {"publish", "dlq", "signals", "commit"} => recs \subseteq trail.integrity
        /\ pc \in {"dlq", "signals", "commit"} => recs \subseteq trail.topic
        /\ pc \in {"signals", "commit"} => over \subseteq trail.dlq
    BY DEF AuditInv
  <2>5. OfKind(Records(out)', "BUFFER_OVERFLOW") = over /\ OfKind(Records(out)', "SEQUENCE_GAP") = gaps
    BY <2>2
  <2> DEFINE u == Sinks(trail)
  <2> HIDE DEF recs, over, gaps
  <2>6. \/ /\ pc = "append" /\ pc' = "publish"
           /\ trail' = [u EXCEPT !.integrity = @ \cup recs]
        \/ /\ pc = "publish" /\ pc' = "dlq"
           /\ trail' = [u EXCEPT !.topic = @ \cup recs]
        \/ /\ pc = "dlq" /\ pc' = "signals"
           /\ trail' = [u EXCEPT !.dlq = @ \cup over]
        \/ /\ pc = "signals" /\ pc' = "commit"
           /\ trail' = [u EXCEPT !.signals = @ \cup gaps]
    BY <1>1, <2>3, AuditWritten
  <2>7. /\ trail' = Sinks(trail')
        /\ trail.integrity \subseteq trail'.integrity /\ trail.topic \subseteq trail'.topic
        /\ trail.dlq \subseteq trail'.dlq
        /\ pc' \in {"publish", "dlq", "signals", "commit"}
        /\ pc' = "publish" => recs \subseteq trail'.integrity
        /\ pc' = "dlq" => pc = "publish" /\ recs \subseteq trail'.topic
        /\ pc' = "signals" => pc = "dlq" /\ over \subseteq trail'.dlq
        /\ pc' = "commit" => pc = "signals" /\ gaps \subseteq trail'.signals
    BY <2>6 DEF Sinks
  <2>8. /\ recs \subseteq trail'.integrity
        /\ pc' \in {"dlq", "signals", "commit"} => recs \subseteq trail'.topic
        /\ pc' \in {"signals", "commit"} => over \subseteq trail'.dlq
        /\ pc' = "commit" => gaps \subseteq trail'.signals
    BY <2>4, <2>7
  <2> QED
    BY <2>1, <2>2, <2>5, <2>7, <2>8 DEF AuditInv, Sinks
<1>6. CASE CommitBatch
  <2>1. pc = "commit" /\ pc' = "idle" /\ trail' = trail /\ first' = first
    BY <1>6 DEF CommitBatch, sinks, history
  <2>2. \A a \in Accounts : first[a].recs \subseteq out[a].recs
    BY <2>1 DEF BatchInv, Attempt, Repeats, Posting
  <2>3. Records(first) \subseteq recs
    BY <2>2 DEF Records
  <2>4. Audited(recs)
    <3> HIDE DEF recs
    <3>1. /\ recs \subseteq trail.integrity /\ recs \subseteq trail.topic
          /\ OfKind(recs, "BUFFER_OVERFLOW") \subseteq trail.dlq
          /\ OfKind(recs, "SEQUENCE_GAP") \subseteq trail.signals
      BY <2>1 DEF AuditInv, recs
    <3> QED
      BY <3>1 DEF Audited
  <2>5. Audited(Records(first))
    <3> HIDE DEF recs
    <3> QED
      BY <2>3, <2>4 DEF Audited, OfKind
  <2>6. Audited(Records(first))'
    BY <2>1, <2>5 DEF Audited, Records
  <2> QED
    BY <1>1, <2>1, <2>6 DEF AuditInv, Sinks
<1>7. CASE Crash
  <2>1. trail' \in Landing /\ pc' = "down" /\ plan' = plan /\ first' = first
    BY <1>7 DEF Crash, checkpoint, history
  <2>2. CASE plan.open
    <3>1. \E p : \/ trail' = trail
                 \/ trail' = [trail EXCEPT !.topic = @ \cup p]
                 \/ trail' = [trail EXCEPT !.dlq = @ \cup p]
                 \/ trail' = [trail EXCEPT !.signals = @ \cup p]
      BY <2>1 DEF Landing
    <3> DEFINE u == Sinks(trail)
    <3>2. \E p : \/ trail' = u
                 \/ trail' = [u EXCEPT !.topic = @ \cup p]
                 \/ trail' = [u EXCEPT !.dlq = @ \cup p]
                 \/ trail' = [u EXCEPT !.signals = @ \cup p]
      BY <1>1, <3>1, AuditWritten
    <3>3. trail' = Sinks(trail')
      BY <3>2 DEF Sinks
    <3> QED
      BY <2>1, <2>2, <3>3 DEF AuditInv, Sinks
  <2>3. CASE ~ plan.open
    <3>1. pc \notin Running /\ Audited(Records(first))
      BY <1>1, <2>3 DEF AuditInv
    <3>2. trail' = trail
      BY <2>1, <3>1 DEF Landing, Running, Posting
    <3> QED
      BY <1>1, <2>1, <3>1, <3>2 DEF AuditInv, Audited, Records, Sinks
  <2> QED
    BY <2>2, <2>3
<1>8. CASE Restart
  <2>1. /\ pc' = IF plan.open THEN "execute" ELSE "idle"
        /\ plan' = plan /\ trail' = trail /\ first' = first
    BY <1>8 DEF Restart, checkpoint, sinks, history
  <2> QED
    BY <1>1, <2>1 DEF AuditInv, Audited, Records, Sinks
<1>9. CASE UNCHANGED vars
  <2>1. pc' = pc /\ out' = out /\ trail' = trail /\ plan' = plan /\ first' = first
    BY <1>9 DEF vars, checkpoint, sinks, driver, history
  <2> QED
    BY <2>1 DEF AuditInv, Audited, Records, Sinks
<1> QED
  BY <1>2, <1>3, <1>4, <1>5, <1>6, <1>7, <1>8, <1>9 DEF Next

(* A committed batch leaves the whole audit trail of its first attempt,    *)
(* whichever attempt did the writing and wherever the ones before it were  *)
(* cut off (sinks.py:127-158).                                             *)
THEOREM AuditTrailIsWhole == Spec => []AuditIsComplete
<1>1. Init => AuditInv
  <2> SUFFICES ASSUME Init
               PROVE  AuditInv
    OBVIOUS
  <2>1. Records(first) = {}
    BY DEF Init, NoOut, NoResult, Records
  <2> QED
    BY <2>1 DEF Init, AuditInv, Audited, Sinks, NoTrail, OfKind
<1>2. BatchInv /\ AuditInv => AuditIsComplete
  BY DEF BatchInv, Typed, AuditInv, Audited, AuditIsComplete
<1> QED
  BY <1>1, <1>2, AuditKeeps, BatchInvariant, PTL DEF Spec
=============================================================================
