-------------------------- MODULE DrillProofs --------------------------
(***************************************************************************)
(* Proofs about the drills on one machine: the failure that the sink drill *)
(* arms, for any scripts, one after another, any integrity rows and any    *)
(* number of batches; the processes of a single script; and the verdicts   *)
(* of the eviction drill, for any topics, batches and restarts.            *)
(***************************************************************************)
EXTENDS Lifecycle, Rejoin, BatchProofs, SequenceTheorems

Statuses == {"booting", "up", "termed", "closing", "failed", "gone"}

Active == {"up", "termed", "closing"}

Procs == [status : Statuses, armed : BOOLEAN, wrote : BOOLEAN]

FailureTypes ==
    /\ engines \in Seq(Procs)
    /\ table \in [Tuples \X Batch -> Nat]
    /\ committed \in Nat /\ failed \in Nat /\ failed <= committed + 1
    /\ plan.rows \in [Tuples -> Nat]

PlanFits == plan.open => committed < MaxBatches

Marked == failed # 0 => marker

LoneWriter ==
    ~overlapped => \A e, f \in DOMAIN engines : Writing(e) /\ Writing(f) => e = f

(* The batch that failed is the one planned, with its rows in the table    *)
(* once, until a lone engine has written them again.                       *)
WrittenOnce ==
    failed = committed + 1 =>
        /\ plan.open /\ plan.rows # NoRows
        /\ \A t \in Tuples : table[<<t, failed>>] >= plan.rows[t]
        /\ ~overlapped => \A e \in DOMAIN engines : Writing(e) /\ engines[e].wrote =>
              \A t \in Tuples : table[<<t, failed>>] >= plan.rows[t] + plan.rows[t]

NotBegun == \A e \in DOMAIN engines : engines[e].status = "booting" => ~engines[e].wrote

FailureInv ==
    FailureTypes /\ PlanFits /\ Marked /\ NotBegun /\ LoneWriter /\ WrittenOnce /\ FailureIsShown

LEMMA StatusFact ==
    ASSUME NEW r \in Procs, NEW s \in Statuses
    PROVE  /\ [r EXCEPT !.status = s] \in Procs
           /\ [r EXCEPT !.status = s].status = s /\ [r EXCEPT !.status = s].wrote = r.wrote
<1>1. [r EXCEPT !.status = s] = [status |-> s, armed |-> r.armed, wrote |-> r.wrote]
  BY DEF Procs
<1> QED
  BY <1>1 DEF Procs

LEMMA WroteFact ==
    ASSUME NEW r \in Procs, NEW b \in BOOLEAN
    PROVE  /\ [r EXCEPT !.wrote = b] \in Procs
           /\ [r EXCEPT !.wrote = b].status = r.status /\ [r EXCEPT !.wrote = b].wrote = b
<1>1. [r EXCEPT !.wrote = b] = [status |-> r.status, armed |-> r.armed, wrote |-> b]
  BY DEF Procs
<1> QED
  BY <1>1 DEF Procs

Both(es, e, w, s) == [es EXCEPT ![e].wrote = w, ![e].status = s]

LEMMA BothFact ==
    ASSUME NEW es \in Seq(Procs), NEW e \in DOMAIN es, NEW w, NEW s
    PROVE  Both(es, e, w, s)
              = [es EXCEPT ![e] = [status |-> s, armed |-> es[e].armed, wrote |-> w]]
<1> DEFINE r == [es[e] EXCEPT !.wrote = w]
           r2 == [r EXCEPT !.status = s]
           mid == [es EXCEPT ![e] = r]
<1>1. es[e] \in Procs
  OBVIOUS
<1>2. r = [status |-> es[e].status, armed |-> es[e].armed, wrote |-> w]
  BY <1>1 DEF Procs
<1>3. r2 = [status |-> s, armed |-> es[e].armed, wrote |-> w]
  <2> HIDE DEF r
  <2>1. r2 = [[status |-> es[e].status, armed |-> es[e].armed, wrote |-> w] EXCEPT !.status = s]
    BY <1>2, Zenon
  <2> QED
    BY <2>1
<1>4. mid[e] = r
  <2> HIDE DEF r
  <2> QED
    OBVIOUS
<1>5. Both(es, e, w, s) = [mid EXCEPT ![e] = [mid[e] EXCEPT !.status = s]]
  BY DEF Both
<1>6. [mid[e] EXCEPT !.status = s] = r2
  <2> HIDE DEF r, mid
  <2> QED
    BY <1>4, Zenon
<1>7. [mid EXCEPT ![e] = r2] = [es EXCEPT ![e] = r2]
  <2> HIDE DEF r, r2
  <2> QED
    OBVIOUS
<1> HIDE DEF r, r2, mid
<1> QED
  BY <1>3, <1>5, <1>6, <1>7, Zenon

(* Processes that end, and none that begins to write.                      *)
LEMMA FewerWrite ==
    ASSUME FailureInv, engines' \in Seq(Procs), overlapped' = overlapped,
           plan' = plan, committed' = committed, table' = table, marker' = marker,
           failed' = failed,
           \A e \in DOMAIN engines' : engines'[e].status \in Active =>
              /\ e \in DOMAIN engines /\ engines[e].status \in Active
              /\ engines'[e].wrote = engines[e].wrote,
           \A e \in DOMAIN engines' : engines'[e].status = "booting" => ~engines'[e].wrote
    PROVE  FailureInv'
<1>1. \A e \in DOMAIN engines : Writing(e) <=> engines[e].status \in Active
  BY DEF Writing, Active
<1>2. \A e \in DOMAIN engines' : Writing(e)' <=> engines'[e].status \in Active
  BY DEF Writing, Active
<1>3. \A e \in DOMAIN engines' : Writing(e)' =>
          e \in DOMAIN engines /\ Writing(e) /\ engines'[e].wrote = engines[e].wrote
  BY <1>1, <1>2
<1>4. FailureIsShown'
  BY DEF FailureInv, FailureIsShown, Observed
<1>5. FailureTypes' /\ PlanFits' /\ Marked'
  BY DEF FailureInv, FailureTypes, PlanFits, Marked
<1>6. LoneWriter'
  BY <1>3 DEF FailureInv, LoneWriter
<1>7. WrittenOnce'
  BY <1>3 DEF FailureInv, WrittenOnce, NoRows
<1> QED
  BY <1>4, <1>5, <1>6, <1>7 DEF FailureInv, NotBegun

LEMMA TermedFact ==
    ASSUME engines \in Seq(Procs), NEW S
    PROVE  /\ Termed(S) \in Seq(Procs) /\ Killed(S) \in Seq(Procs)
           /\ DOMAIN Termed(S) = DOMAIN engines /\ DOMAIN Killed(S) = DOMAIN engines
           /\ \A e \in DOMAIN engines :
                 /\ Termed(S)[e].status \in Active =>
                       /\ engines[e].status \in Active
                       /\ Termed(S)[e].wrote = engines[e].wrote
                 /\ Killed(S)[e].status \in Active =>
                       /\ engines[e].status \in Active
                       /\ Killed(S)[e].wrote = engines[e].wrote
                 /\ Termed(S)[e].status = "booting" => Termed(S)[e] = engines[e]
                 /\ Killed(S)[e].status = "booting" => Killed(S)[e] = engines[e]
<1>1. DOMAIN engines = 1..Len(engines) /\ Len(engines) \in Nat
  OBVIOUS
<1>2. \A e \in DOMAIN engines : engines[e] \in Procs
  OBVIOUS
<1> DEFINE gone(e) == [engines[e] EXCEPT !.status = "gone"]
           termed(e) == [engines[e] EXCEPT !.status = "termed"]
<1>3. \A e \in DOMAIN engines :
          /\ gone(e) \in Procs /\ gone(e).status = "gone"
          /\ termed(e) \in Procs /\ termed(e).status = "termed"
          /\ termed(e).wrote = engines[e].wrote
  BY <1>2, StatusFact DEF Statuses
<1>4. Termed(S) = [e \in DOMAIN engines |->
                      IF e \in S THEN CASE engines[e].status = "booting" -> gone(e)
                                        [] engines[e].status = "up" -> termed(e)
                                        [] OTHER -> engines[e]
                      ELSE engines[e]]
  BY Zenon DEF Termed
<1>5. Killed(S) = [e \in DOMAIN engines |-> IF e \in S THEN gone(e) ELSE engines[e]]
  BY Zenon DEF Killed
<1> HIDE DEF gone, termed
<1>6. \A e \in DOMAIN engines :
          \/ Termed(S)[e] = gone(e)
          \/ Termed(S)[e] = termed(e) /\ engines[e].status = "up"
          \/ Termed(S)[e] = engines[e]
  BY <1>4
<1>7. \A e \in DOMAIN engines : Killed(S)[e] = gone(e) \/ Killed(S)[e] = engines[e]
  BY <1>5
<1>8. \A e \in DOMAIN engines : Termed(S)[e] \in Procs /\ Killed(S)[e] \in Procs
  BY <1>2, <1>3, <1>6, <1>7
<1>9. DOMAIN Termed(S) = DOMAIN engines /\ DOMAIN Killed(S) = DOMAIN engines
  BY <1>4, <1>5
<1>10. Termed(S) \in [1..Len(engines) -> Procs] /\ Killed(S) \in [1..Len(engines) -> Procs]
  <2> DEFINE t == Termed(S)
             k == Killed(S)
  <2>1. t = [e \in 1..Len(engines) |-> t[e]] /\ k = [e \in 1..Len(engines) |-> k[e]]
    BY <1>1, <1>4, <1>5
  <2>2. \A e \in 1..Len(engines) : t[e] \in Procs /\ k[e] \in Procs
    BY <1>1, <1>8
  <2> HIDE DEF t, k
  <2>3. t \in [1..Len(engines) -> Procs] /\ k \in [1..Len(engines) -> Procs]
    BY <2>1, <2>2
  <2> QED
    BY <2>3 DEF t, k
<1>11. Termed(S) \in Seq(Procs) /\ Killed(S) \in Seq(Procs)
  <2>1. \A t \in [1..Len(engines) -> Procs] : t \in Seq(Procs)
    BY <1>1
  <2> QED
    BY <1>10, <2>1, Zenon
<1> QED
  BY <1>3, <1>6, <1>7, <1>9, <1>11 DEF Active

LEMMA CommandKeeps == FailureInv /\ Command => FailureInv'
<1> SUFFICES ASSUME FailureInv, Command
             PROVE  FailureInv'
  OBVIOUS
<1>1. engines \in Seq(Procs)
  BY DEF FailureInv, FailureTypes
<1>2. ASSUME overlapped' = overlapped, plan' = plan, committed' = committed, table' = table,
             marker' = marker, failed' = failed,
             engines' \in Seq(Procs),
             \A e \in DOMAIN engines' : engines'[e].status \in Active =>
                /\ e \in DOMAIN engines /\ engines[e].status \in Active
                /\ engines'[e].wrote = engines[e].wrote,
             \A e \in DOMAIN engines' : engines'[e].status = "booting" => ~engines'[e].wrote
      PROVE  FailureInv'
  BY <1>2, FewerWrite
<1>3. CASE Begin \/ End \/ RemoveFile \/ Ready \/ NeverReady \/ Publish \/ NotPublished \/ Drain
          \/ NothingToKill \/ Judge \/ JudgeAttempt \/ TryAgain
  <2>1. /\ overlapped' = overlapped /\ plan' = plan /\ committed' = committed /\ table' = table
        /\ marker' = marker /\ failed' = failed /\ engines' = engines
    BY <1>3, Zenon DEF Begin, End, RemoveFile, Ready, NeverReady, Publish, NotPublished, Drain,
                       NothingToKill, Judge, JudgeAttempt, TryAgain, procs, lake
  <2> QED
    BY <1>1, <1>2, <2>1 DEF FailureInv, NotBegun
<1>4. CASE Term \/ Await \/ Pkill \/ Kill
  <2>1. /\ overlapped' = overlapped /\ plan' = plan /\ committed' = committed /\ table' = table
        /\ marker' = marker /\ failed' = failed
    BY <1>4, Zenon DEF Term, Await, Pkill, Kill, lake
  <2>2. \/ engines' = engines
        \/ \E S : engines' = Termed(S)
        \/ \E S : engines' = Killed(S)
    BY <1>4, Zenon DEF Term, Await, Pkill, Kill
  <2> QED
    <3>1. CASE engines' = engines
      BY <1>1, <1>2, <2>1, <3>1 DEF FailureInv, NotBegun
    <3>2. CASE \E S : engines' = Termed(S)
      <4>1. PICK S : engines' = Termed(S)
        BY <3>2
      <4> QED
        BY <1>1, <1>2, <2>1, <4>1, TermedFact DEF FailureInv, NotBegun
    <3>3. CASE \E S : engines' = Killed(S)
      <4>1. PICK S : engines' = Killed(S)
        BY <3>3
      <4> QED
        BY <1>1, <1>2, <2>1, <4>1, TermedFact DEF FailureInv, NotBegun
    <3> QED
      BY <2>2, <3>1, <3>2, <3>3
<1>5. CASE Launch
  <2>1. /\ overlapped' = overlapped /\ plan' = plan /\ committed' = committed /\ table' = table
        /\ marker' = marker /\ failed' = failed
    BY <1>5, Zenon DEF Launch, lake
  <2> DEFINE p == [status |-> "booting", armed |-> Does("arm"), wrote |-> FALSE]
  <2>2. engines' = Append(engines, p)
    BY <1>5 DEF Launch
  <2>3. p \in Procs /\ p.status \notin Active /\ ~p.wrote
    <3>1. Does("arm") \in BOOLEAN
      BY DEF Does
    <3> QED
      BY <3>1 DEF Procs, Statuses, Active
  <2> HIDE DEF p
  <2>4. /\ engines' \in Seq(Procs) /\ Len(engines') = Len(engines) + 1
        /\ \A e \in 1..Len(engines) : engines'[e] = engines[e]
        /\ engines'[Len(engines) + 1] = p
    BY <1>1, <2>2, <2>3, AppendProperties
  <2>5. Len(engines) \in Nat /\ DOMAIN engines = 1..Len(engines) /\ DOMAIN engines' = 1..Len(engines')
    BY <1>1, <2>4
  <2>6. \A e \in DOMAIN engines' : e \in DOMAIN engines \/ e = Len(engines) + 1
    BY <2>4, <2>5
  <2>7. \A e \in DOMAIN engines' : engines'[e].status \in Active =>
            e \in DOMAIN engines /\ engines'[e] = engines[e]
    BY <2>3, <2>4, <2>5, <2>6
  <2>8. \A e \in DOMAIN engines' : engines'[e].status = "booting" => ~engines'[e].wrote
    BY <2>3, <2>4, <2>5, <2>6 DEF FailureInv, NotBegun
  <2> QED
    BY <1>2, <2>1, <2>4, <2>7, <2>8
<1>6. CASE Reset
  <2>1. /\ overlapped' = overlapped /\ plan' = NoPlan /\ committed' = 0 /\ table' = NoLake
        /\ failed' = 0
    BY <1>6, Zenon DEF Reset
  <2> DEFINE fresh(e) == [engines[e] EXCEPT !.wrote = FALSE]
  <2>2. engines' = [e \in DOMAIN engines |-> fresh(e)]
    BY <1>6, Zenon DEF Reset
  <2>3. DOMAIN engines = 1..Len(engines) /\ Len(engines) \in Nat
        /\ \A e \in DOMAIN engines : engines[e] \in Procs
    BY <1>1
  <2>4. \A e \in DOMAIN engines : fresh(e) \in Procs /\ fresh(e).status = engines[e].status /\ ~fresh(e).wrote
    BY <2>3, WroteFact
  <2> HIDE DEF fresh
  <2>5. /\ engines' \in [1..Len(engines) -> Procs] /\ DOMAIN engines' = DOMAIN engines
        /\ \A e \in DOMAIN engines :
              engines'[e].status = engines[e].status /\ ~engines'[e].wrote
    BY <2>2, <2>3, <2>4
  <2>6. engines' \in Seq(Procs)
    BY <2>3, <2>5
  <2>7. \A e \in DOMAIN engines : Writing(e)' <=> Writing(e)
    BY <2>5 DEF Writing
  <2>8. /\ NoLake \in [Tuples \X Batch -> Nat]
        /\ NoPlan.open = FALSE /\ NoPlan.rows \in [Tuples -> Nat]
    BY DEF NoLake, NoPlan, NoRows
  <2>9. FailureIsShown'
    BY <2>1 DEF FailureIsShown
  <2>10. FailureTypes'
    BY <2>1, <2>6, <2>8 DEF FailureTypes
  <2>13. PlanFits' /\ Marked'
    BY <2>1, <2>8 DEF PlanFits, Marked
  <2>11. LoneWriter'
    BY <2>1, <2>5, <2>7 DEF FailureInv, LoneWriter
  <2>12. WrittenOnce'
    BY <2>1 DEF WrittenOnce
  <2> QED
    BY <2>5, <2>9, <2>10, <2>11, <2>12, <2>13 DEF FailureInv, NotBegun
<1> QED
  BY <1>3, <1>4, <1>5, <1>6 DEF Command

LEMMA BootKeeps ==
    ASSUME FailureInv, NEW e \in DOMAIN engines,
           Boot(e) \/ DieStarting(e) \/ QueryDies(e) \/ Ends(e)
    PROVE  FailureInv'
<1>1. engines \in Seq(Procs)
  BY DEF FailureInv, FailureTypes
<1>2. PICK s \in Statuses : /\ engines' = [engines EXCEPT ![e].status = s]
                            /\ s # "booting"
                            /\ \/ s = "up" /\ Boot(e)
                               \/ s \notin Active /\ overlapped' = overlapped
                               \/ engines[e].status \in Active /\ overlapped' = overlapped
  <2>1. CASE Boot(e)
    <3>1. engines' = [engines EXCEPT ![e].status = "up"]
      BY <2>1, Zenon DEF Boot, Becomes
    <3>2. "up" \in Statuses /\ "up" # "booting"
      BY DEF Statuses
    <3> QED
      BY <2>1, <3>1, <3>2, Zenon
  <2>2. CASE DieStarting(e) \/ QueryDies(e) \/ Exit(e)
    <3>1. \/ engines' = [engines EXCEPT ![e].status = "gone"]
          \/ engines' = [engines EXCEPT ![e].status = "failed"]
      BY <2>2, Zenon DEF DieStarting, QueryDies, Exit, Becomes
    <3>2. overlapped' = overlapped
      BY <2>2, Zenon DEF DieStarting, QueryDies, Exit
    <3>3. "gone" \in Statuses /\ "failed" \in Statuses /\ "gone" \notin Active
          /\ "failed" \notin Active /\ "gone" # "booting" /\ "failed" # "booting"
      BY DEF Statuses, Active
    <3> QED
      BY <3>1, <3>2, <3>3, Zenon
  <2>3. CASE HandleTerm(e)
    <3>1. /\ engines' = [engines EXCEPT ![e].status = "closing"] /\ overlapped' = overlapped
          /\ engines[e].status = "termed"
      BY <2>3, Zenon DEF HandleTerm, Becomes
    <3>2. "closing" \in Statuses /\ "termed" \in Active /\ "closing" # "booting"
      BY DEF Statuses, Active
    <3> QED
      BY <3>1, <3>2, Zenon
  <2> QED
    BY <2>1, <2>2, <2>3 DEF Ends
<1>3. /\ plan' = plan /\ committed' = committed /\ table' = table /\ marker' = marker
      /\ failed' = failed
  BY DEF Boot, DieStarting, QueryDies, Ends, HandleTerm, Exit, lake
<1> DEFINE r == [engines[e] EXCEPT !.status = s]
<1>4. engines[e] \in Procs
  BY <1>1
<1>5. r \in Procs /\ r.status = s /\ r.wrote = engines[e].wrote
  BY <1>4, StatusFact
<1>6. engines' = [engines EXCEPT ![e] = r]
  BY <1>2
<1> HIDE DEF r
<1>7. /\ engines' \in Seq(Procs) /\ DOMAIN engines' = DOMAIN engines /\ engines'[e] = r
      /\ \A f \in DOMAIN engines : f # e => engines'[f] = engines[f]
  BY <1>1, <1>5, <1>6
<1>8. \A f \in DOMAIN engines : engines'[f].wrote = engines[f].wrote
  BY <1>5, <1>7
<1>11. \A f \in DOMAIN engines : engines'[f].status = "booting" => ~engines'[f].wrote
  BY <1>2, <1>5, <1>7 DEF FailureInv, NotBegun
<1>9. CASE (s \notin Active \/ engines[e].status \in Active) /\ overlapped' = overlapped
  <2>1. \A f \in DOMAIN engines : engines'[f].status \in Active => engines[f].status \in Active
    BY <1>5, <1>7, <1>9
  <2> QED
    BY <1>3, <1>7, <1>8, <1>9, <1>11, <2>1, FewerWrite
<1>10. CASE Boot(e)
  <2>1. /\ engines[e].status = "booting"
        /\ overlapped' = (overlapped \/ \E f \in DOMAIN engines : Writing(f))
    BY <1>10 DEF Boot
  <2>2. FailureTypes' /\ PlanFits' /\ Marked'
    BY <1>3, <1>7 DEF FailureInv, FailureTypes, PlanFits, Marked
  <2>3. ASSUME ~overlapped', NEW f \in DOMAIN engines, Writing(f)'
        PROVE  f = e
    <3>1. ~Writing(f)
      BY <2>1, <2>3
    <3> QED
      BY <1>7, <2>3, <3>1 DEF Writing
  <2>4. LoneWriter'
    BY <1>7, <2>3 DEF LoneWriter
  <2>5. WrittenOnce'
    <3>1. ~engines[e].wrote
      BY <2>1 DEF FailureInv, NotBegun
    <3> QED
      BY <1>3, <1>7, <1>8, <2>3, <3>1 DEF FailureInv, WrittenOnce, NoRows
  <2>6. FailureIsShown'
    BY <1>3, <2>1 DEF FailureInv, FailureIsShown, Observed
  <2> QED
    BY <1>7, <1>11, <2>2, <2>4, <2>5, <2>6 DEF FailureInv, NotBegun
<1> QED
  BY <1>2, <1>9, <1>10

LEMMA BatchKeeps ==
    ASSUME FailureInv, NEW e \in DOMAIN engines,
           PlanBatch(e) \/ WriteBatch(e) \/ CommitBatch(e)
    PROVE  FailureInv'
<1>1. /\ engines \in Seq(Procs) /\ engines[e] \in Procs
      /\ table \in [Tuples \X Batch -> Nat] /\ committed \in Nat /\ failed \in Nat
      /\ failed <= committed + 1 /\ plan.rows \in [Tuples -> Nat]
  BY DEF FailureInv, FailureTypes
<1>2. overlapped' = overlapped
  BY DEF PlanBatch, WriteBatch, CommitBatch, procs
<1>3. CASE PlanBatch(e)
  <2>1. /\ engines' = engines /\ committed' = committed /\ table' = table /\ marker' = marker
        /\ failed' = failed
        /\ ~plan.open /\ committed < MaxBatches
    BY <1>3 DEF PlanBatch, procs
  <2>2. plan'.open = TRUE /\ plan'.rows \in [Tuples -> Nat]
    <3>1. NoRows \in [Tuples -> Nat]
      BY DEF NoRows
    <3>2. \A rows \in [Tuples -> 0..MaxCopies] : rows \in [Tuples -> Nat]
      BY LifecycleAssumption
    <3> QED
      BY <1>3, <3>1, <3>2 DEF PlanBatch
  <2>3. FailureTypes' /\ PlanFits' /\ Marked'
    BY <2>1, <2>2 DEF FailureInv, FailureTypes, PlanFits, Marked
  <2>4. LoneWriter' /\ NotBegun' /\ FailureIsShown'
    BY <1>2, <2>1 DEF FailureInv, LoneWriter, NotBegun, Writing, FailureIsShown, Observed
  <2>5. failed # committed + 1
    BY <2>1 DEF FailureInv, WrittenOnce
  <2>6. WrittenOnce'
    BY <2>1, <2>5 DEF WrittenOnce
  <2> QED
    BY <2>3, <2>4, <2>6 DEF FailureInv
<1>4. CASE WriteBatch(e)
  <2>1. /\ Writing(e) /\ plan.open /\ ~engines[e].wrote
        /\ table' = [k \in DOMAIN table |->
                        table[k] + (IF k[2] = committed + 1 THEN plan.rows[k[1]] ELSE 0)]
        /\ marker' = (marker \/ FailsNow(e))
        /\ failed' = IF FailsNow(e) THEN committed + 1 ELSE failed
        /\ plan' = plan /\ committed' = committed
    BY <1>4, Zenon DEF WriteBatch
  <2>2. committed + 1 \in Batch
    BY <1>1, <2>1, LifecycleAssumption DEF FailureInv, PlanFits, Batch
  <2>3. table' \in [Tuples \X Batch -> Nat]
    <3>1. \A k \in Tuples \X Batch : k[1] \in Tuples
      OBVIOUS
    <3>2. \A k \in Tuples \X Batch : plan.rows[k[1]] \in Nat /\ table[k] \in Nat
      BY <1>1, <3>1
    <3> QED
      BY <1>1, <2>1, <3>2
  <2>4. \A k \in Tuples \X Batch : table[k] \in Nat /\ table'[k] \in Nat /\ table'[k] >= table[k]
    <3>1. \A k \in Tuples \X Batch : k[1] \in Tuples
      OBVIOUS
    <3>2. \A k \in Tuples \X Batch : plan.rows[k[1]] \in Nat /\ table[k] \in Nat
      BY <1>1, <3>1
    <3> QED
      BY <1>1, <2>1, <2>3, <3>2
  <2>5. \A t \in Tuples : table'[<<t, committed + 1>>] = table[<<t, committed + 1>>] + plan.rows[t]
    BY <1>1, <2>1, <2>2
  <2>6. Observed => Observed'
    <3> SUFFICES ASSUME NEW k \in DOMAIN table, table[k] > 1
                 PROVE  Observed'
      BY DEF Observed
    <3>1. k \in Tuples \X Batch /\ k \in DOMAIN table'
      BY <1>1, <2>3
    <3>2. table'[k] > 1
      BY <2>4, <3>1
    <3> QED
      BY <3>1, <3>2 DEF Observed
  <2>7. \A t \in Tuples : <<t, committed + 1>> \in Tuples \X Batch
    BY <2>2
  <2> DEFINE wrote == ~FailsNow(e)
             r == [status |-> IF FailsNow(e) THEN "failed" ELSE engines[e].status,
                   armed |-> engines[e].armed, wrote |-> wrote]
  <2>8. engines' = [engines EXCEPT ![e] = r]
    <3> DEFINE st == IF FailsNow(e) THEN "failed" ELSE engines[e].status
    <3>1. engines' = Both(engines, e, wrote, st)
      BY <1>4, Zenon DEF WriteBatch, Both
    <3> HIDE DEF wrote, st
    <3>2. engines' = [engines EXCEPT ![e] = [status |-> st, armed |-> engines[e].armed,
                                             wrote |-> wrote]]
      BY <1>1, <3>1, BothFact
    <3> QED
      BY <3>2 DEF st
  <2>9. wrote \in BOOLEAN
    BY DEF FailsNow
  <2> HIDE DEF wrote
  <2>10. r \in Procs /\ r.wrote = wrote
         /\ r.status = IF FailsNow(e) THEN "failed" ELSE engines[e].status
    BY <1>1, <2>9 DEF Procs, Statuses
  <2> HIDE DEF r
  <2>11. /\ engines' \in Seq(Procs) /\ DOMAIN engines' = DOMAIN engines /\ engines'[e] = r
         /\ \A f \in DOMAIN engines : f # e => engines'[f] = engines[f]
    BY <1>1, <2>8, <2>10
  <2>12. engines[e].status \in Active
    BY <2>1 DEF Writing, Active
  <2>13. \A f \in DOMAIN engines : Writing(f)' => Writing(f)
    BY <2>10, <2>11, <2>12 DEF Writing, Active
  <2>14. FailsNow(e) => ~Writing(e)'
    BY <2>10, <2>11 DEF Writing
  <2>15. NotBegun' /\ LoneWriter'
    <3>1. LoneWriter'
      BY <1>2, <2>11, <2>13 DEF FailureInv, LoneWriter
    <3>2. r.status # "booting"
      BY <2>10, <2>12 DEF Active
    <3> QED
      BY <2>11, <3>1, <3>2 DEF FailureInv, NotBegun
  <2>16. ~overlapped => \A f \in DOMAIN engines : Writing(f) => f = e
    BY <2>1 DEF FailureInv, LoneWriter
  <2>17. CASE FailsNow(e)
    <3>1. ~marker /\ plan.rows # NoRows /\ failed' = committed + 1 /\ marker'
      BY <2>1, <2>17 DEF FailsNow
    <3>2. FailureTypes' /\ PlanFits' /\ Marked'
      <4>1. failed' <= committed' + 1 /\ failed' \in Nat
        BY <1>1, <2>1, <3>1
      <4>2. FailureTypes'
        BY <1>1, <2>1, <2>3, <2>11, <4>1 DEF FailureTypes
      <4> QED
        BY <2>1, <3>1, <4>2 DEF FailureInv, PlanFits, Marked
    <3>3. \A t \in Tuples : table'[<<t, committed + 1>>] >= plan.rows[t]
      BY <1>1, <2>4, <2>5, <2>7
    <3>4. ~overlapped => \A f \in DOMAIN engines' : ~Writing(f)'
      BY <2>11, <2>13, <2>14, <2>16, <2>17
    <3>5. WrittenOnce'
      BY <1>2, <2>1, <3>1, <3>3, <3>4 DEF WrittenOnce, NoRows
    <3>6. FailureIsShown'
      BY <1>1, <2>1, <3>1 DEF FailureIsShown
    <3> QED
      BY <2>15, <3>2, <3>5, <3>6 DEF FailureInv
  <2>18. CASE ~FailsNow(e)
    <3>1. failed' = failed /\ (marker => marker')
      BY <2>1, <2>18
    <3>2. FailureTypes' /\ PlanFits' /\ Marked'
      <4>1. FailureTypes'
        BY <1>1, <2>1, <2>3, <2>11, <3>1 DEF FailureTypes
      <4> QED
        BY <2>1, <3>1, <4>1 DEF FailureInv, PlanFits, Marked
    <3>3. ASSUME failed = committed + 1
          PROVE  \A t \in Tuples :
                    table'[<<t, committed + 1>>] >= plan.rows[t] + plan.rows[t]
      <4>1. \A t \in Tuples : /\ table[<<t, committed + 1>>] >= plan.rows[t]
                              /\ plan.rows[t] \in Nat /\ table[<<t, committed + 1>>] \in Nat
        BY <1>1, <2>4, <2>7, <3>3 DEF FailureInv, WrittenOnce
      <4> QED
        BY <2>5, <4>1
    <3>4. \A t \in Tuples : plan.rows[t] + plan.rows[t] >= plan.rows[t] /\ plan.rows[t] \in Nat
      BY <1>1
    <3>5. \A t \in Tuples : table'[<<t, committed + 1>>] \in Nat
      BY <2>4, <2>7
    <3>6. failed = committed + 1 => plan.rows # NoRows
      BY DEF FailureInv, WrittenOnce
    <3>7. ASSUME failed = committed + 1
          PROVE  \A t \in Tuples : table'[<<t, committed + 1>>] >= plan.rows[t]
      BY <3>3, <3>4, <3>5, <3>7
    <3>8. WrittenOnce'
      BY <2>1, <3>1, <3>3, <3>6, <3>7 DEF WrittenOnce, NoRows
    <3>9. FailureIsShown'
      BY <1>2, <2>1, <2>6, <3>1 DEF FailureInv, FailureIsShown
    <3> QED
      BY <2>15, <3>2, <3>8, <3>9 DEF FailureInv
  <2> QED
    BY <2>17, <2>18
<1>5. CASE CommitBatch(e)
  <2>1. /\ Writing(e) /\ plan.open /\ engines[e].wrote
        /\ engines' = [engines EXCEPT ![e].wrote = FALSE]
        /\ plan' = NoPlan /\ committed' = committed + 1
        /\ table' = table /\ marker' = marker /\ failed' = failed
    BY <1>5, Zenon DEF CommitBatch
  <2> DEFINE r == [engines[e] EXCEPT !.wrote = FALSE]
  <2>2. r \in Procs /\ r.status = engines[e].status /\ r.wrote = FALSE
    BY <1>1, WroteFact
  <2>3. engines' = [engines EXCEPT ![e] = r]
    BY <2>1
  <2> HIDE DEF r
  <2>4. /\ engines' \in Seq(Procs) /\ DOMAIN engines' = DOMAIN engines /\ engines'[e] = r
        /\ \A f \in DOMAIN engines : f # e => engines'[f] = engines[f]
    BY <1>1, <2>2, <2>3
  <2>5. \A f \in DOMAIN engines : engines'[f].status = engines[f].status
    BY <2>2, <2>4
  <2>6. LoneWriter' /\ NotBegun'
    BY <1>2, <2>2, <2>4, <2>5 DEF FailureInv, LoneWriter, NotBegun, Writing
  <2>7. NoPlan.open = FALSE /\ NoPlan.rows \in [Tuples -> Nat]
    BY DEF NoPlan, NoRows
  <2>8. FailureTypes' /\ PlanFits' /\ Marked'
    <3>1. failed' <= committed' + 1 /\ committed' \in Nat
      BY <1>1, <2>1
    <3>2. FailureTypes'
      BY <1>1, <2>1, <2>4, <2>7, <3>1 DEF FailureTypes
    <3> QED
      BY <2>1, <2>7, <3>2 DEF FailureInv, PlanFits, Marked
  <2>9. failed' # committed' + 1
    BY <1>1, <2>1
  <2>10. WrittenOnce'
    BY <2>9 DEF WrittenOnce
  <2>11. FailureIsShown'
    <3> SUFFICES ASSUME failed' \in 1..committed', ~overlapped'
                 PROVE  Observed'
      BY DEF FailureIsShown
    <3>1. CASE failed = committed + 1
      <4>1. plan.rows # NoRows
        BY <3>1 DEF FailureInv, WrittenOnce
      <4>2. PICK t \in Tuples : plan.rows[t] # 0
        BY <1>1, <4>1 DEF NoRows
      <4>3. table[<<t, failed>>] >= plan.rows[t] + plan.rows[t]
        BY <1>2, <2>1, <3>1 DEF FailureInv, WrittenOnce
      <4>4. failed \in Batch
        BY <1>1, <2>1, <3>1, LifecycleAssumption DEF FailureInv, PlanFits, Batch
      <4>5. <<t, failed>> \in DOMAIN table
        BY <1>1, <4>4
      <4>6. plan.rows[t] \in Nat /\ table[<<t, failed>>] \in Nat
        BY <1>1, <4>4
      <4>7. table[<<t, failed>>] > 1
        BY <4>2, <4>3, <4>6
      <4> QED
        BY <2>1, <4>5, <4>7 DEF Observed
    <3>2. CASE failed # committed + 1
      <4>1. failed \in 1..committed
        BY <1>1, <2>1, <3>2
      <4>2. Observed
        BY <1>2, <4>1 DEF FailureInv, FailureIsShown
      <4> QED
        BY <2>1, <4>2 DEF Observed
    <3> QED
      BY <3>1, <3>2
  <2> QED
    BY <2>6, <2>8, <2>10, <2>11 DEF FailureInv
<1> QED
  BY <1>3, <1>4, <1>5

LEMMA FailureInvariant == Spec => []FailureInv
<1>1. Init => FailureInv
  <2> SUFFICES ASSUME Init
               PROVE  FailureInv
    OBVIOUS
  <2>1. engines \in Seq(Procs) /\ DOMAIN engines = {}
    BY DEF Init
  <2>2. table \in [Tuples \X Batch -> Nat]
    BY DEF Init, NoLake
  <2>3. plan.open = FALSE /\ plan.rows \in [Tuples -> Nat]
    BY DEF Init, NoPlan, NoRows
  <2>4. committed = 0 /\ failed = 0
    BY DEF Init
  <2> QED
    BY <2>1, <2>2, <2>3, <2>4
       DEF FailureInv, FailureTypes, PlanFits, Marked, NotBegun, LoneWriter, WrittenOnce,
           FailureIsShown
<1>2. FailureInv /\ [Next]_vars => FailureInv'
  <2> SUFFICES ASSUME FailureInv, [Next]_vars
               PROVE  FailureInv'
    OBVIOUS
  <2>1. CASE UNCHANGED vars
    <3>1. /\ engines' = engines /\ overlapped' = overlapped /\ plan' = plan
          /\ committed' = committed /\ table' = table /\ marker' = marker /\ failed' = failed
      BY <2>1, Zenon DEF vars, procs, lake
    <3> QED
      BY <3>1, Zenon DEF FailureInv, FailureTypes, PlanFits, Marked, NotBegun, LoneWriter, WrittenOnce,
                         FailureIsShown, Writing, Observed, NoRows
  <2>2. CASE Next
    BY <2>2, CommandKeeps, BootKeeps, BatchKeeps DEF Next
  <2> QED
    BY <2>1, <2>2
<1> QED
  BY <1>1, <1>2, PTL DEF Spec

(* Where the engines did not overlap, the failure that was armed leaves    *)
(* rows of its batch twice in the table, whatever scripts run one after    *)
(* another and wherever a process dies (balance_engine.py:136-167;         *)
(* sink_replay_drill.sh).                                                  *)
THEOREM ArmedFailureIsShown == Spec => []FailureIsShown
<1>1. FailureInv => FailureIsShown
  BY DEF FailureInv
<1> QED
  BY <1>1, FailureInvariant, PTL

(***************************************************************************)
(* The scripts, one after another                                          *)
(***************************************************************************)

(* The commands of the scripts; only three of them launch or kill.         *)
Quiet == {"term", "await", "rm", "pkill", "reset", "ready", "publish", "drain", "judge"}

Commands == Quiet \cup {"launch", "arm", "kill"}

LEMMA StopFact ==
    /\ Patient \in Seq(Commands) /\ \A i \in 1..Len(Patient) : Patient[i] \in Quiet
    /\ Hasty \in Seq(Commands) /\ \A i \in 1..Len(Hasty) : Hasty[i] \in Quiet
    /\ \A i \in 1..Len(Hasty) : Hasty[i] # "judge"
BY DEF Patient, Hasty, Commands, Quiet

LEMMA StageRunFact ==
    /\ StageRun \in Seq(Commands) /\ Len(StageRun) = 14
    /\ \A i \in 1..14 : i # 6 => StageRun[i] \in Quiet
    /\ StageRun[4] = "pkill"
BY DEF StageRun, Patient, Commands, Quiet

LEMMA RecoveryDrillFact ==
    /\ RecoveryDrill \in Seq(Commands) /\ Len(RecoveryDrill) = 15
    /\ \A i \in 1..15 : i \notin {5, 8, 9} => RecoveryDrill[i] \in Quiet
    /\ RecoveryDrill[2] = "pkill"
    /\ RecoveryDrill[5] = "launch" /\ RecoveryDrill[8] = "kill" /\ RecoveryDrill[9] = "launch"
    /\ \A i \in 1..15 : RecoveryDrill[i] = "kill" => i = 8
    /\ \A i \in 1..15 : RecoveryDrill[i] = "judge" => i = 15
BY DEF RecoveryDrill, Hasty, Commands, Quiet

LEMMA SinkReplayDrillFact ==
    /\ SinkReplayDrill \in Seq(Commands) /\ Len(SinkReplayDrill) = 18
    /\ \A i \in 1..18 : i \notin {5, 12} => SinkReplayDrill[i] \in Quiet
    /\ SinkReplayDrill[5] = "arm" /\ SinkReplayDrill[12] = "launch"
    /\ SinkReplayDrill[2] = "pkill" /\ SinkReplayDrill[3] = "rm"
    /\ SinkReplayDrill[10] = "pkill" /\ SinkReplayDrill[11] = "rm"
BY DEF SinkReplayDrill, Hasty, Commands, Quiet

(* The script has run k commands of p and has still to run the others.     *)
Spent(p, k) ==
    /\ k \in 0..Len(p)
    /\ todo \in Seq(Commands) /\ Len(todo) = Len(p) - k
    /\ \A i \in 1..Len(todo) : todo[i] = p[k + i]

(* Places between a stop, or the SIGKILL, and the launch after it.         *)
Calm(name) ==
    CASE name = "stage_run"         -> {4, 5}
      [] name = "recovery_drill"    -> {2, 3, 4, 8}
      [] name = "sink_replay_drill" -> {2, 3, 4, 10, 11}
      [] name = "stop_engine"       -> {}

(* What k commands of a script have made of the engines: before a launch   *)
(* no engine of earlier can still come up, and from the SIGKILL of the     *)
(* recovery drill none lives but the one launched after it.                *)
Place(name, k) ==
    /\ k \in Calm(name) => \A e \in DOMAIN engines : engines[e].status # "booting"
    /\ name = "sink_replay_drill" /\ k \in {3, 4, 11} => pidfile = 0
    /\ name = "recovery_drill" /\ k = 8 => \A e \in DOMAIN engines : engines[e].status = "gone"
    /\ name = "recovery_drill" /\ k \in 9..14 =>
          \A e \in DOMAIN engines : e # Len(engines) => engines[e].status = "gone"

(* Only the last engine launched can still come up and write the file.     *)
LastBoots ==
    /\ pidfile \in {0, Len(engines)}
    /\ \A e \in DOMAIN engines : e < Len(engines) => engines[e].status # "booting"

ScriptInv ==
    /\ LastBoots
    /\ script = "none" => todo = <<>>
    /\ script # "none" =>
          /\ script \in {"stage_run", "recovery_drill", "sink_replay_drill", "stop_engine"}
          /\ \/ \E k \in Nat : Spent(Program(script), k) /\ Place(script, k)
             \/ \E k \in Nat : Spent(StopOf(script), k)

LEMMA SpentStep ==
    ASSUME NEW p, NEW k, Spent(p, k), todo # <<>>, todo' = Tail(todo)
    PROVE  Spent(p, k + 1)' /\ k \in Nat /\ k + 1 \in 1..Len(p) /\ Head(todo) = p[k + 1]
<1>1. /\ todo \in Seq(Commands) /\ Len(todo) = Len(p) - k /\ k \in 0..Len(p)
      /\ \A i \in 1..Len(todo) : todo[i] = p[k + i]
  BY DEF Spent
<1>2. /\ Len(todo) \in Nat /\ Len(todo) > 0 /\ Head(todo) = todo[1]
      /\ Tail(todo) \in Seq(Commands) /\ Len(Tail(todo)) = Len(todo) - 1
      /\ \A i \in 1..Len(Tail(todo)) : Tail(todo)[i] = todo[i + 1]
  BY <1>1
<1>3. k + 1 \in 0..Len(p) /\ k \in Nat
  BY <1>1, <1>2
<1>4. \A i \in 1..Len(Tail(todo)) : Tail(todo)[i] = p[(k + 1) + i]
  <2> SUFFICES ASSUME NEW i \in 1..Len(Tail(todo))
               PROVE  Tail(todo)[i] = p[(k + 1) + i]
    OBVIOUS
  <2>1. i + 1 \in 1..Len(todo) /\ k + (i + 1) = (k + 1) + i
    BY <1>2, <1>3
  <2> QED
    BY <1>1, <1>2, <2>1
<1> QED
  BY <1>1, <1>2, <1>3, <1>4 DEF Spent

(* The engines grow older: none is added, none comes back.                 *)
Ages ==
    /\ Len(engines') = Len(engines) /\ DOMAIN engines' = DOMAIN engines
    /\ \A e \in DOMAIN engines :
          /\ engines'[e].status = "booting" => engines[e].status = "booting"
          /\ engines[e].status = "gone" => engines'[e].status = "gone"

LEMMA OneAges ==
    ASSUME engines \in Seq(Procs), NEW e \in DOMAIN engines, NEW r,
           engines' = [engines EXCEPT ![e] = r],
           r.status # "booting", engines[e].status # "gone"
    PROVE  Ages
BY DEF Ages

LEMMA SignalAges ==
    ASSUME engines \in Seq(Procs), NEW S, engines' = Termed(S) \/ engines' = Killed(S)
    PROVE  /\ Ages
           /\ engines' = Termed(S) => \A e \in S \cap DOMAIN engines : engines'[e].status # "booting"
           /\ engines' = Killed(S) => \A e \in S \cap DOMAIN engines : engines'[e].status = "gone"
<1> DEFINE gone(e) == [engines[e] EXCEPT !.status = "gone"]
           termed(e) == [engines[e] EXCEPT !.status = "termed"]
<1>1. DOMAIN engines = 1..Len(engines) /\ Len(engines) \in Nat
      /\ \A e \in DOMAIN engines : engines[e] \in Procs
  OBVIOUS
<1>2. \A e \in DOMAIN engines : gone(e).status = "gone" /\ termed(e).status = "termed"
  BY <1>1, StatusFact DEF Statuses
<1>3. Termed(S) = [e \in DOMAIN engines |->
                      IF e \in S THEN CASE engines[e].status = "booting" -> gone(e)
                                        [] engines[e].status = "up" -> termed(e)
                                        [] OTHER -> engines[e]
                      ELSE engines[e]]
  BY Zenon DEF Termed
<1>4. Killed(S) = [e \in DOMAIN engines |-> IF e \in S THEN gone(e) ELSE engines[e]]
  BY Zenon DEF Killed
<1> HIDE DEF gone, termed
<1>5. /\ DOMAIN Termed(S) = DOMAIN engines /\ DOMAIN Killed(S) = DOMAIN engines
      /\ engines' \in Seq(Procs)
  BY <1>3, <1>4, TermedFact
<1>6. Len(engines') = Len(engines) /\ DOMAIN engines' = DOMAIN engines
  BY <1>1, <1>5
<1>7. ASSUME engines' = Termed(S), NEW e \in DOMAIN engines
      PROVE  /\ engines'[e].status = "booting" => e \notin S /\ engines[e].status = "booting"
             /\ engines[e].status = "gone" => engines'[e].status = "gone"
  <2>1. \/ engines'[e] = gone(e) /\ e \in S
        \/ engines'[e] = termed(e) /\ engines[e].status = "up" /\ e \in S
        \/ engines'[e] = engines[e] /\ (engines[e].status # "booting" \/ e \notin S)
    BY <1>3, <1>7
  <2> QED
    BY <1>2, <2>1
<1>8. ASSUME engines' = Killed(S), NEW e \in DOMAIN engines
      PROVE  /\ engines'[e].status = "booting" => engines[e].status = "booting"
             /\ engines[e].status = "gone" => engines'[e].status = "gone"
             /\ e \in S => engines'[e].status = "gone"
  <2>1. engines'[e] = IF e \in S THEN gone(e) ELSE engines[e]
    BY <1>4, <1>8
  <2> QED
    BY <1>2, <2>1
<1> QED
  BY <1>6, <1>7, <1>8 DEF Ages

LEMMA StepAges ==
    ASSUME FailureInv, [Next]_vars
    PROVE  /\ Launch \/ Ages
           /\ \/ Launch
              \/ pidfile' \in {0, pidfile}
              \/ \E e \in DOMAIN engines : engines[e].status = "booting" /\ pidfile' = e
<1>1. engines \in Seq(Procs) /\ DOMAIN engines = 1..Len(engines)
      /\ \A e \in DOMAIN engines : engines[e] \in Procs
  BY DEF FailureInv, FailureTypes
<1>2. CASE engines' = engines /\ pidfile' \in {0, pidfile}
  BY <1>1, <1>2 DEF Ages
<1>3. CASE Term \/ Await \/ Pkill \/ Kill
  <2>1. \/ engines' = engines
        \/ \E S : engines' = Termed(S)
        \/ \E S : engines' = Killed(S)
    BY <1>3, Zenon DEF Term, Await, Pkill, Kill
  <2>2. pidfile' \in {0, pidfile}
    BY <1>3, Zenon DEF Term, Await, Pkill, Kill
  <2>3. Ages
    <3>1. CASE engines' = engines
      BY <1>1, <3>1 DEF Ages
    <3>2. CASE \E S : engines' = Termed(S) \/ engines' = Killed(S)
      <4>1. PICK S : engines' = Termed(S) \/ engines' = Killed(S)
        BY <3>2
      <4> QED
        BY <1>1, <4>1, SignalAges
    <3> QED
      BY <2>1, <3>1, <3>2
  <2> QED
    BY <2>2, <2>3
<1>4. CASE Reset
  <2>1. engines' = [e \in DOMAIN engines |-> [engines[e] EXCEPT !.wrote = FALSE]] /\ pidfile' = 0
    BY <1>4 DEF Reset
  <2> DEFINE r(e) == [engines[e] EXCEPT !.wrote = FALSE]
  <2>2. \A e \in DOMAIN engines : r(e).status = engines[e].status /\ r(e) \in Procs
    BY <1>1, WroteFact
  <2>3. engines' = [e \in 1..Len(engines) |-> r(e)]
    BY <1>1, <2>1
  <2> HIDE DEF r
  <2>4. /\ Len(engines') = Len(engines) /\ DOMAIN engines' = DOMAIN engines
        /\ \A e \in DOMAIN engines : engines'[e] = r(e)
    BY <1>1, <2>2, <2>3
  <2> QED
    BY <2>1, <2>2, <2>4 DEF Ages
<1>5. ASSUME NEW e \in DOMAIN engines,
             Boot(e) \/ DieStarting(e) \/ QueryDies(e) \/ Ends(e)
      PROVE  /\ Ages
             /\ \/ pidfile' \in {0, pidfile}
                \/ engines[e].status = "booting" /\ pidfile' = e
  <2>1. PICK s \in Statuses \ {"booting"} :
           engines' = [engines EXCEPT ![e].status = s] /\ engines[e].status # "gone"
    BY <1>5, Zenon DEF Boot, DieStarting, QueryDies, Ends, HandleTerm, Exit, Becomes, Statuses
  <2> DEFINE r == [engines[e] EXCEPT !.status = s]
  <2>2. r.status = s
    BY <1>1, StatusFact
  <2>3. engines' = [engines EXCEPT ![e] = r]
    BY <2>1
  <2> HIDE DEF r
  <2>4. Ages
    BY <1>1, <2>1, <2>2, <2>3, OneAges
  <2>5. \/ pidfile' \in {0, pidfile}
        \/ engines[e].status = "booting" /\ pidfile' = e
    BY <1>5, Zenon DEF Boot, DieStarting, QueryDies, Ends, HandleTerm, Exit
  <2> QED
    BY <2>4, <2>5
<1>6. ASSUME NEW e \in DOMAIN engines, PlanBatch(e) \/ WriteBatch(e) \/ CommitBatch(e)
      PROVE  Ages /\ pidfile' = pidfile
  <2>1. pidfile' = pidfile
    BY <1>6, Zenon DEF PlanBatch, WriteBatch, CommitBatch, procs
  <2>2. CASE PlanBatch(e)
    BY <1>1, <2>2 DEF PlanBatch, procs, Ages
  <2>3. CASE WriteBatch(e)
    <3> DEFINE w == ~FailsNow(e)
               st == IF FailsNow(e) THEN "failed" ELSE engines[e].status
               r == [status |-> st, armed |-> engines[e].armed, wrote |-> w]
    <3>1. engines' = Both(engines, e, w, st) /\ Writing(e)
      BY <2>3, Zenon DEF WriteBatch, Both
    <3>2. st # "booting" /\ engines[e].status # "gone"
      BY <3>1 DEF Writing
    <3> HIDE DEF w, st
    <3>3. engines' = [engines EXCEPT ![e] = r]
      BY <1>1, <3>1, BothFact
    <3>4. r.status = st
      OBVIOUS
    <3> HIDE DEF r
    <3>5. Ages
      BY <1>1, <3>2, <3>3, <3>4, OneAges
    <3> QED
      BY <2>1, <3>5
  <2>4. CASE CommitBatch(e)
    <3> DEFINE r == [engines[e] EXCEPT !.wrote = FALSE]
    <3>1. engines' = [engines EXCEPT ![e] = r] /\ Writing(e)
      BY <2>4, Zenon DEF CommitBatch
    <3>2. r.status = engines[e].status
      BY <1>1, WroteFact
    <3>3. r.status # "booting" /\ engines[e].status # "gone"
      BY <3>1, <3>2 DEF Writing
    <3> HIDE DEF r
    <3>4. Ages
      BY <1>1, <3>1, <3>3, OneAges
    <3> QED
      BY <2>1, <3>4
  <2> QED
    BY <1>6, <2>1, <2>2, <2>3, <2>4
<1>7. CASE Begin \/ End \/ RemoveFile \/ Ready \/ NeverReady \/ Publish \/ NotPublished \/ Drain
          \/ NothingToKill \/ Judge \/ JudgeAttempt \/ TryAgain
  <2>1. engines' = engines /\ pidfile' \in {0, pidfile}
    BY <1>7, Zenon DEF Begin, End, RemoveFile, Ready, NeverReady, Publish, NotPublished, Drain,
                       NothingToKill, Judge, JudgeAttempt, TryAgain, procs
  <2> QED
    BY <1>2, <2>1
<1>8. CASE UNCHANGED vars
  BY <1>2, <1>8 DEF vars, procs
<1> QED
  BY <1>3, <1>4, <1>5, <1>6, <1>7, <1>8 DEF Next, Command

(* What stays true of the engines while the script stays where it is, or   *)
(* launches none.                                                          *)
LEMMA AgedFacts ==
    ASSUME FailureInv, LastBoots, Ages,
           \/ pidfile' \in {0, pidfile}
           \/ \E e \in DOMAIN engines : engines[e].status = "booting" /\ pidfile' = e
    PROVE  /\ LastBoots'
           /\ \A name, k : Place(name, k) => Place(name, k)'
<1>1. DOMAIN engines = 1..Len(engines) /\ Len(engines) \in Nat
  BY DEF FailureInv, FailureTypes
<1>2. ASSUME NEW e \in DOMAIN engines, engines[e].status = "booting"
      PROVE  e = Len(engines)
  <2>1. ~ (e < Len(engines))
    BY <1>2 DEF LastBoots
  <2> QED
    BY <1>1, <2>1
<1>3. LastBoots'
  <2>1. /\ Len(engines') = Len(engines) /\ DOMAIN engines' = DOMAIN engines
        /\ \A e \in DOMAIN engines :
              engines'[e].status = "booting" => engines[e].status = "booting"
    BY DEF Ages
  <2>2. pidfile' \in {0, Len(engines)}
    <3>1. pidfile \in {0, Len(engines)}
      BY DEF LastBoots
    <3> QED
      BY <1>2, <3>1
  <2>3. \A e \in DOMAIN engines : e < Len(engines) => engines[e].status # "booting"
    BY DEF LastBoots
  <2>4. ASSUME NEW e \in DOMAIN engines', e < Len(engines')
        PROVE  engines'[e].status # "booting"
    <3>1. e \in DOMAIN engines /\ e < Len(engines)
      BY <2>1, <2>4, Zenon
    <3> QED
      BY <2>1, <2>3, <3>1, Zenon
  <2>5. pidfile' \in {0, Len(engines')}
    BY <2>1, <2>2
  <2> QED
    BY <2>4, <2>5, Zenon DEF LastBoots
<1>4. ASSUME NEW name, NEW k, Place(name, k)
      PROVE  Place(name, k)'
  <2>1. /\ Len(engines') = Len(engines) /\ DOMAIN engines' = DOMAIN engines
        /\ \A e \in DOMAIN engines :
              /\ engines'[e].status = "booting" => engines[e].status = "booting"
              /\ engines[e].status = "gone" => engines'[e].status = "gone"
    BY DEF Ages
  <2>2. k \in Calm(name) => \A e \in DOMAIN engines' : engines'[e].status # "booting"
    BY <1>4, <2>1 DEF Place
  <2>3. name = "sink_replay_drill" /\ k \in {3, 4, 11} => pidfile' = 0
    BY <1>4 DEF Place, Calm
  <2>4. name = "recovery_drill" /\ k = 8 => \A e \in DOMAIN engines' : engines'[e].status = "gone"
    BY <1>4, <2>1 DEF Place
  <2>5. name = "recovery_drill" /\ k \in 9..14 =>
           \A e \in DOMAIN engines' : e # Len(engines') => engines'[e].status = "gone"
    BY <1>4, <2>1 DEF Place
  <2> QED
    BY <2>2, <2>3, <2>4, <2>5 DEF Place, Calm
<1> QED
  BY <1>3, <1>4

LEMMA ProgramFact ==
    ASSUME NEW name \in {"stage_run", "recovery_drill", "sink_replay_drill", "stop_engine"}
    PROVE  /\ Program(name) \in Seq(Commands) /\ StopOf(name) \in Seq(Commands)
           /\ \A i \in 1..Len(StopOf(name)) : StopOf(name)[i] \in Quiet
           /\ Program(name) = CASE name = "stage_run"         -> StageRun
                                [] name = "recovery_drill"    -> RecoveryDrill
                                [] name = "sink_replay_drill" -> SinkReplayDrill
                                [] name = "stop_engine"       -> Patient
BY StageRunFact, RecoveryDrillFact, SinkReplayDrillFact, StopFact DEF Program, StopOf

(* The commands but for the first and the last, by what they leave.        *)
LEMMA DoneSteps ==
    ASSUME Command, ~Begin, ~End, ~Launch
    PROVE  /\ todo # <<>> /\ script' = script
           /\ \/ todo' = StopOf(script)
              \/ todo' = Program(script) /\ script = "recovery_drill"
              \/ /\ todo' = Tail(todo)
                 /\ Head(todo) \notin {"launch", "arm"}
                 /\ Head(todo) = "kill" => Kill
                 /\ Head(todo) = "pkill" => Pkill
                 /\ Head(todo) = "rm" => RemoveFile
<1>1. CASE NeverReady \/ NothingToKill \/ NotPublished \/ JudgeAttempt
  BY <1>1 DEF NeverReady, NothingToKill, NotPublished, JudgeAttempt, Does, Abort
<1>2. CASE Term \/ Await \/ Reset \/ Ready \/ Publish \/ Drain \/ Judge
  BY <1>2 DEF Term, Await, Reset, Ready, Publish, Drain, Judge, Does, Done
<1>3. CASE Pkill \/ RemoveFile \/ Kill
  <2>1. /\ Pkill => Does("pkill") /\ Done
        /\ RemoveFile => Does("rm") /\ Done
        /\ Kill => Does("kill") /\ Done
    BY DEF Pkill, RemoveFile, Kill
  <2> QED
    BY <1>3, <2>1 DEF Does, Done
<1>4. CASE TryAgain
  BY <1>4 DEF TryAgain, Does
<1> QED
  BY <1>1, <1>2, <1>3, <1>4 DEF Command

(* A command that launches nothing, at any place of the script.            *)
LEMMA PlaceAdvances ==
    ASSUME FailureInv, LastBoots, Ages,
           pidfile' \in {0, pidfile} \/ \E e \in DOMAIN engines : engines[e].status = "booting" /\ pidfile' = e,
           NEW name \in {"stage_run", "recovery_drill", "sink_replay_drill", "stop_engine"},
           NEW k \in Nat, k + 1 \in 1..Len(Program(name)), Place(name, k),
           Head(todo) = Program(name)[k + 1],
           Head(todo) \notin {"launch", "arm"},
           Head(todo) = "kill" => Kill,
           Head(todo) = "pkill" => Pkill,
           Head(todo) = "rm" => RemoveFile
    PROVE  Place(name, k + 1)'
<1>1. engines \in Seq(Procs) /\ DOMAIN engines = 1..Len(engines) /\ Len(engines) \in Nat
  BY DEF FailureInv, FailureTypes
<1>2. /\ Len(engines') = Len(engines) /\ DOMAIN engines' = DOMAIN engines
      /\ Place(name, k)'
  BY AgedFacts DEF Ages
<1>3. Pkill => \A e \in DOMAIN engines' : engines'[e].status # "booting"
  <2> SUFFICES ASSUME Pkill
               PROVE  \A e \in DOMAIN engines' : engines'[e].status # "booting"
    OBVIOUS
  <2>1. engines' = Termed(DOMAIN engines)
    BY DEF Pkill
  <2> QED
    BY <1>1, <1>2, <2>1, SignalAges
<1>4. Kill => \A e \in DOMAIN engines' : engines'[e].status = "gone"
  <2> SUFFICES ASSUME Kill
               PROVE  \A e \in DOMAIN engines' : engines'[e].status = "gone"
    OBVIOUS
  <2>1. engines' = Killed(DOMAIN engines)
    BY DEF Kill
  <2> QED
    BY <1>1, <1>2, <2>1, SignalAges
<1>5. ASSUME k + 1 \in Calm(name)
      PROVE  \A e \in DOMAIN engines' : engines'[e].status # "booting"
  <2>1. CASE name = "stage_run"
    <3>1. k + 1 = 4 \/ k = 4
      BY <1>5, <2>1 DEF Calm
    <3>2. k + 1 = 4 => Head(todo) = "pkill"
      BY <2>1, ProgramFact, StageRunFact
    <3>3. k = 4 => k \in Calm(name)
      BY <2>1 DEF Calm
    <3> QED
      BY <1>2, <1>3, <3>1, <3>2, <3>3 DEF Place
  <2>2. CASE name = "recovery_drill"
    <3>1. k + 1 \in {2, 8} \/ k \in {2, 3}
      BY <1>5, <2>2 DEF Calm
    <3>2. /\ k + 1 = 2 => Head(todo) = "pkill"
          /\ k + 1 = 8 => Head(todo) = "kill"
      BY <2>2, ProgramFact, RecoveryDrillFact
    <3>3. k \in {2, 3} => k \in Calm(name)
      BY <2>2 DEF Calm
    <3> QED
      BY <1>2, <1>3, <1>4, <3>1, <3>2, <3>3 DEF Place
  <2>3. CASE name = "sink_replay_drill"
    <3>1. k + 1 \in {2, 10} \/ k \in {2, 3, 10}
      BY <1>5, <2>3 DEF Calm
    <3>2. k + 1 \in {2, 10} => Head(todo) = "pkill"
      BY <2>3, ProgramFact, SinkReplayDrillFact
    <3>3. k \in {2, 3, 10} => k \in Calm(name)
      BY <2>3 DEF Calm
    <3> QED
      BY <1>2, <1>3, <3>1, <3>2, <3>3 DEF Place
  <2>4. name # "stop_engine"
    BY <1>5 DEF Calm
  <2> QED
    BY <2>1, <2>2, <2>3, <2>4
<1>6. ASSUME name = "sink_replay_drill", k + 1 \in {3, 4, 11}
      PROVE  pidfile' = 0
  <2>1. CASE k + 1 \in {3, 11}
    <3>1. Head(todo) = "rm"
      BY <1>6, <2>1, ProgramFact, SinkReplayDrillFact
    <3> QED
      BY <3>1 DEF RemoveFile
  <2>2. CASE k = 3
    BY <1>2, <1>6, <2>2 DEF Place
  <2> QED
    BY <1>6, <2>1, <2>2
<1>7. ASSUME name = "recovery_drill", k + 1 = 8
      PROVE  \A e \in DOMAIN engines' : engines'[e].status = "gone"
  <2>1. Head(todo) = "kill"
    BY <1>7, ProgramFact, RecoveryDrillFact
  <2> QED
    BY <1>4, <2>1
<1>8. ASSUME name = "recovery_drill", k + 1 \in 9..14
      PROVE  \A e \in DOMAIN engines' : e # Len(engines') => engines'[e].status = "gone"
  <2>1. k # 8
    <3>1. Program(name) = RecoveryDrill
      BY <1>8, ProgramFact
    <3>2. k = 8 => Head(todo) = RecoveryDrill[9]
      BY <3>1
    <3> QED
      BY <3>2, RecoveryDrillFact
  <2>2. k \in 9..14
    BY <1>8, <2>1
  <2> QED
    BY <1>2, <1>8, <2>2 DEF Place
<1> QED
  BY <1>5, <1>6, <1>7, <1>8 DEF Place, Calm

(* A launch, at the one or two places where a script has one.              *)
LEMMA LaunchKeeps ==
    ASSUME FailureInv, ScriptInv, Launch
    PROVE  ScriptInv'
<1>1. engines \in Seq(Procs) /\ DOMAIN engines = 1..Len(engines) /\ Len(engines) \in Nat
  BY DEF FailureInv, FailureTypes
<1>2. /\ todo # <<>> /\ Head(todo) \in {"launch", "arm"} /\ todo' = Tail(todo)
      /\ script' = script
      /\ pidfile' = IF script = "sink_replay_drill" THEN pidfile ELSE 0
  BY DEF Launch, Does, Done
<1>3. /\ script \in {"stage_run", "recovery_drill", "sink_replay_drill", "stop_engine"}
      /\ LastBoots
  BY <1>2 DEF ScriptInv
<1>4. PICK k \in Nat : Spent(Program(script), k) /\ Place(script, k)
  <2>1. ASSUME NEW k \in Nat, Spent(StopOf(script), k)
        PROVE  FALSE
    <3>1. k + 1 \in 1..Len(StopOf(script)) /\ Head(todo) = StopOf(script)[k + 1]
      BY <1>2, <2>1, SpentStep
    <3>2. Head(todo) \in Quiet
      BY <1>3, <3>1, ProgramFact
    <3> QED
      BY <1>2, <3>2 DEF Quiet
  <2> QED
    BY <1>2, <1>3, <2>1 DEF ScriptInv
<1>5. /\ Spent(Program(script), k + 1)' /\ k + 1 \in 1..Len(Program(script))
      /\ Head(todo) = Program(script)[k + 1]
  BY <1>2, <1>4, SpentStep
<1>6. \/ script = "stage_run" /\ k = 5
      \/ script = "recovery_drill" /\ k \in {4, 8}
      \/ script = "sink_replay_drill" /\ k \in {4, 11}
  <2>0. Head(todo) \notin Quiet
    BY <1>2 DEF Quiet
  <2>1. CASE script = "stage_run"
    <3>1. k + 1 \in 1..14 /\ Head(todo) = StageRun[k + 1]
      BY <1>5, <2>1, ProgramFact, StageRunFact
    <3>2. k + 1 = 6
      BY <2>0, <3>1, StageRunFact
    <3> QED
      BY <2>1, <3>2
  <2>2. CASE script = "recovery_drill"
    <3>1. k + 1 \in 1..15 /\ Head(todo) = RecoveryDrill[k + 1]
      BY <1>5, <2>2, ProgramFact, RecoveryDrillFact
    <3>2. k + 1 \in {5, 8, 9} /\ k + 1 # 8
      BY <1>2, <2>0, <3>1, RecoveryDrillFact
    <3> QED
      BY <2>2, <3>2
  <2>3. CASE script = "sink_replay_drill"
    <3>1. k + 1 \in 1..18 /\ Head(todo) = SinkReplayDrill[k + 1]
      BY <1>5, <2>3, ProgramFact, SinkReplayDrillFact
    <3>2. k + 1 \in {5, 12}
      BY <2>0, <3>1, SinkReplayDrillFact
    <3> QED
      BY <2>3, <3>2
  <2>4. CASE script = "stop_engine"
    <3>1. k + 1 \in 1..Len(Patient) /\ Head(todo) = Patient[k + 1]
      BY <1>5, <2>4, ProgramFact
    <3> QED
      BY <1>2, <3>1, StopFact DEF Quiet
  <2> QED
    BY <1>3, <2>1, <2>2, <2>3, <2>4
<1>7. pidfile' = 0 /\ \A e \in DOMAIN engines : engines[e].status # "booting"
  <2>1. k \in Calm(script)
    BY <1>6 DEF Calm
  <2> QED
    BY <1>2, <1>4, <1>6, <2>1 DEF Place
<1>8. PICK p : engines' = Append(engines, p) /\ p \in Procs
  <2> DEFINE p == [status |-> "booting", armed |-> Does("arm"), wrote |-> FALSE]
  <2>1. p \in Procs
    BY DEF Procs, Statuses, Does
  <2> QED
    BY <2>1 DEF Launch
<1>9. /\ Len(engines') = Len(engines) + 1 /\ DOMAIN engines' = 1..(Len(engines) + 1)
      /\ \A e \in DOMAIN engines : engines'[e] = engines[e]
  BY <1>1, <1>8
<1>10. LastBoots'
  BY <1>1, <1>7, <1>9 DEF LastBoots
<1>11. Place(script, k + 1)'
  <2>1. k + 1 \notin Calm(script)
    BY <1>6 DEF Calm
  <2>2. script = "recovery_drill" /\ k = 8 => \A e \in DOMAIN engines : engines[e].status = "gone"
    BY <1>4 DEF Place
  <2>3. script = "recovery_drill" /\ k + 1 \in 9..14 =>
           \A e \in DOMAIN engines' : e # Len(engines') => engines'[e].status = "gone"
    BY <1>1, <1>6, <1>9, <2>2
  <2>4. k + 1 \notin {3, 4, 8, 11}
    BY <1>6
  <2> QED
    BY <1>2, <2>1, <2>3, <2>4 DEF Place, Calm
<1> QED
  BY <1>2, <1>3, <1>5, <1>10, <1>11 DEF ScriptInv

LEMMA ScriptKeeps ==
    ASSUME FailureInv, ScriptInv, [Next]_vars
    PROVE  ScriptInv'
<1>1. engines \in Seq(Procs) /\ DOMAIN engines = 1..Len(engines) /\ Len(engines) \in Nat
  BY DEF FailureInv, FailureTypes
<1>2. LastBoots
  BY DEF ScriptInv
<1>3. CASE Launch
  BY <1>3, LaunchKeeps
<1>4. CASE ~ Launch
  <2>1. /\ Ages
        /\ \/ pidfile' \in {0, pidfile}
           \/ \E e \in DOMAIN engines : engines[e].status = "booting" /\ pidfile' = e
    BY <1>4, StepAges
  <2>2. LastBoots' /\ \A name, k : Place(name, k) => Place(name, k)'
    BY <1>2, <2>1, AgedFacts
  <2>3. CASE Begin
    <3>1. script' \in Scripts /\ todo' = Program(script')
      BY <2>3 DEF Begin
    <3>2. script' \in {"stage_run", "recovery_drill", "sink_replay_drill", "stop_engine"}
      BY <3>1, LifecycleAssumption
    <3>3. script' # "none"
      BY <3>2
    <3>4. Spent(Program(script), 0)'
      <4>1. Program(script') \in Seq(Commands)
        BY <3>2, ProgramFact
      <4> QED
        BY <3>1, <4>1 DEF Spent
    <3>5. Place(script, 0)'
      BY <3>2 DEF Place, Calm
    <3> QED
      BY <2>2, <3>2, <3>3, <3>4, <3>5 DEF ScriptInv
  <2>4. CASE End
    <3>1. script' = "none" /\ todo' = <<>>
      BY <2>4 DEF End
    <3> QED
      BY <2>2, <3>1 DEF ScriptInv
  <2>5. CASE Command /\ ~Begin /\ ~End
    <3>1. /\ todo # <<>> /\ script' = script
          /\ \/ todo' = StopOf(script)
             \/ todo' = Program(script) /\ script = "recovery_drill"
             \/ /\ todo' = Tail(todo)
                /\ Head(todo) \notin {"launch", "arm"}
                /\ Head(todo) = "kill" => Kill
                /\ Head(todo) = "pkill" => Pkill
                /\ Head(todo) = "rm" => RemoveFile
      BY <1>4, <2>5, DoneSteps
    <3>2. /\ script # "none"
          /\ script \in {"stage_run", "recovery_drill", "sink_replay_drill", "stop_engine"}
          /\ \/ \E k \in Nat : Spent(Program(script), k) /\ Place(script, k)
             \/ \E k \in Nat : Spent(StopOf(script), k)
      BY <3>1 DEF ScriptInv
    <3>3. \/ \E k \in Nat : Spent(Program(script), k)' /\ Place(script, k)'
          \/ \E k \in Nat : Spent(StopOf(script), k)'
      <4>1. CASE todo' = StopOf(script)
        <5>1. Spent(StopOf(script), 0)'
          <6>1. StopOf(script) \in Seq(Commands)
            BY <3>2, ProgramFact
          <6> QED
            BY <3>1, <4>1, <6>1 DEF Spent
        <5> QED
          BY <5>1
      <4>2. CASE todo' = Program(script) /\ script = "recovery_drill"
        <5>1. Spent(Program(script), 0)'
          <6>1. Program(script) \in Seq(Commands)
            BY <3>2, ProgramFact
          <6> QED
            BY <3>1, <4>2, <6>1 DEF Spent
        <5>2. Place(script, 0)'
          BY <3>1, <4>2 DEF Place, Calm
        <5> QED
          BY <5>1, <5>2
      <4>3. CASE todo' = Tail(todo) /\ \E k \in Nat : Spent(StopOf(script), k)
        <5>1. PICK k \in Nat : Spent(StopOf(script), k)
          BY <4>3
        <5>2. Spent(StopOf(script), k + 1)'
          BY <3>1, <4>3, <5>1, SpentStep
        <5> QED
          BY <5>2
      <4>4. CASE /\ todo' # StopOf(script) /\ ~ (todo' = Program(script) /\ script = "recovery_drill")
                 /\ \E k \in Nat : Spent(Program(script), k) /\ Place(script, k)
        <5>1. PICK k \in Nat : Spent(Program(script), k) /\ Place(script, k)
          BY <4>4
        <5>2. /\ Spent(Program(script), k + 1)' /\ k + 1 \in 1..Len(Program(script))
              /\ Head(todo) = Program(script)[k + 1]
          BY <3>1, <4>4, <5>1, SpentStep
        <5>3. Place(script, k + 1)'
          BY <1>2, <2>1, <3>1, <3>2, <4>4, <5>1, <5>2, PlaceAdvances
        <5> QED
          BY <5>2, <5>3
      <4> QED
        BY <3>1, <3>2, <4>1, <4>2, <4>3, <4>4
    <3> QED
      BY <2>2, <3>1, <3>2, <3>3 DEF ScriptInv
  <2>6. CASE UNCHANGED choreo
    <3>1. UNCHANGED <<script, todo>>
      BY <2>6 DEF choreo
    <3>2. \A p, k : Spent(p, k) => Spent(p, k)'
      BY <3>1 DEF Spent
    <3> QED
      BY <2>2, <3>1, <3>2 DEF ScriptInv
  <2>7. Command \/ UNCHANGED choreo
    BY Zenon DEF Next, Boot, DieStarting, QueryDies, Ends, HandleTerm, Exit, PlanBatch, WriteBatch,
                 CommitBatch, vars
  <2> QED
    BY <2>3, <2>4, <2>5, <2>6, <2>7
<1> QED
  BY <1>3, <1>4

LEMMA ScriptInvariant == Spec => []FailureInv /\ []ScriptInv
<1>1. Init => ScriptInv
  BY DEF Init, ScriptInv, LastBoots
<1>2. FailureInv /\ ScriptInv /\ [Next]_vars => ScriptInv'
  BY ScriptKeeps
<1> QED
  BY <1>1, <1>2, FailureInvariant, PTL DEF Spec

(* From the SIGKILL of an attempt of recovery_drill.sh to its verdict only *)
(* the engine launched after it writes, whatever scripts ran before, how   *)
(* many attempts were made and which engines outlived the stops that do    *)
(* not wait: kill_engine.sh kills by name as well as by pid.               *)
THEOREM TheRecoveryIsAlone == Spec => []RecoversAlone
<1>1. FailureInv /\ ScriptInv => RecoversAlone
  <2> SUFFICES ASSUME FailureInv, ScriptInv, Recovering
               PROVE  \A e, f \in DOMAIN engines : Writing(e) /\ Writing(f) => e = f
    BY DEF RecoversAlone
  <2>1. script = "recovery_drill" /\ "judge" \in ToSet(todo) /\ "kill" \notin ToSet(todo)
    BY DEF Recovering
  <2>2. PICK j \in DOMAIN todo : todo[j] = "judge"
    BY <2>1 DEF ToSet
  <2>3. \A i \in DOMAIN todo : todo[i] # "kill"
    BY <2>1 DEF ToSet
  <2>4. ASSUME NEW k \in Nat, Spent(StopOf(script), k)
        PROVE  FALSE
    <3>1. StopOf(script) = Hasty
      BY <2>1 DEF StopOf
    <3>2. todo \in Seq(Commands) /\ Len(todo) = Len(Hasty) - k /\ k \in 0..Len(Hasty)
          /\ \A i \in 1..Len(todo) : todo[i] = Hasty[k + i]
      BY <2>4, <3>1 DEF Spent
    <3>3. j \in 1..Len(todo) /\ Len(Hasty) \in Nat
      BY <2>2, <3>2, StopFact
    <3>4. k + j \in 1..Len(Hasty) /\ Hasty[k + j] = "judge"
      BY <2>2, <3>2, <3>3
    <3> QED
      BY <3>4, StopFact
  <2>5. PICK k \in Nat : Spent(Program(script), k) /\ Place(script, k)
    BY <2>1, <2>4 DEF ScriptInv
  <2>6. Program(script) = RecoveryDrill
    BY <2>1, ProgramFact
  <2>7. todo \in Seq(Commands) /\ Len(todo) = 15 - k /\ k \in 0..15
        /\ \A i \in 1..Len(todo) : todo[i] = RecoveryDrill[k + i]
    BY <2>5, <2>6, RecoveryDrillFact DEF Spent
  <2>8. DOMAIN todo = 1..(15 - k)
    BY <2>7
  <2>9. k >= 8
    <3> SUFFICES ASSUME k < 8
                 PROVE  FALSE
      BY <2>7
    <3>1. 8 - k \in 1..(15 - k) /\ k + (8 - k) = 8
      BY <2>7
    <3>2. todo[8 - k] = "kill"
      BY <2>7, <2>8, <3>1, RecoveryDrillFact
    <3> QED
      BY <2>3, <2>8, <3>1, <3>2
  <2>10. k # 15
    BY <2>8
  <2>11. k = 8 \/ k \in 9..14
    BY <2>7, <2>9, <2>10
  <2>12. \A e \in DOMAIN engines : e # Len(engines) => engines[e].status = "gone"
    BY <2>1, <2>5, <2>11 DEF Place
  <2> QED
    BY <2>12 DEF Writing
<1> QED
  BY <1>1, ScriptInvariant, PTL

(* run/engine.pid, when a script reads it as the sign that its engine is   *)
(* up, is that engine's and not one left over from a launch before, for    *)
(* any scripts one after another and any attempts.                         *)
THEOREM TheFileIsOfTheLaunched == Spec => []ReadyIsTheLaunched
<1>1. ScriptInv => ReadyIsTheLaunched
  BY DEF ScriptInv, LastBoots, ReadyIsTheLaunched
<1> QED
  BY <1>1, ScriptInvariant, PTL

(***************************************************************************)
(* The rejoin drill: what one invocation does                              *)
(***************************************************************************)

(* The rows of an account come in order, and there are as many as were     *)
(* read.                                                                   *)
LEMMA TopicRows ==
    ASSUME NEW a, read[a] \in 0..MaxSeq, NEW upto \in read[a]..MaxSeq
    PROVE  /\ Ordered(Rows(a, upto)) /\ Len(Rows(a, upto)) = upto - read[a]
           /\ \A i \in 1..(upto - read[a]) : Rows(a, upto)[i] = read[a] + i
<1> DEFINE n == read[a]
           rows == Rows(a, upto)
<1>1. n \in Nat /\ upto \in Nat /\ MaxSeq \in Nat /\ n <= upto /\ upto <= MaxSeq
  BY BoundsAssumption
<1> HIDE DEF n
<1>2. rows = [i \in 1..(upto - n) |-> n + i]
  BY DEF Rows, n
<1> HIDE DEF rows
<1>3. \A i \in 1..(upto - n) : n + i \in Seqs
  BY <1>1 DEF Seqs
<1>4. upto - n \in Nat
  BY <1>1
<1>5. rows \in Seq(Seqs) /\ Len(rows) = upto - n /\ DOMAIN rows = 1..(upto - n)
  BY <1>2, <1>3, <1>4
<1>6. \A i, j \in DOMAIN rows : i < j => rows[i] <= rows[j]
  BY <1>1, <1>2, <1>5
<1>7. \A i \in 1..(upto - n) : rows[i] = n + i
  BY <1>2
<1> QED
  BY <1>5, <1>6, <1>7 DEF Ordered, n, rows

(* A timed-out key leaves one record of one kind; rows leave none of the   *)
(* kinds the drill counts.  So a key that is released is counted, once.    *)
Marks(r, kind) == {q \in r.recs : q.kind = kind}

LEMMA MarksFact ==
    ASSUME NEW key, NEW t, Agree(key, t), NEW rows, Ordered(rows), NEW w \in Nat,
           NEW kind \in {"TTL_FLUSH", "SEQUENCE_GAP"}
    PROVE  LET r == Invoke(key, rows, t, w)
           IN  /\ Cardinality(Marks(r, kind)) \in Nat
               /\ kind = "TTL_FLUSH" /\ key.exists /\ ~ r.key.exists => Cardinality(Marks(r, kind)) = 1
<1> DEFINE r == Invoke(key, rows, t, w)
<1>1. CASE Reached(rows, w)
  <2> DEFINE run == Runs(FreshRun(Opened(key, t)), rows, w)[Len(rows)]
  <2>1. r = WithRows(key, rows, t, w)
    BY <1>1 DEF Invoke
  <2>2. r.recs = run.recs /\ r.key.exists
    <3>1. Start(key, t) = FreshRun(Opened(key, t))
      BY OpenedFact
    <3> QED
      BY <2>1, <3>1 DEF WithRows, Result
  <2>3. \A q \in run.recs : OfRow(q)
    <3>1. Sound(Opened(key, t)) /\ rows \in Seq(Seqs) /\ Len(rows) \in 0..Len(rows)
      BY OpenedFact DEF Ordered
    <3> QED
      BY <3>1, RunsRecords
  <2> HIDE DEF run, r
  <2>4. Marks(r, kind) = {}
    BY <2>2, <2>3 DEF Marks, OfRow
  <2> QED
    BY <2>2, <2>4, FS_EmptySet DEF r
<1>2. CASE ~ Reached(rows, w) /\ Expired(key, w)
  <2>1. r = TimedOut(key, w)
    BY <1>2 DEF Invoke
  <2> HIDE DEF r
  <2>2. PICK q : /\ r.recs = {q} \/ r.recs = {}
                 /\ key.exists /\ ~ r.key.exists => r.recs = {q} /\ q.kind = "TTL_FLUSH"
    <3>1. CASE key.acct.buf # {}
      <4>1. /\ r.recs = {Rec("SEQUENCE_GAP", key.acct.last + 1)}
            /\ r.key.exists = key.exists
        BY <2>1, <3>1 DEF TimedOut, Result, Agree, Key
      <4> QED
        BY <4>1
    <3>2. CASE key.acct.buf = {} /\ Idle(key.acct, w)
      <4>1. r.recs = {Rec("TTL_FLUSH", key.acct.last)}
        BY <2>1, <3>2 DEF TimedOut, Result
      <4>2. Rec("TTL_FLUSH", key.acct.last).kind = "TTL_FLUSH"
        BY DEF Rec
      <4> QED
        BY <4>1, <4>2
    <3>3. CASE key.acct.buf = {} /\ ~ Idle(key.acct, w)
      <4>1. r.recs = {} /\ r.key.exists = key.exists
        BY <2>1, <3>3 DEF TimedOut, Result, Agree, Key
      <4> QED
        BY <4>1
    <3> QED
      BY <3>1, <3>2, <3>3
  <2>3. Marks(r, kind) = {} \/ Marks(r, kind) = {q}
    BY <2>2 DEF Marks
  <2>4. kind = "TTL_FLUSH" /\ key.exists /\ ~ r.key.exists => Marks(r, kind) = {q}
    BY <2>2 DEF Marks
  <2>5. Cardinality({}) = 0 /\ Cardinality({q}) = 1
    BY FS_EmptySet, FS_Singleton
  <2> QED
    BY <2>3, <2>4, <2>5 DEF r
<1>3. CASE ~ Reached(rows, w) /\ ~ Expired(key, w)
  <2>1. r.recs = {} /\ r.key = key
    BY <1>3 DEF Invoke, NoResult
  <2> HIDE DEF r
  <2>2. Marks(r, kind) = {}
    BY <2>1 DEF Marks
  <2> QED
    BY <2>1, <2>2, FS_EmptySet DEF r
<1> QED
  BY <1>1, <1>2, <1>3

(* A batch, account by account.                                            *)
Outcome(a, upto) == Invoke(keys[a], Rows(a, upto), balances[a], nextWatermark)

TimesRead(upto, ticks) ==
    {EventTs[s] : s \in UNION {(read[a] + 1)..upto[a] : a \in Accounts}}
        \cup {Ticks[i] : i \in (tickRead + 1)..ticks}

BatchOf(upto, ticks) ==
    /\ \A a \in Accounts : upto[a] \in read[a]..published[a]
    /\ read' = upto /\ tickRead' = ticks /\ watermark' = nextWatermark
    /\ nextWatermark' = Max({nextWatermark} \cup {ts - Delay : ts \in TimesRead(upto, ticks)})
    /\ \A a \in Accounts :
          /\ keys'[a] = Outcome(a, upto[a]).key
          /\ balances'[a] = Left(balances[a], Outcome(a, upto[a]))
          /\ flushes'[a] = flushes[a] + Cardinality(Marks(Outcome(a, upto[a]), "TTL_FLUSH"))
          /\ gaps'[a] = gaps[a] + Cardinality(Marks(Outcome(a, upto[a]), "SEQUENCE_GAP"))
    /\ found' = IF MaxSeq \in Outcome(Back, upto[Back]).applied
                THEN IF keys[Back].exists THEN "warm" ELSE "cold"
                ELSE found
    /\ file' \in Reported
    /\ UNCHANGED <<phase, published, ticked, before, grown, early>>

LEMMA BatchIsOf ==
    ASSUME EngineBatch
    PROVE  /\ phase # "done"
           /\ \E upto \in [Accounts -> 0..MaxSeq], ticks \in tickRead..ticked : BatchOf(upto, ticks)
<1>1. phase # "done"
  BY DEF EngineBatch
<1>2. PICK upto \in [Accounts -> 0..MaxSeq], ticks \in tickRead..ticked :
         /\ \A a \in Accounts : upto[a] \in read[a]..published[a]
         /\ watermark' = nextWatermark
         /\ \E results \in {[a \in Accounts |-> Invocation(a, upto[a])]} :
               /\ keys' = [a \in Accounts |-> results[a].key]
               /\ balances' = [a \in Accounts |->
                               IF results[a].ran THEN Merged(balances[a], results[a].row)
                                                 ELSE balances[a]]
               /\ flushes' = Counted(flushes, results, "TTL_FLUSH")
               /\ gaps' = Counted(gaps, results, "SEQUENCE_GAP")
               /\ found' = IF MaxSeq \in results[Back].applied
                           THEN IF keys[Back].exists THEN "warm" ELSE "cold"
                           ELSE found
         /\ read' = upto /\ tickRead' = ticks
         /\ LET seen == {EventTs[s] : s \in UNION {(read[a] + 1)..upto[a] : a \in Accounts}}
                            \cup {Ticks[i] : i \in (tickRead + 1)..ticks}
            IN  nextWatermark' = Max({nextWatermark} \cup {ts - Delay : ts \in seen})
  BY DEF EngineBatch
<1>3. file' \in Reported /\ UNCHANGED <<phase, published, ticked, before, grown, early>>
  BY DEF EngineBatch
<1> DEFINE results == [a \in Accounts |-> Invocation(a, upto[a])]
<1>4. /\ keys' = [a \in Accounts |-> results[a].key]
      /\ balances' = [a \in Accounts |->
                      IF results[a].ran THEN Merged(balances[a], results[a].row)
                                        ELSE balances[a]]
      /\ flushes' = Counted(flushes, results, "TTL_FLUSH")
      /\ gaps' = Counted(gaps, results, "SEQUENCE_GAP")
      /\ found' = IF MaxSeq \in results[Back].applied
                  THEN IF keys[Back].exists THEN "warm" ELSE "cold"
                  ELSE found
  BY <1>2
<1>5. \A a \in Accounts : results[a] = Outcome(a, upto[a])
  BY <1>2 DEF Invocation, Outcome
<1> HIDE DEF results
<1>6. ASSUME NEW a \in Accounts
      PROVE  /\ keys'[a] = Outcome(a, upto[a]).key
             /\ balances'[a] = Left(balances[a], Outcome(a, upto[a]))
             /\ flushes'[a] = flushes[a] + Cardinality(Marks(Outcome(a, upto[a]), "TTL_FLUSH"))
             /\ gaps'[a] = gaps[a] + Cardinality(Marks(Outcome(a, upto[a]), "SEQUENCE_GAP"))
  <2> DEFINE r == Outcome(a, upto[a])
  <2>1. results[a] = r
    BY <1>5
  <2> HIDE DEF r
  <2>2. keys'[a] = r.key /\ balances'[a] = Left(balances[a], r)
    BY <1>4, <2>1 DEF Left
  <2>3. /\ flushes'[a] = flushes[a] + Cardinality(Marks(r, "TTL_FLUSH"))
        /\ gaps'[a] = gaps[a] + Cardinality(Marks(r, "SEQUENCE_GAP"))
    BY <1>4, <2>1 DEF Counted, Marks
  <2> QED
    BY <2>2, <2>3 DEF r
<1>7. Back \in Accounts
  BY RejoinAssumption
<1>8. found' = IF MaxSeq \in Outcome(Back, upto[Back]).applied
               THEN IF keys[Back].exists THEN "warm" ELSE "cold"
               ELSE found
  BY <1>4, <1>5, <1>7
<1>9. nextWatermark' = Max({nextWatermark} \cup {ts - Delay : ts \in TimesRead(upto, ticks)})
  BY <1>2 DEF TimesRead
<1>10. BatchOf(upto, ticks)
  BY <1>2, <1>3, <1>6, <1>8, <1>9 DEF BatchOf
<1> QED
  BY <1>1, <1>2, <1>10

(***************************************************************************)
(* The rejoin drill: what holds whenever its events come                   *)
(***************************************************************************)

RejoinInv ==
    /\ read \in [Accounts -> 0..MaxSeq]
    /\ watermark \in Nat /\ nextWatermark \in Nat /\ watermark <= nextWatermark
    /\ ticked \in 0..Len(Ticks) /\ tickRead \in 0..ticked
    /\ \A a \in Accounts : /\ Agree(keys[a], balances[a])
                           /\ flushes[a] \in Nat /\ gaps[a] \in Nat

LEMMA TimesFact ==
    ASSUME RejoinInv, NEW upto \in [Accounts -> 0..MaxSeq], NEW ticks \in tickRead..ticked,
           NEW v, v = Max({nextWatermark} \cup {ts - Delay : ts \in TimesRead(upto, ticks)})
    PROVE  /\ v \in Nat /\ nextWatermark <= v
           /\ \A ts \in TimesRead(upto, ticks) : ts \in Nat /\ ts - Delay <= v
           /\ v = nextWatermark \/ \E ts \in TimesRead(upto, ticks) : v = ts - Delay
<1> DEFINE T == TimesRead(upto, ticks)
           S == {nextWatermark} \cup {ts - Delay : ts \in T}
<1>1. EventTs[MaxSeq] \in Nat /\ Delay \in Nat /\ nextWatermark \in Nat
  BY RejoinAssumption, BoundsAssumption, EventTsAssumption DEF RejoinInv, Seqs
<1>2. \A ts \in T : ts \in Nat /\ ts <= EventTs[MaxSeq]
  <2>1. \A a \in Accounts : (read[a] + 1)..upto[a] \in SUBSET Seqs
    <3> TAKE a \in Accounts
    <3>1. read[a] \in 0..MaxSeq /\ upto[a] \in 0..MaxSeq
      BY DEF RejoinInv
    <3> QED
      BY <3>1, BoundsAssumption DEF Seqs
  <2>2. \A s \in Seqs : EventTs[s] \in Nat /\ EventTs[s] <= EventTs[MaxSeq]
    BY RejoinAssumption, BoundsAssumption, EventTsAssumption DEF Seqs
  <2>3. \A i \in (tickRead + 1)..ticks : Ticks[i] \in Nat /\ Ticks[i] <= EventTs[MaxSeq]
    <3> TAKE i \in (tickRead + 1)..ticks
    <3>1. i \in 1..Len(Ticks) /\ Len(Ticks) \in Nat
      BY RejoinAssumption DEF RejoinInv
    <3> QED
      BY <3>1, RejoinAssumption
  <2> QED
    BY <2>1, <2>2, <2>3 DEF TimesRead
<1> HIDE DEF T
<1> DEFINE b == EventTs[MaxSeq] + nextWatermark
<1>3. /\ S \in SUBSET Int /\ nextWatermark \in S /\ b \in Nat
      /\ \A x \in S : x <= b
  BY <1>1, <1>2
<1>4. v = Max(S)
  BY DEF T
<1> HIDE DEF S, b
<1>5. v \in S /\ v \in Nat /\ \A x \in S : x <= v
  BY <1>1, <1>3, <1>4, MaxOfInts
<1>6. /\ nextWatermark <= v
      /\ \A ts \in T : ts \in Nat /\ ts - Delay <= v
      /\ v = nextWatermark \/ \E ts \in T : v = ts - Delay
  BY <1>2, <1>5 DEF S
<1> QED
  BY <1>5, <1>6 DEF T

LEMMA RejoinStarts == RejoinInit => RejoinInv
<1> SUFFICES ASSUME RejoinInit
             PROVE  RejoinInv
  OBVIOUS
<1>1. Agree(ColdKey, NoRow)
  BY BoundsAssumption DEF Agree, ColdKey, NoRow, Key, EmptyAccount, Account, NoAlarm, BalanceRow, Sound
<1>2. Len(Ticks) \in Nat /\ MaxSeq \in Nat
  BY RejoinAssumption, BoundsAssumption
<1> QED
  BY <1>1, <1>2 DEF RejoinInit, RejoinInv

LEMMA RejoinBatch ==
    ASSUME RejoinInv, NEW upto \in [Accounts -> 0..MaxSeq], NEW ticks \in tickRead..ticked,
           BatchOf(upto, ticks)
    PROVE  /\ RejoinInv'
           /\ \A a \in Accounts :
                 /\ flushes'[a] >= flushes[a]
                 /\ keys[a].exists /\ ~ keys'[a].exists => flushes'[a] > flushes[a]
<1>1. /\ read' = upto /\ tickRead' = ticks /\ watermark' = nextWatermark /\ ticked' = ticked
      /\ \A a \in Accounts : upto[a] \in read[a]..published[a]
      /\ nextWatermark' = Max({nextWatermark} \cup {ts - Delay : ts \in TimesRead(upto, ticks)})
  BY DEF BatchOf
<1>2. nextWatermark' \in Nat /\ nextWatermark <= nextWatermark' /\ nextWatermark \in Nat
  BY <1>1, TimesFact DEF RejoinInv
<1>3. ASSUME NEW a \in Accounts
      PROVE  /\ Agree(keys'[a], balances'[a])
             /\ flushes'[a] \in Nat /\ gaps'[a] \in Nat
             /\ flushes'[a] >= flushes[a]
             /\ keys[a].exists /\ ~ keys'[a].exists => flushes'[a] > flushes[a]
  <2> DEFINE rows == Rows(a, upto[a])
             r    == Outcome(a, upto[a])
  <2>1. Agree(keys[a], balances[a]) /\ flushes[a] \in Nat /\ gaps[a] \in Nat /\ read[a] \in 0..MaxSeq
    BY DEF RejoinInv
  <2>2. Ordered(rows)
    <3>1. upto[a] \in read[a]..MaxSeq
      BY <1>1, BoundsAssumption
    <3> QED
      BY <2>1, <3>1, TopicRows
  <2>3. r = Invoke(keys[a], rows, balances[a], nextWatermark)
    BY DEF Outcome
  <2>4. /\ keys'[a] = r.key /\ balances'[a] = Left(balances[a], r)
        /\ flushes'[a] = flushes[a] + Cardinality(Marks(r, "TTL_FLUSH"))
        /\ gaps'[a] = gaps[a] + Cardinality(Marks(r, "SEQUENCE_GAP"))
    BY DEF BatchOf
  <2> HIDE DEF rows, r
  <2>5. Agree(r.key, Left(balances[a], r))
    BY <1>2, <2>1, <2>2, <2>3, InvokeAgrees
  <2>6. /\ Cardinality(Marks(r, "TTL_FLUSH")) \in Nat
        /\ keys[a].exists /\ ~ r.key.exists => Cardinality(Marks(r, "TTL_FLUSH")) = 1
    BY <1>2, <2>1, <2>2, <2>3, MarksFact
  <2>7. Cardinality(Marks(r, "SEQUENCE_GAP")) \in Nat
    BY <1>2, <2>1, <2>2, <2>3, MarksFact
  <2> QED
    BY <2>1, <2>4, <2>5, <2>6, <2>7
<1>4. /\ read' \in [Accounts -> 0..MaxSeq]
      /\ watermark' \in Nat /\ nextWatermark' \in Nat /\ watermark' <= nextWatermark'
      /\ ticked' \in 0..Len(Ticks) /\ tickRead' \in 0..ticked'
  BY <1>1, <1>2 DEF RejoinInv
<1> QED
  BY <1>3, <1>4 DEF RejoinInv

(* An account that had state when a line was written has it still, or was  *)
(* released since.  So no line is above the accounts known so far, and no  *)
(* later line is lower than an earlier one by more than were released.     *)
Lines == [query : {Query, "velocity_short"}, rows : Nat]

Live     == {a \in Accounts : keys[a].exists}
Released == {a \in Accounts : flushes[a] > 0}
Ticking  == IF tickRead > 0 THEN 1 ELSE 0

CurveInv ==
    /\ file \in Seq(Lines)
    /\ \A i \in Own : file[i].rows <= Cardinality(Live \cup Released) + Ticking
    /\ \A i, j \in Own : i <= j => file[i].rows - file[j].rows <= Cardinality(Released)

LEMMA OwnFact ==
    ASSUME CurveInv
    PROVE  /\ Len(file) \in Nat /\ Own \in SUBSET (1..Len(file))
           /\ \A i \in Own : file[i].rows \in Nat
<1>1. Len(file) \in Nat /\ DOMAIN file = 1..Len(file) /\ \A i \in 1..Len(file) : file[i] \in Lines
  BY DEF CurveInv
<1> QED
  BY <1>1 DEF Own, Lines

LEMMA AccountsFinite ==
    ASSUME NEW S \in SUBSET Accounts, NEW T \in SUBSET Accounts
    PROVE  /\ IsFiniteSet(S) /\ Cardinality(S) \in Nat /\ Cardinality(T) \in Nat
           /\ S \subseteq T => Cardinality(S) <= Cardinality(T)
           /\ Cardinality(S \cup T) <= Cardinality(S) + Cardinality(T)
<1>1. IsFiniteSet(S) /\ IsFiniteSet(T)
  BY RejoinAssumption, FS_Subset
<1>2. Cardinality(S) \in Nat /\ Cardinality(T) \in Nat /\ Cardinality(S \cap T) \in Nat
  BY <1>1, FS_CardinalityType, FS_Intersection
<1>3. S \subseteq T => Cardinality(S) <= Cardinality(T)
  BY <1>1, FS_Subset
<1>4. Cardinality(S \cup T) = Cardinality(S) + Cardinality(T) - Cardinality(S \cap T)
  BY <1>1, FS_Union
<1> QED
  BY <1>1, <1>2, <1>3, <1>4

(* What the writer may make of the file.                                   *)
LEMMA ReportedFact ==
    ASSUME file \in Seq(Lines), NEW g \in Reported, StateRows \in Nat
    PROVE  LET l == Len(file) + 1
           IN  /\ g \in Seq(Lines) /\ Len(file) <= Len(g)
               /\ \A i \in DOMAIN file : g[i] = file[i]
               /\ \A i \in DOMAIN g : \/ i \in DOMAIN file
                                      \/ i = l /\ g[i].rows = StateRows
                                      \/ i > l /\ g[i].query # Query
<1> DEFINE R == StateRows
           l == Len(file) + 1
<1> HIDE DEF R
<1>1. Line(Query, R) \in Lines /\ Line(Query, R).rows = R
  BY DEF Lines, Line, R
<1>2. Len(file) \in Nat /\ DOMAIN file = 1..Len(file) /\ \A i \in 1..Len(file) : file[i] \in Lines
  OBVIOUS
<1>3. CASE g = file
  BY <1>2, <1>3
<1>4. CASE g = Append(file, Line(Query, R))
  <2> DEFINE x == Line(Query, R)
  <2> HIDE DEF x
  <2>1. x \in Lines /\ x.rows = R /\ g = Append(file, x)
    BY <1>1, <1>4 DEF x
  <2>2. /\ g \in Seq(Lines) /\ Len(g) = l /\ DOMAIN g = 1..l
        /\ g[l] = x /\ \A i \in 1..Len(file) : g[i] = file[i]
    BY <1>2, <2>1
  <2> QED
    BY <1>2, <2>1, <2>2 DEF R
<1>5. ASSUME NEW n \in VelocityRows,
             g = file \o <<Line(Query, R), Line("velocity_short", n)>>
      PROVE  /\ g \in Seq(Lines) /\ Len(file) <= Len(g)
             /\ \A i \in DOMAIN file : g[i] = file[i]
             /\ \A i \in DOMAIN g : \/ i \in DOMAIN file
                                    \/ i = l /\ g[i].rows = StateRows
                                    \/ i > l /\ g[i].query # Query
  <2> DEFINE x == Line(Query, R)
             y == Line("velocity_short", n)
  <2>1. y \in Lines /\ y.query # Query
    BY RejoinAssumption DEF Lines, Line, Query
  <2>2. x \in Lines /\ x.rows = R
    BY <1>1
  <2> HIDE DEF x, y
  <2>3. g = file \o <<x, y>>
    BY <1>5 DEF x, y
  <2>4. /\ g \in Seq(Lines) /\ Len(g) = l + 1 /\ DOMAIN g = 1..(l + 1)
        /\ g[l] = x /\ g[l + 1] = y /\ \A i \in 1..Len(file) : g[i] = file[i]
    BY <1>2, <2>1, <2>2, <2>3
  <2> QED
    BY <1>2, <2>1, <2>2, <2>4 DEF R
<1>6. \/ g = file \/ g = Append(file, Line(Query, R))
      \/ \E n \in VelocityRows : g = file \o <<Line(Query, R), Line("velocity_short", n)>>
  BY DEF Reported, R
<1> QED
  BY <1>3, <1>4, <1>5, <1>6

LEMMA CurveBatch ==
    ASSUME RejoinInv, CurveInv, NEW upto \in [Accounts -> 0..MaxSeq],
           NEW ticks \in tickRead..ticked, BatchOf(upto, ticks)
    PROVE  CurveInv'
<1>1. \A a \in Accounts : /\ flushes[a] \in Nat /\ flushes'[a] \in Nat /\ flushes'[a] >= flushes[a]
                          /\ keys[a].exists /\ ~ keys'[a].exists => flushes'[a] > flushes[a]
  BY RejoinBatch DEF RejoinInv
<1> DEFINE L == Live
           M == Live'
           F == Released
           G == Released'
           R == StateRows
           l == Len(file) + 1
<1>2. F \subseteq G /\ L \subseteq M \cup G
  BY <1>1 DEF Live, Released
<1>3. L \in SUBSET Accounts /\ M \in SUBSET Accounts /\ F \in SUBSET Accounts /\ G \in SUBSET Accounts
  BY DEF Live, Released
<1>4. Ticking \in {0, 1} /\ Ticking' \in {0, 1} /\ Ticking <= Ticking'
  <2>1. tickRead \in Nat /\ tickRead' \in Nat /\ tickRead <= tickRead'
    BY DEF BatchOf, RejoinInv
  <2> QED
    BY <2>1 DEF Ticking
<1>5. R = Cardinality(M) + Ticking'
  BY DEF StateRows, Live, Ticking
<1> HIDE DEF L, M, F, G
<1>6. /\ Cardinality(M) \in Nat /\ Cardinality(F) \in Nat /\ Cardinality(G) \in Nat
      /\ Cardinality(M \cup G) \in Nat /\ Cardinality(L \cup F) \in Nat
      /\ Cardinality(F) <= Cardinality(G) /\ Cardinality(M) <= Cardinality(M \cup G)
      /\ Cardinality(L \cup F) <= Cardinality(M \cup G)
      /\ Cardinality(M \cup G) <= Cardinality(M) + Cardinality(G)
  <2>1. L \cup F \in SUBSET Accounts /\ M \cup G \in SUBSET Accounts
        /\ L \cup F \subseteq M \cup G /\ M \subseteq M \cup G
    BY <1>2, <1>3
  <2> QED
    BY <1>2, <1>3, <2>1, AccountsFinite
<1>7. R \in Nat
  BY <1>4, <1>5, <1>6
<1>8. /\ file' \in Seq(Lines)
      /\ \A i \in DOMAIN file : i \in DOMAIN file' /\ file'[i] = file[i]
      /\ \A i \in DOMAIN file' : \/ i \in DOMAIN file
                                 \/ i = l /\ file'[i].rows = R
                                 \/ i > l /\ file'[i].query # Query
  <2>1. file \in Seq(Lines) /\ file' \in Reported
    BY DEF CurveInv, BatchOf
  <2>2. /\ file' \in Seq(Lines) /\ Len(file) <= Len(file')
        /\ \A i \in DOMAIN file : file'[i] = file[i]
        /\ \A i \in DOMAIN file' : \/ i \in DOMAIN file
                                   \/ i = l /\ file'[i].rows = R
                                   \/ i > l /\ file'[i].query # Query
    BY <1>7, <2>1, ReportedFact
  <2>3. DOMAIN file = 1..Len(file) /\ DOMAIN file' = 1..Len(file') /\ Len(file) \in Nat /\ Len(file') \in Nat
    BY <2>1, <2>2
  <2> QED
    BY <2>2, <2>3
<1> HIDE DEF R
<1>9. \A i \in Own' : \/ i \in Own /\ file'[i] = file[i]
                      \/ i = l /\ file'[i].rows = R
  BY <1>8 DEF Own
<1>10. \A i \in Own : i \in Nat /\ i < l /\ file[i].rows \in Nat /\ l \in Nat
  BY OwnFact
<1>11. \A i \in Own : file[i].rows <= Cardinality(M \cup G) + Ticking'
  BY <1>4, <1>6, <1>10 DEF CurveInv, L, F
<1> DEFINE t == Ticking'
           c == Cardinality(M \cup G)
<1>12. \A i \in Own' : file'[i].rows <= Cardinality(M \cup G) + Ticking'
  <2>1. R <= c + t
    <3> HIDE DEF t
    <3>1. t \in Nat /\ R = Cardinality(M) + t
      BY <1>4, <1>5 DEF t
    <3> QED
      BY <1>6, <3>1
  <2> TAKE i \in Own'
  <2> HIDE DEF t, c
  <2>2. CASE i \in Own /\ file'[i] = file[i]
    BY <1>11, <2>2 DEF c, t
  <2>3. CASE i = l /\ file'[i].rows = R
    BY <2>1, <2>3 DEF c, t
  <2> QED
    BY <1>9, <2>2, <2>3
<1>13. ASSUME NEW i \in Own', NEW j \in Own', i <= j
       PROVE  file'[i].rows - file'[j].rows <= Cardinality(G)
  <2>1. CASE j \in Own /\ file'[j] = file[j]
    <3>1. i \in Own /\ file'[i] = file[i]
      BY <1>9, <1>10, <1>13, <2>1
    <3>2. file[i].rows - file[j].rows <= Cardinality(F)
      BY <1>13, <2>1, <3>1 DEF CurveInv, F
    <3> QED
      BY <1>6, <1>10, <2>1, <3>1, <3>2
  <2>2. CASE j = l /\ file'[j].rows = R
    <3>1. CASE i \in Own /\ file'[i] = file[i]
      <4>1. file[i].rows <= c + t /\ file[i].rows \in Nat
        BY <1>10, <1>11, <3>1
      <4>4. R = Cardinality(M) + t /\ t \in Nat
        BY <1>4, <1>5
      <4>2. file'[i].rows = file[i].rows /\ file'[j].rows = R
        BY <2>2, <3>1
      <4> HIDE DEF t, c
      <4>3. c <= Cardinality(M) + Cardinality(G) /\ c \in Nat
        BY <1>6 DEF c
      <4> QED
        BY <1>6, <4>1, <4>2, <4>3, <4>4
    <3>2. CASE i = l /\ file'[i].rows = R
      BY <1>6, <1>7, <2>2, <3>2
    <3> QED
      BY <1>9, <3>1, <3>2
  <2> QED
    BY <1>9, <2>1, <2>2
<1> QED
  BY <1>8, <1>12, <1>13 DEF CurveInv, M, G

(* The drill's own steps leave the engine and its file alone.              *)
LEMMA RejoinKeeps == RejoinInv /\ CurveInv /\ [RejoinNext]_rejoinVars => RejoinInv' /\ CurveInv'
<1> SUFFICES ASSUME RejoinInv, CurveInv, [RejoinNext]_rejoinVars
             PROVE  RejoinInv' /\ CurveInv'
  OBVIOUS
<1>1. CASE EngineBatch
  BY <1>1, BatchIsOf, RejoinBatch, CurveBatch
<1>2. CASE ~ EngineBatch
  <2>1. UNCHANGED engine
    BY <1>2 DEF RejoinNext, Snapshot, Return, Stop, rejoinVars
  <2>2. ticked' = ticked \/ ticked' = Len(Ticks)
    BY <1>2 DEF RejoinNext, Snapshot, Return, Stop, rejoinVars
  <2>3. Len(Ticks) \in Nat /\ ticked' \in 0..Len(Ticks) /\ tickRead \in 0..ticked'
    BY <2>2, RejoinAssumption DEF RejoinInv
  <2>4. RejoinInv'
    BY <2>1, <2>3 DEF RejoinInv, engine
  <2>5. CurveInv'
    BY <2>1, Zenon DEF CurveInv, engine, Own, Live, Released, Ticking
  <2> QED
    BY <2>4, <2>5
<1> QED
  BY <1>1, <1>2

LEMMA RejoinInvariant == RejoinSpec => []RejoinInv /\ []CurveInv
<1>1. RejoinInit => RejoinInv /\ CurveInv
  BY RejoinStarts DEF RejoinInit, CurveInv, Own
<1> QED
  BY <1>1, RejoinKeeps, PTL DEF RejoinSpec

(* A curve of state rows that rose and fell stands for the accounts that   *)
(* were released between its peak and its end, whichever lines the writer  *)
(* missed and whatever other queries wrote.                                *)
THEOREM FallMeansEviction == RejoinSpec => []FallIsEviction
<1>1. ASSUME CurveInv, CurveVerdict = "observed"
      PROVE  100 * Cardinality(Released) >= MinDecline * Peak
  <2>1. Own # {} /\ 100 * (Peak - Final) >= MinDecline * Peak
    BY <1>1 DEF CurveVerdict, Declined
  <2> DEFINE b == Cardinality(Live \cup Released) + Ticking
             P == {file[i].rows : i \in Own}
  <2>2. Own \in SUBSET Nat /\ Len(file) \in Nat
        /\ \A i \in Own : i <= Len(file) /\ file[i].rows \in Nat /\ file[i].rows <= b
    <3>1. Own \in SUBSET (1..Len(file)) /\ Len(file) \in Nat /\ \A i \in Own : file[i].rows \in Nat
      BY <1>1, OwnFact
    <3>2. \A i \in Own : file[i].rows <= b
      BY <1>1 DEF CurveInv
    <3> HIDE DEF b
    <3>3. \A i \in Own : i \in 1..Len(file)
      BY <3>1
    <3> DEFINE l == Len(file)
    <3>4. l \in Nat /\ \A i \in Own : i \in 1..l
      BY <3>1, <3>3
    <3> HIDE DEF l, P
    <3>5. Own \in SUBSET Nat /\ \A i \in Own : i <= l
      BY <3>4
    <3> QED
      BY <3>1, <3>2, <3>4, <3>5, Zenon DEF l
  <2>3. b \in Nat /\ Cardinality(Released) \in Nat
    <3>1. Live \cup Released \in SUBSET Accounts /\ Released \in SUBSET Accounts
      BY DEF Live, Released
    <3>2. Cardinality(Live \cup Released) \in Nat /\ Cardinality(Released) \in Nat
      BY <3>1, AccountsFinite
    <3>3. Ticking \in Nat
      BY DEF Ticking
    <3> QED
      BY <3>2, <3>3
  <2> HIDE DEF b
  <2>4. Max(Own) \in Own /\ \A i \in Own : i <= Max(Own)
    BY <2>1, <2>2, MaxOfBounded
  <2>5. Peak \in P
    <3>1. P \in SUBSET Nat /\ P # {} /\ \A x \in P : x <= b
      BY <2>1, <2>2
    <3>2. Peak = Max(P)
      BY DEF Peak
    <3> HIDE DEF P
    <3> QED
      BY <2>3, <3>1, <3>2, MaxOfBounded
  <2>6. PICK i \in Own : Peak = file[i].rows
    BY <2>5
  <2>7. Peak - Final <= Cardinality(Released)
    BY <1>1, <2>4, <2>6 DEF CurveInv, Final
  <2>8. Peak \in Nat /\ Final \in Nat
    BY <2>2, <2>4, <2>6 DEF Final
  <2>9. 100 * (Peak - Final) <= 100 * Cardinality(Released)
    <3> HIDE DEF Peak, Final, Released
    <3> QED
      BY <2>3, <2>7, <2>8
  <2>10. MinDecline * Peak \in Int
    BY <2>8, RejoinAssumption
  <2> DEFINE m == MinDecline * Peak
  <2> HIDE DEF m, Peak, Final, Released
  <2> QED
    BY <2>1, <2>3, <2>8, <2>9, <2>10 DEF m
<1>2. CurveInv => FallIsEviction
  BY <1>1 DEF FallIsEviction, Released
<1> QED
  BY <1>2, RejoinInvariant, PTL

(***************************************************************************)
(* The rejoin drill: what holds of events that come in time                *)
(***************************************************************************)

(* An account that has applied its first n events and holds none, and the  *)
(* row of one.                                                             *)
Upto(n, seen) == [last |-> n, bal |-> Total[1..n], buf |-> {}, seen |-> seen]

RowUpto(n) == [last |-> n, bal |-> Total[1..n], size |-> 0]

LEMMA UptoFact ==
    ASSUME NEW n \in 0..MaxSeq, NEW e \in Nat
    PROVE  /\ Sound(Upto(n, e)) /\ RowOf(Upto(n, e)) = RowUpto(n)
           /\ RowUpto(n) \in BalanceRow /\ Total[1..n] \in Int
<1>1. n \in Nat /\ 1..n \in SUBSET Seqs /\ n <= MaxSeq
  BY BoundsAssumption DEF Seqs
<1>2. Total[1..n] \in Int
  BY <1>1, TotalAssumption
<1>3. Sound(Upto(n, e))
  BY <1>1, <1>2 DEF Upto, Sound, Account
<1>4. RowOf(Upto(n, e)) = RowUpto(n)
  BY FS_EmptySet DEF RowOf, RowUpto, Upto
<1> QED
  BY <1>1, <1>2, <1>3, <1>4 DEF RowUpto, BalanceRow

LEMMA OneMore ==
    ASSUME NEW l \in Nat, NEW k \in Nat, l <= k + 1, k + 1 <= MaxSeq, l > 0
    PROVE  /\ l..k \in SUBSET Seqs /\ {k + 1} \in SUBSET Seqs
           /\ (l..k) \cup {k + 1} = l..(k + 1) /\ (l..k) \cap {k + 1} = {}
<1>1. MaxSeq \in Nat
  BY BoundsAssumption
<1>2. \A i \in l..k : i \in Nat /\ l <= i /\ i <= k /\ i # k + 1 /\ 1 <= i /\ i <= MaxSeq
  BY <1>1
<1>3. \A i \in l..(k + 1) : i \in l..k \/ i = k + 1
  OBVIOUS
<1>4. \A i \in l..k : i \in l..(k + 1)
  OBVIOUS
<1>5. k + 1 \in l..(k + 1) /\ k + 1 \in Seqs
  BY <1>1 DEF Seqs
<1>6. \A i \in l..k : i \in Seqs
  BY <1>1, <1>2 DEF Seqs
<1> QED
  BY <1>2, <1>3, <1>4, <1>5, <1>6

(* The next event moves such an account by one.                            *)
LEMMA NextInOrder ==
    ASSUME NEW n \in 0..MaxSeq, n + 1 <= MaxSeq, NEW e \in Nat, e <= EventTs[n + 1],
           NEW done \in SUBSET Seqs
    PROVE  WithRow([acct |-> Upto(n, e), recs |-> {}, applied |-> done], n + 1) =
              [acct |-> Upto(n + 1, EventTs[n + 1]), recs |-> {}, applied |-> done \cup {n + 1}]
<1> DEFINE a == Upto(n, e)
           s == n + 1
           b == AfterInOrder(a, s)
           run == [acct |-> a, recs |-> {}, applied |-> done]
           next == WithRow(run, s)
<1>1. n \in Nat /\ s \in Seqs /\ s \in Nat /\ EventTs[s] \in Nat
  BY BoundsAssumption, EventTsAssumption DEF Seqs
<1>2. /\ Sound(a) /\ a.last = n /\ a.bal = Total[1..n] /\ a.buf = {} /\ a.seen = e
  BY UptoFact DEF Upto
<1>3. InOrder(a, s)
  BY <1>2 DEF InOrder
<1>4. run \in Run /\ run.acct = a /\ run.recs = {} /\ run.applied = done
  BY <1>2 DEF Run, Sound
<1> HIDE DEF a, run, s
<1>5. /\ next \in Run /\ next.acct = b /\ next.recs = {}
      /\ next.applied = done \cup s..b.last
  BY <1>1, <1>2, <1>3, <1>4, InOrderRow
<1>6. /\ Sound(b) /\ b.seen = SeenAfter(a, s) /\ s <= b.last /\ b.last <= MaxSeq
      /\ (s + 1)..b.last \subseteq a.buf
      /\ b.buf = a.buf \ ((s + 1)..b.last)
      /\ b.bal = a.bal + Total[s..b.last]
  BY <1>1, <1>2, <1>3, InOrderFact
<1> HIDE DEF b, next
<1>7. b.last = s
  <2>1. b.last \in Nat
    BY <1>6 DEF Sound, Account
  <2>2. (s + 1)..b.last = {}
    BY <1>2, <1>6
  <2>3. CASE b.last # s
    <3>1. s + 1 \in (s + 1)..b.last
      BY <1>1, <1>6, <2>1, <2>3
    <3> QED
      BY <2>2, <3>1
  <2> QED
    BY <2>3
<1>8. b.bal = Total[1..s]
  <2>1. 1..n \in SUBSET Seqs /\ {s} \in SUBSET Seqs /\ (1..n) \cap {s} = {} /\ (1..n) \cup {s} = 1..s
    BY <1>1, OneMore DEF s
  <2>2. s..b.last = {s}
    BY <1>1, <1>7
  <2>3. Total[(1..n) \cup {s}] = Total[1..n] + Total[{s}]
    BY <2>1, TotalAdds
  <2> QED
    BY <1>2, <1>6, <2>1, <2>2, <2>3
<1>9. b.seen = EventTs[s]
  BY <1>1, <1>2, <1>6 DEF SeenAfter, s
<1>10. b.buf = {} /\ b \in Account
  BY <1>2, <1>6 DEF Sound
<1>11. b = Upto(s, EventTs[s])
  BY <1>7, <1>8, <1>9, <1>10 DEF Upto, Account
<1>12. s..b.last = {s}
  BY <1>1, <1>7
<1>13. next = [acct |-> b, recs |-> {}, applied |-> done \cup {s}]
  BY <1>5, <1>12 DEF Run
<1> QED
  BY <1>11, <1>13 DEF next, run, a, s

(* And the rows of a batch, each on time, one after the other.             *)
LEMMA RunsInOrder ==
    ASSUME NEW n \in 0..MaxSeq, NEW m \in n..MaxSeq, n < m, NEW e \in Nat,
           \A s \in Seqs : s > n => e <= EventTs[s],
           NEW rows \in Seq(Seqs), NEW w, Len(rows) = m - n,
           \A i \in 1..(m - n) : rows[i] = n + i /\ OnTime(rows[i], w)
    PROVE  Runs(FreshRun(Upto(n, e)), rows, w)[m - n] =
              [acct |-> Upto(m, EventTs[m]), recs |-> {}, applied |-> (n + 1)..m]
<1> DEFINE run == Runs(FreshRun(Upto(n, e)), rows, w)
           seen(k) == IF k = 0 THEN e ELSE EventTs[n + k]
           At(k) == [acct |-> Upto(n + k, seen(k)), recs |-> {}, applied |-> (n + 1)..(n + k)]
           S == {k \in Nat : k <= m - n => run[k] = At(k)}
<1>1. n \in Nat /\ m \in Nat /\ MaxSeq \in Nat /\ n <= m /\ m <= MaxSeq /\ m - n \in Nat
  BY BoundsAssumption
<1>2. /\ run[0] = FreshRun(Upto(n, e))
      /\ \A k \in 1..(m - n) :
            run[k] = IF OnTime(rows[k], w) THEN WithRow(run[k - 1], rows[k]) ELSE run[k - 1]
  BY RunsFact
<1> HIDE DEF run
<1>3. 0 \in S
  <2>1. (n + 1)..(n + 0) = {} /\ n + 0 = n
    BY <1>1
  <2> QED
    BY <1>2, <2>1 DEF FreshRun
<1>4. ASSUME NEW k \in S
      PROVE  k + 1 \in S
  <2> SUFFICES ASSUME k + 1 <= m - n
               PROVE  run[k + 1] = At(k + 1)
    OBVIOUS
  <2>1. /\ k \in Nat /\ k + 1 \in 1..(m - n) /\ (k + 1) - 1 = k /\ n + k \in 0..MaxSeq
        /\ (n + k) + 1 = n + (k + 1) /\ (n + k) + 1 <= MaxSeq /\ k + 1 # 0 /\ n + (k + 1) \in Seqs
    BY <1>1 DEF Seqs
  <2>2. run[k] = At(k)
    BY <2>1
  <2> HIDE DEF S
  <2>3. run[k + 1] = WithRow(run[k], (n + k) + 1)
    <3>1. rows[k + 1] = (n + k) + 1 /\ OnTime(rows[k + 1], w)
      BY <2>1
    <3>2. run[k + 1] = IF OnTime(rows[k + 1], w) THEN WithRow(run[(k + 1) - 1], rows[k + 1])
                                                 ELSE run[(k + 1) - 1]
      BY <1>2, <2>1
    <3> QED
      BY <2>1, <3>1, <3>2
  <2>4. seen(k) \in Nat /\ seen(k) <= EventTs[(n + k) + 1]
    <3>1. CASE k = 0
      BY <1>1, <2>1, <3>1
    <3>2. CASE k # 0
      <4>1. n + k \in Seqs /\ n + k <= n + (k + 1)
        BY <1>1, <2>1, <3>2 DEF Seqs
      <4>2. EventTs[n + k] <= EventTs[n + (k + 1)] /\ EventTs[n + k] \in Nat
        BY <2>1, <4>1, RejoinAssumption, EventTsAssumption
      <4> QED
        BY <2>1, <3>2, <4>2
    <3> QED
      BY <3>1, <3>2
  <2>5. (n + 1)..(n + k) \in SUBSET Seqs
        /\ ((n + 1)..(n + k)) \cup {(n + k) + 1} = (n + 1)..(n + (k + 1))
    <3>1. n + 1 \in Nat /\ n + k \in Nat /\ n + 1 <= (n + k) + 1 /\ n + 1 > 0
      BY <1>1, <2>1
    <3> QED
      BY <2>1, <3>1, OneMore
  <2> DEFINE x == seen(k)
             d == (n + 1)..(n + k)
  <2>7. run[k] = [acct |-> Upto(n + k, x), recs |-> {}, applied |-> d]
    BY <2>2
  <2>8. x \in Nat /\ x <= EventTs[(n + k) + 1] /\ d \in SUBSET Seqs
    BY <2>4, <2>5
  <2> HIDE DEF x, d
  <2>9. WithRow(run[k], (n + k) + 1) =
           [acct |-> Upto((n + k) + 1, EventTs[(n + k) + 1]), recs |-> {}, applied |-> d \cup {(n + k) + 1}]
    <3> DEFINE q == n + k
    <3>1. q \in 0..MaxSeq /\ q + 1 <= MaxSeq
      BY <2>1
    <3>2. x \in Nat /\ x <= EventTs[q + 1] /\ d \in SUBSET Seqs
      BY <2>8
    <3>3. run[k] = [acct |-> Upto(q, x), recs |-> {}, applied |-> d]
      BY <2>7
    <3> HIDE DEF q
    <3>4. WithRow([acct |-> Upto(q, x), recs |-> {}, applied |-> d], q + 1) =
             [acct |-> Upto(q + 1, EventTs[q + 1]), recs |-> {}, applied |-> d \cup {q + 1}]
      BY <3>1, <3>2, NextInOrder
    <3> QED
      BY <3>3, <3>4 DEF q
  <2>10. seen(k + 1) = EventTs[n + (k + 1)]
    BY <2>1
  <2> QED
    BY <2>1, <2>3, <2>5, <2>9, <2>10 DEF d
<1>5. S = Nat
  <2>1. S \in SUBSET Nat
    OBVIOUS
  <2> HIDE DEF S
  <2> QED
    BY <1>3, <1>4, <2>1, Induction
<1>6. run[m - n] = At(m - n)
  <2>1. m - n \in S
    <3> HIDE DEF S
    <3> QED
      BY <1>1, <1>5
  <2> HIDE DEF At
  <2> QED
    BY <1>1, <2>1
<1>7. n + (m - n) = m /\ m - n # 0
  BY <1>1
<1>8. seen(m - n) = EventTs[m]
  BY <1>7
<1> QED
  BY <1>6, <1>7, <1>8 DEF run

(* A key at position n: warm, with the alarm of its TTL ahead of the       *)
(* watermark, or released.                                                 *)
Stands(key, n, w) ==
    /\ key \in Key
    /\ key.exists =>
          /\ n > 0 /\ key.acct = Upto(n, EventTs[n])
          /\ StateTtl = 0 => key.alarm = NoAlarm
          /\ StateTtl > 0 => /\ key.alarm \in Nat /\ key.alarm > w
                             /\ n >= MaxSeq - 1 => key.alarm = EventTs[n] + StateTtl
    /\ ~ key.exists => key = ColdKey /\ (n > 0 => StateTtl > 0)

LEMMA StandsAgree ==
    ASSUME NEW n \in 0..MaxSeq, NEW key, NEW w, Stands(key, n, w)
    PROVE  /\ Agree(key, RowUpto(n)) /\ key.exists \in BOOLEAN
           /\ \E e \in Nat : /\ Opened(key, RowUpto(n)) = Upto(n, e)
                             /\ \A s \in Seqs : s > n => e <= EventTs[s]
<1>1. n \in Nat /\ n <= MaxSeq /\ MaxSeq \in Nat /\ key \in Key /\ key.exists \in BOOLEAN
  BY BoundsAssumption DEF Stands, Key
<1>2. RowUpto(n) \in BalanceRow /\ RowUpto(n).last = n /\ RowUpto(n).bal = Total[1..n]
  BY UptoFact DEF RowUpto
<1>3. n = 0 => Total[1..n] = 0
  <2>1. n = 0 => 1..n = {}
    OBVIOUS
  <2> QED
    BY <2>1, TotalAssumption
<1>4. CASE key.exists
  <2> DEFINE e == EventTs[n]
  <2>1. n \in Seqs /\ e \in Nat
    BY <1>1, <1>4, EventTsAssumption DEF Stands, Seqs
  <2>2. key.acct = Upto(n, e)
    BY <1>4 DEF Stands
  <2>3. \A s \in Seqs : s > n => e <= EventTs[s]
    BY <2>1, RejoinAssumption DEF Seqs
  <2> HIDE DEF e
  <2>4. Sound(key.acct) /\ RowOf(key.acct) = RowUpto(n)
    BY <2>1, <2>2, UptoFact
  <2>5. Agree(key, RowUpto(n))
    BY <1>1, <1>2, <1>3, <1>4, <2>4 DEF Agree
  <2>6. Opened(key, RowUpto(n)) = Upto(n, e)
    BY <1>4, <2>2 DEF Opened
  <2> QED
    BY <1>1, <2>1, <2>3, <2>5, <2>6
<1>5. CASE ~ key.exists
  <2>1. key = ColdKey /\ (n > 0 => RejoinReseed)
    BY <1>5, ReseedAssumption DEF Stands
  <2>2. Sound(key.acct)
    BY <1>1, <2>1 DEF ColdKey, EmptyAccount, Sound, Account
  <2>3. Agree(key, RowUpto(n))
    BY <1>1, <1>2, <1>3, <1>5, <2>1, <2>2 DEF Agree
  <2>4. Opened(key, RowUpto(n)) = Upto(n, 0)
    <3>1. Opened(key, RowUpto(n)) = Reseeded(n, Total[1..n])
      BY <1>2, <1>5 DEF Opened
    <3>2. CASE n > 0
      BY <2>1, <3>1, <3>2 DEF Reseeded, Upto, EmptyAccount
    <3>3. CASE ~ (n > 0)
      <4>1. n = 0 /\ Total[1..n] = 0
        BY <1>1, <1>3, <3>3
      <4>2. Reseeded(n, Total[1..n]) = EmptyAccount
        BY <3>3 DEF Reseeded
      <4>3. Upto(n, 0) = EmptyAccount
        BY <4>1 DEF Upto, EmptyAccount
      <4> QED
        BY <3>1, <4>2, <4>3
    <3> QED
      BY <3>2, <3>3
  <2>5. \A s \in Seqs : 0 <= EventTs[s]
    BY EventTsAssumption
  <2> QED
    BY <1>1, <2>3, <2>4, <2>5
<1> QED
  BY <1>1, <1>4, <1>5

(* The rows after the n-th up to the m-th, none of them late, the last     *)
(* ones not behind the watermark either.                                   *)
ComeInTime(rows, n, m, w) ==
    /\ Ordered(rows) /\ Len(rows) = m - n
    /\ \A i \in 1..(m - n) : rows[i] = n + i /\ OnTime(rows[i], w)
    /\ m >= MaxSeq - 1 => w <= EventTs[m]

(* Called with rows, the key goes on from where it stood, or from its row. *)
LEMMA RowsStand ==
    ASSUME NEW n \in 0..MaxSeq, NEW m \in n..MaxSeq, n < m,
           NEW key, NEW v, Stands(key, n, v), NEW w \in Nat,
           NEW rows, ComeInTime(rows, n, m, w)
    PROVE  LET r == Invoke(key, rows, RowUpto(n), w)
           IN  /\ r.key.exists /\ Stands(r.key, m, w)
               /\ Left(RowUpto(n), r) = RowUpto(m)
               /\ r.recs = {} /\ r.applied = (n + 1)..m
<1> DEFINE t == RowUpto(n)
           r == Invoke(key, rows, t, w)
<1>0. /\ Ordered(rows) /\ Len(rows) = m - n /\ (m >= MaxSeq - 1 => w <= EventTs[m])
      /\ \A i \in 1..(m - n) : rows[i] = n + i /\ OnTime(rows[i], w)
  BY DEF ComeInTime
<1>1. /\ n \in Nat /\ m \in Nat /\ MaxSeq \in Nat /\ m <= MaxSeq /\ m > 0 /\ m - n \in Nat
      /\ m \in Seqs /\ m \in 0..MaxSeq /\ EventTs[m] \in Nat /\ StateTtl \in Nat
  <2>1. n \in Nat /\ m \in Nat /\ MaxSeq \in Nat /\ m <= MaxSeq /\ m > 0 /\ m - n \in Nat
    BY BoundsAssumption
  <2> QED
    BY <2>1, BoundsAssumption, EventTsAssumption DEF Seqs
<1>2. Agree(key, t)
  BY StandsAgree
<1>3. PICK e \in Nat : /\ Opened(key, t) = Upto(n, e)
                       /\ \A s \in Seqs : s > n => e <= EventTs[s]
  BY StandsAgree
<1>4. rows \in Seq(Seqs)
  BY <1>0 DEF Ordered
<1> DEFINE run == Runs(FreshRun(Opened(key, t)), rows, w)[Len(rows)]
<1>5. run = [acct |-> Upto(m, EventTs[m]), recs |-> {}, applied |-> (n + 1)..m]
  BY <1>0, <1>3, <1>4, RunsInOrder
<1>6. Reached(rows, w)
  <2>1. 1 \in 1..(m - n) /\ 1 \in DOMAIN rows
    BY <1>0, <1>1, <1>4
  <2> QED
    BY <1>0, <2>1 DEF Reached
<1>7. r = WithRows(key, rows, t, w)
  BY <1>6 DEF Invoke
<1> HIDE DEF t
<1>8. /\ r.ran /\ r.key \in Key
      /\ r.key = [acct |-> run.acct, exists |-> TRUE, alarm |-> Alarm(run.acct, w, 0)]
      /\ r.row = RowOf(run.acct) /\ r.recs = run.recs /\ r.applied = run.applied
  <2> DEFINE q == WithRows(key, rows, t, w)
  <2>1. /\ q.ran /\ q.key \in Key
        /\ q.key = [acct |-> run.acct, exists |-> TRUE, alarm |-> Alarm(run.acct, w, 0)]
        /\ q.row = RowOf(run.acct) /\ q.recs = run.recs /\ q.applied = run.applied
    BY <1>0, <1>2, WithRowsFact
  <2> HIDE DEF q, r, run
  <2> QED
    BY <1>7, <2>1 DEF q
<1>9. Left(t, r) = r.row
  BY <1>0, <1>2, <1>8, InvokeAgain
<1> HIDE DEF r, run
<1> DEFINE a == Upto(m, EventTs[m])
<1>10. /\ r.key.acct = a /\ r.key.exists /\ r.key.alarm = Alarm(a, w, 0)
       /\ r.row = RowUpto(m) /\ r.recs = {} /\ r.applied = (n + 1)..m
  BY <1>1, <1>5, <1>8, UptoFact
<1>11. /\ StateTtl = 0 => Alarm(a, w, 0) = NoAlarm
       /\ StateTtl > 0 => /\ Alarm(a, w, 0) \in Nat /\ Alarm(a, w, 0) > w
                          /\ m >= MaxSeq - 1 => Alarm(a, w, 0) = EventTs[m] + StateTtl
  <2>1. a.buf = {} /\ a.seen = EventTs[m]
    BY DEF Upto
  <2> HIDE DEF a
  <2>2. StateTtl = 0 => Alarm(a, w, 0) = NoAlarm
    BY <2>1 DEF Alarm
  <2>3. StateTtl > 0 => Alarm(a, w, 0) = Max({EventTs[m] + StateTtl, w + 1})
    BY <1>1, <2>1 DEF Alarm
  <2>4. Max({EventTs[m] + StateTtl, w + 1}) =
           IF EventTs[m] + StateTtl >= w + 1 THEN EventTs[m] + StateTtl ELSE w + 1
    <3>1. EventTs[m] + StateTtl \in Int /\ w + 1 \in Int
      BY <1>1
    <3> QED
      BY <3>1, MaxFact
  <2> DEFINE ts == EventTs[m]
             x  == Alarm(a, w, 0)
  <2>5. StateTtl > 0 => x = IF ts + StateTtl >= w + 1 THEN ts + StateTtl ELSE w + 1
    BY <2>3, <2>4
  <2>6. (m >= MaxSeq - 1 => w <= ts) /\ ts \in Nat /\ StateTtl \in Nat
    BY <1>0, <1>1
  <2>7. StateTtl = 0 => x = NoAlarm
    BY <2>2
  <2> HIDE DEF ts, x
  <2>8. /\ StateTtl = 0 => x = NoAlarm
        /\ StateTtl > 0 => x \in Nat /\ x > w /\ (m >= MaxSeq - 1 => x = ts + StateTtl)
    BY <2>5, <2>6, <2>7
  <2> QED
    BY <2>8 DEF ts, x
<1> HIDE DEF a
<1>12. Stands(r.key, m, w)
  BY <1>1, <1>8, <1>10, <1>11 DEF Stands, a
<1> QED
  BY <1>9, <1>10, <1>12 DEF t, r

(* Called without, it is released if the TTL is over, and stays if not.    *)
LEMMA NoRowsStand ==
    ASSUME NEW n \in 0..MaxSeq, NEW key, NEW v \in Nat, Stands(key, n, v), NEW w \in Nat, v <= w,
           NEW rows, rows \in Seq(Seqs), Len(rows) = 0
    PROVE  LET r == Invoke(key, rows, RowUpto(n), w)
           IN  /\ Stands(r.key, n, w)
               /\ Left(RowUpto(n), r) = RowUpto(n)
               /\ r.applied = {} /\ Marks(r, "SEQUENCE_GAP") = {}
               /\ r.key.exists => key.exists
               /\ Cardinality(Marks(r, "TTL_FLUSH")) = IF key.exists /\ ~ r.key.exists THEN 1 ELSE 0
               /\ key.exists /\ n >= MaxSeq - 1 /\ w < EventTs[n] + StateTtl => r.key.exists
               /\ key.exists /\ n >= MaxSeq - 1 /\ StateTtl = 0 => r.key.exists
<1> DEFINE t == RowUpto(n)
           r == Invoke(key, rows, t, w)
<1>1. ~ Reached(rows, w)
  BY DEF Reached
<1>2. /\ n \in Nat /\ MaxSeq \in Nat /\ StateTtl \in Nat /\ key.exists \in BOOLEAN /\ key \in Key
      /\ t \in BalanceRow
  BY BoundsAssumption, UptoFact DEF Stands, Key
<1>3. CASE ~ Expired(key, w)
  <2>1. r = NoResult(key)
    BY <1>1, <1>3 DEF Invoke
  <2>2. r.key = key /\ Left(t, r) = t /\ r.applied = {} /\ r.recs = {}
    BY <2>1 DEF NoResult, Left
  <2> HIDE DEF r, t
  <2>3. Stands(key, n, w)
    BY <1>2, <1>3 DEF Stands, Expired, NoAlarm
  <2>4. \A kind : Marks(r, kind) = {}
    BY <2>2 DEF Marks
  <2> QED
    BY <2>2, <2>3, <2>4, FS_EmptySet DEF r, t
<1>4. CASE Expired(key, w)
  <2> DEFINE a == key.acct
  <2>1. r = TimedOut(key, w)
    BY <1>1, <1>4 DEF Invoke
  <2>2. /\ key.exists /\ n > 0 /\ a = Upto(n, EventTs[n]) /\ key.alarm <= w
        /\ StateTtl > 0 /\ key.alarm \in Nat
        /\ n >= MaxSeq - 1 => key.alarm = EventTs[n] + StateTtl
    BY <1>2, <1>4 DEF Expired, Stands
  <2>3. a.buf = {} /\ a.last = n /\ a.seen = EventTs[n]
    BY <2>2 DEF Upto
  <2>4. n \in Seqs /\ EventTs[n] \in Nat \ {0}
    BY <1>2, <2>2, EventTsAssumption DEF Seqs
  <2>5. RowOf(a) = t
    BY <2>2, <2>4, UptoFact
  <2> HIDE DEF r, a, t
  <2>6. Merged(t, t) = t
    BY DEF Merged
  <2>7. CASE Idle(a, w)
    <3>1. r = Result(ColdKey, a, {Rec("TTL_FLUSH", a.last)}, {})
      BY <2>1, <2>3, <2>7 DEF TimedOut, a
    <3>2. /\ r.key = ColdKey /\ r.ran /\ r.row = t /\ r.recs = {Rec("TTL_FLUSH", a.last)}
          /\ r.applied = {}
      BY <2>5, <3>1 DEF Result
    <3> DEFINE q == Rec("TTL_FLUSH", a.last)
    <3>3. q.kind = "TTL_FLUSH" /\ r.recs = {q}
      BY <3>2 DEF Rec
    <3> HIDE DEF q
    <3>4. Marks(r, "TTL_FLUSH") = {q} /\ Marks(r, "SEQUENCE_GAP") = {}
      BY <3>3 DEF Marks
    <3>5. Cardinality({q}) = 1
      BY FS_Singleton
    <3>6. ~ r.key.exists /\ ColdKey \in Key
      BY <3>2 DEF ColdKey, Key, EmptyAccount, Account
    <3>7. Stands(r.key, n, w)
      BY <2>2, <3>2, <3>6 DEF Stands
    <3>8. n >= MaxSeq - 1 => ~ (w < EventTs[n] + StateTtl)
      BY <2>2, <2>4
    <3>9. Left(t, r) = t
      BY <2>6, <3>2 DEF Left
    <3>10. r.applied = {}
      BY <3>2
    <3>11. StateTtl # 0
      BY <2>2
    <3>12. Cardinality(Marks(r, "TTL_FLUSH")) = 1
      BY <3>4, <3>5
    <3> QED
      BY <2>2, <3>4, <3>6, <3>7, <3>8, <3>9, <3>10, <3>11, <3>12 DEF r, t
  <2>8. CASE ~ Idle(a, w)
    <3> DEFINE x == Alarm(a, w, 0)
    <3>1. r = Result([key EXCEPT !.alarm = x], a, {}, {})
      BY <2>1, <2>3, <2>8 DEF TimedOut, a
    <3>2. w < EventTs[n] + StateTtl
      BY <2>2, <2>3, <2>4, <2>8, <1>2 DEF Idle
    <3>3. x = Max({EventTs[n] + StateTtl, w + 1})
      BY <2>2, <2>3 DEF Alarm
    <3>4. Max({EventTs[n] + StateTtl, w + 1}) = EventTs[n] + StateTtl
      <4>1. EventTs[n] + StateTtl \in Int /\ w + 1 \in Int
        BY <1>2, <2>4
      <4>2. EventTs[n] + StateTtl >= w + 1
        BY <1>2, <2>4, <3>2
      <4> QED
        BY <4>1, <4>2, MaxFact
    <3> HIDE DEF x
    <3>5. x = EventTs[n] + StateTtl /\ x \in Nat /\ x > w
      BY <1>2, <2>4, <3>2, <3>3, <3>4
    <3>6. /\ r.key = [acct |-> a, exists |-> TRUE, alarm |-> x] /\ r.ran /\ r.row = t
          /\ r.recs = {} /\ r.applied = {}
      BY <1>2, <2>2, <2>5, <3>1 DEF Result, Key, a
    <3>7. r.key \in Key
      BY <1>2, <3>5, <3>6 DEF Key, a
    <3>8. Stands(r.key, n, w)
      BY <2>2, <3>5, <3>6, <3>7 DEF Stands
    <3>9. \A kind : Marks(r, kind) = {}
      BY <3>6 DEF Marks
    <3>10. Left(t, r) = t
      BY <2>6, <3>6 DEF Left
    <3>11. r.key.exists
      BY <3>6
    <3> QED
      BY <2>2, <3>6, <3>8, <3>9, <3>10, <3>11, FS_EmptySet DEF r, t
  <2> QED
    BY <2>7, <2>8
<1> QED
  BY <1>3, <1>4

(* Every account stands at the last event read, its row in the table says  *)
(* the same, and no gap was ever recorded.                                 *)
StandInv ==
    /\ published \in [Accounts -> Nat]
    /\ \A a \in Accounts :
           /\ Stands(keys[a], read[a], watermark) /\ balances[a] = RowUpto(read[a]) /\ gaps[a] = 0
           /\ read[a] <= published[a]
           /\ \/ published[a] = MaxSeq - 1
              \/ published[a] = MaxSeq /\ a = Back /\ phase \in {"return", "done"}
           /\ phase = "traffic" /\ read[a] = MaxSeq - 1 => keys[a].exists
           /\ phase # "traffic" => read[a] >= MaxSeq - 1

(* The watermark is behind the events to come, and as far as the ticks     *)
(* read have carried it.                                                   *)
WatermarkInv ==
    /\ phase \in {"traffic", "tick", "return", "done"}
    /\ phase = "traffic" => /\ ticked = 0 /\ nextWatermark <= EventTs[MaxSeq - 1]
                            /\ DropLate => nextWatermark < EventTs[1]
    /\ phase # "traffic" => ticked = Len(Ticks)
    /\ nextWatermark <= EventTs[MaxSeq]
    /\ DropLate /\ read[Back] < MaxSeq => nextWatermark < EventTs[MaxSeq]
    /\ \A i \in 1..tickRead : Ticks[i] - Delay <= nextWatermark

(* Since the snapshot the account was released once or not at all; which   *)
(* of the two shows in the state that the return found.                    *)
SnapshotInv ==
    phase # "traffic" =>
        /\ before.row = RowUpto(MaxSeq - 1) /\ before.gaps = 0 /\ before.flushes \in Nat
        /\ read[Back] = MaxSeq - 1 =>
              flushes[Back] = before.flushes + (IF keys[Back].exists THEN 0 ELSE 1)
        /\ read[Back] = MaxSeq =>
              /\ keys[Back].exists
              /\ flushes[Back] = before.flushes + (IF found = "cold" THEN 1 ELSE 0)
        /\ phase \in {"return", "done"} => published[Back] = MaxSeq
        /\ phase \in {"return", "done"} /\ ~ early /\ LongEnough =>
              /\ read[Back] = MaxSeq - 1 => ~ keys[Back].exists
              /\ read[Back] = MaxSeq => found = "cold"
        /\ phase = "done" /\ ~ early => read[Back] = MaxSeq

LEMMA BoundsFact ==
    /\ MaxSeq \in Nat /\ MaxSeq > 1 /\ MaxSeq - 1 \in Nat /\ Delay \in Nat /\ StateTtl \in Nat
    /\ MaxSeq \in Seqs /\ MaxSeq - 1 \in Seqs /\ 1 \in Seqs /\ Back \in Accounts
    /\ \A s \in Seqs : /\ s \in Nat /\ EventTs[s] \in Nat /\ EventTs[s] > 0
                       /\ EventTs[1] <= EventTs[s] /\ EventTs[s] <= EventTs[MaxSeq]
                       /\ s # MaxSeq => s <= MaxSeq - 1 /\ EventTs[s] <= EventTs[MaxSeq - 1]
<1>1. /\ MaxSeq \in Nat /\ MaxSeq > 1 /\ MaxSeq - 1 \in Nat /\ Delay \in Nat /\ StateTtl \in Nat
      /\ MaxSeq \in Seqs /\ MaxSeq - 1 \in Seqs /\ 1 \in Seqs /\ Back \in Accounts
  BY RejoinAssumption, BoundsAssumption DEF Seqs
<1>2. \A s \in Seqs : /\ s \in Nat /\ 1 <= s /\ s <= MaxSeq /\ (s # MaxSeq => s <= MaxSeq - 1)
  BY <1>1 DEF Seqs
<1>3. \A s \in Seqs : EventTs[s] \in Nat /\ EventTs[s] > 0
  BY EventTsAssumption
<1> QED
  BY <1>1, <1>2, <1>3, RejoinAssumption

LEMMA TimesBound ==
    ASSUME RejoinInv, NEW upto \in [Accounts -> 0..MaxSeq], NEW ticks \in tickRead..ticked,
           NEW m \in Seqs, \A a \in Accounts : upto[a] <= m,
           NEW ts \in TimesRead(upto, ticks)
    PROVE  ts \in Nat /\ (ts <= EventTs[m] \/ \E i \in DOMAIN Ticks : ts = Ticks[i])
<1>1. CASE \E a \in Accounts : \E s \in (read[a] + 1)..upto[a] : ts = EventTs[s]
  <2>1. PICK a \in Accounts : \E s \in (read[a] + 1)..upto[a] : ts = EventTs[s]
    BY <1>1
  <2>2. PICK s \in (read[a] + 1)..upto[a] : ts = EventTs[s]
    BY <2>1
  <2>3. s \in Seqs /\ s <= m
    <3>1. read[a] \in 0..MaxSeq /\ upto[a] \in 0..MaxSeq /\ upto[a] <= m /\ m \in Nat
      BY BoundsFact DEF RejoinInv
    <3> QED
      BY <3>1, BoundsFact DEF Seqs
  <2> QED
    BY <2>2, <2>3, RejoinAssumption, EventTsAssumption
<1>2. CASE \E i \in (tickRead + 1)..ticks : ts = Ticks[i]
  <2>1. PICK i \in (tickRead + 1)..ticks : ts = Ticks[i]
    BY <1>2
  <2>2. i \in 1..Len(Ticks) /\ Ticks \in Seq(Nat)
    <3>1. tickRead \in 0..ticked /\ ticked \in 0..Len(Ticks) /\ Ticks \in Seq(Nat)
      BY RejoinAssumption DEF RejoinInv
    <3> QED
      BY <3>1
  <2> QED
    BY <2>1, <2>2
<1>3. \/ \E a \in Accounts : \E s \in (read[a] + 1)..upto[a] : ts = EventTs[s]
      \/ \E i \in (tickRead + 1)..ticks : ts = Ticks[i]
  BY DEF TimesRead
<1> QED
  BY <1>1, <1>2, <1>3

LEMMA WatermarkBatch ==
    ASSUME InTime, RejoinInv, StandInv, WatermarkInv, phase # "done",
           NEW upto \in [Accounts -> 0..MaxSeq], NEW ticks \in tickRead..ticked,
           BatchOf(upto, ticks)
    PROVE  WatermarkInv'
<1>0. LET v == nextWatermark'
          T == TimesRead(upto, ticks)
      IN  /\ v \in Nat /\ nextWatermark <= v /\ nextWatermark \in Nat
          /\ \A ts \in T : ts \in Nat /\ ts - Delay <= v
          /\ v = nextWatermark \/ \E ts \in T : v = ts - Delay
  <2>1. nextWatermark' = Max({nextWatermark} \cup {ts - Delay : ts \in TimesRead(upto, ticks)})
    BY DEF BatchOf
  <2>2. nextWatermark \in Nat
    BY DEF RejoinInv
  <2> QED
    BY <2>1, <2>2, TimesFact
<1> DEFINE v == nextWatermark'
           T == TimesRead(upto, ticks)
<1>1. /\ read' = upto /\ tickRead' = ticks /\ phase' = phase /\ ticked' = ticked
      /\ \A a \in Accounts : upto[a] \in read[a]..published[a]
  BY DEF BatchOf
<1>2. /\ v \in Nat /\ nextWatermark <= v /\ nextWatermark \in Nat
      /\ \A ts \in T : ts \in Nat /\ ts - Delay <= v
      /\ v = nextWatermark \/ \E ts \in T : v = ts - Delay
  BY <1>0
<1> HIDE DEF T, v
<1>3. \A a \in Accounts : /\ read[a] \in Nat /\ upto[a] \in Nat /\ published[a] \in Nat
                          /\ read[a] <= upto[a] /\ upto[a] <= published[a] /\ published[a] <= MaxSeq
                          /\ phase = "traffic" \/ a # Back => upto[a] <= MaxSeq - 1
  <2> TAKE a \in Accounts
  <2>1. read[a] \in 0..MaxSeq /\ upto[a] \in 0..MaxSeq /\ upto[a] \in read[a]..published[a]
    BY <1>1 DEF RejoinInv
  <2>2. /\ published[a] = MaxSeq - 1 \/ published[a] = MaxSeq
        /\ phase = "traffic" \/ a # Back => published[a] = MaxSeq - 1
    BY DEF StandInv
  <2> QED
    BY <2>1, <2>2, BoundsFact
<1>4. v <= EventTs[MaxSeq]
  <2>1. \A ts \in T : ts <= EventTs[MaxSeq]
    <3> TAKE ts \in T
    <3>1. ts <= EventTs[MaxSeq] \/ \E i \in DOMAIN Ticks : ts = Ticks[i]
      BY <1>3, BoundsFact, TimesBound DEF T
    <3> QED
      BY <3>1, RejoinAssumption
  <2>2. EventTs[MaxSeq] \in Nat /\ Delay \in Nat /\ nextWatermark <= EventTs[MaxSeq]
    BY BoundsFact DEF WatermarkInv
  <2> QED
    BY <1>2, <2>1, <2>2
<1>5. ASSUME phase = "traffic"
      PROVE  /\ v <= EventTs[MaxSeq - 1]
             /\ DropLate => v < EventTs[1]
  <2>1. tickRead = 0 /\ ticks = 0
    BY <1>5 DEF RejoinInv, WatermarkInv
  <2>2. \A ts \in T : ts <= EventTs[MaxSeq - 1]
    <3> TAKE ts \in T
    <3>1. PICK a \in Accounts : \E s \in (read[a] + 1)..upto[a] : ts = EventTs[s]
      BY <2>1 DEF T, TimesRead
    <3>2. PICK s \in (read[a] + 1)..upto[a] : ts = EventTs[s]
      BY <3>1
    <3>3. s \in Seqs /\ s # MaxSeq
      BY <1>3, <1>5, BoundsFact DEF Seqs
    <3> QED
      BY <3>2, <3>3, BoundsFact
  <2>3. /\ EventTs[MaxSeq - 1] \in Nat /\ EventTs[1] \in Nat /\ Delay \in Nat
        /\ nextWatermark <= EventTs[MaxSeq - 1]
        /\ DropLate => nextWatermark < EventTs[1] /\ EventTs[MaxSeq - 1] - Delay < EventTs[1]
    BY <1>5, BoundsFact DEF WatermarkInv, InTime
  <2> QED
    BY <1>2, <2>2, <2>3
<1>6. ASSUME DropLate, upto[Back] < MaxSeq
      PROVE  v < EventTs[MaxSeq]
  <2>1. \A a \in Accounts : upto[a] <= MaxSeq - 1
    BY <1>3, <1>6, BoundsFact
  <2>2. \A ts \in T : ts - Delay < EventTs[MaxSeq]
    <3> TAKE ts \in T
    <3>1. ts \in Nat /\ (ts <= EventTs[MaxSeq - 1] \/ \E i \in DOMAIN Ticks : ts = Ticks[i])
      BY <2>1, BoundsFact, TimesBound DEF T
    <3>2. /\ EventTs[MaxSeq - 1] - Delay < EventTs[1] /\ EventTs[1] <= EventTs[MaxSeq]
          /\ EventTs[MaxSeq - 1] \in Nat /\ EventTs[1] \in Nat /\ EventTs[MaxSeq] \in Nat /\ Delay \in Nat
          /\ \A i \in DOMAIN Ticks : Ticks[i] - Delay < EventTs[MaxSeq]
      BY <1>6, BoundsFact DEF InTime
    <3> QED
      BY <3>1, <3>2
  <2>3. nextWatermark < EventTs[MaxSeq]
    BY <1>3, <1>6, BoundsFact DEF WatermarkInv
  <2> QED
    BY <1>2, <2>2, <2>3
<1>7. ASSUME NEW i \in 1..ticks
      PROVE  Ticks[i] - Delay <= v
  <2>1. ticks \in Nat /\ tickRead \in Nat
    BY DEF RejoinInv
  <2>2. CASE i <= tickRead
    <3>1. i \in 1..tickRead /\ i \in 1..Len(Ticks) /\ Ticks \in Seq(Nat)
      BY <2>1, <2>2, RejoinAssumption DEF RejoinInv
    <3>2. Ticks[i] - Delay <= nextWatermark /\ Ticks[i] \in Nat /\ Delay \in Nat
      BY <3>1, BoundsFact DEF WatermarkInv
    <3> QED
      BY <1>2, <3>2
  <2>3. CASE ~ (i <= tickRead)
    <3>1. i \in (tickRead + 1)..ticks
      BY <2>1, <2>3
    <3>2. Ticks[i] \in T
      BY <3>1 DEF T, TimesRead
    <3> QED
      BY <1>2, <3>2
  <2> QED
    BY <2>2, <2>3
<1> QED
  BY <1>1, <1>4, <1>5, <1>6, <1>7 DEF WatermarkInv, v

LEMMA AccountBatch ==
    ASSUME InTime, RejoinInv, StandInv, WatermarkInv, phase # "done",
           NEW upto \in [Accounts -> 0..MaxSeq], NEW ticks \in tickRead..ticked,
           BatchOf(upto, ticks), NEW a \in Accounts
    PROVE  /\ Stands(keys'[a], upto[a], nextWatermark) /\ balances'[a] = RowUpto(upto[a]) /\ gaps'[a] = 0
           /\ upto[a] # read[a] =>
                 /\ keys'[a].exists /\ flushes'[a] = flushes[a]
                 /\ Outcome(a, upto[a]).applied = (read[a] + 1)..upto[a]
           /\ upto[a] = read[a] =>
                 /\ keys'[a].exists => keys[a].exists
                 /\ flushes'[a] = flushes[a] + (IF keys[a].exists /\ ~ keys'[a].exists THEN 1 ELSE 0)
                 /\ Outcome(a, upto[a]).applied = {}
                 /\ keys[a].exists /\ upto[a] >= MaxSeq - 1 /\ nextWatermark < EventTs[upto[a]] + StateTtl =>
                       keys'[a].exists
                 /\ keys[a].exists /\ upto[a] >= MaxSeq - 1 /\ StateTtl = 0 => keys'[a].exists
<1> DEFINE n == read[a]
           m == upto[a]
           w == nextWatermark
           rows == Rows(a, upto[a])
           r == Outcome(a, upto[a])
<1>1. /\ n \in 0..MaxSeq /\ m \in 0..MaxSeq /\ m \in n..published[a] /\ n \in Nat /\ m \in Nat
      /\ published[a] \in {MaxSeq - 1, MaxSeq}
  <2>1. n \in 0..MaxSeq /\ m \in 0..MaxSeq /\ m \in n..published[a]
    BY DEF RejoinInv, BatchOf
  <2>2. published[a] \in {MaxSeq - 1, MaxSeq}
    BY DEF StandInv
  <2> QED
    BY <2>1, <2>2, BoundsFact
<1>2. m \in n..MaxSeq
  BY <1>1
<1>3. Ordered(rows) /\ Len(rows) = m - n /\ \A i \in 1..(m - n) : rows[i] = n + i
  BY <1>1, <1>2, TopicRows
<1>4. /\ Stands(keys[a], n, watermark) /\ balances[a] = RowUpto(n) /\ gaps[a] = 0
      /\ watermark \in Nat /\ w \in Nat /\ watermark <= w /\ flushes[a] \in Nat
  BY DEF StandInv, RejoinInv
<1>5. /\ keys'[a] = r.key /\ balances'[a] = Left(balances[a], r)
      /\ flushes'[a] = flushes[a] + Cardinality(Marks(r, "TTL_FLUSH"))
      /\ gaps'[a] = gaps[a] + Cardinality(Marks(r, "SEQUENCE_GAP"))
  BY DEF BatchOf
<1>6. r = Invoke(keys[a], rows, RowUpto(n), w)
  BY <1>4 DEF Outcome
<1>7. CASE m # n
  <2>1. n < m /\ m \in Seqs
    BY <1>1, <1>2, <1>7, BoundsFact DEF Seqs
  <2>2. phase = "traffic" => m # MaxSeq
    <3>1. phase = "traffic" => published[a] = MaxSeq - 1
      BY DEF StandInv
    <3> QED
      BY <1>1, <3>1, BoundsFact
  <2>3. phase # "traffic" => n = MaxSeq - 1 /\ m = MaxSeq /\ a = Back
    <3>1. phase # "traffic" => n >= MaxSeq - 1 /\ (published[a] = MaxSeq => a = Back)
      BY BoundsFact DEF StandInv
    <3> QED
      BY <1>1, <2>1, <3>1, BoundsFact
  <2>4. m >= MaxSeq - 1 => w <= EventTs[m]
    <3>1. CASE phase = "traffic"
      <4>1. m >= MaxSeq - 1 => m = MaxSeq - 1
        BY <1>1, <2>2, <3>1, BoundsFact
      <4> QED
        BY <3>1, <4>1 DEF WatermarkInv
    <3>2. CASE phase # "traffic"
      BY <2>3, <3>2 DEF WatermarkInv
    <3> QED
      BY <3>1, <3>2
  <2>5. ASSUME NEW i \in 1..(m - n)
        PROVE  OnTime(rows[i], w)
    <3>1. rows[i] = n + i /\ n + i \in Seqs /\ n + i > n /\ n + i <= m
      BY <1>1, <1>3, BoundsFact DEF Seqs
    <3>2. ASSUME DropLate
          PROVE  EventTs[n + i] > w
      <4>1. CASE phase = "traffic"
        <5>1. w < EventTs[1] /\ EventTs[1] <= EventTs[n + i] /\ EventTs[1] \in Nat /\ EventTs[n + i] \in Nat
          BY <3>1, <3>2, <4>1, BoundsFact DEF WatermarkInv
        <5> QED
          BY <1>4, <5>1
      <4>2. CASE phase # "traffic"
        <5>1. n + i = MaxSeq /\ read[Back] < MaxSeq
          BY <2>3, <3>1, <4>2, BoundsFact
        <5>2. w < EventTs[MaxSeq]
          BY <3>2, <5>1 DEF WatermarkInv
        <5> QED
          BY <1>4, <5>1, <5>2, BoundsFact
      <4> QED
        BY <4>1, <4>2
    <3> QED
      BY <3>1, <3>2 DEF OnTime
  <2> HIDE DEF n, m, w, rows, r
  <2>6. /\ r.key.exists /\ Stands(r.key, m, w) /\ Left(RowUpto(n), r) = RowUpto(m)
        /\ r.recs = {} /\ r.applied = (n + 1)..m
    <3> DEFINE key == keys[a]
               q == Invoke(key, rows, RowUpto(n), w)
    <3>1. Stands(key, n, watermark) /\ r = q
      BY <1>4, <1>6
    <3> HIDE DEF key
    <3>2. /\ q.key.exists /\ Stands(q.key, m, w) /\ Left(RowUpto(n), q) = RowUpto(m)
          /\ q.recs = {} /\ q.applied = (n + 1)..m
      <4>1. ComeInTime(rows, n, m, w)
        BY <1>3, <2>4, <2>5 DEF ComeInTime
      <4> HIDE DEF q
      <4>2. q.recs = {} /\ q.applied = (n + 1)..m
        BY <1>1, <1>2, <1>4, <2>1, <3>1, <4>1, RowsStand DEF q
      <4>3. Left(RowUpto(n), q) = RowUpto(m)
        BY <1>1, <1>2, <1>4, <2>1, <3>1, <4>1, RowsStand DEF q
      <4>4. Stands(q.key, m, w)
        BY <1>1, <1>2, <1>4, <2>1, <3>1, <4>1, RowsStand DEF q
      <4>5. q.key.exists
        BY <1>1, <1>2, <1>4, <2>1, <3>1, <4>1, RowsStand DEF q
      <4> QED
        BY <4>2, <4>3, <4>4, <4>5
    <3> HIDE DEF q
    <3> QED
      BY <3>1, <3>2
  <2>7. Marks(r, "TTL_FLUSH") = {} /\ Marks(r, "SEQUENCE_GAP") = {} /\ Cardinality({}) = 0
    BY <2>6, FS_EmptySet DEF Marks
  <2>8. flushes'[a] = flushes[a] /\ gaps'[a] = 0
    BY <1>4, <1>5, <2>7
  <2> QED
    BY <1>4, <1>5, <1>7, <2>6, <2>8 DEF n, m, w, r
<1>8. CASE m = n
  <2>1. Len(rows) = 0 /\ rows \in Seq(Seqs)
    BY <1>1, <1>3, <1>8 DEF Ordered
  <2> HIDE DEF n, m, w, rows, r
  <2>2. /\ Stands(r.key, n, w)
        /\ Left(RowUpto(n), r) = RowUpto(n)
        /\ r.applied = {} /\ Marks(r, "SEQUENCE_GAP") = {}
        /\ r.key.exists => keys[a].exists
        /\ Cardinality(Marks(r, "TTL_FLUSH")) = IF keys[a].exists /\ ~ r.key.exists THEN 1 ELSE 0
        /\ keys[a].exists /\ n >= MaxSeq - 1 /\ w < EventTs[n] + StateTtl => r.key.exists
        /\ keys[a].exists /\ n >= MaxSeq - 1 /\ StateTtl = 0 => r.key.exists
    <3> DEFINE key == keys[a]
               q == Invoke(key, rows, RowUpto(n), w)
    <3>1. Stands(key, n, watermark) /\ r = q
      BY <1>4, <1>6
    <3> HIDE DEF key
    <3>2. /\ Stands(q.key, n, w)
          /\ Left(RowUpto(n), q) = RowUpto(n)
          /\ q.applied = {} /\ Marks(q, "SEQUENCE_GAP") = {}
          /\ q.key.exists => key.exists
          /\ Cardinality(Marks(q, "TTL_FLUSH")) = IF key.exists /\ ~ q.key.exists THEN 1 ELSE 0
          /\ key.exists /\ n >= MaxSeq - 1 /\ w < EventTs[n] + StateTtl => q.key.exists
          /\ key.exists /\ n >= MaxSeq - 1 /\ StateTtl = 0 => q.key.exists
      BY <1>1, <1>4, <2>1, <3>1, NoRowsStand
    <3> HIDE DEF q
    <3> QED
      BY <3>1, <3>2, Zenon DEF key
  <2>3. gaps'[a] = 0
    <3>1. Cardinality(Marks(r, "SEQUENCE_GAP")) = 0
      BY <2>2, FS_EmptySet
    <3> QED
      BY <1>4, <1>5, <3>1
  <2>4. flushes'[a] = flushes[a] + (IF keys[a].exists /\ ~ keys'[a].exists THEN 1 ELSE 0)
    BY <1>5, <2>2
  <2> QED
    BY <1>4, <1>5, <1>8, <2>2, <2>3, <2>4 DEF n, m, w, r
<1> QED
  BY <1>7, <1>8

RejoinDrillInv == RejoinInv /\ StandInv /\ WatermarkInv /\ SnapshotInv

LEMMA DrillStarts == RejoinInit => RejoinDrillInv
<1> SUFFICES ASSUME RejoinInit
             PROVE  RejoinDrillInv
  OBVIOUS
<1>1. RejoinInv
  BY RejoinStarts
<1>2. RowUpto(0) = NoRow
  <2>1. 1..0 = {} /\ Total[{}] = 0
    BY TotalAssumption
  <2> QED
    BY <2>1 DEF RowUpto, NoRow
<1>3. Stands(ColdKey, 0, 0)
  BY DEF Stands, ColdKey, Key, EmptyAccount, Account
<1>4. StandInv
  BY <1>2, <1>3, BoundsFact DEF RejoinInit, StandInv
<1>5. WatermarkInv
  BY BoundsFact DEF RejoinInit, WatermarkInv
<1>6. SnapshotInv
  BY DEF RejoinInit, SnapshotInv
<1> QED
  BY <1>1, <1>4, <1>5, <1>6 DEF RejoinDrillInv

LEMMA DrillBatch ==
    ASSUME InTime, RejoinDrillInv, EngineBatch
    PROVE  RejoinDrillInv'
<1>1. RejoinInv /\ StandInv /\ WatermarkInv /\ SnapshotInv
  BY DEF RejoinDrillInv
<1>2. phase # "done"
  BY BatchIsOf
<1>3. PICK upto \in [Accounts -> 0..MaxSeq], ticks \in tickRead..ticked : BatchOf(upto, ticks)
  BY BatchIsOf
<1>4. /\ read' = upto /\ watermark' = nextWatermark
      /\ phase' = phase /\ published' = published /\ before' = before /\ early' = early
      /\ \A a \in Accounts : upto[a] \in read[a]..published[a]
      /\ found' = IF MaxSeq \in Outcome(Back, upto[Back]).applied
                  THEN IF keys[Back].exists THEN "warm" ELSE "cold"
                  ELSE found
  BY <1>3 DEF BatchOf
<1>5. RejoinInv'
  BY <1>1, <1>3, RejoinBatch
<1>6. WatermarkInv'
  BY <1>1, <1>2, <1>3, WatermarkBatch
<1>7. ASSUME NEW a \in Accounts
      PROVE  /\ read[a] \in Nat /\ upto[a] \in Nat /\ read[a] <= upto[a] /\ upto[a] <= published[a]
             /\ published[a] = MaxSeq - 1 \/ published[a] = MaxSeq
             /\ phase # "traffic" => read[a] >= MaxSeq - 1
  <2>1. read[a] \in 0..MaxSeq /\ upto[a] \in 0..MaxSeq /\ upto[a] \in read[a]..published[a]
    BY <1>1, <1>4 DEF RejoinInv
  <2>2. /\ published[a] = MaxSeq - 1 \/ published[a] = MaxSeq
        /\ phase # "traffic" => read[a] >= MaxSeq - 1
    BY <1>1 DEF StandInv
  <2> QED
    BY <2>1, <2>2, BoundsFact
<1>8. ASSUME NEW a \in Accounts
      PROVE  /\ Stands(keys'[a], upto[a], nextWatermark) /\ balances'[a] = RowUpto(upto[a]) /\ gaps'[a] = 0
             /\ upto[a] # read[a] =>
                   /\ keys'[a].exists /\ flushes'[a] = flushes[a]
                   /\ Outcome(a, upto[a]).applied = (read[a] + 1)..upto[a]
             /\ upto[a] = read[a] =>
                   /\ keys'[a].exists => keys[a].exists
                   /\ flushes'[a] = flushes[a] + (IF keys[a].exists /\ ~ keys'[a].exists THEN 1 ELSE 0)
                   /\ Outcome(a, upto[a]).applied = {}
                   /\ keys[a].exists /\ upto[a] >= MaxSeq - 1 /\ nextWatermark < EventTs[upto[a]] + StateTtl =>
                         keys'[a].exists
                   /\ keys[a].exists /\ upto[a] >= MaxSeq - 1 /\ StateTtl = 0 => keys'[a].exists
  BY <1>1, <1>2, <1>3, <1>8, AccountBatch
<1>9. nextWatermark \in Nat /\ StateTtl \in Nat /\ EventTs[MaxSeq] \in Nat /\ EventTs[MaxSeq - 1] \in Nat
  BY <1>1, BoundsFact DEF RejoinInv
<1>10. ASSUME NEW a \in Accounts, phase = "traffic", upto[a] = MaxSeq - 1
       PROVE  keys'[a].exists
  <2>1. CASE upto[a] # read[a]
    BY <1>8, <2>1
  <2>2. CASE upto[a] = read[a]
    <3>1. keys[a].exists /\ nextWatermark <= EventTs[upto[a]] /\ upto[a] >= MaxSeq - 1
      BY <1>1, <1>10, <2>2, BoundsFact DEF StandInv, WatermarkInv
    <3>2. nextWatermark < EventTs[upto[a]] + StateTtl \/ StateTtl = 0
      BY <1>9, <1>10, <3>1
    <3> QED
      BY <1>8, <2>2, <3>1, <3>2
  <2> QED
    BY <2>1, <2>2
<1>11. StandInv'
  <2>1. published' \in [Accounts -> Nat]
    BY <1>1, <1>4 DEF StandInv
  <2>2. ASSUME NEW a \in Accounts
        PROVE  /\ Stands(keys'[a], upto[a], nextWatermark) /\ balances'[a] = RowUpto(upto[a]) /\ gaps'[a] = 0
               /\ upto[a] <= published[a]
               /\ \/ published[a] = MaxSeq - 1
                  \/ published[a] = MaxSeq /\ a = Back /\ phase \in {"return", "done"}
               /\ phase = "traffic" /\ upto[a] = MaxSeq - 1 => keys'[a].exists
               /\ phase # "traffic" => upto[a] >= MaxSeq - 1
    <3>1. phase # "traffic" => upto[a] >= MaxSeq - 1
      BY <1>7, BoundsFact
    <3>2. \/ published[a] = MaxSeq - 1
          \/ published[a] = MaxSeq /\ a = Back /\ phase \in {"return", "done"}
      BY <1>1 DEF StandInv
    <3> QED
      BY <1>7, <1>8, <1>10, <3>1, <3>2
  <2> QED
    BY <1>4, <2>1, <2>2 DEF StandInv
<1>12. ASSUME phase # "traffic"
       PROVE  /\ upto[Back] = MaxSeq - 1 =>
                    /\ read[Back] = MaxSeq - 1 /\ found' = found
                    /\ flushes'[Back] = before.flushes + (IF keys'[Back].exists THEN 0 ELSE 1)
                    /\ keys'[Back].exists => keys[Back].exists
              /\ upto[Back] = MaxSeq /\ read[Back] = MaxSeq - 1 =>
                    /\ keys'[Back].exists /\ found' = IF keys[Back].exists THEN "warm" ELSE "cold"
                    /\ flushes'[Back] = before.flushes + (IF keys[Back].exists THEN 0 ELSE 1)
              /\ upto[Back] = MaxSeq /\ read[Back] = MaxSeq =>
                    /\ keys'[Back].exists /\ found' = found
                    /\ flushes'[Back] = before.flushes + (IF found = "cold" THEN 1 ELSE 0)
              /\ upto[Back] \in {MaxSeq - 1, MaxSeq} /\ read[Back] \in {MaxSeq - 1, MaxSeq}
  <2> DEFINE n == read[Back]
             m == upto[Back]
  <2>1. /\ n \in Nat /\ m \in Nat /\ n <= m /\ n \in {MaxSeq - 1, MaxSeq} /\ m \in {MaxSeq - 1, MaxSeq}
        /\ MaxSeq \in Nat /\ MaxSeq > 1 /\ Back \in Accounts
    BY <1>7, <1>12, BoundsFact
  <2>2. /\ before.flushes \in Nat
        /\ n = MaxSeq - 1 => flushes[Back] = before.flushes + (IF keys[Back].exists THEN 0 ELSE 1)
        /\ n = MaxSeq => /\ keys[Back].exists
                         /\ flushes[Back] = before.flushes + (IF found = "cold" THEN 1 ELSE 0)
    BY <1>1, <1>12 DEF SnapshotInv
  <2> DEFINE applied == Outcome(Back, upto[Back]).applied
  <2>3. /\ m # n => keys'[Back].exists /\ flushes'[Back] = flushes[Back] /\ applied = (n + 1)..m
        /\ m = n => /\ keys'[Back].exists => keys[Back].exists
                    /\ flushes'[Back] = flushes[Back] + (IF keys[Back].exists /\ ~ keys'[Back].exists THEN 1 ELSE 0)
                    /\ applied = {}
                    /\ keys[Back].exists /\ nextWatermark < EventTs[m] + StateTtl => keys'[Back].exists
                    /\ keys[Back].exists /\ StateTtl = 0 => keys'[Back].exists
    <3>1. m >= MaxSeq - 1
      BY <2>1
    <3> QED
      BY <1>8, <2>1, <3>1
  <2>4. found' = IF MaxSeq \in applied THEN IF keys[Back].exists THEN "warm" ELSE "cold" ELSE found
    BY <1>4
  <2>5. nextWatermark <= EventTs[MaxSeq]
    BY <1>1 DEF WatermarkInv
  <2> HIDE DEF n, m, applied
  <2>6. CASE m = MaxSeq - 1
    <3>1. n = m /\ n # MaxSeq
      BY <2>1, <2>6
    <3>2. MaxSeq \notin applied
      BY <2>3, <3>1
    <3> QED
      BY <2>2, <2>3, <2>4, <2>6, <3>1, <3>2 DEF n, m
  <2>7. CASE m = MaxSeq /\ n = MaxSeq - 1
    <3>1. m # n
      BY <2>1, <2>7
    <3>2. MaxSeq \in applied
      BY <2>1, <2>3, <2>7, <3>1
    <3> QED
      BY <2>1, <2>2, <2>3, <2>4, <2>7, <3>1, <3>2 DEF n, m
  <2>8. CASE m = MaxSeq /\ n = MaxSeq
    <3>1. MaxSeq \notin applied /\ MaxSeq # MaxSeq - 1
      BY <2>1, <2>3, <2>8
    <3>2. nextWatermark < EventTs[m] + StateTtl \/ StateTtl = 0
      BY <1>9, <2>5, <2>8
    <3>3. keys[Back].exists /\ keys'[Back].exists
      BY <2>2, <2>3, <2>8, <3>2
    <3> QED
      BY <2>1, <2>2, <2>3, <2>4, <2>8, <3>1, <3>3 DEF n, m
  <2> QED
    BY <2>1, <2>6, <2>7, <2>8
<1>13. SnapshotInv'
  <2> SUFFICES ASSUME phase # "traffic"
               PROVE  /\ before.row = RowUpto(MaxSeq - 1) /\ before.gaps = 0 /\ before.flushes \in Nat
                      /\ upto[Back] = MaxSeq - 1 =>
                            flushes'[Back] = before.flushes + (IF keys'[Back].exists THEN 0 ELSE 1)
                      /\ upto[Back] = MaxSeq =>
                            /\ keys'[Back].exists
                            /\ flushes'[Back] = before.flushes + (IF found' = "cold" THEN 1 ELSE 0)
                      /\ phase \in {"return", "done"} => published[Back] = MaxSeq
                      /\ phase \in {"return", "done"} /\ ~ early /\ LongEnough =>
                            /\ upto[Back] = MaxSeq - 1 => ~ keys'[Back].exists
                            /\ upto[Back] = MaxSeq => found' = "cold"
                      /\ phase = "done" /\ ~ early => upto[Back] = MaxSeq
    BY <1>4 DEF SnapshotInv
  <2>1. /\ before.row = RowUpto(MaxSeq - 1) /\ before.gaps = 0 /\ before.flushes \in Nat
        /\ phase \in {"return", "done"} => published[Back] = MaxSeq
        /\ phase \in {"return", "done"} /\ ~ early /\ LongEnough =>
              /\ read[Back] = MaxSeq - 1 => ~ keys[Back].exists
              /\ read[Back] = MaxSeq => found = "cold"
    BY <1>1 DEF SnapshotInv
  <2>2. upto[Back] = MaxSeq =>
            /\ keys'[Back].exists
            /\ flushes'[Back] = before.flushes + (IF found' = "cold" THEN 1 ELSE 0)
    <3>1. CASE read[Back] = MaxSeq - 1
      BY <1>12, <3>1
    <3>2. CASE read[Back] = MaxSeq
      BY <1>12, <3>2
    <3> QED
      BY <1>12, <3>1, <3>2
  <2>3. phase \in {"return", "done"} /\ ~ early /\ LongEnough =>
            /\ upto[Back] = MaxSeq - 1 => ~ keys'[Back].exists
            /\ upto[Back] = MaxSeq => found' = "cold"
    <3>1. CASE read[Back] = MaxSeq - 1
      BY <1>12, <2>1, <3>1
    <3>2. CASE read[Back] = MaxSeq
      BY <1>12, <2>1, <3>2
    <3> QED
      BY <1>12, <3>1, <3>2
  <2> QED
    BY <1>2, <1>12, <2>1, <2>2, <2>3
<1> QED
  BY <1>5, <1>6, <1>11, <1>13 DEF RejoinDrillInv

LEMMA DrillSnapshot ==
    ASSUME InTime, RejoinDrillInv, Snapshot
    PROVE  RejoinDrillInv'
<1>1. RejoinInv /\ StandInv /\ WatermarkInv /\ SnapshotInv
  BY DEF RejoinDrillInv
<1>2. /\ phase = "traffic" /\ phase' = "tick" /\ Drained /\ before' = State /\ ticked' = Len(Ticks)
      /\ UNCHANGED <<published, early, engine>>
  BY DEF Snapshot
<1>3. \A a \in Accounts : read[a] = MaxSeq - 1 /\ keys[a].exists
  BY <1>1, <1>2 DEF StandInv, Drained
<1>4. tickRead = 0 /\ Len(Ticks) \in Nat
  BY <1>1, <1>2, RejoinAssumption DEF RejoinInv, WatermarkInv
<1>5. RejoinInv'
  BY <1>1, <1>2, <1>4 DEF RejoinInv, engine
<1>6. StandInv'
  BY <1>1, <1>2, <1>3, BoundsFact DEF StandInv, engine
<1>7. WatermarkInv'
  <2>1. DropLate => nextWatermark < EventTs[MaxSeq]
    <3>1. DropLate => nextWatermark < EventTs[1]
      BY <1>1, <1>2 DEF WatermarkInv
    <3>2. nextWatermark \in Nat /\ EventTs[1] \in Nat /\ EventTs[MaxSeq] \in Nat /\ EventTs[1] <= EventTs[MaxSeq]
      BY <1>1, BoundsFact DEF RejoinInv
    <3> QED
      BY <3>1, <3>2
  <2> QED
    BY <1>1, <1>2, <2>1 DEF WatermarkInv, engine
<1>8. SnapshotInv'
  <2>1. /\ balances[Back] = RowUpto(MaxSeq - 1) /\ gaps[Back] = 0 /\ flushes[Back] \in Nat
    BY <1>1, <1>3, BoundsFact DEF StandInv, RejoinInv
  <2>2. before'.row = RowUpto(MaxSeq - 1) /\ before'.gaps = 0 /\ before'.flushes = flushes[Back]
    BY <1>2, <2>1 DEF State
  <2>3. read' = read /\ keys' = keys /\ flushes' = flushes
    BY <1>2 DEF engine
  <2>4. MaxSeq - 1 # MaxSeq /\ read[Back] = MaxSeq - 1 /\ keys[Back].exists
    BY <1>3, BoundsFact
  <2>5. flushes[Back] = before'.flushes + 0
    BY <2>1, <2>2
  <2> QED
    BY <1>2, <2>1, <2>2, <2>3, <2>4, <2>5 DEF SnapshotInv
<1> QED
  BY <1>5, <1>6, <1>7, <1>8 DEF RejoinDrillInv

LEMMA DrillReturn ==
    ASSUME InTime, RejoinDrillInv, Return
    PROVE  RejoinDrillInv'
<1>1. RejoinInv /\ StandInv /\ WatermarkInv /\ SnapshotInv
  BY DEF RejoinDrillInv
<1>2. /\ phase = "tick" /\ phase' = "return" /\ early' = ~ Drained
      /\ published' = [published EXCEPT ![Back] = before.row.last + 1]
      /\ UNCHANGED <<ticked, before, engine>>
  BY DEF Return
<1>3. before.row.last + 1 = MaxSeq
  BY <1>1, <1>2, BoundsFact DEF SnapshotInv, RowUpto
<1>4. published' = [published EXCEPT ![Back] = MaxSeq]
  BY <1>2, <1>3
<1>5. \A a \in Accounts : published[a] = MaxSeq - 1 /\ read[a] = MaxSeq - 1
  <2> TAKE a \in Accounts
  <2>1. published[a] = MaxSeq - 1 /\ read[a] <= published[a] /\ read[a] >= MaxSeq - 1 /\ read[a] \in 0..MaxSeq
    BY <1>1, <1>2 DEF StandInv, RejoinInv
  <2> QED
    BY <2>1, BoundsFact
<1>6. RejoinInv'
  BY <1>1, <1>2 DEF RejoinInv, engine
<1>7. StandInv'
  <2>1. published \in [Accounts -> Nat] /\ Back \in Accounts /\ MaxSeq \in Nat
    BY <1>1, BoundsFact DEF StandInv
  <2>2. /\ published' \in [Accounts -> Nat] /\ published'[Back] = MaxSeq
        /\ \A a \in Accounts : a # Back => published'[a] = MaxSeq - 1
    BY <1>4, <1>5, <2>1
  <2>3. /\ keys' = keys /\ read' = read /\ watermark' = watermark /\ balances' = balances /\ gaps' = gaps
    BY <1>2 DEF engine
  <2>4. ASSUME NEW a \in Accounts
        PROVE  /\ Stands(keys[a], read[a], watermark) /\ balances[a] = RowUpto(read[a]) /\ gaps[a] = 0
               /\ read[a] <= published'[a] /\ read[a] >= MaxSeq - 1
               /\ (published'[a] = MaxSeq - 1 \/ (published'[a] = MaxSeq /\ a = Back))
    <3>1. Stands(keys[a], read[a], watermark) /\ balances[a] = RowUpto(read[a]) /\ gaps[a] = 0
      BY <1>1 DEF StandInv
    <3>2. published'[a] = MaxSeq - 1 \/ (published'[a] = MaxSeq /\ a = Back)
      BY <2>2
    <3>3. read[a] = MaxSeq - 1 /\ MaxSeq - 1 \in Nat
      BY <1>5, BoundsFact
    <3> QED
      BY <3>1, <3>2, <3>3, BoundsFact
  <2> QED
    BY <1>2, <2>2, <2>3, <2>4 DEF StandInv
<1>8. WatermarkInv'
  BY <1>1, <1>2 DEF WatermarkInv, engine
<1>9. Drained /\ LongEnough => ~ keys[Back].exists
  <2> SUFFICES ASSUME Drained, LongEnough, keys[Back].exists
               PROVE  FALSE
    OBVIOUS
  <2>1. PICK i \in DOMAIN Ticks : Ticks[i] - Delay >= EventTs[MaxSeq - 1] + StateTtl
    BY DEF LongEnough
  <2>2. i \in 1..tickRead
    BY <1>1, <1>2, RejoinAssumption DEF Drained, WatermarkInv
  <2>3. Ticks[i] - Delay <= watermark
    BY <1>1, <2>2 DEF Drained, WatermarkInv
  <2>4. Stands(keys[Back], MaxSeq - 1, watermark) /\ StateTtl > 0
    BY <1>1, <1>5, BoundsFact DEF StandInv, LongEnough
  <2>5. keys[Back].alarm > watermark /\ keys[Back].alarm = EventTs[MaxSeq - 1] + StateTtl
    BY <2>4, BoundsFact DEF Stands
  <2>6. /\ Ticks[i] \in Nat /\ Delay \in Nat /\ watermark \in Nat
        /\ EventTs[MaxSeq - 1] \in Nat /\ StateTtl \in Nat
    BY <1>1, BoundsFact, RejoinAssumption DEF RejoinInv
  <2> QED
    BY <2>1, <2>3, <2>5, <2>6
<1>10. SnapshotInv'
  <2>1. /\ before.row = RowUpto(MaxSeq - 1) /\ before.gaps = 0 /\ before.flushes \in Nat
        /\ flushes[Back] = before.flushes + (IF keys[Back].exists THEN 0 ELSE 1)
    BY <1>1, <1>2, <1>5, BoundsFact DEF SnapshotInv
  <2>2. read' = read /\ keys' = keys /\ flushes' = flushes /\ before' = before /\ found' = found
    BY <1>2 DEF engine
  <2>3. published'[Back] = MaxSeq
    BY <1>1, <1>4, BoundsFact DEF StandInv
  <2>4. read[Back] = MaxSeq - 1 /\ MaxSeq - 1 # MaxSeq
    BY <1>5, BoundsFact
  <2>5. ~ early' /\ LongEnough => ~ keys[Back].exists
    BY <1>2, <1>9
  <2> QED
    BY <1>2, <2>1, <2>2, <2>3, <2>4, <2>5 DEF SnapshotInv
<1> QED
  BY <1>6, <1>7, <1>8, <1>10 DEF RejoinDrillInv

LEMMA DrillStop ==
    ASSUME InTime, RejoinDrillInv, Stop
    PROVE  RejoinDrillInv'
<1>1. RejoinInv /\ StandInv /\ WatermarkInv /\ SnapshotInv
  BY DEF RejoinDrillInv
<1>2. /\ phase = "return" /\ phase' = "done" /\ early' = (early \/ ~ Drained)
      /\ UNCHANGED <<published, ticked, before, engine>>
  BY DEF Stop
<1>3. RejoinInv' /\ StandInv' /\ WatermarkInv'
  BY <1>1, <1>2 DEF RejoinInv, StandInv, WatermarkInv, engine
<1>4. published[Back] = MaxSeq /\ (~ early' => ~ early /\ read[Back] = MaxSeq)
  BY <1>1, <1>2 DEF SnapshotInv, Drained
<1>5. SnapshotInv'
  BY <1>1, <1>2, <1>4 DEF SnapshotInv, engine
<1> QED
  BY <1>3, <1>5 DEF RejoinDrillInv

LEMMA DrillInvariant ==
    ASSUME InTime
    PROVE  RejoinSpec => []RejoinDrillInv
<1>1. RejoinDrillInv /\ [RejoinNext]_rejoinVars => RejoinDrillInv'
  <2> SUFFICES ASSUME RejoinDrillInv, [RejoinNext]_rejoinVars
               PROVE  RejoinDrillInv'
    OBVIOUS
  <2>1. CASE RejoinNext
    BY <2>1, DrillBatch, DrillSnapshot, DrillReturn, DrillStop DEF RejoinNext
  <2>2. CASE UNCHANGED rejoinVars
    BY <2>2 DEF rejoinVars, engine, RejoinDrillInv, RejoinInv, StandInv, WatermarkInv, SnapshotInv
  <2> QED
    BY <2>1, <2>2
<1> QED
  BY <1>1, DrillStarts, PTL DEF RejoinSpec

(* Types: no more is published than an account has events, no more is read *)
(* than was published, and the watermark in use is behind the next one.    *)
THEOREM RejoinTypes ==
    ASSUME InTime
    PROVE  RejoinSpec => []RejoinTypeOK
<1>1. RejoinDrillInv => RejoinTypeOK
  <2> SUFFICES ASSUME RejoinDrillInv
               PROVE  RejoinTypeOK
    OBVIOUS
  <2>1. RejoinInv /\ StandInv /\ phase \in {"traffic", "tick", "return", "done"}
    BY DEF RejoinDrillInv, WatermarkInv
  <2>2. ASSUME NEW a \in Accounts
        PROVE  /\ published[a] \in 0..MaxSeq /\ read[a] \in 0..published[a]
               /\ keys[a] \in Key /\ balances[a] \in BalanceRow
               /\ flushes[a] \in Nat /\ gaps[a] \in Nat
    <3>1. published[a] \in 0..MaxSeq /\ read[a] \in 0..published[a]
      BY <2>1, BoundsFact DEF RejoinInv, StandInv
    <3> QED
      BY <2>1, <3>1 DEF RejoinInv, Agree
  <2> QED
    BY <2>1, <2>2 DEF RejoinTypeOK, RejoinInv
<1> QED
  BY <1>1, DrillInvariant, PTL

(* A rejoin proof that passes has seen a release, a cold return and the    *)
(* balance of every event, whether or not the waits of the drill waited.   *)
THEOREM PassedProofsAreEarned ==
    ASSUME InTime
    PROVE  RejoinSpec => []PassMeansCold
<1>1. ASSUME RejoinDrillInv, phase = "done", ProofPasses
      PROVE  found = "cold" /\ balances[Back].last = MaxSeq /\ balances[Back].bal = Total[Seqs]
  <2>1. /\ before.row = RowUpto(MaxSeq - 1) /\ before.flushes \in Nat
        /\ read[Back] = MaxSeq =>
              flushes[Back] = before.flushes + (IF found = "cold" THEN 1 ELSE 0)
        /\ balances[Back] = RowUpto(read[Back]) /\ read[Back] \in 0..MaxSeq
    BY <1>1, BoundsFact DEF RejoinDrillInv, SnapshotInv, StandInv, RejoinInv
  <2>2. State.row.last - before.row.last > 0 /\ State.flushes > before.flushes
    BY <1>1 DEF ProofPasses, DeltaSeq
  <2>3. read[Back] - (MaxSeq - 1) > 0 /\ flushes[Back] > before.flushes
    BY <2>1, <2>2 DEF State, RowUpto
  <2>4. read[Back] = MaxSeq
    BY <2>1, <2>3, BoundsFact
  <2>5. balances[Back].last = MaxSeq /\ balances[Back].bal = Total[1..MaxSeq]
    BY <2>1, <2>4 DEF RowUpto
  <2> QED
    BY <2>1, <2>3, <2>4, <2>5 DEF Seqs
<1>2. RejoinDrillInv => PassMeansCold
  BY <1>1 DEF PassMeansCold
<1> QED
  BY <1>2, DrillInvariant, PTL

(* The verdict of the rejoin proof is right both ways, when the tick run   *)
(* is as long as the TTL: it passes only after a release, and it passes    *)
(* whenever the waits of the drill did wait.                               *)
THEOREM TheRejoinVerdict ==
    ASSUME InTime, LongEnough
    PROVE  RejoinSpec => []ProofIsRight
<1>1. ASSUME RejoinDrillInv, phase = "done", ~ early, before.row.bal # 0
      PROVE  ProofPasses
  <2> DEFINE N == MaxSeq - 1
  <2>1. /\ before.row = RowUpto(N) /\ before.flushes \in Nat /\ before.gaps = 0
        /\ read[Back] = MaxSeq /\ found = "cold"
        /\ flushes[Back] = before.flushes + 1
        /\ balances[Back] = RowUpto(MaxSeq) /\ gaps[Back] = 0
    BY <1>1, BoundsFact DEF RejoinDrillInv, SnapshotInv, StandInv
  <2>2. /\ N \in Nat /\ N + 1 = MaxSeq /\ MaxSeq \in Nat
        /\ 1..N \in SUBSET Seqs /\ {MaxSeq} \in SUBSET Seqs
        /\ (1..N) \cup {MaxSeq} = 1..MaxSeq /\ (1..N) \cap {MaxSeq} = {}
    <3>1. N \in Nat /\ N + 1 = MaxSeq /\ MaxSeq \in Nat /\ 1 <= N + 1 /\ N + 1 <= MaxSeq
      BY BoundsFact
    <3> HIDE DEF N
    <3> QED
      BY <3>1, OneMore
  <2>3. /\ Total[1..MaxSeq] = Total[1..N] + Total[{MaxSeq}]
        /\ Total[1..N] \in Int /\ Total[{MaxSeq}] \in Int
    BY <2>2, TotalAdds
  <2> HIDE DEF N
  <2>4. /\ State.flushes = before.flushes + 1 /\ State.gaps = 0
        /\ State.row.last = MaxSeq /\ State.row.bal = Total[1..MaxSeq]
        /\ before.row.last = N /\ before.row.bal = Total[1..N]
    BY <2>1 DEF State, RowUpto
  <2>5. DeltaSeq = MaxSeq - N /\ DeltaBal = Total[1..MaxSeq] - Total[1..N]
    BY <2>4 DEF DeltaSeq, DeltaBal
  <2>6. DeltaSeq > 0 /\ DeltaBal = Expected
    BY <2>2, <2>3, <2>5 DEF Expected
  <2>7. ~ Replaced
    BY <1>1, <2>3, <2>4, <2>6 DEF Replaced, Expected
  <2> QED
    BY <2>1, <2>4, <2>6, <2>7 DEF ProofPasses
<1>2. RejoinDrillInv => DrainedDrillPasses
  BY <1>1 DEF DrainedDrillPasses
<1> QED
  BY <1>2, DrillInvariant, PassedProofsAreEarned, PTL DEF ProofIsRight
=============================================================================
