------------------------------- MODULE Oracle -------------------------------
(***************************************************************************)
(* What a run should have left behind, computed from its delivery log      *)
(* alone (scripts/oracle.py), and the comparison of that prediction with   *)
(* the tables (scripts/parity_balance.py).  Operators only.                *)
(*                                                                         *)
(* The delivery log of an account is the sequence of the seq_nos published *)
(* for it.  Found is what the integrity table holds for an account after   *)
(* the reader's deduplication; a gap range lo..hi is the set it stands for.*)
(***************************************************************************)
EXTENDS SequencerCore, SequencesExt

Found == [dup : SUBSET Seqs, overflow : SUBSET Seqs, gaps : SUBSET (SUBSET Seqs)]

NothingFound == [dup |-> {}, overflow |-> {}, gaps |-> {}]

(***************************************************************************)
(* The prediction                                                          *)
(***************************************************************************)

Repeated(log) == {s \in Seqs : Cardinality({i \in DOMAIN log : log[i] = s}) > 1}

Missing(log) == (1..Max(ToSet(log))) \ ToSet(log)

(* coalesce_ranges: the maximal runs of consecutive numbers in S.          *)
Ranges(S) ==
    {r \in {lo..hi : lo, hi \in S} :
        /\ r # {}
        /\ r \subseteq S
        /\ Min(r) - 1 \notin S /\ Max(r) + 1 \notin S}

HeadWithheld(log) == 1 \in Missing(log)

(* With the head withheld everything is early, and min-first eviction      *)
(* leaves the MaxBuffer largest.  (ordered[:-0] is empty.)                 *)
PredictedEvicted(log) ==
    {s \in ToSet(log) : /\ HeadWithheld(log) /\ MaxBuffer > 0
                        /\ Cardinality({t \in ToSet(log) : t > s}) >= MaxBuffer}

(* Mutation of Determinate: any log is predictable.                        *)
DeterminateAlways(log) == TRUE

(* A burst above the cap with an appliable head depends on the batches.    *)
Determinate(log) == HeadWithheld(log) \/ Cardinality(ToSet(log)) <= MaxBuffer

PredictedApplied(log) ==
    LET settled == IF Policy = "HOLD" /\ Missing(log) # {}
                   THEN {s \in ToSet(log) : s < Min(Missing(log))} ELSE ToSet(log)
    IN  settled \ PredictedEvicted(log)

Prediction(log) ==
    LET applied == PredictedApplied(log)
    IN  [bal         |-> Total[applied],
         last        |-> IF applied = {} THEN 0 ELSE Max(applied),
         count       |-> Cardinality(applied),
         gaps        |-> Ranges(Missing(log)),
         dup         |-> Repeated(log),
         overflow    |-> PredictedEvicted(log),
         determinate |-> Determinate(log)]

(***************************************************************************)
(* The comparison                                                          *)
(***************************************************************************)

(* Mutation of DerivedCount: what lies past the position is not clipped.   *)
DerivedCountUnclipped(row, found) ==
    row.last - Cardinality((UNION found.gaps) \cup found.overflow)

(* derive_applied_count: the position less everything at or below it that  *)
(* is known never to have been applied.                                    *)
DerivedCount(row, found) ==
    row.last - Cardinality(((UNION found.gaps) \cup found.overflow) \cap 1..row.last)

(* The flags of the command line: strict, replay, ranges, drained, clean.  *)
Plain == [strict |-> FALSE, replay |-> FALSE, ranges |-> FALSE,
          drained |-> FALSE, clean |-> FALSE]

(* What is wrong with one account, N/A included: an indeterminate account  *)
(* is not compared unless --strict.                                        *)
Mismatches(o, row, found, ask) ==
    LET wrong == [
            balance  |-> row.bal # o.bal,
            last     |-> row.last # o.last,
            count    |-> DerivedCount(row, found) # o.count,
            dup      |-> IF ask.replay THEN ~(o.dup \subseteq found.dup)
                                       ELSE found.dup # o.dup,
            overflow |-> o.determinate /\ found.overflow # o.overflow,
            ranges   |-> ask.ranges /\ found.gaps # o.gaps,
            drained  |-> ask.drained /\ row.size # 0,
            clean    |-> ask.clean /\ found # NothingFound]
    IN  {c \in DOMAIN wrong : wrong[c] /\ (o.determinate \/ ask.strict)}

(* All accounts of the log and of the table: each must be in both.  A row  *)
(* that was never written is NoRow.                                        *)
Failing(logs, table, found, ask) ==
    {a \in DOMAIN logs :
        \/ (logs[a] = <<>>) # (table[a] = NoRow)
        \/ logs[a] # <<>> /\ Mismatches(Prediction(logs[a]), table[a], found[a], ask) # {}}

ParityPasses(logs, table, found, ask) == Failing(logs, table, found, ask) = {}

(* buffer_proof.py: what a burst of n events behind a withheld seq 1 must  *)
(* leave.  Its events all have one amount, so the balance tells how many   *)
(* were applied.                                                           *)
BufferProofPasses(row, survivors, found, n) ==
    /\ row.last = n + 1
    /\ Cardinality(survivors) = Min({MaxBuffer, n})
    /\ Cardinality(found.overflow) = Max({0, n - MaxBuffer})

(* late_arrival_proof.py: seq s came after its hole was confirmed.         *)
LateArrivalPasses(before, s, row, found) ==
    /\ row.last = before.last /\ row.bal = before.bal
    /\ found.gaps # {}
    /\ s \in found.dup
=============================================================================
