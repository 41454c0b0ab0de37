--------------------------- MODULE VelocityProofs ---------------------------
(***************************************************************************)
(* Proofs about a velocity query: that its sink announces every breach,    *)
(* and that its table is what the recomputation finds.                     *)
(***************************************************************************)
EXTENDS Velocity, FiniteSetTheorems, TLAPS

Signalled(w, sums) == \E s \in signals : s.window = w /\ s.spend = sums.spend

(* A breach in the table that is not on the topic is one of the batch in   *)
(* flight, which has written its rows before it was killed, or has still   *)
(* to announce them; run again, it computes the same.                      *)
Owed(w, sums) == pc \in {"planned", "appended"} /\ w \in Changed /\ sums = Emitted[w]

BreachInv ==
    /\ \A w \in DOMAIN table :
          /\ \E S : table[w] \in Seq(S)
          /\ \A i \in DOMAIN table[w] : Breached(table[w][i]) =>
                Signalled(w, table[w][i]) \/ Owed(w, table[w][i])
    /\ pc \in {"idle", "planned", "appended", "signalled"}

(* What a batch computes is fixed once it is planned.                      *)
LEMMA ReplayFact ==
    ASSUME UNCHANGED <<topic, offset, end, behind, windows>>
    PROVE  Changed' = Changed /\ Emitted' = Emitted
<1>1. /\ topic' = topic /\ offset' = offset /\ end' = end /\ behind' = behind
      /\ windows' = windows
  OBVIOUS
<1>2. Read' = Read /\ Debits' = Debits /\ AllWindows' = AllWindows
  BY <1>1 DEF Read, Debits, AllWindows
<1>3. \A w : Taken(w)' = Taken(w)
  BY <1>1, <1>2 DEF Taken, Late
<1>4. Changed' = Changed
  BY <1>2, <1>3 DEF Changed
<1>5. \A w : KeptSums(w)' = KeptSums(w) /\ Sums(Taken(w))' = Sums(Taken(w))
  BY <1>1, <1>3 DEF KeptSums, Sums
<1>6. Emitted' = Emitted
  BY <1>4, <1>5 DEF Emitted, Plus
<1> QED
  BY <1>4, <1>6

LEMMA AppendFact ==
    ASSUME NEW S, NEW rows \in Seq(S), NEW x
    PROVE  /\ \E T : Append(rows, x) \in Seq(T)
           /\ \A i \in DOMAIN Append(rows, x) :
                 \/ i \in DOMAIN rows /\ Append(rows, x)[i] = rows[i]
                 \/ Append(rows, x)[i] = x
<1>1. rows \in Seq(S \cup {x})
  OBVIOUS
<1>2. Append(rows, x) \in Seq(S \cup {x})
  BY <1>1
<1> QED
  BY <1>2

LEMMA BreachKept ==
    ASSUME BreachInv, table' = table, Changed' = Changed, Emitted' = Emitted,
           signals \subseteq signals', pc \in {"planned", "appended"} => pc' \in {"planned", "appended"},
           pc' \in {"idle", "planned", "appended", "signalled"}
    PROVE  BreachInv'
<1> SUFFICES ASSUME NEW w \in DOMAIN table, NEW i \in DOMAIN table[w], Breached(table[w][i])
             PROVE  Signalled(w, table[w][i])' \/ Owed(w, table[w][i])'
  BY DEF BreachInv, Breached
<1>1. Signalled(w, table[w][i]) \/ Owed(w, table[w][i])
  BY DEF BreachInv
<1> QED
  BY <1>1 DEF Signalled, Owed

LEMMA BreachKeeps == BreachInv /\ [Next]_vars => BreachInv'
<1> SUFFICES ASSUME BreachInv, [Next]_vars
             PROVE  BreachInv'
  OBVIOUS
<1>1. CASE Plan
  <2>1. \A w \in DOMAIN table : \A i \in DOMAIN table[w] :
            Breached(table[w][i]) => Signalled(w, table[w][i])
    BY <1>1 DEF Plan, BreachInv, Owed
  <2>2. table' = table /\ signals' = signals /\ pc' = "planned"
    BY <1>1 DEF Plan
  <2> QED
    BY <2>1, <2>2 DEF BreachInv, Signalled, Breached
<1>2. CASE Write
  <2>1. /\ pc = "planned" /\ pc' = "appended" /\ signals' = signals
        /\ UNCHANGED <<topic, offset, end, behind, windows>>
        /\ table' = [w \in DOMAIN table \cup Changed |->
                        IF w \in Changed THEN Append(RowsWritten(w), Emitted[w]) ELSE table[w]]
    BY <1>2 DEF Write
  <2>2. Changed' = Changed /\ Emitted' = Emitted
    BY <2>1, ReplayFact
  <2>3. ASSUME NEW w \in DOMAIN table'
        PROVE  /\ \E S : table'[w] \in Seq(S)
               /\ \A i \in DOMAIN table'[w] :
                     \/ /\ w \in DOMAIN table /\ i \in DOMAIN table[w]
                        /\ table'[w][i] = table[w][i]
                     \/ w \in Changed /\ table'[w][i] = Emitted[w]
    <3>1. CASE w \notin Changed
      <4>1. w \in DOMAIN table /\ table'[w] = table[w]
        BY <2>1, <3>1
      <4> QED
        BY <4>1 DEF BreachInv
    <3>2. CASE w \in Changed
      <4>1. table'[w] = Append(RowsWritten(w), Emitted[w])
        BY <2>1, <3>2
      <4>2. CASE w \in DOMAIN table
        <5>1. RowsWritten(w) = table[w]
          BY <4>2 DEF RowsWritten
        <5>2. PICK S : table[w] \in Seq(S)
          BY <4>2 DEF BreachInv
        <5> DEFINE x == Emitted[w]
                   rows == table[w]
        <5> HIDE DEF x, rows
        <5>3. rows \in Seq(S) /\ table'[w] = Append(rows, x)
          BY <4>1, <5>1, <5>2 DEF x, rows
        <5>4. /\ \E T : Append(rows, x) \in Seq(T)
              /\ \A i \in DOMAIN Append(rows, x) :
                    \/ i \in DOMAIN rows /\ Append(rows, x)[i] = rows[i]
                    \/ Append(rows, x)[i] = x
          BY <5>3, AppendFact
        <5> QED
          BY <3>2, <4>2, <5>3, <5>4 DEF x, rows
      <4>3. CASE w \notin DOMAIN table
        <5> DEFINE x == Emitted[w]
        <5>1. RowsWritten(w) = <<>>
          BY <4>3 DEF RowsWritten
        <5> HIDE DEF x
        <5>2. table'[w] = Append(<<>>, x)
          BY <4>1, <5>1 DEF x
        <5>3. /\ \E T : Append(<<>>, x) \in Seq(T)
              /\ \A i \in DOMAIN Append(<<>>, x) : Append(<<>>, x)[i] = x
          <6>1. <<>> \in Seq({x}) /\ DOMAIN <<>> = {}
            OBVIOUS
          <6> QED
            BY <6>1, AppendFact
        <5> QED
          BY <3>2, <5>2, <5>3 DEF x
      <4> QED
        BY <4>2, <4>3
    <3> QED
      BY <3>1, <3>2
  <2>4. ASSUME NEW w \in DOMAIN table', NEW i \in DOMAIN table'[w], Breached(table'[w][i])
        PROVE  \/ \E s \in signals' : s.window = w /\ s.spend = table'[w][i].spend
               \/ pc' \in {"planned", "appended"} /\ w \in Changed' /\ table'[w][i] = Emitted'[w]
    <3>1. CASE w \in Changed /\ table'[w][i] = Emitted[w]
      <4>1. w \in Changed' /\ Emitted'[w] = Emitted[w]
        BY <2>2, <3>1
      <4> QED
        BY <2>1, <3>1, <4>1
    <3>2. CASE w \in DOMAIN table /\ i \in DOMAIN table[w] /\ table'[w][i] = table[w][i]
      <4>1. Breached(table[w][i])
        BY <2>4, <3>2
      <4>2. CASE Signalled(w, table[w][i])
        BY <2>1, <3>2, <4>2 DEF Signalled
      <4>3. CASE Owed(w, table[w][i])
        <5>1. w \in Changed /\ table'[w][i] = Emitted[w]
          BY <3>2, <4>3 DEF Owed
        <5> QED
          BY <3>1, <5>1
      <4> QED
        BY <3>2, <4>1, <4>2, <4>3 DEF BreachInv
    <3> QED
      BY <2>3, <2>4, <3>1, <3>2
  <2> QED
    BY <2>1, <2>3, <2>4 DEF BreachInv, Breached, Signalled, Owed
<1>3. CASE Announce
  <2>1. /\ pc = "appended" /\ pc' = "signalled" /\ table' = table
        /\ signals' = signals \cup Announced
    BY <1>3 DEF Announce
  <2>2. ASSUME NEW w \in DOMAIN table, NEW i \in DOMAIN table[w], Breached(table[w][i])
        PROVE  \E s \in signals' : s.window = w /\ s.spend = table[w][i].spend
    <3>1. Signalled(w, table[w][i]) \/ Owed(w, table[w][i])
      BY <2>2 DEF BreachInv
    <3>2. CASE Owed(w, table[w][i])
      <4> DEFINE s == [window |-> w, batch |-> batch + 1, spend |-> Emitted[w].spend]
      <4>1. w \in Changed /\ Breached(Emitted[w])
        BY <2>2, <3>2 DEF Owed
      <4>2. s \in Announced
        BY <4>1 DEF Announced
      <4>3. s.window = w /\ s.spend = table[w][i].spend
        BY <3>2 DEF Owed
      <4> QED
        BY <2>1, <4>2, <4>3
    <3> QED
      BY <2>1, <3>1, <3>2 DEF Signalled
  <2> QED
    BY <2>1, <2>2 DEF BreachInv, Signalled, Breached
<1>4. CASE Commit
  <2>1. \A w \in DOMAIN table : \A i \in DOMAIN table[w] :
            Breached(table[w][i]) => Signalled(w, table[w][i])
    BY <1>4 DEF Commit, BreachInv, Owed
  <2>2. table' = table /\ signals' = signals /\ pc' = "idle"
    BY <1>4 DEF Commit
  <2> QED
    BY <2>1, <2>2 DEF BreachInv, Signalled, Breached
<1>5. CASE Crash
  <2>1. /\ table' = table /\ signals' = signals /\ pc' = "planned"
        /\ UNCHANGED <<topic, offset, end, behind, windows>>
    BY <1>5 DEF Crash
  <2> QED
    BY <2>1, ReplayFact, BreachKept
<1>6. CASE UNCHANGED vars
  <2>1. /\ table' = table /\ signals' = signals /\ pc' = pc
        /\ UNCHANGED <<topic, offset, end, behind, windows>>
    BY <1>6 DEF vars
  <2>2. pc' \in {"idle", "planned", "appended", "signalled"}
    BY <2>1 DEF BreachInv
  <2> QED
    BY <2>1, <2>2, ReplayFact, BreachKept
<1> QED
  BY <1>1, <1>2, <1>3, <1>4, <1>5, <1>6 DEF Next

(* A breach in the table of a committed batch has been announced, although *)
(* the process may die between the two writes of the sink, any number of   *)
(* times (velocity.py:58-75).                                              *)
THEOREM BreachesAreAnnounced == Spec => []BreachIsAnnounced
<1>1. Init => BreachInv
  BY DEF Init, BreachInv
<1>2. BreachInv /\ [Next]_vars => BreachInv'
  BY BreachKeeps
<1>3. BreachInv => BreachIsAnnounced
  BY DEF BreachInv, BreachIsAnnounced, Signalled, Owed
<1> QED
  BY <1>1, <1>2, <1>3, PTL DEF Spec

(***************************************************************************)
(* What the stream leaves and what a batch computes                        *)
(***************************************************************************)

Event == [ts : Nat, amt : Int]

SumRow == [spend : Nat, txns : Nat]

(* The debits read that count for a window.                                *)
Counted(w) ==
    {i \in Debits : i <= offset /\ w \in Starts(topic[i].ts) /\ <<w, i>> \notin dropped}

(* A watermark follows an event read, once there is one late enough.       *)
Passed(m) == m = 0 \/ \E j \in 1..offset : m = topic[j].ts - Delay

StreamTypes ==
    /\ topic \in Streams
    /\ offset \in 0..Len(topic) /\ end \in 0..Len(topic)
    /\ pc \in {"idle", "planned", "appended", "signalled"}
    /\ pc # "idle" => offset <= end
    /\ DOMAIN windows \subseteq AllWindows /\ DOMAIN table \subseteq AllWindows
    /\ \A w \in DOMAIN table : table[w] \in Seq(SumRow) /\ table[w] # <<>>

Watermarks == Passed(behind) /\ Passed(watermark) /\ behind <= watermark

(* A row is dropped only because of an event that came before it.          *)
DroppedAreLate ==
    \A d \in dropped :
        /\ d \in AllWindows \X (1..offset)
        /\ \E j \in 1..(d[2] - 1) : topic[d[2]].ts < topic[j].ts - Delay

KeptIsWhole == \A w \in AllWindows : ~Late(w) => KeptSums(w) = Sums(Counted(w))

(* A row is the whole of its window as of the last commit, or as of the    *)
(* one to come, which computes it anew if it is run again.                 *)
TableIsWhole ==
    \A w \in AllWindows :
        /\ \/ StreamSide(w) = Sums(Counted(w))
           \/ pc # "idle" /\ w \in Changed /\ StreamSide(w) = Emitted[w]
        /\ pc \in {"appended", "signalled"} /\ w \in Changed => StreamSide(w) = Emitted[w]

StreamInv ==
    /\ StreamTypes /\ Watermarks /\ DroppedAreLate
    /\ KeptIsWhole /\ TableIsWhole /\ WindowNeverRestarts

(***************************************************************************)
(* Sums                                                                    *)
(***************************************************************************)

(* Induction over the naturals, for a property given as the set of numbers *)
(* that have it: a least number without it would follow one with it.       *)
LEMMA Induction ==
    ASSUME NEW S \in SUBSET Nat, 0 \in S, \A n \in S : n + 1 \in S
    PROVE  S = Nat
<1> SUFFICES ASSUME Nat \ S # {}
             PROVE  FALSE
  OBVIOUS
<1> DEFINE R == OpToRel(<, Nat)
           T == Nat \ S
<1>1. IsWellFoundedOn(R, Nat)
  BY NatLessThanWellFounded
<1>2. \A x, y \in Nat : y < x => <<y, x>> \in R
  BY DEF OpToRel
<1>3. PICK m \in T : \A y \in T : ~ (<<y, m>> \in R)
  <2>1. T \in SUBSET Nat
    OBVIOUS
  <2> HIDE DEF R, T
  <2> QED
    BY <1>1, <2>1, WFMin DEF T
<1> HIDE DEF R
<1>4. m \in Nat /\ m # 0 /\ \A y \in Nat \ S : ~ (y < m)
  BY <1>2, <1>3
<1>5. m - 1 \in Nat /\ m - 1 < m
  BY <1>4
<1>6. m - 1 \in S /\ (m - 1) + 1 = m
  BY <1>4, <1>5
<1> QED
  BY <1>3, <1>6

(* The function that SumsOf is defined by exists.                          *)
LEMMA SpendsFact ==
    ASSUME NEW log, Len(log) \in Nat, NEW events
    PROVE  LET upTo == Spends(log, events)
           IN  /\ upTo[0] = 0
               /\ \A n \in 1..Len(log) :
                     upTo[n] = upTo[n - 1] + IF n \in events THEN Abs(log[n].amt) ELSE 0
<1> DEFINE Step(f, n) == IF n = 0 THEN 0
                         ELSE f[n - 1] + IF n \in events THEN Abs(log[n].amt) ELSE 0
           Good(m) == \E f : f = [n \in 0..m |-> Step(f, n)]
           S == {m \in Nat : Good(m)}
<1>1. 0 \in S
  <2> DEFINE f == [n \in 0..0 |-> 0]
  <2>1. f = [n \in 0..0 |-> Step(f, n)]
    BY \A n \in 0..0 : n = 0
  <2> QED
    BY <2>1
<1>2. ASSUME NEW m \in S
      PROVE  m + 1 \in S
  <2>1. PICK f : f = [n \in 0..m |-> Step(f, n)]
    OBVIOUS
  <2> DEFINE g == [n \in 0..(m + 1) |-> IF n = m + 1 THEN Step(f, m + 1) ELSE f[n]]
  <2> HIDE DEF Step
  <2>2. ASSUME NEW n \in 0..(m + 1)
        PROVE  g[n] = Step(g, n)
    <3>1. CASE n = 0
      <4>1. g[n] = f[n] /\ f[n] = Step(f, n)
        BY <2>1, <3>1
      <4> QED
        BY <3>1, <4>1 DEF Step
    <3>2. CASE n # 0
      <4>1. n - 1 \in 0..m /\ n - 1 \in 0..(m + 1) /\ n - 1 # m + 1
        BY <3>2
      <4>2. g[n - 1] = f[n - 1]
        BY <4>1
      <4>3. Step(g, n) = Step(f, n)
        BY <4>2 DEF Step
      <4>4. CASE n = m + 1
        BY <4>3, <4>4
      <4>5. CASE n # m + 1
        <5>1. n \in 0..m
          BY <4>5
        <5>2. g[n] = f[n] /\ f[n] = Step(f, n)
          BY <2>1, <4>5, <5>1
        <5> QED
          BY <4>3, <5>2
      <4> QED
        BY <4>4, <4>5
    <3> QED
      BY <3>1, <3>2
  <2>3. g = [n \in 0..(m + 1) |-> Step(g, n)]
    BY <2>2
  <2>4. Good(m + 1)
    <3> HIDE DEF g
    <3> QED
      BY <2>3
  <2> QED
    BY <2>4
<1>3. S = Nat
  <2> HIDE DEF S
  <2> QED
    BY <1>1, <1>2, Induction, S \in SUBSET Nat DEF S
<1>4. \E f : f = [n \in 0..Len(log) |-> Step(f, n)]
  BY <1>3
<1> DEFINE upTo == Spends(log, events)
<1>5. upTo = CHOOSE f : f = [n \in 0..Len(log) |-> Step(f, n)]
  BY DEF Spends
<1> HIDE DEF upTo, Step
<1>6. upTo = [n \in 0..Len(log) |-> Step(upTo, n)]
  BY <1>4, <1>5
<1>7. upTo[0] = 0
  BY <1>6 DEF Step
<1>8. ASSUME NEW n \in 1..Len(log)
      PROVE  upTo[n] = upTo[n - 1] + IF n \in events THEN Abs(log[n].amt) ELSE 0
  <2>1. n \in 0..Len(log) /\ n # 0
    OBVIOUS
  <2>2. upTo[n] = Step(upTo, n)
    BY <1>6, <2>1
  <2> QED
    BY <2>1, <2>2 DEF Step
<1> QED
  BY <1>7, <1>8 DEF upTo

(* The sums of no event, of more events, and of other events besides.      *)
LEMMA SumsFact ==
    ASSUME NEW log \in Seq(Event), NEW A \in SUBSET DOMAIN log, NEW B \in SUBSET DOMAIN log,
           A \cap B = {}
    PROVE  /\ SumsOf(log, {}) = NoSums
           /\ SumsOf(log, A) \in SumRow
           /\ SumsOf(log, A \cup B) = Plus(SumsOf(log, A), SumsOf(log, B))
<1>1. /\ Len(log) \in Nat /\ DOMAIN log = 1..Len(log)
      /\ \A n \in 1..Len(log) : Abs(log[n].amt) \in Nat
  <2>1. \A n \in 1..Len(log) : log[n] \in Event
    OBVIOUS
  <2>2. \A n \in 1..Len(log) : log[n].amt \in Int
    BY <2>1 DEF Event
  <2> QED
    BY <2>2 DEF Abs
<1> DEFINE none == Spends(log, {})
           one == Spends(log, A)
           two == Spends(log, B)
           all == Spends(log, A \cup B)
           S == {n \in Nat : n <= Len(log) =>
                    /\ none[n] = 0 /\ one[n] \in Nat /\ two[n] \in Nat
                    /\ all[n] = one[n] + two[n]}
<1>2. /\ none[0] = 0 /\ one[0] = 0 /\ two[0] = 0 /\ all[0] = 0
      /\ \A n \in 1..Len(log) :
            /\ none[n] = none[n - 1] + 0
            /\ one[n] = one[n - 1] + IF n \in A THEN Abs(log[n].amt) ELSE 0
            /\ two[n] = two[n - 1] + IF n \in B THEN Abs(log[n].amt) ELSE 0
            /\ all[n] = all[n - 1] + IF n \in A \cup B THEN Abs(log[n].amt) ELSE 0
  <2>1. /\ none[0] = 0
        /\ \A n \in 1..Len(log) :
              none[n] = none[n - 1] + IF n \in {} THEN Abs(log[n].amt) ELSE 0
    BY <1>1, SpendsFact
  <2>2. /\ one[0] = 0
        /\ \A n \in 1..Len(log) :
              one[n] = one[n - 1] + IF n \in A THEN Abs(log[n].amt) ELSE 0
    BY <1>1, SpendsFact
  <2>3. /\ two[0] = 0
        /\ \A n \in 1..Len(log) :
              two[n] = two[n - 1] + IF n \in B THEN Abs(log[n].amt) ELSE 0
    BY <1>1, SpendsFact
  <2>4. /\ all[0] = 0
        /\ \A n \in 1..Len(log) :
              all[n] = all[n - 1] + IF n \in A \cup B THEN Abs(log[n].amt) ELSE 0
    BY <1>1, SpendsFact
  <2> HIDE DEF none, one, two, all
  <2> QED
    BY <2>1, <2>2, <2>3, <2>4
<1> HIDE DEF none, one, two, all
<1>3. 0 \in S
  BY <1>2
<1>4. ASSUME NEW n \in S
      PROVE  n + 1 \in S
  <2> SUFFICES ASSUME n + 1 <= Len(log)
               PROVE  /\ none[n + 1] = 0 /\ one[n + 1] \in Nat /\ two[n + 1] \in Nat
                      /\ all[n + 1] = one[n + 1] + two[n + 1]
    OBVIOUS
  <2>1. n \in Nat /\ n + 1 \in 1..Len(log) /\ (n + 1) - 1 = n /\ n <= Len(log)
    BY <1>1
  <2>2. /\ none[n] = 0 /\ one[n] \in Nat /\ two[n] \in Nat /\ all[n] = one[n] + two[n]
    BY <2>1
  <2>3. PICK amt \in Nat : amt = Abs(log[n + 1].amt)
    BY <1>1, <2>1
  <2>4. /\ none[n + 1] = none[n] + 0
        /\ one[n + 1] = one[n] + IF n + 1 \in A THEN amt ELSE 0
        /\ two[n + 1] = two[n] + IF n + 1 \in B THEN amt ELSE 0
        /\ all[n + 1] = all[n] + IF n + 1 \in A \cup B THEN amt ELSE 0
    BY <1>2, <2>1, <2>3
  <2>5. ~ (n + 1 \in A /\ n + 1 \in B)
    OBVIOUS
  <2>6. CASE n + 1 \in A
    BY <2>2, <2>4, <2>5, <2>6
  <2>7. CASE n + 1 \in B
    BY <2>2, <2>4, <2>5, <2>7
  <2>8. CASE n + 1 \notin A \cup B
    BY <2>2, <2>4, <2>8
  <2> QED
    BY <2>6, <2>7, <2>8
<1>5. S = Nat
  <2>1. S \in SUBSET Nat
    OBVIOUS
  <2> HIDE DEF S
  <2> QED
    BY <1>3, <1>4, <2>1, Induction
<1>6. LET n == Len(log)
      IN  none[n] = 0 /\ one[n] \in Nat /\ two[n] \in Nat /\ all[n] = one[n] + two[n]
  <2>1. Len(log) \in S
    BY <1>1, <1>5
  <2> QED
    BY <1>1, <2>1
<1>7. /\ Cardinality({}) = 0 /\ Cardinality(A) \in Nat /\ Cardinality(B) \in Nat
      /\ Cardinality(A \cup B) = Cardinality(A) + Cardinality(B)
  <2>1. IsFiniteSet(1..Len(log))
    BY <1>1, FS_Interval
  <2>2. A \in SUBSET (1..Len(log)) /\ B \in SUBSET (1..Len(log))
    BY <1>1
  <2>3. IsFiniteSet(A) /\ IsFiniteSet(B)
    BY <2>1, <2>2, FS_Subset
  <2>4. Cardinality({}) = 0 /\ Cardinality(A) \in Nat /\ Cardinality(B) \in Nat
    BY <2>3, FS_EmptySet, FS_CardinalityType
  <2>5. Cardinality(A \cup B) = Cardinality(A) + Cardinality(B) - Cardinality(A \cap B)
    BY <2>3, FS_Union
  <2>6. Cardinality(A \cap B) = 0
    BY <2>4
  <2> QED
    BY <2>4, <2>5, <2>6
<1> QED
  BY <1>6, <1>7 DEF SumsOf, NoSums, SumRow, Plus, none, one, two, all

(* The next watermark is there: event times of a batch have a greatest.    *)
LEMMA WatermarkFact ==
    ASSUME NEW log \in Seq(Event), NEW m \in Int, NEW a \in Nat, NEW b \in Nat, b <= Len(log)
    PROVE  LET S == {m} \cup {log[i].ts - Delay : i \in (a + 1)..b}
           IN  Max(S) \in S /\ \A x \in S : x <= Max(S)
<1> DEFINE T(n) == {m} \cup {log[i].ts - Delay : i \in (a + 1)..n}
           Greatest(n) == \E z \in T(n) : \A x \in T(n) : z >= x
           S == {n \in Nat : n <= Len(log) => Greatest(n)}
<1>1. /\ Len(log) \in Nat
      /\ \A i \in 1..Len(log) : log[i].ts - Delay \in Int
  <2>1. \A i \in 1..Len(log) : log[i] \in Event
    OBVIOUS
  <2> QED
    BY <2>1, VelocityAssumption DEF Event
<1>2. 0 \in S
  <2>1. T(0) = {m}
    OBVIOUS
  <2>2. Greatest(0)
    BY <2>1
  <2> QED
    BY <2>2
<1>3. ASSUME NEW n \in S
      PROVE  n + 1 \in S
  <2> SUFFICES ASSUME n + 1 <= Len(log)
               PROVE  Greatest(n + 1)
    OBVIOUS
  <2>1. n \in Nat /\ n <= Len(log) /\ n + 1 \in 1..Len(log)
    BY <1>1
  <2>2. PICK z \in T(n) : \A x \in T(n) : z >= x
    BY <2>1
  <2>3. PICK y \in Int : y = log[n + 1].ts - Delay
    BY <1>1, <2>1
  <2>4. \A x \in T(n + 1) : x \in T(n) \/ (n + 1 >= a + 1 /\ x = y)
    <3> TAKE x \in T(n + 1)
    <3>1. CASE x = m
      BY <3>1
    <3>2. CASE \E i \in (a + 1)..(n + 1) : x = log[i].ts - Delay
      <4>1. PICK i \in (a + 1)..(n + 1) : x = log[i].ts - Delay
        BY <3>2
      <4>2. i \in (a + 1)..n \/ i = n + 1
        BY <2>1
      <4> QED
        BY <2>3, <4>1, <4>2
    <3> QED
      BY <3>1, <3>2
  <2>5. T(n) \subseteq T(n + 1) /\ (n + 1 >= a + 1 => y \in T(n + 1))
    <3>1. \A i \in (a + 1)..n : i \in (a + 1)..(n + 1)
      BY <2>1
    <3>2. n + 1 >= a + 1 => n + 1 \in (a + 1)..(n + 1)
      BY <2>1
    <3> QED
      BY <2>3, <3>1, <3>2
  <2>6. T(n) \subseteq Int
    BY <1>1, <2>1
  <2> HIDE DEF T
  <2>7. CASE n + 1 >= a + 1 /\ y > z
    <3>1. \A x \in T(n + 1) : y >= x
      BY <2>2, <2>3, <2>4, <2>6, <2>7
    <3> QED
      BY <2>5, <2>7, <3>1
  <2>8. CASE ~ (n + 1 >= a + 1 /\ y > z)
    <3>1. \A x \in T(n + 1) : z >= x
      BY <2>2, <2>3, <2>4, <2>6, <2>8
    <3> QED
      BY <2>2, <2>5, <3>1
  <2> QED
    BY <2>7, <2>8
<1>4. S = Nat
  <2>1. S \in SUBSET Nat
    OBVIOUS
  <2> HIDE DEF S
  <2> QED
    BY <1>2, <1>3, <2>1, Induction
<1>5. Greatest(b)
  BY <1>4
<1>6. \A x \in T(b) : x \in Int
  BY <1>1
<1> HIDE DEF T
<1>7. Max(T(b)) \in T(b) /\ \A x \in T(b) : Max(T(b)) >= x
  BY <1>5 DEF Max
<1>8. Max(T(b)) \in T(b) /\ \A x \in T(b) : x <= Max(T(b))
  BY <1>6, <1>7
<1> QED
  BY <1>8 DEF T

(***************************************************************************)
(* A batch                                                                 *)
(***************************************************************************)

LEMMA TopicFact ==
    ASSUME StreamTypes
    PROVE  /\ topic \in Seq(Event) /\ Len(topic) \in Nat /\ DOMAIN topic = 1..Len(topic)
           /\ \A i \in 1..Len(topic) : topic[i].ts \in Nat
           /\ \A i \in 1..Len(topic) : Starts(topic[i].ts) \subseteq AllWindows
           /\ AllWindows \subseteq Int
<1>1. topic \in Seq(Event)
  BY VelocityAssumption DEF StreamTypes, Event
<1>2. Len(topic) \in Nat /\ DOMAIN topic = 1..Len(topic)
  BY <1>1
<1>3. \A i \in 1..Len(topic) : topic[i] \in Event
  BY <1>1
<1>4. \A i \in 1..Len(topic) : topic[i].ts \in Nat
  BY <1>3 DEF Event
<1>5. \A i \in 1..Len(topic) : Starts(topic[i].ts) \subseteq AllWindows
  BY <1>2 DEF AllWindows
<1>6. AllWindows \subseteq Int
  BY <1>2, <1>4, VelocityAssumption DEF AllWindows, Starts
<1> QED
  BY <1>1, <1>2, <1>4, <1>5, <1>6

(* What a batch adds to a window and what the window held are apart.       *)
LEMMA BatchFact ==
    ASSUME StreamTypes, NEW w \in AllWindows
    PROVE  /\ Counted(w) \in SUBSET DOMAIN topic /\ Taken(w) \in SUBSET DOMAIN topic
           /\ Counted(w) \cap Taken(w) = {}
           /\ w \in Changed <=> Taken(w) # {}
           /\ w \in Changed => ~ Late(w)
<1>1. Counted(w) \in SUBSET DOMAIN topic /\ Taken(w) \in SUBSET DOMAIN topic
  BY DEF Counted, Taken, Debits
<1>2. Counted(w) \cap Taken(w) = {}
  BY DEF Counted, Taken, Read, StreamTypes
<1> QED
  BY <1>1, <1>2 DEF Changed, Taken

(* What is emitted is the whole of the window as of the commit to come.    *)
LEMMA EmittedFact ==
    ASSUME StreamTypes, KeptIsWhole, NEW w \in Changed
    PROVE  /\ Emitted[w] = Sums(Counted(w) \cup Taken(w))
           /\ Emitted[w] \in SumRow /\ Sums(Counted(w)) \in SumRow
           /\ Sums(Counted(w)).spend <= Emitted[w].spend
           /\ Sums(Counted(w)).txns <= Emitted[w].txns
<1>1. w \in AllWindows
  BY DEF Changed
<1> DEFINE old == Sums(Counted(w))
           new == Sums(Taken(w))
<1>2. /\ old \in SumRow /\ new \in SumRow
      /\ Sums(Counted(w) \cup Taken(w)) = Plus(old, new)
  BY <1>1, TopicFact, BatchFact, SumsFact DEF Sums
<1>3. KeptSums(w) = old
  BY <1>1, BatchFact DEF KeptIsWhole
<1>4. Emitted[w] = Plus(old, new)
  BY <1>3 DEF Emitted
<1> HIDE DEF old, new
<1>5. /\ Plus(old, new) \in SumRow
      /\ old.spend <= Plus(old, new).spend /\ old.txns <= Plus(old, new).txns
  BY <1>2 DEF Plus, SumRow
<1> QED
  BY <1>2, <1>4, <1>5 DEF old

(***************************************************************************)
(* The actions                                                             *)
(***************************************************************************)

(* Between two commits nothing changes what a window is the whole of.      *)
LEMMA BetweenCommits ==
    ASSUME StreamInv, UNCHANGED <<topic, offset, watermark, behind, windows, dropped>>
    PROVE  /\ Watermarks' /\ DroppedAreLate' /\ KeptIsWhole'
           /\ AllWindows' = AllWindows
           /\ \A w : Sums(Counted(w))' = Sums(Counted(w))
<1>1. /\ topic' = topic /\ offset' = offset /\ watermark' = watermark /\ behind' = behind
      /\ windows' = windows /\ dropped' = dropped
  OBVIOUS
<1>2. AllWindows' = AllWindows /\ Debits' = Debits
  BY <1>1 DEF AllWindows, Debits
<1>3. \A w : Counted(w)' = Counted(w)
  BY <1>1, <1>2 DEF Counted
<1>4. \A w : Sums(Counted(w))' = Sums(Counted(w))
  BY <1>1, <1>3 DEF Sums
<1>5. \A w : KeptSums(w)' = KeptSums(w) /\ Late(w)' = Late(w)
  BY <1>1 DEF KeptSums, Late
<1>6. Watermarks'
  BY <1>1 DEF StreamInv, Watermarks, Passed
<1>7. DroppedAreLate'
  BY <1>1, <1>2 DEF StreamInv, DroppedAreLate
<1>8. KeptIsWhole'
  BY <1>2, <1>4, <1>5 DEF StreamInv, KeptIsWhole
<1> QED
  BY <1>2, <1>4, <1>6, <1>7, <1>8

LEMMA PlanKeepsStream ==
    ASSUME StreamInv, Plan
    PROVE  StreamInv'
<1>1. /\ pc = "idle" /\ pc' = "planned" /\ table' = table
      /\ UNCHANGED <<topic, offset, watermark, behind, windows, dropped>>
      /\ end' \in IF offset = Len(topic) THEN {offset} ELSE (offset + 1)..Len(topic)
  BY DEF Plan
<1>2. /\ Watermarks' /\ DroppedAreLate' /\ KeptIsWhole'
      /\ AllWindows' = AllWindows /\ \A w : Sums(Counted(w))' = Sums(Counted(w))
  BY <1>1, BetweenCommits
<1>3. StreamTypes'
  <2>1. end' \in 0..Len(topic) /\ offset <= end'
    BY <1>1, TopicFact DEF StreamInv, StreamTypes
  <2> QED
    BY <1>1, <1>2, <2>1 DEF StreamInv, StreamTypes
<1>4. TableIsWhole'
  <2>1. \A w \in AllWindows : StreamSide(w) = Sums(Counted(w))
    BY <1>1 DEF StreamInv, TableIsWhole
  <2>2. \A w : StreamSide(w)' = StreamSide(w)
    BY <1>1 DEF StreamSide
  <2> QED
    BY <1>1, <1>2, <2>1, <2>2 DEF TableIsWhole
<1>5. WindowNeverRestarts'
  BY <1>1 DEF StreamInv, WindowNeverRestarts
<1> QED
  BY <1>2, <1>3, <1>4, <1>5 DEF StreamInv

(* A row appended to rows that grow, and no smaller than the last of them. *)
LEMMA GrowFact ==
    ASSUME NEW rows \in Seq(SumRow), NEW x \in SumRow,
           \A i, j \in DOMAIN rows :
               i < j => rows[i].txns <= rows[j].txns /\ rows[i].spend <= rows[j].spend,
           rows # <<>> => Last(rows).txns <= x.txns /\ Last(rows).spend <= x.spend
    PROVE  LET more == Append(rows, x)
           IN  /\ more \in Seq(SumRow) /\ more # <<>> /\ Last(more) = x
               /\ \A i, j \in DOMAIN more :
                     i < j => more[i].txns <= more[j].txns /\ more[i].spend <= more[j].spend
<1> DEFINE more == Append(rows, x)
           n == Len(rows)
<1>1. /\ n \in Nat /\ DOMAIN rows = 1..n /\ \A i \in 1..n : rows[i] \in SumRow
      /\ more \in Seq(SumRow) /\ Len(more) = n + 1 /\ DOMAIN more = 1..(n + 1)
      /\ more[n + 1] = x /\ \A i \in 1..n : more[i] = rows[i]
  OBVIOUS
<1>2. \A i \in 1..n : /\ rows[i].txns \in Nat /\ rows[i].spend \in Nat
                      /\ x.txns \in Nat /\ x.spend \in Nat
  BY <1>1 DEF SumRow
<1> HIDE DEF more
<1>3. more # <<>> /\ Last(more) = x
  BY <1>1 DEF Last
<1>4. \A i \in 1..n : rows[i].txns <= x.txns /\ rows[i].spend <= x.spend
  <2> TAKE i \in 1..n
  <2>1. rows # <<>> /\ n \in 1..n /\ (i < n \/ i = n)
    <3>1. Len(<<>>) = 0 /\ n \in Nat
      BY <1>1
    <3>2. rows = <<>> => n = 0
      BY <3>1
    <3> HIDE DEF n
    <3>3. n # 0 /\ n \in 1..n /\ (i < n \/ i = n)
      BY <3>1
    <3> QED
      BY <3>2, <3>3
  <2>2. rows[n].txns <= x.txns /\ rows[n].spend <= x.spend
    BY <2>1 DEF Last
  <2>3. CASE i < n
    <3>1. rows[i].txns <= rows[n].txns /\ rows[i].spend <= rows[n].spend
      BY <1>1, <2>1, <2>3
    <3> QED
      BY <1>2, <2>1, <2>2, <3>1
  <2> QED
    BY <2>1, <2>2, <2>3
<1>5. ASSUME NEW i \in 1..(n + 1), NEW j \in 1..(n + 1), i < j
      PROVE  more[i].txns <= more[j].txns /\ more[i].spend <= more[j].spend
  <2>1. i \in 1..n /\ (j \in 1..n \/ j = n + 1)
    BY <1>1, <1>5
  <2>2. CASE j \in 1..n
    BY <1>1, <1>5, <2>1, <2>2
  <2>3. CASE j = n + 1
    BY <1>1, <1>4, <2>1, <2>3
  <2> QED
    BY <2>1, <2>2, <2>3
<1> QED
  BY <1>1, <1>3, <1>5 DEF more

LEMMA WriteKeepsStream ==
    ASSUME StreamInv, Write
    PROVE  StreamInv'
<1>1. /\ pc = "planned" /\ pc' = "appended" /\ end' = end
      /\ UNCHANGED <<topic, offset, watermark, behind, windows, dropped>>
      /\ table' = [w \in DOMAIN table \cup Changed |->
                      IF w \in Changed THEN Append(RowsWritten(w), Emitted[w]) ELSE table[w]]
  BY DEF Write
<1>2. /\ Watermarks' /\ DroppedAreLate' /\ KeptIsWhole'
      /\ AllWindows' = AllWindows /\ \A w : Sums(Counted(w))' = Sums(Counted(w))
  BY <1>1, BetweenCommits
<1>3. Changed' = Changed /\ Emitted' = Emitted
  BY <1>1, ReplayFact
<1>4. StreamTypes /\ KeptIsWhole /\ TableIsWhole /\ WindowNeverRestarts
  BY DEF StreamInv
<1>5. ASSUME NEW w \in Changed
      PROVE  /\ table'[w] \in Seq(SumRow) /\ table'[w] # <<>> /\ Last(table'[w]) = Emitted[w]
             /\ \A i, j \in DOMAIN table'[w] : i < j =>
                   /\ table'[w][i].txns <= table'[w][j].txns
                   /\ table'[w][i].spend <= table'[w][j].spend
  <2>1. w \in AllWindows
    BY DEF Changed
  <2>2. PICK rows : rows = RowsWritten(w)
    OBVIOUS
  <2>3. PICK x : x = Emitted[w]
    OBVIOUS
  <2>4. /\ x \in SumRow /\ Sums(Counted(w)) \in SumRow
        /\ Sums(Counted(w)).spend <= x.spend /\ Sums(Counted(w)).txns <= x.txns
    BY <1>4, <2>3, EmittedFact
  <2>5. /\ rows \in Seq(SumRow)
        /\ \A i, j \in DOMAIN rows :
              i < j => rows[i].txns <= rows[j].txns /\ rows[i].spend <= rows[j].spend
        /\ rows # <<>> => Last(rows).txns <= x.txns /\ Last(rows).spend <= x.spend
    <3>1. CASE w \in DOMAIN table
      <4>1. rows = table[w] /\ StreamSide(w) = Last(rows)
        BY <2>2, <3>1 DEF RowsWritten, StreamSide
      <4>2. StreamSide(w) = Sums(Counted(w)) \/ StreamSide(w) = x
        BY <1>4, <2>1, <2>3 DEF TableIsWhole
      <4>3. Last(rows).txns <= x.txns /\ Last(rows).spend <= x.spend
        <5>1. x.txns \in Nat /\ x.spend \in Nat
          BY <2>4 DEF SumRow
        <5> QED
          BY <2>4, <4>1, <4>2, <5>1
      <4> QED
        BY <1>4, <3>1, <4>1, <4>3 DEF StreamTypes, WindowNeverRestarts
    <3>2. CASE w \notin DOMAIN table
      <4>1. rows = <<>>
        BY <2>2, <3>2 DEF RowsWritten
      <4> QED
        BY <4>1
    <3> QED
      BY <3>1, <3>2
  <2>6. PICK more : more = Append(rows, x)
    OBVIOUS
  <2>7. /\ more \in Seq(SumRow) /\ more # <<>> /\ Last(more) = x
        /\ \A i, j \in DOMAIN more :
              i < j => more[i].txns <= more[j].txns /\ more[i].spend <= more[j].spend
    BY <2>4, <2>5, <2>6, GrowFact
  <2>8. table'[w] = more
    BY <1>1, <2>2, <2>3, <2>6
  <2> QED
    BY <2>3, <2>7, <2>8
<1>6. ASSUME NEW w \in DOMAIN table', w \notin Changed
      PROVE  w \in DOMAIN table /\ table'[w] = table[w]
  BY <1>1, <1>6
<1>7. DOMAIN table' = DOMAIN table \cup Changed
  BY <1>1
<1>8. StreamTypes'
  <2>1. DOMAIN table' \subseteq AllWindows
    BY <1>4, <1>7 DEF StreamTypes, Changed
  <2>2. \A w \in DOMAIN table' : table'[w] \in Seq(SumRow) /\ table'[w] # <<>>
    <3> TAKE w \in DOMAIN table'
    <3>1. CASE w \in Changed
      BY <1>5, <3>1
    <3>2. CASE w \notin Changed
      BY <1>4, <1>6, <3>2 DEF StreamTypes
    <3> QED
      BY <3>1, <3>2
  <2> QED
    BY <1>1, <1>2, <1>4, <2>1, <2>2 DEF StreamTypes
<1>9. TableIsWhole'
  <2>1. ASSUME NEW w \in Changed
        PROVE  StreamSide(w)' = Emitted[w]
    BY <1>5, <1>7 DEF StreamSide
  <2>2. ASSUME NEW w \in AllWindows, w \notin Changed
        PROVE  StreamSide(w)' = Sums(Counted(w))
    <3>1. StreamSide(w) = Sums(Counted(w))
      BY <1>4, <2>2 DEF TableIsWhole
    <3>2. StreamSide(w)' = StreamSide(w)
      BY <1>6, <1>7, <2>2 DEF StreamSide
    <3> QED
      BY <3>1, <3>2
  <2> QED
    BY <1>1, <1>2, <1>3, <2>1, <2>2 DEF TableIsWhole
<1>10. WindowNeverRestarts'
  <2> SUFFICES ASSUME NEW w \in DOMAIN table'
               PROVE  \A i, j \in DOMAIN table'[w] : i < j =>
                         /\ table'[w][i].txns <= table'[w][j].txns
                         /\ table'[w][i].spend <= table'[w][j].spend
    BY DEF WindowNeverRestarts
  <2>1. CASE w \in Changed
    BY <1>5, <2>1
  <2>2. CASE w \notin Changed
    BY <1>4, <1>6, <2>2 DEF WindowNeverRestarts
  <2> QED
    BY <2>1, <2>2
<1> QED
  BY <1>2, <1>8, <1>9, <1>10 DEF StreamInv

(* The signal, a crash and a step of nobody write no row.                  *)
LEMMA OthersKeepStream ==
    ASSUME StreamInv, Announce \/ Crash \/ UNCHANGED vars
    PROVE  StreamInv'
<1>1. /\ UNCHANGED <<topic, offset, end, watermark, behind, windows, table, dropped>>
      /\ pc' \in {"idle", "planned", "appended", "signalled"}
      /\ pc = "idle" <=> pc' = "idle"
      /\ pc' \in {"appended", "signalled"} => pc \in {"appended", "signalled"}
  BY DEF Announce, Crash, vars, StreamInv, StreamTypes
<1>2. /\ Watermarks' /\ DroppedAreLate' /\ KeptIsWhole'
      /\ AllWindows' = AllWindows /\ \A w : Sums(Counted(w))' = Sums(Counted(w))
  BY <1>1, BetweenCommits
<1>3. Changed' = Changed /\ Emitted' = Emitted
  BY <1>1, ReplayFact
<1>4. StreamTypes'
  BY <1>1, <1>2 DEF StreamInv, StreamTypes
<1>5. TableIsWhole'
  <2>1. \A w : StreamSide(w)' = StreamSide(w)
    BY <1>1 DEF StreamSide
  <2> QED
    BY <1>1, <1>2, <1>3, <2>1 DEF StreamInv, TableIsWhole
<1>6. WindowNeverRestarts'
  BY <1>1 DEF StreamInv, WindowNeverRestarts
<1> QED
  BY <1>2, <1>4, <1>5, <1>6 DEF StreamInv

(* A commit makes of the batch what is counted or dropped.                 *)
LEMMA CommitCounts ==
    ASSUME StreamInv, Commit, NEW w \in AllWindows
    PROVE  Counted(w)' = Counted(w) \cup Taken(w)
<1>1. /\ topic' = topic /\ offset' = end
      /\ dropped' = dropped \cup {late \in AllWindows \X (Read \cap Debits) :
                                     late[1] \in Starts(topic[late[2]].ts) /\ Late(late[1])}
  BY DEF Commit
<1>2. offset <= end /\ offset \in Nat /\ end \in Nat /\ Debits' = Debits
      /\ \A i \in Debits : i \in Nat
  BY <1>1, TopicFact DEF Commit, StreamInv, StreamTypes, Debits
<1>3. ASSUME NEW i \in Debits, w \in Starts(topic[i].ts)
      PROVE  /\ <<w, i>> \in dropped => i <= offset
             /\ <<w, i>> \in dropped' <=> <<w, i>> \in dropped \/ (i \in Read /\ Late(w))
  <2>1. <<w, i>> \in dropped => i <= offset
    BY <1>2 DEF StreamInv, DroppedAreLate
  <2>2. <<w, i>> \in {late \in AllWindows \X (Read \cap Debits) :
                          late[1] \in Starts(topic[late[2]].ts) /\ Late(late[1])}
        <=> i \in Read /\ Late(w)
    BY <1>3
  <2> QED
    BY <1>1, <2>1, <2>2
<1>4. \A i \in Debits : i \in Read <=> i > offset /\ i <= end
  BY <1>2 DEF Read
<1>5. \A i \in Debits : i > offset <=> ~ (i <= offset)
  BY <1>2
<1>6. \A i \in Debits : i <= offset => i <= end
  BY <1>2
<1> QED
  BY <1>1, <1>2, <1>3, <1>4, <1>5, <1>6 DEF Counted, Taken

LEMMA CommitWatermarks ==
    ASSUME StreamInv, Commit
    PROVE  Watermarks' /\ DroppedAreLate'
<1>1. /\ topic' = topic /\ offset' = end /\ behind' = watermark
      /\ watermark' = Max({watermark} \cup {topic[i].ts - Delay : i \in Read})
      /\ dropped' = dropped \cup {late \in AllWindows \X (Read \cap Debits) :
                                     late[1] \in Starts(topic[late[2]].ts) /\ Late(late[1])}
  BY DEF Commit
<1>2. /\ offset <= end /\ offset \in Nat /\ end \in Nat /\ end <= Len(topic)
      /\ AllWindows' = AllWindows
  BY <1>1, TopicFact DEF Commit, StreamInv, StreamTypes, AllWindows
<1>3. /\ topic \in Seq(Event) /\ \A i \in 1..end : topic[i].ts \in Nat
      /\ Delay \in Nat /\ Size \in Nat \ {0}
  BY <1>2, TopicFact, VelocityAssumption DEF StreamInv
<1>4. \A m : Passed(m) => m \in Int
  BY <1>1, <1>2, <1>3 DEF Passed
<1>5. Passed(watermark) /\ watermark \in Int
  BY <1>4 DEF StreamInv, Watermarks
<1> DEFINE S == {watermark} \cup {topic[i].ts - Delay : i \in (offset + 1)..end}
<1>6. watermark' \in S /\ watermark <= watermark'
  <2>1. PICK m \in Int : m = watermark
    BY <1>5
  <2>2. PICK log \in Seq(Event) : log = topic
    BY <1>3
  <2>3. PICK a \in Nat, b \in Nat : a = offset /\ b = end
    BY <1>2
  <2>4. LET T == {m} \cup {log[i].ts - Delay : i \in (a + 1)..b}
        IN  Max(T) \in T /\ \A x \in T : x <= Max(T)
    BY <1>2, <2>2, <2>3, WatermarkFact
  <2>5. Max(S) \in S /\ \A x \in S : x <= Max(S)
    BY <2>1, <2>2, <2>3, <2>4
  <2>6. watermark' = Max(S) /\ watermark \in S
    BY <1>1 DEF Read
  <2> HIDE DEF S
  <2> QED
    BY <2>5, <2>6
<1>7. \A x \in S : x = watermark \/ \E i \in 1..end : x = topic[i].ts - Delay
  BY <1>2
<1> HIDE DEF S
<1>8. behind' = watermark /\ behind' <= watermark'
  BY <1>1, <1>6
<1>9. Passed(behind)' /\ Passed(watermark)'
  <2>1. \A x : Passed(x) => (x = 0 \/ \E j \in 1..end : x = topic[j].ts - Delay)
    BY <1>2 DEF Passed
  <2>2. watermark = 0 \/ \E j \in 1..end : watermark = topic[j].ts - Delay
    BY <1>5, <2>1
  <2>3. watermark' = 0 \/ \E j \in 1..end : watermark' = topic[j].ts - Delay
    BY <1>6, <1>7, <2>2
  <2> QED
    BY <1>1, <2>2, <2>3 DEF Passed
<1>10. ASSUME NEW d \in dropped'
       PROVE  /\ d \in AllWindows \X (1..end)
              /\ \E j \in 1..(d[2] - 1) : topic[d[2]].ts < topic[j].ts - Delay
  <2>1. CASE d \in dropped
    BY <1>2, <2>1 DEF StreamInv, DroppedAreLate
  <2>2. CASE d \notin dropped
    <3>1. /\ d \in AllWindows \X (Read \cap Debits)
          /\ d[1] \in Starts(topic[d[2]].ts) /\ Late(d[1])
      BY <1>1, <2>2
    <3>2. PICK w \in AllWindows, i \in Read : d = <<w, i>>
      BY <3>1
    <3>3. /\ i \in 1..end /\ offset < i /\ w \in Starts(topic[i].ts) /\ w + Size <= behind
      BY <1>2, <3>1, <3>2 DEF Read, Late, Ends
    <3>4. topic[i].ts \in Nat /\ w \in Int /\ topic[i].ts < w + Size
      BY <1>3, <3>3 DEF Starts
    <3>5. behind \in Int /\ (behind = 0 \/ \E j \in 1..offset : behind = topic[j].ts - Delay)
      BY <1>4 DEF StreamInv, Watermarks, Passed
    <3>6. topic[i].ts < behind /\ behind # 0
      BY <1>3, <3>3, <3>4, <3>5
    <3>7. PICK j \in 1..offset : behind = topic[j].ts - Delay
      BY <3>5, <3>6
    <3>8. j \in 1..(i - 1)
      BY <1>2, <3>3
    <3>9. d \in AllWindows \X (1..end)
      BY <3>2, <3>3
    <3>10. d[2] = i
      BY <3>2
    <3> QED
      BY <3>6, <3>7, <3>8, <3>9, <3>10
  <2> QED
    BY <2>1, <2>2
<1>11. DroppedAreLate'
  BY <1>1, <1>2, <1>10 DEF DroppedAreLate
<1> QED
  BY <1>8, <1>9, <1>11 DEF Watermarks

LEMMA CommitKeepsStream ==
    ASSUME StreamInv, Commit
    PROVE  StreamInv'
<1>1. /\ pc = "signalled" /\ pc' = "idle" /\ topic' = topic /\ offset' = end /\ end' = end
      /\ table' = table /\ behind' = watermark
      /\ windows' = [w \in Kept |-> IF w \in Changed THEN Emitted[w] ELSE windows[w]]
  BY DEF Commit
<1>2. StreamTypes /\ Watermarks /\ KeptIsWhole /\ TableIsWhole /\ WindowNeverRestarts
  BY DEF StreamInv
<1>3. /\ AllWindows' = AllWindows /\ AllWindows \subseteq Int
      /\ watermark \in Int /\ behind \in Int /\ behind <= watermark /\ Size \in Nat
  <2>1. /\ topic \in Seq(Event) /\ offset \in Nat /\ offset <= Len(topic) /\ Len(topic) \in Nat
        /\ \A i \in 1..Len(topic) : topic[i].ts \in Nat
    BY <1>2, TopicFact DEF StreamTypes
  <2>2. \A j \in 1..offset : topic[j].ts - Delay \in Int
    BY <2>1, VelocityAssumption
  <2> QED
    BY <1>1, <1>2, <2>2, TopicFact, VelocityAssumption DEF AllWindows, Watermarks, Passed
<1>4. ASSUME NEW w \in AllWindows
      PROVE  /\ w \in Changed => Sums(Counted(w))' = Emitted[w]
             /\ w \notin Changed => Sums(Counted(w))' = Sums(Counted(w))
  <2>1. Sums(Counted(w))' = Sums(Counted(w) \cup Taken(w))
    BY <1>1, CommitCounts DEF Sums
  <2>2. w \in Changed => Emitted[w] = Sums(Counted(w) \cup Taken(w))
    BY <1>2, EmittedFact
  <2>3. w \notin Changed => Taken(w) = {}
    BY <1>2, BatchFact
  <2>4. w \notin Changed => Counted(w) \cup Taken(w) = Counted(w)
    BY <2>3
  <2> QED
    BY <2>1, <2>2, <2>4
<1>5. KeptIsWhole'
  <2> SUFFICES ASSUME NEW w \in AllWindows, ~ Late(w)'
               PROVE  KeptSums(w)' = Sums(Counted(w))'
    BY <1>3 DEF KeptIsWhole
  <2>1. w \in Int /\ Ends(w) > watermark /\ ~ Late(w)
    BY <1>1, <1>3 DEF Late, Ends
  <2>2. CASE w \in Changed
    <3>1. w \in Kept
      BY <2>1, <2>2 DEF Kept
    <3>2. w \in DOMAIN windows' /\ windows'[w] = Emitted[w]
      BY <1>1, <2>2, <3>1
    <3> QED
      BY <1>4, <2>2, <3>2 DEF KeptSums
  <2>3. CASE w \notin Changed
    <3>1. KeptSums(w)' = KeptSums(w)
      <4>1. w \in Kept <=> w \in DOMAIN windows
        BY <2>1, <2>3 DEF Kept
      <4>2. DOMAIN windows' = Kept
        BY <1>1
      <4>3. w \in Kept => windows'[w] = windows[w]
        BY <1>1, <2>3
      <4> QED
        BY <4>1, <4>2, <4>3 DEF KeptSums
    <3> QED
      BY <1>2, <1>4, <2>1, <2>3, <3>1 DEF KeptIsWhole
  <2> QED
    BY <2>2, <2>3
<1>6. TableIsWhole'
  <2> SUFFICES ASSUME NEW w \in AllWindows
               PROVE  StreamSide(w)' = Sums(Counted(w))'
    BY <1>1, <1>3 DEF TableIsWhole
  <2>1. StreamSide(w)' = StreamSide(w)
    BY <1>1 DEF StreamSide
  <2>2. CASE w \in Changed
    BY <1>1, <1>2, <1>4, <2>1, <2>2 DEF TableIsWhole
  <2>3. CASE w \notin Changed
    BY <1>2, <1>4, <2>1, <2>3 DEF TableIsWhole
  <2> QED
    BY <2>2, <2>3
<1>7. StreamTypes'
  <2>1. DOMAIN windows' \subseteq AllWindows
    BY <1>1, <1>2 DEF Kept, Changed, StreamTypes
  <2> QED
    BY <1>1, <1>2, <1>3, <2>1 DEF StreamTypes
<1>8. WindowNeverRestarts'
  BY <1>1, <1>2 DEF WindowNeverRestarts
<1> QED
  BY <1>5, <1>6, <1>7, <1>8, CommitWatermarks DEF StreamInv

LEMMA InitStream ==
    ASSUME Init
    PROVE  StreamInv
<1>1. /\ topic \in Streams /\ offset = 0 /\ end = 0 /\ watermark = 0 /\ behind = 0
      /\ pc = "idle" /\ windows = <<>> /\ table = <<>> /\ dropped = {}
  BY DEF Init
<1>2. DOMAIN windows = {} /\ DOMAIN table = {}
  BY <1>1
<1>3. StreamTypes
  <2>1. Len(topic) \in Nat
    BY <1>1, VelocityAssumption
  <2> QED
    BY <1>1, <1>2, <2>1 DEF StreamTypes
<1>4. Watermarks /\ DroppedAreLate /\ WindowNeverRestarts
  BY <1>1, <1>2 DEF Watermarks, Passed, DroppedAreLate, WindowNeverRestarts
<1>5. ASSUME NEW w \in AllWindows
      PROVE  Sums(Counted(w)) = NoSums
  <2>1. Counted(w) = {}
    BY <1>1, <1>3, TopicFact DEF Counted, Debits
  <2>2. topic \in Seq(Event)
    BY <1>3, TopicFact
  <2>3. SumsOf(topic, {}) = NoSums
    BY <2>2, SumsFact
  <2> QED
    BY <2>1, <2>3 DEF Sums
<1>6. KeptIsWhole /\ TableIsWhole
  BY <1>1, <1>2, <1>5 DEF KeptIsWhole, TableIsWhole, KeptSums, StreamSide
<1> QED
  BY <1>3, <1>4, <1>6 DEF StreamInv

(* What the stream has left when it has drained is what the recomputation  *)
(* finds in the topic: the batch is the whole of every window but for rows *)
(* dropped, and none is dropped of a stream in order.                      *)
LEMMA DrainedFact ==
    ASSUME StreamInv
    PROVE  StreamAgreesWithBatch
<1>1. /\ Joined \subseteq AllWindows /\ Settled \subseteq Joined
      /\ Len(topic) \in Nat /\ DOMAIN topic = 1..Len(topic)
      /\ \A i \in 1..Len(topic) : topic[i].ts \in Nat
  BY TopicFact DEF StreamInv, StreamTypes, Joined, Settled, AllWindows, Debits
<1>2. ASSUME Drained, NEW w \in Settled
      PROVE  StreamSide(w) =
                Sums({i \in Debits : w \in Starts(topic[i].ts) /\ <<w, i>> \notin dropped})
  <2>1. StreamSide(w) = Sums(Counted(w))
    BY <1>1, <1>2 DEF Drained, StreamInv, TableIsWhole
  <2>2. \A i \in Debits : i <= offset
    BY <1>1, <1>2 DEF Drained, Debits
  <2>3. Counted(w) = {i \in Debits : w \in Starts(topic[i].ts) /\ <<w, i>> \notin dropped}
    BY <2>2 DEF Counted
  <2> QED
    BY <2>1, <2>3
<1>3. ASSUME Drained, Settled # {},
             \A i, j \in DOMAIN topic : i < j => topic[j].ts > topic[i].ts - Delay
      PROVE  ParityPasses
  <2>1. dropped = {}
    <3> SUFFICES ASSUME NEW d \in dropped
                 PROVE  FALSE
      OBVIOUS
    <3>1. /\ d \in AllWindows \X (1..offset) /\ offset \in 0..Len(topic)
          /\ \E j \in 1..(d[2] - 1) : topic[d[2]].ts < topic[j].ts - Delay
      BY DEF StreamInv, DroppedAreLate, StreamTypes
    <3>2. PICK i \in 1..offset : i = d[2]
      BY <3>1
    <3>3. PICK j \in 1..(i - 1) : topic[i].ts < topic[j].ts - Delay
      BY <3>1, <3>2
    <3>4. i \in 1..Len(topic) /\ j \in 1..Len(topic) /\ j < i
      BY <1>1, <3>1, <3>2, <3>3
    <3>5. topic[i].ts > topic[j].ts - Delay
      BY <1>1, <1>3, <3>4
    <3> QED
      BY <1>1, <3>3, <3>4, <3>5, VelocityAssumption
  <2>2. \A w \in Settled : StreamSide(w) = BatchSide(w)
    <3> TAKE w \in Settled
    <3>1. {i \in Debits : w \in Starts(topic[i].ts) /\ <<w, i>> \notin dropped} =
             {i \in Debits : w \in Starts(topic[i].ts)}
      BY <2>1
    <3> QED
      BY <1>2, <1>3, <3>1 DEF BatchSide
  <2> QED
    BY <1>3, <2>2 DEF ParityPasses, Mismatched
<1> QED
  BY <1>2, <1>3
     DEF StreamAgreesWithBatch, SettledMatchesUnlessLate, OrderlyStreamPasses, StreamInv

(* velocity_recompute.py over velocity.py: however the stream was cut into *)
(* batches, and however often one of them was run twice, a settled window  *)
(* of a drained query is that of the recomputation but for rows dropped as *)
(* late; a stream within the watermark delay loses none; and the rows of a *)
(* window only grow, so that the last of them is the whole.                *)
THEOREM StreamAgrees == Spec => []StreamAgreesWithBatch
<1>1. Init => StreamInv
  BY InitStream
<1>2. StreamInv /\ [Next]_vars => StreamInv'
  BY PlanKeepsStream, WriteKeepsStream, CommitKeepsStream, OthersKeepStream DEF Next
<1>3. StreamInv => StreamAgreesWithBatch
  BY DrainedFact
<1> QED
  BY <1>1, <1>2, <1>3, PTL DEF Spec
=============================================================================
