---------------------------- MODULE BatchProofs ----------------------------
(***************************************************************************)
(* Lemmas about the operators of SequencerCore and BatchCore, for every    *)
(* value of their constants: what the proofs about the components that run *)
(* them rest on.                                                           *)
(***************************************************************************)
EXTENDS BatchCore, FiniteSetTheorems, TLAPS

(* The least element of a non-empty set of naturals exists and is Min.     *)
LEMMA MinFact ==
    ASSUME NEW S \in SUBSET Nat, S # {}
    PROVE  Min(S) \in S /\ \A x \in S : Min(S) <= x
<1> DEFINE R == OpToRel(<, Nat)
<1>1. IsWellFoundedOn(R, Nat)
  BY NatLessThanWellFounded
<1>a. \A x, y \in Nat : y < x => <<y, x>> \in R
  BY DEF OpToRel
<1>b. PICK x \in S : \A y \in S : ~ (<<y, x>> \in R)
  <2> HIDE DEF R
  <2> QED
    BY <1>1, WFMin
<1>2. \A y \in S : ~ (y < x)
  BY <1>a, <1>b
<1>3. x \in Nat /\ \A y \in S : y \in Nat
  OBVIOUS
<1>4. \E z \in S : \A y \in S : z =< y
  BY <1>2, <1>3
<1> QED
  BY <1>4 DEF Min

(* Max of a pair of integers is the larger one. *)
LEMMA MaxFact ==
    ASSUME NEW i \in Int, NEW j \in Int
    PROVE  Max({i, j}) = IF i >= j THEN i ELSE j
<1>1. \E z \in {i, j} : \A y \in {i, j} : z >= y
  OBVIOUS
<1>2. Max({i, j}) \in {i, j} /\ \A y \in {i, j} : Max({i, j}) >= y
  BY <1>1 DEF Max
<1> QED
  BY <1>2

(* A bound by Max survives a later watermark. *)
LEMMA MaxGrows ==
    ASSUME NEW e \in Int, NEW w \in Int, NEW v \in Int, w <= v,
           NEW n \in Int, n <= Max({e, w + 1})
    PROVE  n <= Max({e, v + 1})
<1>1. Max({e, w + 1}) = IF e >= w + 1 THEN e ELSE w + 1
  BY MaxFact
<1>2. Max({e, v + 1}) = IF e >= v + 1 THEN e ELSE v + 1
  BY MaxFact
<1>3. CASE e >= w + 1
  BY <1>1, <1>2, <1>3
<1>4. CASE ~ (e >= w + 1)
  BY <1>1, <1>2, <1>4
<1> QED
  BY <1>3, <1>4

(* The drain loop ends, at the first seq that is not in the buffer. *)
LEMMA DrainFact ==
    ASSUME NEW last \in 0..MaxSeq, NEW buf \in SUBSET Seqs
    PROVE  /\ DrainEnd(last, buf) \in last..MaxSeq
           /\ (last + 1)..DrainEnd(last, buf) \subseteq buf
           /\ DrainEnd(last, buf) + 1 \notin buf
<1> DEFINE Stops == {n \in last..MaxSeq : n + 1 \notin buf}
<1>1. MaxSeq \in Nat
  BY BoundsAssumption
<1>2. MaxSeq \in Stops
  BY <1>1 DEF Seqs
<1>3. Stops \in SUBSET Nat /\ Stops # {}
  BY <1>1, <1>2
<1>4. Min(Stops) \in Stops /\ \A x \in Stops : Min(Stops) <= x
  <2> HIDE DEF Stops
  <2> QED
    BY <1>3, MinFact
<1>5. (last + 1)..Min(Stops) \subseteq buf
  <2> SUFFICES ASSUME NEW s \in (last + 1)..Min(Stops)
               PROVE  s \in buf
    OBVIOUS
  <2>1. Min(Stops) \in last..MaxSeq
    BY <1>4
  <2>2. s - 1 \in last..MaxSeq /\ ~ (Min(Stops) <= s - 1) /\ (s - 1) + 1 = s
    BY <1>1, <2>1
  <2>3. s - 1 \notin Stops
    BY <1>4, <2>2
  <2> QED
    BY <2>2, <2>3
<1>6. \E n \in last..MaxSeq : (last + 1)..n \subseteq buf /\ n + 1 \notin buf
  BY <1>4, <1>5
<1> QED
  BY <1>6 DEF DrainEnd

(* Moving to a position and draining: what changes, field by field. *)
LEMMA MovedFact ==
    ASSUME NEW a \in Account, NEW l \in Nat, a.last <= l, l <= MaxSeq,
           NEW d \in SUBSET Seqs
    PROVE  LET b   == MovedTo(a, l, d)
               run == (l + 1)..b.last
           IN  /\ b \in Account
               /\ l <= b.last /\ b.last <= MaxSeq
               /\ run \subseteq a.buf
               /\ b.last + 1 \notin a.buf
               /\ b.buf = a.buf \ run
               /\ b.bal = a.bal + Total[d] + Total[run]
               /\ b.seen = a.seen
<1> DEFINE n == DrainEnd(l, a.buf)
           run == (l + 1)..n
           b == MovedTo(a, l, d)
<1>1. l \in 0..MaxSeq /\ a.buf \in SUBSET Seqs /\ a.bal \in Int /\ a.last \in Nat /\ a.seen \in Nat
  BY BoundsAssumption DEF Account
<1>2. n \in l..MaxSeq /\ run \subseteq a.buf /\ n + 1 \notin a.buf
  BY <1>1, DrainFact
<1>3. n \in Nat /\ l <= n /\ n <= MaxSeq
  BY <1>1, <1>2, BoundsAssumption
<1>4. b = [a EXCEPT !.last = n, !.bal = @ + Total[d] + Total[run], !.buf = @ \ run]
  BY DEF MovedTo
<1>5. a = [last |-> a.last, bal |-> a.bal, buf |-> a.buf, seen |-> a.seen]
  BY DEF Account
<1>6. b = [last |-> n, bal |-> a.bal + Total[d] + Total[run], buf |-> a.buf \ run,
           seen |-> a.seen]
  <2> HIDE DEF n, run, b
  <2> QED
    BY <1>4, <1>5, Zenon DEF Account
<1>7. Total[d] \in Int /\ Total[run] \in Int
  <2>1. run \in SUBSET Seqs
    BY <1>1, <1>2
  <2> QED
    BY <2>1, TotalAssumption
<1> HIDE DEF n, b
<1>8. b.last = n /\ b \in Account
  BY <1>1, <1>3, <1>6, <1>7 DEF Account
<1> QED
  BY <1>2, <1>3, <1>6, <1>8 DEF b

(* Events applied one after another add up. *)
LEMMA TotalAdds ==
    ASSUME NEW S \in SUBSET Seqs, NEW T \in SUBSET Seqs, S \cap T = {}
    PROVE  /\ Total[S] \in Int
           /\ Total[S \cup T] = Total[S] + Total[T]
BY TotalAssumption

SeenAfter(a, s) == IF EventTs[s] > a.seen THEN EventTs[s] ELSE a.seen

(* The event time an account was last seen at only grows. *)
LEMMA TouchedFact ==
    ASSUME NEW a \in Account, NEW s \in Seqs
    PROVE  LET b == Touched(a, s)
           IN  /\ b \in Account /\ b.last = a.last /\ b.bal = a.bal /\ b.buf = a.buf
               /\ b.seen = SeenAfter(a, s) /\ b.seen > 0
<1>1. a.last \in Nat /\ a.bal \in Int /\ a.buf \in SUBSET Seqs /\ a.seen \in Nat
  BY DEF Account
<1>2. EventTs[s] \in Nat /\ EventTs[s] > 0
  BY EventTsAssumption
<1> QED
  BY <1>1, <1>2 DEF Touched, SeenAfter, Account

(* Any set of events is finite. *)
LEMMA SeqsFinite ==
    ASSUME NEW S \in SUBSET Seqs
    PROVE  IsFiniteSet(S) /\ Cardinality(S) \in Nat
<1>1. IsFiniteSet(Seqs)
  BY FS_Interval, BoundsAssumption DEF Seqs
<1>2. IsFiniteSet(S)
  BY <1>1, FS_Subset
<1> QED
  BY <1>2, FS_CardinalityType
(* The alarm is set ahead of the watermark, and not before what it waits   *)
(* for: the earliest buffered event, or the end of the TTL.                *)
LEMMA AlarmFact ==
    ASSUME NEW a \in Account, NEW w \in Nat, NEW defer \in Nat
    PROVE  /\ Alarm(a, w, defer) \in Nat \cup {NoAlarm}
           /\ Alarm(a, w, defer) # NoAlarm => Alarm(a, w, defer) > w
           /\ a.buf # {} => /\ EarliestTs(a.buf) \in Nat
                            /\ IF defer > 0 THEN Alarm(a, w, defer) = w + defer
                                            ELSE Alarm(a, w, defer) >= EarliestTs(a.buf)
           /\ a.buf = {} => IF StateTtl = 0 THEN Alarm(a, w, defer) = NoAlarm
                                            ELSE Alarm(a, w, defer) >= a.seen + StateTtl
<1>1. a.buf \in SUBSET Seqs /\ a.seen \in Nat /\ StateTtl \in Nat /\ EventTs \in [Seqs -> Nat \ {0}]
  BY BoundsAssumption, EventTsAssumption DEF Account
<1>2. CASE a.buf = {} /\ StateTtl = 0
  BY <1>2 DEF Alarm
<1>3. CASE a.buf = {} /\ StateTtl # 0
  <2>1. Alarm(a, w, defer) = Max({a.seen + StateTtl, w + 1})
    BY <1>3 DEF Alarm
  <2>2. Max({a.seen + StateTtl, w + 1}) =
           IF a.seen + StateTtl >= w + 1 THEN a.seen + StateTtl ELSE w + 1
    BY <1>1, MaxFact
  <2> QED
    BY <1>1, <1>3, <2>1, <2>2
<1>4. CASE a.buf # {}
  <2> DEFINE e == EarliestTs(a.buf)
  <2>1. e \in Nat
    <3>1. {EventTs[s] : s \in a.buf} \in SUBSET Nat /\ {EventTs[s] : s \in a.buf} # {}
      BY <1>1, <1>4
    <3>2. Min({EventTs[s] : s \in a.buf}) \in {EventTs[s] : s \in a.buf}
      BY <3>1, MinFact
    <3> QED
      BY <3>1, <3>2 DEF EarliestTs
  <2>2. Alarm(a, w, defer) = IF defer > 0 THEN w + defer ELSE Max({e, w + 1})
    BY <1>4 DEF Alarm
  <2> HIDE DEF e
  <2>3. Max({e, w + 1}) = IF e >= w + 1 THEN e ELSE w + 1
    BY <2>1, MaxFact
  <2>4. /\ Alarm(a, w, defer) \in Nat /\ Alarm(a, w, defer) > w
        /\ IF defer > 0 THEN Alarm(a, w, defer) = w + defer ELSE Alarm(a, w, defer) >= e
    BY <2>1, <2>2, <2>3
  <2> QED
    BY <1>4, <2>1, <2>4 DEF e
<1> QED
  BY <1>2, <1>3, <1>4

(* Induction over the naturals, for a property given as the set of numbers *)
(* that have it: a least number without it would follow one with it.       *)
LEMMA Induction ==
    ASSUME NEW S \in SUBSET Nat, 0 \in S, \A n \in S : n + 1 \in S
    PROVE  S = Nat
<1> SUFFICES ASSUME Nat \ S # {}
             PROVE  FALSE
  OBVIOUS
<1> DEFINE m == Min(Nat \ S)
<1>1. m \in Nat \ S /\ \A x \in Nat \ S : m <= x
  <2>1. Nat \ S \in SUBSET Nat
    OBVIOUS
  <2> QED
    BY <2>1, MinFact
<1> HIDE DEF m
<1>2. m - 1 \in Nat /\ ~ (m <= m - 1)
  BY <1>1
<1>3. m - 1 \in S /\ (m - 1) + 1 = m
  BY <1>1, <1>2
<1> QED
  BY <1>1, <1>3

(* A non-empty bounded set of naturals has a greatest element, and it is   *)
(* Max.                                                                    *)
LEMMA MaxOfBounded ==
    ASSUME NEW S \in SUBSET Nat, S # {}, NEW b \in Nat, \A x \in S : x <= b
    PROVE  Max(S) \in S /\ \A x \in S : x <= Max(S)
<1> DEFINE T == {n \in Nat : \A x \in S : x <= n}
           m == Min(T)
<1>1. T \in SUBSET Nat /\ T # {}
  OBVIOUS
<1>2. m \in T /\ \A n \in T : m <= n
  <2> HIDE DEF T
  <2> QED
    BY <1>1, MinFact
<1> HIDE DEF m
<1>3. m \in S
  <2> SUFFICES ASSUME m \notin S
               PROVE  FALSE
    OBVIOUS
  <2>1. m \in Nat /\ \A x \in S : x \in Nat /\ x <= m - 1
    <3>1. m \in Nat /\ \A x \in S : x \in Nat /\ x <= m /\ x # m
      BY <1>2
    <3> HIDE DEF T
    <3> QED
      BY <3>1
  <2>2. m - 1 \in Nat
    <3>1. PICK x \in S : TRUE
      OBVIOUS
    <3> QED
      BY <2>1, <3>1
  <2>3. m - 1 \in T
    BY <2>1, <2>2
  <2> QED
    BY <1>2, <2>1, <2>3
<1>4. \E z \in S : \A y \in S : z >= y
  BY <1>2, <1>3
<1>5. Max(S) \in S /\ \A y \in S : Max(S) >= y
  BY <1>4 DEF Max
<1> QED
  BY <1>5

(* The same of integers, when one of them is a natural number.             *)
LEMMA MaxOfInts ==
    ASSUME NEW S \in SUBSET Int, NEW w \in S, w \in Nat, NEW b \in Nat, \A x \in S : x <= b
    PROVE  Max(S) \in S /\ Max(S) \in Nat /\ \A x \in S : x <= Max(S)
<1> DEFINE T == S \cap Nat
           m == Max(T)
<1>1. T \in SUBSET Nat /\ T # {} /\ \A x \in T : x <= b
  OBVIOUS
<1>2. m \in T /\ \A x \in T : x <= m
  <2> HIDE DEF T
  <2> QED
    BY <1>1, MaxOfBounded
<1> HIDE DEF m
<1>3. m \in S /\ m \in Nat /\ \A x \in S : m >= x
  BY <1>2
<1>4. Max(S) \in S /\ \A y \in S : Max(S) >= y
  BY <1>3 DEF Max
<1>5. Max(S) >= w /\ Max(S) \in Int
  BY <1>4
<1> QED
  BY <1>4, <1>5

(* Event times have a bound: there are MaxSeq events.                      *)
LEMMA EventTsBounded ==
    \E b \in Nat : \A s \in Seqs : EventTs[s] <= b
<1> DEFINE S == {n \in Nat : n <= MaxSeq => \E b \in Nat : \A s \in 1..n : EventTs[s] <= b}
<1>1. 0 \in S
  OBVIOUS
<1>2. ASSUME NEW n \in S
      PROVE  n + 1 \in S
  <2> SUFFICES ASSUME n + 1 <= MaxSeq
               PROVE  \E b \in Nat : \A s \in 1..(n + 1) : EventTs[s] <= b
    OBVIOUS
  <2>1. n <= MaxSeq /\ MaxSeq \in Nat /\ n + 1 \in Seqs
    BY BoundsAssumption DEF Seqs
  <2>2. PICK b \in Nat : \A s \in 1..n : EventTs[s] <= b
    BY <2>1
  <2>3. EventTs[n + 1] \in Nat /\ \A s \in Seqs : EventTs[s] \in Nat
    BY <2>1, EventTsAssumption
  <2>4. \A s \in 1..(n + 1) : s \in 1..n \/ s = n + 1
    OBVIOUS
  <2>5. b + EventTs[n + 1] \in Nat /\ b <= b + EventTs[n + 1] /\ EventTs[n + 1] <= b + EventTs[n + 1]
    BY <2>3
  <2>6. \A s \in 1..(n + 1) : EventTs[s] \in Nat
    BY <2>1, <2>3 DEF Seqs
  <2>7. \A s \in 1..(n + 1) : EventTs[s] <= b + EventTs[n + 1]
    BY <2>2, <2>3, <2>4, <2>5, <2>6
  <2> QED
    BY <2>5, <2>7
<1>3. S = Nat
  <2>1. S \in SUBSET Nat
    OBVIOUS
  <2> HIDE DEF S
  <2> QED
    BY <1>1, <1>2, <2>1, Induction
<1> QED
  BY <1>3, BoundsAssumption DEF Seqs

(***************************************************************************)
(* One row, one gap                                                        *)
(***************************************************************************)

(* An account between two invocations: all it holds back came too early.   *)
Sound(a) == a \in Account /\ a.last <= MaxSeq /\ \A b \in a.buf : a.last + 1 < b

LEMMA SoundPieces ==
    ASSUME NEW a, Sound(a)
    PROVE  /\ a \in Account /\ a.last \in 0..MaxSeq /\ a.last \in Nat /\ a.bal \in Int
           /\ a.buf \in SUBSET Seqs /\ a.seen \in Nat /\ MaxSeq \in Nat
BY BoundsAssumption DEF Sound, Account

(* In-order application adds exactly the events from s to the new position.*)
LEMMA InOrderFact ==
    ASSUME NEW a, Sound(a), NEW s \in Seqs, InOrder(a, s)
    PROVE  LET b == AfterInOrder(a, s)
           IN  /\ Sound(b) /\ b.seen = SeenAfter(a, s) /\ b.seen > 0
               /\ s = a.last + 1 /\ s <= b.last /\ b.last <= MaxSeq
               /\ (s + 1)..b.last \subseteq a.buf
               /\ b.last + 1 \notin a.buf
               /\ b.buf = a.buf \ ((s + 1)..b.last)
               /\ s..b.last \in SUBSET Seqs
               /\ b.bal = a.bal + Total[s..b.last]
               /\ {s} \cup (a.buf \ b.buf) = s..b.last
<1> DEFINE t == Touched(a, s)
           b == AfterInOrder(a, s)
<1>1. /\ a \in Account /\ a.last \in 0..MaxSeq /\ a.last \in Nat /\ a.bal \in Int
      /\ a.buf \in SUBSET Seqs /\ MaxSeq \in Nat
  BY SoundPieces
<1>2. /\ t \in Account /\ t.last = a.last /\ t.bal = a.bal /\ t.buf = a.buf
      /\ t.seen = SeenAfter(a, s) /\ t.seen > 0
  BY <1>1, TouchedFact
<1>3. s = a.last + 1 /\ s \in Nat /\ s <= MaxSeq /\ 1 <= s
  BY <1>1 DEF InOrder, Seqs
<1>4. b = MovedTo(t, s, {s})
  BY DEF AfterInOrder
<1> HIDE DEF t, b
<1>5. /\ b \in Account /\ s <= b.last /\ b.last <= MaxSeq
      /\ (s + 1)..b.last \subseteq t.buf /\ b.last + 1 \notin t.buf
      /\ b.buf = t.buf \ ((s + 1)..b.last)
      /\ b.bal = t.bal + Total[{s}] + Total[(s + 1)..b.last]
      /\ b.seen = t.seen
  <2>1. t.last <= s /\ {s} \in SUBSET Seqs
    BY <1>1, <1>2, <1>3
  <2> QED
    BY <1>2, <1>3, <1>4, <2>1, MovedFact
<1>6. b.last \in Nat
  BY <1>5 DEF Account
<1>7. {s} \cup (s + 1)..b.last = s..b.last /\ s..b.last \in SUBSET Seqs
      /\ {s} \cap (s + 1)..b.last = {}
      /\ {s} \in SUBSET Seqs /\ (s + 1)..b.last \in SUBSET Seqs
  BY <1>1, <1>3, <1>5, <1>6 DEF Seqs
<1>8. Total[s..b.last] = Total[{s}] + Total[(s + 1)..b.last]
      /\ Total[{s}] \in Int /\ Total[(s + 1)..b.last] \in Int
  BY <1>7, TotalAdds
<1>9. a.buf \ b.buf = (s + 1)..b.last
  BY <1>2, <1>5
<1>10. b.bal = a.bal + Total[s..b.last]
  BY <1>1, <1>2, <1>5, <1>8
<1>11. Sound(b)
  <2> SUFFICES ASSUME NEW x \in b.buf
               PROVE  b.last + 1 < x
    BY <1>5 DEF Sound
  <2>1. x \in a.buf /\ x \notin (s + 1)..b.last /\ x # b.last + 1 /\ x \in Nat
    BY <1>1, <1>2, <1>5 DEF Seqs
  <2>2. s < x
    BY <1>3, <2>1 DEF Sound
  <2> QED
    BY <1>3, <1>6, <2>1, <2>2
<1> QED
  BY <1>2, <1>3, <1>5, <1>7, <1>9, <1>10, <1>11 DEF b

(* Buffering keeps the ledger and adds the event. *)
LEMMA BufferFact ==
    ASSUME NEW a, Sound(a), NEW s \in Seqs, Early(a, s)
    PROVE  LET b == AfterBuffer(a, s)
           IN  /\ Sound(b) /\ b.seen = SeenAfter(a, s) /\ b.seen > 0
               /\ b.last = a.last /\ b.bal = a.bal
               /\ b.buf = a.buf \cup {s}
<1> DEFINE t == Touched(a, s)
           b == AfterBuffer(a, s)
<1>1. /\ t \in Account /\ t.last = a.last /\ t.bal = a.bal /\ t.buf = a.buf
      /\ t.seen = SeenAfter(a, s) /\ t.seen > 0
  BY SoundPieces, TouchedFact
<1>2. b = [t EXCEPT !.buf = t.buf \cup {s}]
  BY DEF AfterBuffer
<1> HIDE DEF t, b
<1>3. /\ b \in Account /\ b.last = a.last /\ b.bal = a.bal /\ b.buf = a.buf \cup {s}
      /\ b.seen = t.seen
  BY <1>1, <1>2 DEF Account
<1>4. Sound(b)
  BY <1>3, SoundPieces DEF Sound, Early, Seqs
<1> QED
  BY <1>1, <1>3, <1>4 DEF b

(* A dropped row leaves its event time and nothing else. *)
LEMMA DropFact ==
    ASSUME NEW a, Sound(a), NEW s \in Seqs
    PROVE  LET b == AfterDrop(a, s)
           IN  /\ Sound(b) /\ b.seen = SeenAfter(a, s) /\ b.seen > 0
               /\ b.last = a.last /\ b.bal = a.bal /\ b.buf = a.buf
BY SoundPieces, TouchedFact DEF AfterDrop, Sound

(* Eviction takes the least event of the buffer and the arrival, and keeps *)
(* the buffer as full as it was.                                           *)
LEMMA OverflowFact ==
    ASSUME NEW a, Sound(a), NEW s \in Seqs, Early(a, s), s \notin a.buf
    PROVE  LET b == AfterOverflow(a, s)
               v == Victim(a, s)
           IN  /\ Sound(b) /\ b.seen = SeenAfter(a, s) /\ b.seen > 0
               /\ b.last = a.last /\ b.bal = a.bal
               /\ v \in a.buf \cup {s} /\ v \in Seqs
               /\ b.buf = (a.buf \cup {s}) \ {v}
               /\ \A x \in b.buf : v < x
               /\ Cardinality(b.buf) = Cardinality(a.buf)
<1> DEFINE t == Touched(a, s)
           v == Victim(a, s)
           b == AfterOverflow(a, s)
<1>1. /\ t \in Account /\ t.last = a.last /\ t.bal = a.bal /\ t.buf = a.buf
      /\ t.seen = SeenAfter(a, s) /\ t.seen > 0
  BY SoundPieces, TouchedFact
<1>2. a.buf \in SUBSET Seqs /\ a.buf \cup {s} \in SUBSET Nat /\ a.last \in Nat
  BY SoundPieces DEF Seqs
<1>3. v \in a.buf \cup {s} /\ \A x \in a.buf \cup {s} : v <= x
  BY <1>2, MinFact DEF Victim
<1>4. v \in Seqs
  BY <1>2, <1>3
<1>5. b = [t EXCEPT !.buf = (t.buf \cup {s}) \ {v}]
  BY DEF AfterOverflow
<1> HIDE DEF t, v, b
<1>6. /\ b \in Account /\ b.last = a.last /\ b.bal = a.bal
      /\ b.seen = t.seen /\ b.buf = (a.buf \cup {s}) \ {v}
  BY <1>1, <1>2, <1>5 DEF Account
<1>7. \A x \in b.buf : v < x
  BY <1>2, <1>3, <1>4, <1>6
<1>8. Cardinality(b.buf) = Cardinality(a.buf)
  <2>1. IsFiniteSet(a.buf) /\ Cardinality(a.buf) \in Nat
    BY <1>2, SeqsFinite
  <2>2. /\ IsFiniteSet(a.buf \cup {s})
        /\ Cardinality(a.buf \cup {s}) = Cardinality(a.buf) + 1
    BY <2>1, FS_AddElement
  <2>3. Cardinality((a.buf \cup {s}) \ {v}) = Cardinality(a.buf \cup {s}) - 1
    BY <1>3, <2>2, FS_RemoveElement
  <2> QED
    BY <1>6, <2>1, <2>2, <2>3
<1>9. Sound(b)
  BY <1>2, <1>6, SoundPieces DEF Sound, Early, Seqs
<1> QED
  BY <1>1, <1>3, <1>4, <1>6, <1>7, <1>8, <1>9 DEF v, b

(* Stepping over a hole applies the run that was waiting behind it. *)
LEMMA GapFact ==
    ASSUME NEW a, Sound(a), a.buf # {}, Policy # "HOLD"
    PROVE  LET b == AfterGap(a)
               h == Min(a.buf)
           IN  /\ Sound(b) /\ b.seen = a.seen
               /\ h \in a.buf /\ \A x \in a.buf : h <= x
               /\ a.last + 1 < h /\ h <= b.last /\ b.last <= MaxSeq
               /\ h..b.last \subseteq a.buf
               /\ b.last + 1 \notin a.buf
               /\ b.buf = a.buf \ (h..b.last)
               /\ b.bal = a.bal + Total[h..b.last]
               /\ a.buf \ b.buf = h..b.last
<1> DEFINE h == Min(a.buf)
           b == AfterGap(a)
<1>1. /\ a \in Account /\ a.last \in 0..MaxSeq /\ a.last \in Nat /\ a.bal \in Int
      /\ a.buf \in SUBSET Seqs /\ MaxSeq \in Nat
  BY SoundPieces
<1>2. h \in a.buf /\ \A x \in a.buf : h <= x
  <2>1. a.buf \in SUBSET Nat
    BY <1>1 DEF Seqs
  <2> QED
    BY <2>1, MinFact
<1>3. h \in Nat /\ 1 <= h /\ h <= MaxSeq
  BY <1>1, <1>2 DEF Seqs
<1>4. a.last + 1 < h
  BY <1>2 DEF Sound
<1>5. b = MovedTo(a, h - 1, {})
  BY DEF AfterGap
<1> HIDE DEF h, b
<1>6. /\ b \in Account /\ h - 1 <= b.last /\ b.last <= MaxSeq
      /\ ((h - 1) + 1)..b.last \subseteq a.buf /\ b.last + 1 \notin a.buf
      /\ b.buf = a.buf \ (((h - 1) + 1)..b.last)
      /\ b.bal = a.bal + Total[{}] + Total[((h - 1) + 1)..b.last]
      /\ b.seen = a.seen
  <2>1. h - 1 \in Nat /\ a.last <= h - 1 /\ h - 1 <= MaxSeq /\ {} \in SUBSET Seqs
    BY <1>1, <1>3, <1>4
  <2> QED
    BY <1>1, <1>5, <2>1, MovedFact
<1>7. b.last \in Nat /\ (h - 1) + 1 = h
  BY <1>3, <1>6 DEF Account
<1>8. h <= b.last
  <2>1. b.last + 1 # h
    BY <1>2, <1>6
  <2> QED
    BY <1>3, <1>6, <1>7, <2>1
<1>9. b.bal = a.bal + Total[h..b.last]
  <2>1. h..b.last \in SUBSET Seqs
    BY <1>1, <1>6, <1>7
  <2>2. Total[h..b.last] \in Int
    BY <2>1, TotalAssumption
  <2> QED
    BY <1>1, <1>6, <1>7, <2>2, TotalAssumption
<1>10. Sound(b)
  <2> SUFFICES ASSUME NEW x \in b.buf
               PROVE  b.last + 1 < x
    BY <1>6 DEF Sound
  <2>1. x \in a.buf /\ x \notin h..b.last /\ x # b.last + 1 /\ x \in Nat /\ h <= x
    BY <1>1, <1>2, <1>6, <1>7 DEF Seqs
  <2> QED
    BY <1>3, <1>7, <2>1
<1> QED
  BY <1>2, <1>4, <1>6, <1>7, <1>8, <1>9, <1>10 DEF h, b
(***************************************************************************)
(* The rows of an invocation                                               *)
(***************************************************************************)

Run == [acct : Account, recs : SUBSET Record, applied : SUBSET Seqs]

LEMMA RowCases ==
    ASSUME NEW a, Sound(a), NEW s \in Seqs
    PROVE  /\ InOrder(a, s) \/ Early(a, s) \/ Replayed(a, s)
           /\ ~ (InOrder(a, s) /\ Early(a, s))
           /\ ~ (InOrder(a, s) /\ Replayed(a, s))
           /\ ~ (Early(a, s) /\ Replayed(a, s))
           /\ Early(a, s) => \/ Rebuffered(a, s) \/ Overflows(a, s) \/ Buffers(a, s)
<1>1. a.last \in Nat /\ s \in Nat /\ a.buf \in SUBSET Seqs /\ MaxBuffer \in Nat
  BY SoundPieces, BoundsAssumption DEF Seqs
<1>2. Cardinality(a.buf) \in Nat
  BY <1>1, SeqsFinite
<1> QED
  BY <1>1, <1>2 DEF InOrder, Early, Replayed, Rebuffered, Overflows, Buffers

(* A row in order moves the account and is applied with what waited for it.*)
LEMMA InOrderRow ==
    ASSUME NEW run \in Run, Sound(run.acct), NEW s \in Seqs, InOrder(run.acct, s)
    PROVE  LET next == WithRow(run, s)
           IN  /\ next \in Run
               /\ next.acct = AfterInOrder(run.acct, s)
               /\ next.recs = run.recs
               /\ next.applied = run.applied \cup s..next.acct.last
<1> DEFINE a == run.acct
           b == AfterInOrder(a, s)
           next == WithRow(run, s)
<1>1. next = [run EXCEPT !.acct = b, !.applied = @ \cup {s} \cup (a.buf \ b.buf)]
  BY RowCases DEF WithRow, Rebuffered, Overflows, Buffers
<1>2. b \in Account /\ {s} \cup (a.buf \ b.buf) = s..b.last /\ s..b.last \in SUBSET Seqs
  BY InOrderFact DEF Sound
<1> HIDE DEF b, next
<1>3. run = [acct |-> a, recs |-> run.recs, applied |-> run.applied]
  BY DEF Run
<1>4. next = [acct |-> b, recs |-> run.recs, applied |-> run.applied \cup {s} \cup (a.buf \ b.buf)]
  BY <1>1, <1>3 DEF Run
<1>5. next.applied = run.applied \cup s..b.last
  BY <1>2, <1>4
<1>6. run.recs \in SUBSET Record /\ run.applied \in SUBSET Seqs
  BY DEF Run
<1>7. next \in Run
  BY <1>2, <1>4, <1>5, <1>6 DEF Run
<1> QED
  BY <1>4, <1>5, <1>7 DEF b, next

(* What a row that is not in order makes of the account and its records.   *)
Aside(a, s) ==
    IF Rebuffered(a, s) \/ Replayed(a, s)
    THEN [acct |-> AfterDrop(a, s), recs |-> {Rec("DUP_DROPPED", s)}]
    ELSE IF Overflows(a, s)
    THEN [acct |-> AfterOverflow(a, s), recs |-> {Rec("BUFFER_OVERFLOW", Victim(a, s))}]
    ELSE [acct |-> AfterBuffer(a, s), recs |-> {}]

LEMMA AsideFact ==
    ASSUME NEW a, Sound(a), NEW s \in Seqs, ~ InOrder(a, s)
    PROVE  LET b == Aside(a, s).acct
           IN  /\ Sound(b) /\ b.seen = SeenAfter(a, s)
               /\ b.last = a.last /\ b.bal = a.bal
               /\ Aside(a, s).recs \in SUBSET Record
               /\ Replayed(a, s) => b.buf = a.buf
<1>1. s \in Nat
  BY DEF Seqs
<1>2. CASE Rebuffered(a, s) \/ Replayed(a, s)
  BY <1>1, <1>2, DropFact DEF Aside, Rec, Record, Kinds
<1>3. CASE ~ (Rebuffered(a, s) \/ Replayed(a, s)) /\ Overflows(a, s)
  <2>1. Early(a, s) /\ s \notin a.buf
    BY <1>3 DEF Overflows
  <2>2. Victim(a, s) \in Nat
    BY <2>1, OverflowFact DEF Seqs
  <2> QED
    BY <1>3, <2>1, <2>2, OverflowFact DEF Aside, Rec, Record, Kinds
<1>4. CASE ~ (Rebuffered(a, s) \/ Replayed(a, s)) /\ ~ Overflows(a, s)
  <2>1. Early(a, s)
    BY <1>4, RowCases
  <2> QED
    BY <1>4, <2>1, BufferFact DEF Aside
<1> QED
  BY <1>2, <1>3, <1>4

LEMMA AsideRow ==
    ASSUME NEW run \in Run, Sound(run.acct), NEW s \in Seqs, ~ InOrder(run.acct, s)
    PROVE  LET next == WithRow(run, s)
           IN  /\ next \in Run
               /\ next.acct = Aside(run.acct, s).acct
               /\ next.recs = run.recs \cup Aside(run.acct, s).recs
               /\ next.applied = run.applied
<1> DEFINE a == run.acct
           d == Aside(a, s)
           next == WithRow(run, s)
<1>1. d.acct \in Account /\ d.recs \in SUBSET Record
  BY AsideFact DEF Sound
<1>2. run = [acct |-> a, recs |-> run.recs, applied |-> run.applied]
      /\ run.recs \in SUBSET Record /\ run.applied \in SUBSET Seqs
  BY DEF Run
<1>3. next = [acct |-> d.acct, recs |-> run.recs \cup d.recs, applied |-> run.applied]
  <2>1. CASE Rebuffered(a, s) \/ Replayed(a, s)
    <3>0. ~ InOrder(a, s) /\ ~ Overflows(a, s) /\ ~ Buffers(a, s)
      BY <2>1, RowCases DEF Rebuffered, Overflows, Buffers
    <3>1. next = Dropped(run, s)
      BY <2>1, <3>0 DEF WithRow
    <3>2. next = [run EXCEPT !.acct = AfterDrop(a, s), !.recs = @ \cup {Rec("DUP_DROPPED", s)}]
      BY <3>1 DEF Dropped
    <3>3. d.acct = AfterDrop(a, s) /\ d.recs = {Rec("DUP_DROPPED", s)}
      BY <2>1 DEF Aside
    <3> HIDE DEF next, d
    <3> QED
      BY <1>2, <3>2, <3>3
  <2>2. CASE ~ (Rebuffered(a, s) \/ Replayed(a, s)) /\ Overflows(a, s)
    <3>0. ~ InOrder(a, s) /\ ~ Buffers(a, s)
      BY <2>2, RowCases, SoundPieces, SeqsFinite, BoundsAssumption DEF Overflows, Buffers
    <3>1. next = [run EXCEPT !.acct = AfterOverflow(a, s),
                             !.recs = @ \cup {Rec("BUFFER_OVERFLOW", Victim(a, s))}]
      BY <2>2, <3>0 DEF WithRow
    <3>2. d.acct = AfterOverflow(a, s) /\ d.recs = {Rec("BUFFER_OVERFLOW", Victim(a, s))}
      BY <2>2 DEF Aside
    <3> HIDE DEF next, d
    <3> QED
      BY <1>2, <3>1, <3>2
  <2>3. CASE ~ (Rebuffered(a, s) \/ Replayed(a, s)) /\ ~ Overflows(a, s)
    <3>0. Buffers(a, s)
      BY <2>3, RowCases
    <3>1. next = [run EXCEPT !.acct = AfterBuffer(a, s)]
      BY <2>3, <3>0 DEF WithRow
    <3>2. d.acct = AfterBuffer(a, s) /\ d.recs = {}
      BY <2>3 DEF Aside
    <3> HIDE DEF next, d
    <3> QED
      BY <1>2, <3>1, <3>2
  <2> QED
    BY <2>1, <2>2, <2>3
<1> HIDE DEF d, next
<1> QED
  BY <1>1, <1>2, <1>3 DEF Run, d, next
(* The rows of an account in a batch: events, in seq_no order.             *)
Ordered(rows) ==
    /\ rows \in Seq(Seqs)
    /\ \A i, j \in DOMAIN rows : i < j => rows[i] <= rows[j]

(* One step of Runs is what its definition says: the recursion is sound.   *)
LEMMA RunsFact ==
    ASSUME NEW start, NEW rows \in Seq(Seqs), NEW w
    PROVE  LET run == Runs(start, rows, w)
           IN  /\ run[0] = start
               /\ \A i \in 1..Len(rows) :
                     run[i] = IF OnTime(rows[i], w) THEN WithRow(run[i - 1], rows[i])
                                                    ELSE run[i - 1]
<1> DEFINE Step(f, i) == IF i = 0 THEN start
                         ELSE IF OnTime(rows[i], w) THEN WithRow(f[i - 1], rows[i])
                         ELSE f[i - 1]
           Good(n) == \E f : f = [i \in 0..n |-> Step(f, i)]
           S == {n \in Nat : Good(n)}
<1>1. 0 \in S
  <2> DEFINE f == [i \in 0..0 |-> start]
  <2>1. f = [i \in 0..0 |-> Step(f, i)]
    BY \A i \in 0..0 : i = 0
  <2> QED
    BY <2>1
<1>2. ASSUME NEW n \in S
      PROVE  n + 1 \in S
  <2>1. PICK f : f = [i \in 0..n |-> Step(f, i)]
    OBVIOUS
  <2> DEFINE g == [i \in 0..(n + 1) |-> IF i = n + 1 THEN Step(f, n + 1) ELSE f[i]]
  <2> HIDE DEF Step
  <2>2. ASSUME NEW i \in 0..(n + 1)
        PROVE  g[i] = Step(g, i)
    <3>1. CASE i = 0
      <4>1. g[i] = f[i] /\ f[i] = Step(f, i)
        BY <2>1, <3>1
      <4> QED
        BY <3>1, <4>1 DEF Step
    <3>2. CASE i # 0
      <4>1. i - 1 \in 0..n /\ i - 1 \in 0..(n + 1) /\ i - 1 # n + 1
        BY <3>2
      <4>2. g[i - 1] = f[i - 1]
        BY <4>1
      <4>3. Step(g, i) = Step(f, i)
        BY <4>2 DEF Step
      <4>4. CASE i = n + 1
        BY <4>3, <4>4
      <4>5. CASE i # n + 1
        <5>1. i \in 0..n
          BY <4>5
        <5>2. g[i] = f[i] /\ f[i] = Step(f, i)
          BY <2>1, <4>5, <5>1
        <5> QED
          BY <4>3, <5>2
      <4> QED
        BY <4>4, <4>5
    <3> QED
      BY <3>1, <3>2
  <2>3. g = [i \in 0..(n + 1) |-> Step(g, i)]
    BY <2>2
  <2>4. Good(n + 1)
    <3> HIDE DEF g
    <3> QED
      BY <2>3
  <2> QED
    BY <2>4
<1>3. S = Nat
  <2> HIDE DEF S
  <2> QED
    BY <1>1, <1>2, Induction, S \in SUBSET Nat DEF S
<1>4. Len(rows) \in Nat
  OBVIOUS
<1>5. \E f : f = [i \in 0..Len(rows) |-> Step(f, i)]
  BY <1>3, <1>4
<1> DEFINE run == Runs(start, rows, w)
<1>6. run = CHOOSE f : f = [i \in 0..Len(rows) |-> Step(f, i)]
  BY DEF Runs
<1> HIDE DEF run, Step
<1>7. run = [i \in 0..Len(rows) |-> Step(run, i)]
  BY <1>5, <1>6
<1>8. run[0] = start
  BY <1>4, <1>7 DEF Step
<1>9. ASSUME NEW i \in 1..Len(rows)
      PROVE  run[i] = IF OnTime(rows[i], w) THEN WithRow(run[i - 1], rows[i]) ELSE run[i - 1]
  <2>1. i \in 0..Len(rows) /\ i # 0
    BY <1>4
  <2>2. run[i] = Step(run, i)
    BY <1>7, <2>1
  <2> QED
    BY <2>1, <2>2 DEF Step
<1> QED
  BY <1>8, <1>9 DEF run
(* From account a, `run` has applied exactly the events from a's position  *)
(* to its own.                                                             *)
Applies(a, run) ==
    /\ run \in Run /\ Sound(run.acct)
    /\ a.last <= run.acct.last
    /\ run.applied = (a.last + 1)..run.acct.last
    /\ run.acct.bal = a.bal + Total[(a.last + 1)..run.acct.last]

LEMMA RowApplies ==
    ASSUME NEW a, Sound(a), NEW run, Applies(a, run), NEW s \in Seqs
    PROVE  Applies(a, WithRow(run, s)) /\ run.acct.last <= WithRow(run, s).acct.last
<1> DEFINE next == WithRow(run, s)
           l == run.acct.last
<1>1. run \in Run /\ Sound(run.acct) /\ a.last \in Nat /\ a.bal \in Int /\ l \in Nat
  BY SoundPieces DEF Applies
<1>2. CASE InOrder(run.acct, s)
  <2> DEFINE m == next.acct.last
  <2>1. /\ next \in Run /\ next.acct = AfterInOrder(run.acct, s)
        /\ next.applied = run.applied \cup s..m
    BY <1>1, <1>2, InOrderRow
  <2>2. /\ Sound(next.acct) /\ s = l + 1 /\ s <= m /\ s..m \in SUBSET Seqs
        /\ next.acct.bal = run.acct.bal + Total[s..m]
    BY <1>1, <1>2, <2>1, InOrderFact
  <2>3. m \in Nat /\ m <= MaxSeq /\ s \in Nat
    BY <1>1, <2>2, SoundPieces
  <2> HIDE DEF next, m, l
  <2>4. /\ (a.last + 1)..l \cup s..m = (a.last + 1)..m
        /\ (a.last + 1)..l \cap s..m = {}
        /\ (a.last + 1)..l \in SUBSET Seqs
    BY <1>1, <2>2, <2>3, BoundsAssumption DEF Applies, l, Seqs
  <2>5. /\ Total[(a.last + 1)..m] = Total[(a.last + 1)..l] + Total[s..m]
        /\ Total[(a.last + 1)..l] \in Int /\ Total[s..m] \in Int
    BY <2>2, <2>4, TotalAdds
  <2>6. run.applied = (a.last + 1)..l /\ run.acct.bal = a.bal + Total[(a.last + 1)..l] /\ a.last <= l
    BY DEF Applies, l
  <2>7. next.acct.bal = a.bal + Total[(a.last + 1)..m]
    BY <1>1, <2>2, <2>5, <2>6
  <2>8. next.applied = (a.last + 1)..m
    BY <2>1, <2>4, <2>6
  <2>9. a.last <= m /\ l <= m
    BY <1>1, <2>2, <2>3, <2>6
  <2> QED
    BY <2>1, <2>2, <2>7, <2>8, <2>9 DEF Applies, m, l, next
<1>3. CASE ~ InOrder(run.acct, s)
  <2>1. /\ next \in Run /\ next.acct = Aside(run.acct, s).acct
        /\ next.applied = run.applied
    BY <1>1, <1>3, AsideRow
  <2>2. Sound(next.acct) /\ next.acct.last = l /\ next.acct.bal = run.acct.bal
    BY <1>1, <1>3, <2>1, AsideFact
  <2> HIDE DEF next
  <2> QED
    BY <1>1, <2>1, <2>2 DEF Applies, next
<1> QED
  BY <1>2, <1>3

FreshRun(a) == [acct |-> a, recs |-> {}, applied |-> {}]

(* Whatever rows come, every prefix of them applies a run of events.       *)
LEMMA RunsApply ==
    ASSUME NEW a, Sound(a), NEW rows \in Seq(Seqs), NEW w,
           NEW i \in 0..Len(rows)
    PROVE  Applies(a, Runs(FreshRun(a), rows, w)[i])
<1> DEFINE run == Runs(FreshRun(a), rows, w)
           S == {n \in Nat : n <= Len(rows) => Applies(a, run[n])}
<1>1. /\ run[0] = FreshRun(a)
      /\ \A n \in 1..Len(rows) :
            run[n] = IF OnTime(rows[n], w) THEN WithRow(run[n - 1], rows[n]) ELSE run[n - 1]
  BY RunsFact
<1>2. Len(rows) \in Nat /\ \A n \in 1..Len(rows) : rows[n] \in Seqs
  OBVIOUS
<1> HIDE DEF run
<1>3. 0 \in S
  <2>1. a.last \in Nat /\ a.bal \in Int /\ a \in Account
    BY SoundPieces
  <2>2. (a.last + 1)..a.last = {}
    BY <2>1
  <2>3. Applies(a, FreshRun(a))
    BY <2>1, <2>2, TotalAssumption DEF Applies, FreshRun, Run
  <2> QED
    BY <1>1, <2>3
<1>4. ASSUME NEW n \in S
      PROVE  n + 1 \in S
  <2> SUFFICES ASSUME n + 1 <= Len(rows)
               PROVE  Applies(a, run[n + 1])
    OBVIOUS
  <2>1. n + 1 \in 1..Len(rows) /\ n <= Len(rows) /\ (n + 1) - 1 = n
    BY <1>2
  <2>2. Applies(a, run[n])
    BY <2>1
  <2>3. Applies(a, WithRow(run[n], rows[n + 1]))
    BY <1>2, <2>1, <2>2, RowApplies
  <2> QED
    BY <1>1, <2>1, <2>2, <2>3
<1>5. S = Nat
  <2>1. S \in SUBSET Nat
    OBVIOUS
  <2> HIDE DEF S
  <2> QED
    BY <1>3, <1>4, <2>1, Induction
<1>6. i \in S /\ i <= Len(rows)
  BY <1>2, <1>5
<1> QED
  BY <1>6 DEF run

(* The position only moves forward over the rows, and once a row was too   *)
(* early it does not move again: those after it are not lower.             *)
LEMMA RunsMoveOn ==
    ASSUME NEW a, Sound(a), NEW rows, Ordered(rows), NEW w,
           NEW i \in 0..Len(rows)
    PROVE  LET run == Runs(FreshRun(a), rows, w)
           IN  /\ run[i].acct.last <= run[Len(rows)].acct.last
               /\ i > 0 /\ OnTime(rows[i], w) /\ Early(run[i - 1].acct, rows[i]) =>
                     run[Len(rows)].acct.last = run[i - 1].acct.last
<1> DEFINE run == Runs(FreshRun(a), rows, w)
           p(n) == run[n].acct.last
           stuck == i > 0 /\ OnTime(rows[i], w) /\ Early(run[i - 1].acct, rows[i])
           P(n) == p(i) <= p(n) /\ (stuck => p(n) = p(i - 1))
           S == {n \in Nat : n >= i /\ n <= Len(rows) => P(n)}
<1>1. /\ rows \in Seq(Seqs) /\ Len(rows) \in Nat /\ i \in Nat
      /\ \A n \in 1..Len(rows) : rows[n] \in Seqs
  BY DEF Ordered
<1>2. \A n \in 1..Len(rows) :
         run[n] = IF OnTime(rows[n], w) THEN WithRow(run[n - 1], rows[n]) ELSE run[n - 1]
  BY <1>1, RunsFact
<1>3. ASSUME NEW n \in 0..Len(rows)
      PROVE  Applies(a, run[n]) /\ run[n] \in Run /\ Sound(run[n].acct) /\ p(n) \in Nat
  <2>1. Applies(a, run[n])
    BY <1>1, RunsApply
  <2> QED
    BY <2>1, SoundPieces DEF Applies
<1> HIDE DEF run
<1>4. P(i)
  <2>1. p(i) <= p(i)
    BY <1>3
  <2>2. ASSUME stuck
        PROVE  p(i) = p(i - 1)
    <3>1. i \in 1..Len(rows) /\ i - 1 \in 0..Len(rows)
      BY <1>1, <2>2
    <3>2. run[i] = WithRow(run[i - 1], rows[i])
      BY <1>2, <2>2, <3>1
    <3>3. ~ InOrder(run[i - 1].acct, rows[i])
      BY <1>1, <1>3, <2>2, <3>1, RowCases
    <3> QED
      BY <1>1, <1>3, <3>1, <3>2, <3>3, AsideRow, AsideFact
  <2> QED
    BY <2>1, <2>2
<1>5. ASSUME NEW n \in 0..Len(rows), n >= i, n + 1 <= Len(rows), P(n)
      PROVE  P(n + 1)
  <2>1. n + 1 \in 1..Len(rows) /\ (n + 1) - 1 = n /\ n + 1 \in 0..Len(rows)
    BY <1>1, <1>5
  <2>2. CASE ~ OnTime(rows[n + 1], w)
    <3>1. run[n + 1] = run[n]
      BY <1>2, <2>1, <2>2
    <3> QED
      BY <1>5, <3>1
  <2>3. CASE OnTime(rows[n + 1], w)
    <3>1. run[n + 1] = WithRow(run[n], rows[n + 1]) /\ rows[n + 1] \in Seqs
      BY <1>1, <1>2, <2>1, <2>3
    <3>2. p(n) <= p(n + 1)
      BY <1>3, <3>1, RowApplies
    <3>3. p(i) <= p(n + 1)
      BY <1>3, <1>5, <2>1, <3>2
    <3>4. ASSUME stuck
          PROVE  p(n + 1) = p(i - 1)
      <4>1. i \in DOMAIN rows /\ n + 1 \in DOMAIN rows /\ i < n + 1
        BY <1>1, <1>5, <2>1, <3>4
      <4>2. rows[i] <= rows[n + 1]
        BY <4>1 DEF Ordered
      <4>3. rows[i] \in Nat /\ rows[n + 1] \in Nat /\ rows[i] > p(i - 1) + 1 /\ p(n) = p(i - 1)
            /\ p(n) \in Nat
        BY <1>1, <1>3, <1>5, <3>1, <3>4, <4>1 DEF Early, Seqs
      <4>4. ~ InOrder(run[n].acct, rows[n + 1])
        BY <4>2, <4>3 DEF InOrder
      <4>5. p(n + 1) = p(n)
        BY <1>3, <3>1, <4>4, AsideRow, AsideFact
      <4> QED
        BY <4>3, <4>5
    <3> QED
      BY <3>3, <3>4
  <2> QED
    BY <2>2, <2>3
<1>6. S = Nat
  <2> HIDE DEF P
  <2>1. 0 \in S
    BY <1>1, <1>4
  <2>2. ASSUME NEW n \in S
        PROVE  n + 1 \in S
    <3> SUFFICES ASSUME n + 1 >= i, n + 1 <= Len(rows)
                 PROVE  P(n + 1)
      OBVIOUS
    <3>1. CASE n + 1 = i
      BY <1>4, <3>1
    <3>2. CASE n + 1 # i
      BY <1>1, <1>5, <3>2
    <3> QED
      BY <3>1, <3>2
  <2>3. S \in SUBSET Nat
    OBVIOUS
  <2> HIDE DEF S
  <2> QED
    BY <2>1, <2>2, <2>3, Induction
<1>7. P(Len(rows))
  BY <1>1, <1>6
<1> QED
  BY <1>7 DEF run
(* The account a key starts from when it reads the row that an attempt at  *)
(* the same rows, itself started from an empty buffer at a, has left.      *)
Ahead(a, end) == [last |-> end.last, bal |-> end.bal, buf |-> {}, seen |-> a.seen]

(* Row by row, the second attempt holds back what the first did and leaves *)
(* its records; behind the end position it drops what the first applied.   *)
Shadows(x, y, end) ==
    /\ x.acct.last <= end.last
    /\ y.acct.last = end.last /\ y.acct.bal = end.bal
    /\ y.acct.buf = x.acct.buf /\ y.acct.seen = x.acct.seen
    /\ x.recs \subseteq y.recs
    /\ x.acct.buf # {} => x.acct.last = end.last

LEMMA AcctParts ==
    ASSUME NEW x \in Account, NEW y \in Account,
           x.last = y.last, x.bal = y.bal, x.buf = y.buf, x.seen = y.seen
    PROVE  x = y
BY DEF Account

LEMMA ShadowRow ==
    ASSUME NEW a, Sound(a), NEW x, Applies(a, x), NEW y \in Run, Sound(y.acct), NEW s \in Seqs,
           NEW end, Sound(end),
           end.bal = a.bal + Total[(a.last + 1)..end.last],
           Shadows(x, y, end),
           WithRow(x, s).acct.last <= end.last,
           Early(x.acct, s) => end.last = x.acct.last
    PROVE  Shadows(WithRow(x, s), WithRow(y, s), end)
<1> DEFINE u == WithRow(x, s)
           v == WithRow(y, s)
<1>1. /\ x \in Run /\ Sound(x.acct) /\ s \in Nat
      /\ x.acct.last \in Nat /\ y.acct.last \in Nat /\ end.last \in Nat
      /\ x.acct \in Account /\ y.acct \in Account
  BY SoundPieces DEF Applies, Seqs
<1>2. /\ x.acct.last <= end.last /\ y.acct.last = end.last /\ y.acct.bal = end.bal
      /\ y.acct.buf = x.acct.buf /\ y.acct.seen = x.acct.seen /\ x.recs \subseteq y.recs
      /\ x.acct.buf # {} => x.acct.last = end.last
  BY DEF Shadows
<1>3. SeenAfter(y.acct, s) = SeenAfter(x.acct, s)
  BY <1>2 DEF SeenAfter
<1>4. ASSUME Replayed(y.acct, s)
      PROVE  /\ v.acct.last = end.last /\ v.acct.bal = end.bal
             /\ v.acct.buf = x.acct.buf /\ v.acct.seen = SeenAfter(x.acct, s)
             /\ y.recs \subseteq v.recs
             /\ Rec("DUP_DROPPED", s) \in v.recs
  <2>1. ~ InOrder(y.acct, s)
    BY <1>4, RowCases
  <2>2. v.acct = Aside(y.acct, s).acct /\ v.recs = y.recs \cup Aside(y.acct, s).recs
    BY <2>1, AsideRow
  <2>3. Aside(y.acct, s).recs = {Rec("DUP_DROPPED", s)}
    BY <1>4 DEF Aside
  <2> QED
    BY <1>2, <1>3, <1>4, <2>1, <2>2, <2>3, AsideFact
<1>5. CASE InOrder(x.acct, s)
  <2>1. /\ u.acct = AfterInOrder(x.acct, s) /\ u.recs = x.recs
    BY <1>1, <1>5, InOrderRow
  <2>2. /\ s = x.acct.last + 1 /\ s <= u.acct.last /\ u.acct.seen = SeenAfter(x.acct, s)
        /\ u.acct.buf \subseteq x.acct.buf /\ u.acct.last \in Nat
    BY <1>1, <1>5, <2>1, InOrderFact, SoundPieces
  <2>3. u.acct.last <= end.last
    OBVIOUS
  <2>4. Replayed(y.acct, s) /\ x.acct.last # end.last
    BY <1>1, <1>2, <2>2, <2>3 DEF Replayed
  <2>5. x.acct.buf = {} /\ u.acct.buf = {}
    BY <1>2, <2>2, <2>4
  <2> HIDE DEF u, v
  <2> QED
    BY <1>2, <1>4, <2>1, <2>2, <2>3, <2>4, <2>5 DEF Shadows, u, v
<1>6. CASE Early(x.acct, s)
  <2>1. x.acct.last = end.last /\ x.acct.bal = end.bal
    BY <1>6 DEF Applies
  <2>2. x.acct = y.acct
    BY <1>1, <1>2, <2>1, AcctParts
  <2>3. ~ InOrder(x.acct, s) /\ ~ InOrder(y.acct, s)
    BY <1>1, <1>6, <2>2, RowCases
  <2>4. /\ u.acct = Aside(x.acct, s).acct /\ u.recs = x.recs \cup Aside(x.acct, s).recs
        /\ v.acct = Aside(x.acct, s).acct /\ v.recs = y.recs \cup Aside(x.acct, s).recs
    BY <1>1, <2>2, <2>3, AsideRow
  <2>5. u.acct.last = end.last /\ u.acct.bal = end.bal
    BY <1>1, <2>1, <2>3, <2>4, AsideFact
  <2>6. u.recs \subseteq v.recs
    BY <1>2, <2>4
  <2> HIDE DEF u, v
  <2> QED
    BY <1>1, <2>4, <2>5, <2>6 DEF Shadows, u, v
<1>7. CASE Replayed(x.acct, s)
  <2>1. Replayed(y.acct, s) /\ ~ InOrder(x.acct, s)
    BY <1>1, <1>2, <1>7, RowCases DEF Replayed
  <2>2. u.acct = Aside(x.acct, s).acct /\ u.recs = x.recs \cup {Rec("DUP_DROPPED", s)}
    BY <1>1, <1>7, <2>1, AsideRow DEF Aside
  <2>3. /\ u.acct.last = x.acct.last /\ u.acct.buf = x.acct.buf
        /\ u.acct.seen = SeenAfter(x.acct, s)
    BY <1>1, <1>7, <2>1, <2>2, AsideFact
  <2> HIDE DEF u, v
  <2> QED
    BY <1>2, <1>4, <2>1, <2>2, <2>3 DEF Shadows, u, v
<1> QED
  BY <1>1, <1>5, <1>6, <1>7, RowCases

(* An attempt that starts from the row an earlier attempt at the same rows *)
(* has left computes the same account and leaves at least its records.     *)
LEMMA ReplayFact ==
    ASSUME NEW a, Sound(a), a.buf = {}, NEW rows, Ordered(rows), NEW w
    PROVE  LET n     == Len(rows)
               again == Runs(FreshRun(Ahead(a, Runs(FreshRun(a), rows, w)[n].acct)), rows, w)
           IN  /\ again[n].acct = Runs(FreshRun(a), rows, w)[n].acct
               /\ Runs(FreshRun(a), rows, w)[n].recs \subseteq again[n].recs
               /\ again[n].applied = {}
<1> DEFINE run == Runs(FreshRun(a), rows, w)
           end == run[Len(rows)].acct
           c == Ahead(a, end)
           again == Runs(FreshRun(c), rows, w)
           S == {i \in Nat : i <= Len(rows) => Shadows(run[i], again[i], end)}
<1>1. /\ rows \in Seq(Seqs) /\ Len(rows) \in Nat
      /\ \A i \in 1..Len(rows) : rows[i] \in Seqs
  BY DEF Ordered
<1>2. /\ run[0] = FreshRun(a)
      /\ \A i \in 1..Len(rows) :
            run[i] = IF OnTime(rows[i], w) THEN WithRow(run[i - 1], rows[i]) ELSE run[i - 1]
  BY <1>1, RunsFact
<1>3. \A i \in 0..Len(rows) : Applies(a, run[i])
  BY <1>1, RunsApply
<1>4. \A i \in 0..Len(rows) :
         /\ run[i].acct.last <= end.last
         /\ i > 0 /\ OnTime(rows[i], w) /\ Early(run[i - 1].acct, rows[i]) =>
               end.last = run[i - 1].acct.last
  BY RunsMoveOn
<1>5. /\ Sound(end) /\ end.bal = a.bal + Total[(a.last + 1)..end.last]
      /\ end \in Account /\ end.last \in Nat /\ end.last <= MaxSeq /\ end.bal \in Int
      /\ a.seen \in Nat /\ a.last \in Nat
  <2>1. Applies(a, run[Len(rows)])
    BY <1>1, <1>3
  <2> HIDE DEF run
  <2> QED
    BY <2>1, SoundPieces DEF Applies
<1> HIDE DEF run, end
<1>6. Sound(c)
  BY <1>5 DEF Sound, Account, Ahead
<1>7. /\ again[0] = FreshRun(c)
      /\ \A i \in 1..Len(rows) :
            again[i] = IF OnTime(rows[i], w) THEN WithRow(again[i - 1], rows[i]) ELSE again[i - 1]
  BY <1>1, RunsFact
<1>8. \A i \in 0..Len(rows) : Applies(c, again[i])
  <2> HIDE DEF c
  <2> QED
    BY <1>1, <1>6, RunsApply
<1> HIDE DEF again
<1>9. 0 \in S
  <2>1. run[0].acct = a /\ run[0].recs = {} /\ again[0].acct = c /\ again[0].recs = {}
    BY <1>2, <1>7 DEF FreshRun
  <2>2. run[0].acct.last <= end.last
    BY <1>1, <1>4
  <2>3. c.last = end.last /\ c.bal = end.bal /\ c.buf = {} /\ c.seen = a.seen
    BY DEF Ahead
  <2> HIDE DEF c
  <2>4. Shadows(run[0], again[0], end)
    BY <2>1, <2>2, <2>3 DEF Shadows
  <2> QED
    BY <2>4
<1>10. ASSUME NEW i \in S
       PROVE  i + 1 \in S
  <2> SUFFICES ASSUME i + 1 <= Len(rows)
               PROVE  Shadows(run[i + 1], again[i + 1], end)
    OBVIOUS
  <2>1. /\ i + 1 \in 1..Len(rows) /\ (i + 1) - 1 = i /\ i \in 0..Len(rows)
        /\ i + 1 \in 0..Len(rows) /\ i + 1 > 0
    BY <1>1
  <2>2. Shadows(run[i], again[i], end)
    BY <2>1
  <2>3. CASE ~ OnTime(rows[i + 1], w)
    BY <1>2, <1>7, <2>1, <2>2, <2>3
  <2>4. CASE OnTime(rows[i + 1], w)
    <3>1. /\ run[i + 1] = WithRow(run[i], rows[i + 1])
          /\ again[i + 1] = WithRow(again[i], rows[i + 1])
      BY <1>2, <1>7, <2>1, <2>4
    <3>2. /\ run[i + 1].acct.last <= end.last
          /\ Early(run[i].acct, rows[i + 1]) => end.last = run[i].acct.last
      BY <1>4, <2>1, <2>4
    <3>3. /\ Applies(a, run[i]) /\ again[i] \in Run /\ Sound(again[i].acct)
          /\ rows[i + 1] \in Seqs
      BY <1>1, <1>3, <1>8, <2>1 DEF Applies
    <3> QED
      BY <1>5, <2>2, <3>1, <3>2, <3>3, ShadowRow
  <2> QED
    BY <2>3, <2>4
<1>11. S = Nat
  <2>1. S \in SUBSET Nat
    OBVIOUS
  <2> HIDE DEF S
  <2> QED
    BY <1>9, <1>10, <2>1, Induction
<1>12. /\ Shadows(run[Len(rows)], again[Len(rows)], end)
       /\ Applies(c, again[Len(rows)]) /\ Applies(a, run[Len(rows)])
  BY <1>1, <1>3, <1>8, <1>11
<1>13. again[Len(rows)].acct = end
  <2>1. run[Len(rows)].acct = end
    BY DEF end
  <2>2. again[Len(rows)].acct \in Account /\ end \in Account
    BY <1>5, <1>12 DEF Applies, Sound
  <2> QED
    BY <1>12, <2>1, <2>2, AcctParts DEF Shadows
<1>14. again[Len(rows)].applied = {}
  <2>1. c.last = end.last
    BY DEF Ahead
  <2>2. again[Len(rows)].applied = (end.last + 1)..end.last
    BY <1>12, <1>13, <2>1 DEF Applies
  <2> QED
    BY <1>5, <2>2
<1> QED
  BY <1>12, <1>13, <1>14 DEF Shadows, end, run, again
(***************************************************************************)
(* An invocation, and the same one again                                   *)
(***************************************************************************)

LEMMA RowOfFact ==
    ASSUME NEW a, Sound(a)
    PROVE  /\ RowOf(a) \in BalanceRow
           /\ RowOf(a).last = a.last /\ RowOf(a).bal = a.bal
BY SoundPieces, SeqsFinite DEF RowOf, BalanceRow

(* A row that is not behind, and says the same where it is not ahead, is   *)
(* taken whole.                                                            *)
LEMMA MergedFact ==
    ASSUME NEW t \in BalanceRow, NEW s \in BalanceRow,
           t.last <= s.last, s.last = t.last => s.bal = t.bal
    PROVE  Merged(t, s) = s
<1>1. t.last \in Nat /\ s.last \in Nat
  BY DEF BalanceRow
<1>2. CASE s.last = t.last /\ s.size = t.size
  <2>1. s = t
    BY <1>2 DEF BalanceRow
  <2> QED
    BY <2>1 DEF Merged
<1>3. CASE ~ (s.last = t.last /\ s.size = t.size)
  BY <1>1, <1>3 DEF Merged
<1> QED
  BY <1>2, <1>3

(* A key and its row as they are between two batches.                      *)
Agree(key, t) ==
    /\ key \in Key /\ Sound(key.acct)
    /\ t \in BalanceRow /\ t.last <= MaxSeq
    /\ key.exists => t = RowOf(key.acct)
    /\ t.last = 0 => t.bal = 0
    /\ ~ key.exists /\ ~ RejoinReseed => t.last = 0

Opened(key, t) == IF key.exists THEN key.acct ELSE Reseeded(t.last, t.bal)

LEMMA OpenedFact ==
    ASSUME NEW key, NEW t, Agree(key, t)
    PROVE  /\ Sound(Opened(key, t))
           /\ Opened(key, t).last = t.last /\ Opened(key, t).bal = t.bal
           /\ ~ key.exists => Opened(key, t).buf = {} /\ Opened(key, t).seen = 0
           /\ Start(key, t) = FreshRun(Opened(key, t))
<1>1. Start(key, t) = FreshRun(Opened(key, t))
  BY DEF Start, FreshRun, Opened
<1>2. CASE key.exists
  BY <1>1, <1>2, RowOfFact DEF Agree, Opened
<1>3. CASE ~ key.exists
  <2>1. t.last \in Nat /\ t.bal \in Int /\ t.last <= MaxSeq
    BY DEF Agree, BalanceRow
  <2>2. Opened(key, t) = [last |-> t.last, bal |-> t.bal, buf |-> {}, seen |-> 0]
    <3>1. Opened(key, t) = Reseeded(t.last, t.bal)
      BY <1>3 DEF Opened
    <3>2. CASE RejoinReseed /\ t.last > 0
      BY <3>1, <3>2 DEF Reseeded, EmptyAccount
    <3>3. CASE ~ (RejoinReseed /\ t.last > 0)
      <4>1. t.last = 0 /\ t.bal = 0
        BY <1>3, <2>1, <3>3 DEF Agree
      <4> QED
        BY <3>1, <3>3, <4>1 DEF Reseeded, EmptyAccount
    <3> QED
      BY <3>2, <3>3
  <2> HIDE DEF Opened
  <2> QED
    BY <1>1, <1>3, <2>1, <2>2 DEF Sound, Account
<1> QED
  BY <1>2, <1>3 DEF Agree, Key

(* What an attempt hands the sink: a row that continues the one it opened  *)
(* with by the events it applied, each of them new.                        *)
Continues(t, r) ==
    /\ r.row \in BalanceRow
    /\ t.last <= r.row.last /\ r.row.last <= MaxSeq
    /\ r.row.last = t.last => r.row.bal = t.bal
    /\ r.row.last > t.last =>
          /\ r.applied \in SUBSET ((t.last + 1)..r.row.last)
          /\ r.row.last \in r.applied
          /\ Policy = "HOLD" => r.applied = (t.last + 1)..r.row.last
          /\ r.row.bal = t.bal + Total[r.applied]

LEMMA WithRowsFact ==
    ASSUME NEW key, NEW t, Agree(key, t), NEW rows, Ordered(rows), NEW w \in Nat
    PROVE  LET r   == WithRows(key, rows, t, w)
               run == Runs(FreshRun(Opened(key, t)), rows, w)[Len(rows)]
           IN  /\ r.ran /\ r.key \in Key
               /\ r.key = [acct |-> run.acct, exists |-> TRUE, alarm |-> Alarm(run.acct, w, 0)]
               /\ r.row = RowOf(run.acct) /\ r.recs = run.recs /\ r.applied = run.applied
               /\ Sound(run.acct) /\ run.recs \in SUBSET Record
               /\ Continues(t, r)
<1> DEFINE a == Opened(key, t)
           run == Runs(FreshRun(a), rows, w)[Len(rows)]
           r == WithRows(key, rows, t, w)
           l == run.acct.last
<1>1. Sound(a) /\ a.last = t.last /\ a.bal = t.bal /\ Start(key, t) = FreshRun(a)
  BY OpenedFact
<1>2. rows \in Seq(Seqs) /\ Len(rows) \in 0..Len(rows)
  BY DEF Ordered
<1>3. Applies(a, run)
  <2> HIDE DEF a
  <2> QED
    BY <1>1, <1>2, RunsApply
<1>4. /\ r.ran /\ r.row = RowOf(run.acct) /\ r.recs = run.recs /\ r.applied = run.applied
      /\ r.key = [acct |-> run.acct, exists |-> TRUE, alarm |-> Alarm(run.acct, w, 0)]
  BY <1>1 DEF WithRows, Result
<1> HIDE DEF a, run, r
<1>5. /\ run \in Run /\ Sound(run.acct) /\ t.last <= l /\ run.applied = (t.last + 1)..l
      /\ run.acct.bal = t.bal + Total[(t.last + 1)..l]
  BY <1>1, <1>3 DEF Applies
<1>6. /\ t.last \in Nat /\ t.bal \in Int /\ l \in Nat /\ l <= MaxSeq
  BY <1>5, SoundPieces DEF Agree, BalanceRow
<1>7. r.row \in BalanceRow /\ r.row.last = l /\ r.row.bal = run.acct.bal
  BY <1>4, <1>5, RowOfFact
<1>8. l = t.last => run.acct.bal = t.bal
  <2>1. (t.last + 1)..t.last = {}
    BY <1>6
  <2> QED
    BY <1>5, <1>6, <2>1, TotalAssumption
<1>9. Continues(t, r)
  BY <1>4, <1>5, <1>6, <1>7, <1>8 DEF Continues
<1>10. r.key \in Key
  <2>1. Alarm(run.acct, w, 0) \in Nat \cup {NoAlarm} /\ run.acct \in Account
    BY <1>5, AlarmFact DEF Sound
  <2> QED
    BY <1>4, <2>1 DEF Key
<1> QED
  BY <1>4, <1>5, <1>9, <1>10 DEF a, run, r, Run

LEMMA TimedOutFact ==
    ASSUME NEW key \in Key, Sound(key.acct), key.exists, NEW t, t = RowOf(key.acct),
           NEW w \in Nat
    PROVE  LET r == TimedOut(key, w)
           IN  /\ r.ran /\ r.key \in Key /\ Sound(r.key.acct)
               /\ r.key.exists => r.row = RowOf(r.key.acct)
               /\ ~ r.key.exists => RejoinReseed
               /\ r.recs \in SUBSET Record
               /\ Continues(t, r)
<1> DEFINE a == key.acct
           b == AfterGap(a)
           r == TimedOut(key, w)
<1>1. /\ Sound(a) /\ t = RowOf(a) /\ t.last = a.last /\ t.bal = a.bal /\ t \in BalanceRow
      /\ a.last \in Nat /\ a.bal \in Int /\ a.last <= MaxSeq /\ a \in Account
  BY RowOfFact, SoundPieces
<1>2. key = [acct |-> a, exists |-> key.exists, alarm |-> key.alarm]
      /\ key.exists \in BOOLEAN /\ key.alarm \in Nat \cup {NoAlarm}
  BY DEF Key
<1>3. CASE a.buf # {}
  <2> DEFINE alarm == Alarm(b, w, GapDefer)
  <2>1. /\ r.ran /\ r.row = RowOf(b) /\ r.recs = {Rec("SEQUENCE_GAP", a.last + 1)}
        /\ r.applied = a.buf \ b.buf
        /\ r.key = [key EXCEPT !.acct = b, !.alarm = alarm]
    BY <1>3 DEF TimedOut, Result
  <2>2. r.recs \in SUBSET Record
    BY <1>1, <2>1 DEF Rec, Record, Kinds
  <2>3. Sound(b) /\ RowOf(b) \in BalanceRow /\ RowOf(b).last = b.last /\ RowOf(b).bal = b.bal
        /\ b \in Account /\ Continues(t, r)
    <3>1. CASE Policy = "HOLD"
      <4>1. b = a
        BY <3>1 DEF AfterGap
      <4> QED
        BY <1>1, <2>1, <4>1 DEF Continues
    <3>2. CASE Policy # "HOLD"
      <4> DEFINE h == Min(a.buf)
      <4>1. /\ Sound(b) /\ h \in a.buf /\ a.last + 1 < h /\ h <= b.last /\ b.last <= MaxSeq
            /\ b.bal = a.bal + Total[h..b.last] /\ a.buf \ b.buf = h..b.last
        BY <1>1, <1>3, <3>2, GapFact
      <4>2. RowOf(b) \in BalanceRow /\ RowOf(b).last = b.last /\ RowOf(b).bal = b.bal
        BY <4>1, RowOfFact
      <4>3. h \in Nat /\ b.last \in Nat /\ b \in Account
        BY <1>1, <4>1, SoundPieces DEF Seqs
      <4> HIDE DEF h, b, r
      <4>4. /\ r.row.last = b.last /\ r.row.bal = b.bal /\ r.applied = h..b.last
            /\ t.last < b.last /\ t.last + 1 <= h /\ h <= b.last
        BY <1>1, <2>1, <4>1, <4>2, <4>3
      <4>5. r.applied \in SUBSET ((t.last + 1)..r.row.last) /\ r.row.last \in r.applied
        BY <1>1, <4>3, <4>4
      <4>6. r.row.bal = t.bal + Total[r.applied]
        BY <1>1, <4>1, <4>4
      <4>8. r.row.last # t.last
        BY <1>1, <4>3, <4>4
      <4>9. r.row \in BalanceRow
        BY <2>1, <4>2
      <4>7. Continues(t, r)
        BY <1>1, <3>2, <4>1, <4>4, <4>5, <4>6, <4>8, <4>9 DEF Continues
      <4> QED
        BY <4>1, <4>2, <4>3, <4>7
    <3> QED
      BY <3>1, <3>2
  <2>4. alarm \in Nat \cup {NoAlarm}
    <3>1. GapDefer \in Nat
      BY BoundsAssumption DEF GapDefer
    <3> QED
      BY <2>3, <3>1, AlarmFact
  <2> HIDE DEF b, r, alarm
  <2>5. r.key = [acct |-> b, exists |-> key.exists, alarm |-> alarm]
    BY <1>2, <2>1
  <2> QED
    BY <1>2, <2>1, <2>2, <2>3, <2>4, <2>5 DEF Key, r
<1>4. CASE a.buf = {} /\ Idle(a, w)
  <2>1. /\ r.ran /\ r.key = ColdKey /\ r.row = RowOf(a) /\ r.recs = {Rec("TTL_FLUSH", a.last)}
    BY <1>4 DEF TimedOut, Result
  <2>2. RejoinReseed
    BY <1>4, ReseedAssumption DEF Idle
  <2>3. ColdKey \in Key /\ Sound(ColdKey.acct) /\ ColdKey.exists = FALSE
    BY BoundsAssumption DEF ColdKey, EmptyAccount, Sound, Account, Key
  <2>4. Continues(t, r)
    BY <1>1, <2>1 DEF Continues
  <2>5. r.recs \in SUBSET Record
    BY <1>1, <2>1 DEF Rec, Record, Kinds
  <2> QED
    BY <2>1, <2>2, <2>3, <2>4, <2>5
<1>5. CASE a.buf = {} /\ ~ Idle(a, w)
  <2> DEFINE alarm == Alarm(a, w, 0)
  <2>1. /\ r.ran /\ r.key = [key EXCEPT !.alarm = alarm] /\ r.row = RowOf(a) /\ r.recs = {}
    BY <1>5 DEF TimedOut, Result
  <2>2. alarm \in Nat \cup {NoAlarm}
    BY <1>1, AlarmFact
  <2>3. Continues(t, r)
    BY <1>1, <2>1 DEF Continues
  <2> HIDE DEF r, alarm
  <2>4. r.key = [acct |-> a, exists |-> key.exists, alarm |-> alarm]
    BY <1>2, <2>1
  <2> QED
    BY <1>1, <1>2, <2>1, <2>2, <2>3, <2>4 DEF Key, r
<1> QED
  BY <1>3, <1>4, <1>5

LEMMA InvokeFact ==
    ASSUME NEW key, NEW t, Agree(key, t), NEW rows, Ordered(rows), NEW w \in Nat
    PROVE  LET r == Invoke(key, rows, t, w)
           IN  /\ r.key \in Key /\ Sound(r.key.acct) /\ r.recs \in SUBSET Record
               /\ ~ r.ran => r.key = key /\ r.recs = {}
               /\ r.ran => /\ Continues(t, r)
                           /\ r.key.exists => r.row = RowOf(r.key.acct)
                           /\ ~ r.key.exists => RejoinReseed
<1>1. CASE Reached(rows, w)
  <2>1. Invoke(key, rows, t, w) = WithRows(key, rows, t, w)
    BY <1>1 DEF Invoke
  <2> DEFINE r   == WithRows(key, rows, t, w)
             run == Runs(FreshRun(Opened(key, t)), rows, w)[Len(rows)]
  <2>2. /\ r.ran /\ r.row = RowOf(run.acct) /\ r.recs = run.recs
        /\ r.key = [acct |-> run.acct, exists |-> TRUE, alarm |-> Alarm(run.acct, w, 0)]
        /\ Sound(run.acct)
    BY <2>1, WithRowsFact
  <2>3. r.key \in Key /\ run.recs \in SUBSET Record
    BY WithRowsFact
  <2>4. Continues(t, r)
    BY WithRowsFact
  <2> HIDE DEF r, run
  <2> QED
    BY <2>1, <2>2, <2>3, <2>4 DEF r
<1>2. CASE ~ Reached(rows, w) /\ Expired(key, w)
  <2>1. Invoke(key, rows, t, w) = TimedOut(key, w) /\ key.exists
    BY <1>2 DEF Invoke, Expired
  <2>2. key \in Key /\ Sound(key.acct) /\ t = RowOf(key.acct)
    BY <2>1 DEF Agree
  <2> QED
    BY <2>1, <2>2, TimedOutFact
<1>3. CASE ~ Reached(rows, w) /\ ~ Expired(key, w)
  <2>1. Invoke(key, rows, t, w) = NoResult(key)
    BY <1>3 DEF Invoke
  <2> QED
    BY <2>1 DEF NoResult, Agree
<1> QED
  BY <1>1, <1>2, <1>3

(* The row an attempt leaves in the table.                                 *)
Left(t, r) == IF r.ran THEN Merged(t, r.row) ELSE t

(* Run again over the row it left, an invocation returns the same key and  *)
(* the same row, writes nothing new and leaves at least the same records.  *)
LEMMA InvokeAgain ==
    ASSUME NEW key, NEW t, Agree(key, t), NEW rows, Ordered(rows), NEW w \in Nat
    PROVE  LET r     == Invoke(key, rows, t, w)
               again == Invoke(key, rows, Left(t, r), w)
           IN  /\ again.key = r.key /\ again.row = r.row /\ again.ran = r.ran
               /\ r.recs \subseteq again.recs
               /\ r.ran => Left(t, r) = r.row
               /\ Left(Left(t, r), again) = Left(t, r)
<1> DEFINE r == Invoke(key, rows, t, w)
           u == Left(t, r)
           again == Invoke(key, rows, u, w)
<1>1. r.ran => Merged(t, r.row) = r.row /\ Merged(r.row, r.row) = r.row
  <2> SUFFICES ASSUME r.ran
               PROVE  Merged(t, r.row) = r.row /\ Merged(r.row, r.row) = r.row
    OBVIOUS
  <2>1. Continues(t, r)
    BY InvokeFact
  <2> HIDE DEF r
  <2>2. t \in BalanceRow /\ r.row \in BalanceRow /\ r.row.last \in Nat
    BY <2>1 DEF Agree, Continues, BalanceRow
  <2> QED
    BY <2>1, <2>2, MergedFact DEF Continues
<1>2. r.ran => u = r.row
  BY <1>1 DEF Left
<1>3. ASSUME again.key = r.key, again.row = r.row, again.ran = r.ran
      PROVE  Left(u, again) = u
  <2> HIDE DEF r, u, again
  <2> QED
    BY <1>1, <1>2, <1>3 DEF Left
<1>4. ASSUME again = r
      PROVE  /\ again.key = r.key /\ again.row = r.row /\ again.ran = r.ran
             /\ r.recs \subseteq again.recs
  BY <1>4
<1>5. CASE key.exists \/ ~ RejoinReseed \/ ~ Reached(rows, w)
  <2>1. Start(key, t) = Start(key, u) \/ ~ Reached(rows, w)
    BY <1>5 DEF Start, Reseeded
  <2>2. again = r
    BY <2>1 DEF Invoke, WithRows
  <2> HIDE DEF r, u, again
  <2> QED
    BY <1>2, <1>3, <1>4, <2>2 DEF r, u, again
<1>6. CASE ~ key.exists /\ RejoinReseed /\ Reached(rows, w)
  <2> DEFINE a == Opened(key, t)
             n == Len(rows)
             run == Runs(FreshRun(a), rows, w)[n]
             c == Ahead(a, run.acct)
             rerun == Runs(FreshRun(c), rows, w)[n]
  <2>1. r = WithRows(key, rows, t, w) /\ again = WithRows(key, rows, u, w)
    BY <1>6 DEF Invoke
  <2>2. /\ r.ran /\ r.row = RowOf(run.acct) /\ r.recs = run.recs
        /\ r.key = [acct |-> run.acct, exists |-> TRUE, alarm |-> Alarm(run.acct, w, 0)]
        /\ Sound(run.acct)
    BY <2>1, WithRowsFact
  <2>3. /\ Sound(a) /\ a.buf = {} /\ a.seen = 0 /\ a.last = t.last /\ a.bal = t.bal
    BY <1>6, OpenedFact
  <2>4. Applies(a, run)
    <3>1. rows \in Seq(Seqs) /\ n \in 0..n
      BY DEF Ordered
    <3> HIDE DEF a
    <3> QED
      BY <2>3, <3>1, RunsApply
  <2>5. rerun.acct = run.acct /\ run.recs \subseteq rerun.recs
    <3> HIDE DEF a
    <3> QED
      BY <2>3, ReplayFact
  <2> HIDE DEF a, run, rerun, r, u, again
  <2>6. u = RowOf(run.acct) /\ u.last = run.acct.last /\ u.bal = run.acct.bal
        /\ u.last \in Nat /\ u.bal \in Int
    BY <1>2, <2>2, RowOfFact, SoundPieces
  <2>7. Reseeded(u.last, u.bal) = c
    <3>1. c = [last |-> u.last, bal |-> u.bal, buf |-> {}, seen |-> 0]
      BY <2>3, <2>6 DEF Ahead
    <3> HIDE DEF c
    <3>2. CASE u.last > 0
      <4>1. Reseeded(u.last, u.bal) = [EmptyAccount EXCEPT !.last = u.last, !.bal = u.bal]
        BY <1>6, <3>2 DEF Reseeded
      <4> QED
        BY <3>1, <4>1 DEF EmptyAccount
    <3>3. CASE u.last = 0
      <4>1. t.last = 0 /\ t.bal = 0 /\ t.last \in Nat
        BY <2>3, <2>4, <2>6, <3>3 DEF Applies, Agree, BalanceRow
      <4>2. (t.last + 1)..u.last = {}
        BY <3>3, <4>1
      <4>3. u.bal = 0
        BY <2>3, <2>4, <2>6, <4>1, <4>2, TotalAssumption DEF Applies
      <4> QED
        BY <3>1, <3>3, <4>3 DEF Reseeded, EmptyAccount
    <3> QED
      BY <2>6, <3>2, <3>3
  <2>8. Start(key, u) = FreshRun(c)
    BY <1>6, <2>7 DEF Start, FreshRun
  <2>9. /\ again.ran /\ again.row = RowOf(rerun.acct) /\ again.recs = rerun.recs
        /\ again.key = [acct |-> rerun.acct, exists |-> TRUE, alarm |-> Alarm(rerun.acct, w, 0)]
    BY <2>1, <2>8 DEF WithRows, Result, rerun
  <2>11. r.ran = TRUE /\ again.ran = TRUE
    BY <2>1 DEF WithRows, Result
  <2>10. /\ again.key = r.key /\ again.row = r.row /\ again.ran = r.ran
         /\ r.recs \subseteq again.recs
    BY <2>2, <2>5, <2>9, <2>11
  <2> QED
    BY <1>2, <1>3, <2>10 DEF r, u, again
<1> QED
  BY <1>5, <1>6 DEF Agree, Key

(* What the batch leaves of a key and of its row agrees again.             *)
LEMMA InvokeAgrees ==
    ASSUME NEW key, NEW t, Agree(key, t), NEW rows, Ordered(rows), NEW w \in Nat
    PROVE  LET r == Invoke(key, rows, t, w)
           IN  Agree(r.key, Left(t, r))
<1> DEFINE r == Invoke(key, rows, t, w)
           u == Left(t, r)
<1>1. /\ r.key \in Key /\ Sound(r.key.acct)
      /\ ~ r.ran => r.key = key
      /\ r.ran => /\ Continues(t, r)
                  /\ r.key.exists => r.row = RowOf(r.key.acct)
                  /\ ~ r.key.exists => RejoinReseed
  BY InvokeFact
<1>2. r.ran => u = r.row
  BY InvokeAgain
<1>3. ~ r.ran => u = t
  BY DEF Left
<1> HIDE DEF r, u
<1>4. ASSUME r.ran
      PROVE  Agree(r.key, u)
  <2>1. /\ u \in BalanceRow /\ u.last <= MaxSeq /\ t.last <= u.last
        /\ u.last = t.last => u.bal = t.bal
    BY <1>1, <1>2, <1>4 DEF Continues
  <2>2. u.last = 0 => u.bal = 0
    BY <2>1 DEF Agree, BalanceRow
  <2> QED
    BY <1>1, <1>2, <1>4, <2>1, <2>2 DEF Agree
<1>5. ASSUME ~ r.ran
      PROVE  Agree(r.key, u)
  BY <1>1, <1>3, <1>5
<1> QED
  BY <1>4, <1>5 DEF r, u

(***************************************************************************)
(* Copies of a record in a sequence, and the rows sorted out of a batch    *)
(***************************************************************************)

Places(q, x) == {i \in DOMAIN q : q[i] = x}

Copies(q, x) == Cardinality(Places(q, x))

LEMMA PlacesFinite ==
    ASSUME NEW S, NEW q \in Seq(S), NEW x
    PROVE  /\ IsFiniteSet(Places(q, x)) /\ Copies(q, x) \in Nat
           /\ Copies(q, x) = 0 <=> x \notin ToSet(q)
<1>1. Len(q) \in Nat /\ DOMAIN q = 1..Len(q)
  OBVIOUS
<1>2. IsFiniteSet(1..Len(q))
  BY <1>1, FS_Interval
<1>3. Places(q, x) \in SUBSET (1..Len(q))
  BY <1>1 DEF Places
<1>4. IsFiniteSet(Places(q, x))
  BY <1>2, <1>3, FS_Subset
<1>5. Places(q, x) = {} <=> x \notin ToSet(q)
  BY DEF Places, ToSet
<1> QED
  BY <1>4, <1>5, FS_CardinalityType, FS_EmptySet DEF Copies

(* Sorting keeps every row and adds none.                                  *)
LEMMA SortedCopies ==
    ASSUME NEW seqs \in Seq(Nat), NEW s \in Seqs
    PROVE  /\ InSeqOrder(seqs) \in Seq(Seqs)
           /\ Copies(InSeqOrder(seqs), s) = Copies(seqs, s)
<1> DEFINE upto(t) == {j \in DOMAIN seqs : seqs[j] \in 1..t}
           c(t) == Cardinality(upto(t))
           n == c(MaxSeq)
           least(k) == {t \in Seqs : c(t) >= k}
           rows == [k \in 1..n |-> Min(least(k))]
<1>1. InSeqOrder(seqs) = rows
  BY DEF InSeqOrder
<1>2. /\ MaxSeq \in Nat \ {0} /\ MaxSeq \in Seqs /\ s \in Nat /\ 1 <= s /\ s <= MaxSeq
      /\ s - 1 \in 0..MaxSeq /\ s \in 0..MaxSeq /\ MaxSeq \in 0..MaxSeq
  BY BoundsAssumption DEF Seqs
<1>3. Len(seqs) \in Nat /\ DOMAIN seqs = 1..Len(seqs) /\ \A j \in DOMAIN seqs : seqs[j] \in Nat
  OBVIOUS
<1>4. \A t \in 0..MaxSeq : IsFiniteSet(upto(t)) /\ c(t) \in Nat
  <2> TAKE t \in 0..MaxSeq
  <2>1. IsFiniteSet(1..Len(seqs))
    BY <1>3, FS_Interval
  <2>2. upto(t) \in SUBSET (1..Len(seqs))
    BY <1>3
  <2>3. IsFiniteSet(upto(t))
    <3> HIDE DEF upto
    <3> QED
      BY <2>1, <2>2, FS_Subset
  <2> QED
    BY <2>3, FS_CardinalityType
<1>5. \A t, u \in 0..MaxSeq : t <= u => c(t) <= c(u)
  <2> TAKE t, u \in 0..MaxSeq
  <2> HAVE t <= u
  <2>1. upto(t) \in SUBSET upto(u)
    BY <1>2, <1>3
  <2> HIDE DEF upto
  <2> QED
    BY <1>4, <2>1, FS_Subset
<1>6. upto(s) = upto(s - 1) \cup Places(seqs, s) /\ upto(s - 1) \cap Places(seqs, s) = {}
  BY <1>2, <1>3 DEF Places
<1>7. IsFiniteSet(Places(seqs, s)) /\ Copies(seqs, s) \in Nat
  BY PlacesFinite
<1>8. c(s) = c(s - 1) + Copies(seqs, s)
  <2>1. c(s) = Cardinality(upto(s - 1)) + Cardinality(Places(seqs, s))
               - Cardinality(upto(s - 1) \cap Places(seqs, s))
    <3> HIDE DEF upto
    <3> QED
      BY <1>2, <1>4, <1>6, <1>7, FS_Union
  <2>2. Cardinality(upto(s - 1) \cap Places(seqs, s)) = 0
    BY <1>6, FS_EmptySet, Zenon
  <2>3. c(s - 1) \in Nat /\ Cardinality(Places(seqs, s)) \in Nat
    BY <1>2, <1>4, <1>7 DEF Copies
  <2> HIDE DEF upto
  <2> QED
    BY <2>1, <2>2, <2>3 DEF Copies
<1> HIDE DEF c
<1>9. ASSUME NEW k \in 1..n
      PROVE  rows[k] \in least(k) /\ \A t \in least(k) : rows[k] <= t
  <2>1. least(k) \in SUBSET Nat
    BY DEF Seqs
  <2>2. MaxSeq \in least(k)
    BY <1>2, <1>4
  <2> HIDE DEF least
  <2> QED
    BY <2>1, <2>2, MinFact
<1>10. ASSUME NEW k \in 1..n
       PROVE  rows[k] = s <=> k \in (c(s - 1) + 1)..c(s)
  <2>1. /\ rows[k] \in Seqs /\ c(rows[k]) >= k
        /\ \A t \in Seqs : c(t) >= k => rows[k] <= t
    BY <1>9
  <2>2. k \in Nat /\ 1 <= k /\ c(s) \in Nat /\ c(s - 1) \in Nat /\ rows[k] \in 0..MaxSeq
    <3>1. n \in Nat /\ c(s) \in Nat /\ c(s - 1) \in Nat
      BY <1>2, <1>4
    <3>2. rows[k] \in 0..MaxSeq
      <4> HIDE DEF rows
      <4> QED
        BY <1>2, <2>1 DEF Seqs
    <3> HIDE DEF n, rows
    <3> QED
      BY <3>1, <3>2
  <2>3. ASSUME rows[k] = s, k <= c(s - 1)
        PROVE  FALSE
    <3>1. CASE s - 1 \in Seqs
      BY <1>2, <2>1, <2>2, <2>3, <3>1
    <3>2. CASE s = 1
      <4>1. upto(0) = {}
        OBVIOUS
      <4>2. Cardinality(upto(0)) = 0
        BY <4>1, FS_EmptySet, Zenon
      <4>3. c(0) = 0
        BY <4>2 DEF c
      <4>4. s - 1 = 0
        BY <3>2
      <4> QED
        BY <2>2, <2>3, <4>3, <4>4
    <3> QED
      BY <1>2, <3>1, <3>2 DEF Seqs
  <2>4. ASSUME c(s - 1) < k, k <= c(s)
        PROVE  rows[k] = s
    <3>1. rows[k] <= s
      BY <2>1, <2>2, <2>4
    <3>2. ASSUME rows[k] <= s - 1
          PROVE  FALSE
      <4>1. c(rows[k]) <= c(s - 1)
        BY <1>2, <1>5, <2>2, <3>2
      <4>2. c(rows[k]) \in Nat
        BY <1>4, <2>2
      <4> QED
        BY <2>1, <2>2, <2>4, <4>1, <4>2
    <3> QED
      BY <1>2, <2>2, <3>1, <3>2
  <2> QED
    BY <2>1, <2>2, <2>3, <2>4
<1>11. n \in Nat /\ c(s - 1) \in Nat /\ c(s) \in Nat /\ c(s) <= n
  BY <1>2, <1>4, <1>5
<1>12. \A k \in 1..n : rows[k] \in Seqs
  BY <1>9
<1>13. rows \in Seq(Seqs) /\ DOMAIN rows = 1..n
  <2> HIDE DEF rows, n
  <2>1. rows \in [1..n -> Seqs]
    BY <1>12 DEF rows
  <2> QED
    BY <1>11, <2>1
<1>14. Places(rows, s) = (c(s - 1) + 1)..c(s)
  <2>1. (c(s - 1) + 1)..c(s) \subseteq 1..n
    BY <1>11
  <2>2. Places(rows, s) = {k \in 1..n : rows[k] = s}
    BY <1>13 DEF Places
  <2> HIDE DEF rows, n
  <2> QED
    BY <1>10, <2>1, <2>2
<1>15. Cardinality((c(s - 1) + 1)..c(s)) = c(s) - c(s - 1)
  <2> DEFINE l == c(s - 1) + 1
             h == c(s)
  <2>1. l \in Int /\ h \in Int
    BY <1>11
  <2>2. Cardinality(l..h) = IF l > h THEN 0 ELSE h - l + 1
    <3> HIDE DEF l, h
    <3> QED
      BY <2>1, FS_Interval
  <2> QED
    BY <1>7, <1>8, <1>11, <2>2
<1> HIDE DEF rows
<1> QED
  BY <1>1, <1>7, <1>8, <1>11, <1>13, <1>14, <1>15 DEF Copies

(***************************************************************************)
(* Any rows over any row of the table                                      *)
(***************************************************************************)

(* What is sorted by seq_no is in seq_no order.                            *)
LEMMA InSeqOrderFact ==
    ASSUME NEW seqs \in Seq(Nat)
    PROVE  Ordered(InSeqOrder(seqs))
<1> DEFINE upto(s) == {j \in DOMAIN seqs : seqs[j] \in 1..s}
           n == Cardinality(upto(MaxSeq))
           least(k) == {s \in Seqs : Cardinality(upto(s)) >= k}
           rows == [k \in 1..n |-> Min(least(k))]
<1>1. InSeqOrder(seqs) = rows
  BY DEF InSeqOrder
<1>2. MaxSeq \in Nat \ {0} /\ MaxSeq \in Seqs
  BY BoundsAssumption DEF Seqs
<1>3. \A s \in Seqs : Cardinality(upto(s)) \in Nat
  <2> TAKE s \in Seqs
  <2>1. upto(s) \subseteq 1..Len(seqs) /\ Len(seqs) \in Nat
    OBVIOUS
  <2>2. IsFiniteSet(1..Len(seqs))
    BY <2>1, FS_Interval
  <2> HIDE DEF upto
  <2> QED
    BY <2>1, <2>2, FS_Subset, FS_CardinalityType
<1>4. \A k \in 1..n : rows[k] \in least(k) /\ \A s \in least(k) : rows[k] <= s
  <2> TAKE k \in 1..n
  <2>1. n \in Nat
    BY <1>2, <1>3
  <2>2. least(k) \in SUBSET Nat /\ MaxSeq \in least(k)
    <3> HIDE DEF upto
    <3> QED
      BY <1>2, <2>1 DEF Seqs
  <2> HIDE DEF least
  <2>3. Min(least(k)) \in least(k) /\ \A s \in least(k) : Min(least(k)) <= s
    BY <2>2, MinFact
  <2> QED
    BY <2>3
<1>5. n \in Nat
  BY <1>2, <1>3
<1>6. \A i, j \in 1..n : i < j => least(j) \subseteq least(i)
  <2> HIDE DEF upto
  <2> QED
    BY <1>3, <1>5
<1>7. rows \in Seq(Seqs) /\ DOMAIN rows = 1..n
  <2>1. \A k \in 1..n : rows[k] \in Seqs
    <3> HIDE DEF rows, upto
    <3> QED
      BY <1>4
  <2>2. rows \in [1..n -> Seqs] /\ DOMAIN rows = 1..n
    BY <2>1
  <2> HIDE DEF rows, n
  <2> QED
    BY <1>5, <2>2
<1> HIDE DEF rows, n, least
<1> QED
  BY <1>1, <1>4, <1>6, <1>7 DEF Ordered

(* A record of an event: a duplicate or an eviction.                       *)
OfRow(q) == q.kind \in {"DUP_DROPPED", "BUFFER_OVERFLOW"} /\ q.seq \in Seqs

(* An invocation over a row it may not agree with, as after a restore,     *)
(* still returns a key, a row and records that are well formed.            *)
Formed(key, r) ==
    /\ r.key \in Key /\ Sound(r.key.acct)
    /\ r.ran => r.row \in BalanceRow /\ r.row.last <= MaxSeq
    /\ r.applied \in SUBSET Seqs /\ r.recs \in SUBSET Record
    /\ \A q \in r.recs : \/ OfRow(q)
                         \/ q.kind = "TTL_FLUSH"
                         \/ q.kind = "SEQUENCE_GAP" /\ key.acct.buf # {}

(* The hole an account waits behind.                                       *)
LEMMA HoleFact ==
    ASSUME NEW a, Sound(a), a.buf # {}
    PROVE  Hole(a) \in SUBSET Seqs
<1>1. a.buf \in SUBSET Seqs /\ a.last \in Nat /\ MaxSeq \in Nat
  BY SoundPieces
<1>2. Min(a.buf) \in a.buf
  <2>1. a.buf \in SUBSET Nat
    BY <1>1 DEF Seqs
  <2> QED
    BY <2>1, MinFact
<1> QED
  BY <1>1, <1>2 DEF Hole, Seqs

(* A row leaves records of events.                                         *)
LEMMA RowRecords ==
    ASSUME NEW run \in Run, Sound(run.acct), NEW s \in Seqs
    PROVE  \A q \in WithRow(run, s).recs : q \in run.recs \/ OfRow(q)
<1> DEFINE a == run.acct
           next == WithRow(run, s)
<1>1. CASE InOrder(a, s)
  BY <1>1, InOrderRow
<1>2. CASE ~ InOrder(a, s)
  <2>1. next.recs = run.recs \cup Aside(a, s).recs
    BY <1>2, AsideRow
  <2>2. \A q \in Aside(a, s).recs : OfRow(q)
    <3>1. CASE Rebuffered(a, s) \/ Replayed(a, s)
      BY <3>1 DEF Aside, Rec, OfRow
    <3>2. CASE ~ (Rebuffered(a, s) \/ Replayed(a, s)) /\ Overflows(a, s)
      <4>1. Victim(a, s) \in Seqs
        BY <3>2, OverflowFact DEF Overflows
      <4> QED
        BY <3>2, <4>1 DEF Aside, Rec, OfRow
    <3>3. CASE ~ (Rebuffered(a, s) \/ Replayed(a, s) \/ Overflows(a, s))
      BY <3>3 DEF Aside
    <3> QED
      BY <3>1, <3>2, <3>3
  <2> QED
    BY <2>1, <2>2
<1> QED
  BY <1>1, <1>2

LEMMA RunsRecords ==
    ASSUME NEW a, Sound(a), NEW rows \in Seq(Seqs), NEW w,
           NEW i \in 0..Len(rows)
    PROVE  \A q \in Runs(FreshRun(a), rows, w)[i].recs : OfRow(q)
<1> DEFINE run == Runs(FreshRun(a), rows, w)
           S == {n \in Nat : n <= Len(rows) => \A q \in run[n].recs : OfRow(q)}
<1>1. /\ run[0] = FreshRun(a)
      /\ \A n \in 1..Len(rows) :
            run[n] = IF OnTime(rows[n], w) THEN WithRow(run[n - 1], rows[n]) ELSE run[n - 1]
  BY RunsFact
<1>2. Len(rows) \in Nat /\ \A n \in 1..Len(rows) : rows[n] \in Seqs
  OBVIOUS
<1>3. \A n \in 0..Len(rows) : run[n] \in Run /\ Sound(run[n].acct)
  BY RunsApply DEF Applies
<1> HIDE DEF run
<1>4. 0 \in S
  BY <1>1 DEF FreshRun
<1>5. ASSUME NEW n \in S
      PROVE  n + 1 \in S
  <2> SUFFICES ASSUME n + 1 <= Len(rows)
               PROVE  \A q \in run[n + 1].recs : OfRow(q)
    OBVIOUS
  <2>1. n + 1 \in 1..Len(rows) /\ n \in 0..Len(rows) /\ (n + 1) - 1 = n
    BY <1>2
  <2>2. \A q \in run[n].recs : OfRow(q)
    BY <1>2
  <2>3. \/ run[n + 1] = WithRow(run[n], rows[n + 1])
        \/ run[n + 1] = run[n]
    BY <1>1, <2>1
  <2>4. \A q \in WithRow(run[n], rows[n + 1]).recs : q \in run[n].recs \/ OfRow(q)
    BY <1>2, <1>3, <2>1, RowRecords
  <2> QED
    BY <2>2, <2>3, <2>4
<1>6. S = Nat
  <2> HIDE DEF S
  <2>1. S \in SUBSET Nat
    BY DEF S
  <2> QED
    BY <1>4, <1>5, <2>1, Induction
<1> QED
  BY <1>2, <1>6 DEF run

LEMMA FormedFact ==
    ASSUME NEW key \in Key, Sound(key.acct), NEW t \in BalanceRow, t.last <= MaxSeq,
           NEW rows \in Seq(Seqs), NEW w \in Nat
    PROVE  Formed(key, Invoke(key, rows, t, w))
<1> DEFINE r == Invoke(key, rows, t, w)
<1>1. CASE Reached(rows, w)
  <2> DEFINE a   == Opened(key, t)
             run == Runs(FreshRun(a), rows, w)[Len(rows)]
  <2>1. Sound(a)
    <3>1. CASE key.exists
      BY <3>1 DEF Opened
    <3>2. CASE ~ key.exists
      <4>1. t.last \in Nat /\ t.bal \in Int /\ MaxSeq \in Nat
        BY BoundsAssumption DEF BalanceRow
      <4>2. a = Reseeded(t.last, t.bal)
        BY <3>2 DEF Opened
      <4>3. Reseeded(t.last, t.bal) \in {EmptyAccount, [last |-> t.last, bal |-> t.bal,
                                                        buf |-> {}, seen |-> 0]}
        BY DEF Reseeded, EmptyAccount
      <4> QED
        BY <4>1, <4>2, <4>3 DEF EmptyAccount, Sound, Account
    <3> QED
      BY <3>1, <3>2
  <2>2. Start(key, t) = FreshRun(a)
    BY DEF Start, FreshRun, Opened
  <2>3. /\ r.ran /\ r.row = RowOf(run.acct) /\ r.recs = run.recs /\ r.applied = run.applied
        /\ r.key = [acct |-> run.acct, exists |-> TRUE, alarm |-> Alarm(run.acct, w, 0)]
    BY <1>1, <2>2 DEF Invoke, WithRows, Result
  <2>4. Len(rows) \in 0..Len(rows)
    OBVIOUS
  <2> HIDE DEF a, r
  <2>5. run \in Run /\ Sound(run.acct) /\ \A q \in run.recs : OfRow(q)
    BY <2>1, <2>4, RunsApply, RunsRecords DEF Applies
  <2> HIDE DEF run
  <2>6. /\ RowOf(run.acct) \in BalanceRow /\ RowOf(run.acct).last = run.acct.last
        /\ run.acct.last <= MaxSeq /\ run.acct \in Account
        /\ Alarm(run.acct, w, 0) \in Nat \cup {NoAlarm}
    BY <2>5, RowOfFact, AlarmFact DEF Sound
  <2>7. r.key \in Key /\ r.key.acct = run.acct
    BY <2>3, <2>6 DEF Key
  <2> QED
    BY <2>3, <2>5, <2>6, <2>7 DEF Formed, Run, r
<1>2. CASE ~ Reached(rows, w) /\ Expired(key, w)
  <2> DEFINE u == RowOf(key.acct)
  <2>1. r = TimedOut(key, w) /\ key.exists
    BY <1>2 DEF Invoke, Expired
  <2> HIDE DEF r
  <2>2. /\ r.key \in Key /\ Sound(r.key.acct) /\ r.recs \in SUBSET Record
        /\ Continues(u, r)
    BY <2>1, TimedOutFact
  <2>3. r.row \in BalanceRow /\ r.row.last <= MaxSeq
    BY <2>2 DEF Continues
  <2>4. r.applied \in SUBSET Seqs
    BY <2>1 DEF TimedOut, Result, Key, Account
  <2>5. \A q \in r.recs : \/ q.kind = "TTL_FLUSH"
                          \/ q.kind = "SEQUENCE_GAP" /\ key.acct.buf # {}
    BY <2>1 DEF TimedOut, Result, Rec
  <2> QED
    BY <2>2, <2>3, <2>4, <2>5 DEF Formed, r
<1>3. CASE ~ Reached(rows, w) /\ ~ Expired(key, w)
  <2>1. r = NoResult(key)
    BY <1>3 DEF Invoke
  <2> QED
    BY <2>1 DEF NoResult, Formed
<1> QED
  BY <1>1, <1>2, <1>3
=============================================================================
