--------------------------- MODULE HarnessProofs ---------------------------
(***************************************************************************)
(* Proofs about Harness, for every value of its constants.                 *)
(***************************************************************************)
EXTENDS Harness, BatchProofs, SequenceTheorems

(***************************************************************************)
(* Copies of a record in a sequence                                        *)
(***************************************************************************)

Bit(p) == IF p THEN 1 ELSE 0

(* What is behind another sequence is counted on its own.                  *)
LEMMA CopiesConcat ==
    ASSUME NEW S, NEW q \in Seq(S), NEW r \in Seq(S), NEW x
    PROVE  q \o r \in Seq(S) /\ Copies(q \o r, x) = Copies(q, x) + Copies(r, x)
<1> DEFINE m == Len(q)
           n == Len(r)
           shifted == {i \in (m + 1)..(m + n) : r[i - m] = x}
           f == [i \in Places(r, x) |-> i + m]
<1>1. /\ m \in Nat /\ n \in Nat /\ DOMAIN q = 1..m /\ DOMAIN r = 1..n
      /\ q \o r \in Seq(S) /\ Len(q \o r) = m + n /\ DOMAIN (q \o r) = 1..(m + n)
      /\ \A i \in 1..(m + n) : (q \o r)[i] = IF i <= m THEN q[i] ELSE r[i - m]
  BY LenProperties, ConcatProperties
<1>2. IsFiniteSet(Places(q, x)) /\ IsFiniteSet(Places(r, x))
  BY PlacesFinite
<1> HIDE DEF m, n
<1>3. Places(q \o r, x) = Places(q, x) \cup shifted
  <2>1. ASSUME NEW i \in 1..(m + n)
        PROVE  (q \o r)[i] = x <=> i \in Places(q, x) \cup shifted
    BY <1>1 DEF Places
  <2>2. Places(q, x) \cup shifted \subseteq 1..(m + n)
    BY <1>1 DEF Places
  <2>3. Places(q \o r, x) = {i \in 1..(m + n) : (q \o r)[i] = x}
    BY <1>1 DEF Places
  <2> HIDE DEF shifted
  <2> QED
    BY <2>1, <2>2, <2>3
<1>4. Places(q, x) \cap shifted = {}
  BY <1>1 DEF Places
<1>5. f \in Bijection(Places(r, x), shifted)
  <2>1. \A i \in Places(r, x) : i \in 1..n /\ r[i] = x /\ (i + m) - m = i
    BY <1>1 DEF Places
  <2>2. f \in [Places(r, x) -> shifted]
    BY <1>1, <2>1
  <2>3. \A i, j \in Places(r, x) : f[i] = f[j] => i = j
    BY <1>1, <2>1
  <2>4. ASSUME NEW k \in shifted
        PROVE  \E i \in Places(r, x) : f[i] = k
    <3>1. k - m \in Places(r, x) /\ (k - m) + m = k
      BY <1>1 DEF Places
    <3> QED
      BY <3>1
  <2> HIDE DEF f, shifted
  <2> QED
    BY <2>2, <2>3, <2>4 DEF Bijection, Injection, Surjection, IsInjective
<1>6. IsFiniteSet(shifted) /\ Cardinality(shifted) = Cardinality(Places(r, x))
  <2> HIDE DEF f, shifted
  <2> QED
    BY <1>2, <1>5, FS_Bijection DEF ExistsBijection
<1>7. Cardinality({}) = 0 /\ Cardinality(Places(q, x)) \in Nat /\ Cardinality(Places(r, x)) \in Nat
  BY <1>2, FS_EmptySet, FS_CardinalityType
<1>8. Cardinality(Places(q, x) \cup shifted) = Cardinality(Places(q, x)) + Cardinality(shifted)
  <2>1. Cardinality(Places(q, x) \cup shifted) =
           Cardinality(Places(q, x)) + Cardinality(shifted) - Cardinality(Places(q, x) \cap shifted)
    <3> HIDE DEF shifted
    <3> QED
      BY <1>2, <1>6, FS_Union
  <2>2. Cardinality(Places(q, x) \cap shifted) = 0
    BY <1>4, <1>7, Zenon
  <2> HIDE DEF shifted
  <2> QED
    BY <1>6, <1>7, <2>1, <2>2
<1> HIDE DEF shifted, f
<1> QED
  BY <1>1, <1>3, <1>6, <1>7, <1>8 DEF Copies

LEMMA CopiesOne ==
    ASSUME NEW S, NEW y \in S, NEW x
    PROVE  <<y>> \in Seq(S) /\ Copies(<<y>>, x) = Bit(x = y)
<1>1. Places(<<y>>, x) = IF x = y THEN {1} ELSE {}
  BY DEF Places
<1> QED
  BY <1>1, FS_Singleton, FS_EmptySet DEF Copies, Bit

LEMMA CopiesNone ==
    ASSUME NEW x
    PROVE  Copies(<<>>, x) = 0
<1>1. Places(<<>>, x) = {}
  BY DEF Places
<1> QED
  BY <1>1, FS_EmptySet DEF Copies

LEMMA CopiesAppend ==
    ASSUME NEW S, NEW q \in Seq(S), NEW y \in S, NEW x
    PROVE  Append(q, y) \in Seq(S) /\ Copies(Append(q, y), x) = Copies(q, x) + Bit(x = y)
<1>1. Append(q, y) = q \o <<y>>
  OBVIOUS
<1>2. <<y>> \in Seq(S) /\ Copies(<<y>>, x) = Bit(x = y)
  BY CopiesOne
<1> DEFINE one == <<y>>
<1>3. q \o one \in Seq(S) /\ Copies(q \o one, x) = Copies(q, x) + Copies(one, x)
  <2>1. one \in Seq(S)
    BY <1>2
  <2> HIDE DEF one
  <2> QED
    BY <2>1, CopiesConcat
<1> QED
  BY <1>1, <1>2, <1>3, Zenon

LEMMA CopiesTail ==
    ASSUME NEW S, NEW q \in Seq(S), q # <<>>, NEW x
    PROVE  /\ Head(q) \in S /\ Tail(q) \in Seq(S)
           /\ Copies(q, x) = Copies(Tail(q), x) + Bit(x = Head(q))
<1>1. Head(q) \in S /\ Tail(q) \in Seq(S) /\ q = <<Head(q)>> \o Tail(q)
  OBVIOUS
<1>2. <<Head(q)>> \in Seq(S) /\ Copies(<<Head(q)>>, x) = Bit(x = Head(q))
  BY <1>1, CopiesOne
<1> DEFINE head == <<Head(q)>>
           rest == Tail(q)
<1>3. Copies(head \o rest, x) = Copies(head, x) + Copies(rest, x)
  <2>1. head \in Seq(S) /\ rest \in Seq(S)
    BY <1>1, <1>2
  <2> HIDE DEF head, rest
  <2> QED
    BY <2>1, CopiesConcat
<1>4. Copies(q, x) = Bit(x = Head(q)) + Copies(Tail(q), x)
  BY <1>1, <1>2, <1>3, Zenon
<1>5. Copies(Tail(q), x) \in Nat /\ Bit(x = Head(q)) \in Nat
  BY <1>1, PlacesFinite DEF Bit
<1> QED
  BY <1>1, <1>4, <1>5

(* A sequence cut in two. *)
LEMMA CopiesCut ==
    ASSUME NEW S, NEW q \in Seq(S), NEW n \in 0..Len(q), NEW x
    PROVE  /\ SubSeq(q, 1, n) \in Seq(S) /\ SubSeq(q, n + 1, Len(q)) \in Seq(S)
           /\ Len(SubSeq(q, 1, n)) = n /\ Len(SubSeq(q, n + 1, Len(q))) = Len(q) - n
           /\ \A i \in 1..n : SubSeq(q, 1, n)[i] = q[i]
           /\ \A i \in 1..(Len(q) - n) : SubSeq(q, n + 1, Len(q))[i] = q[n + i]
           /\ Copies(q, x) = Copies(SubSeq(q, 1, n), x) + Copies(SubSeq(q, n + 1, Len(q)), x)
<1>1. Len(q) \in Nat /\ n \in Nat /\ n <= Len(q) /\ \A i \in 1..Len(q) : q[i] \in S
  BY LenProperties
<1>2. /\ SubSeq(q, 1, n) \in Seq(S) /\ Len(SubSeq(q, 1, n)) = n
      /\ \A i \in 1..n : SubSeq(q, 1, n)[i] = q[i]
  <2>1. /\ SubSeq(q, 1, n) \in Seq(S)
        /\ Len(SubSeq(q, 1, n)) = IF 1 <= n THEN n - 1 + 1 ELSE 0
        /\ \A i \in 1 .. n - 1 + 1 : SubSeq(q, 1, n)[i] = q[1 + i - 1]
    BY <1>1, SubSeqProperties
  <2> QED
    BY <1>1, <2>1
<1>3. /\ SubSeq(q, n + 1, Len(q)) \in Seq(S) /\ Len(SubSeq(q, n + 1, Len(q))) = Len(q) - n
      /\ \A i \in 1..(Len(q) - n) : SubSeq(q, n + 1, Len(q))[i] = q[n + i]
  <2> DEFINE k == n + 1
             l == Len(q)
  <2>0. k \in Int /\ l \in Int /\ \A i \in k..l : q[i] \in S
    BY <1>1
  <2>1. /\ SubSeq(q, k, l) \in Seq(S)
        /\ Len(SubSeq(q, k, l)) = IF k <= l THEN l - k + 1 ELSE 0
        /\ \A i \in 1 .. l - k + 1 : SubSeq(q, k, l)[i] = q[k + i - 1]
    <3> HIDE DEF k, l
    <3> QED
      BY <2>0, SubSeqProperties
  <2>2. \A i \in 1..(l - n) : i \in 1..l - k + 1 /\ k + i - 1 = n + i
    BY <1>1
  <2> QED
    BY <1>1, <2>1, <2>2
<1>4. SubSeq(q, 1, n) \o SubSeq(q, n + 1, Len(q)) = q
  <2>1. 1 \in 1..(Len(q) + 1) /\ n \in (1 - 1)..Len(q) /\ Len(q) \in n..Len(q)
    BY <1>1
  <2>2. SubSeq(q, 1, n) \o SubSeq(q, n + 1, Len(q)) = SubSeq(q, 1, Len(q))
    BY <2>1, ConcatAdjacentSubSeq, Zenon
  <2> QED
    BY <2>2, SubSeqFull, Zenon
<1> DEFINE front == SubSeq(q, 1, n)
           rest == SubSeq(q, n + 1, Len(q))
<1>5. Copies(front \o rest, x) = Copies(front, x) + Copies(rest, x)
  <2>1. front \in Seq(S) /\ rest \in Seq(S)
    BY <1>2, <1>3
  <2> HIDE DEF front, rest
  <2> QED
    BY <2>1, CopiesConcat
<1> QED
  BY <1>2, <1>3, <1>4, <1>5, Zenon

(***************************************************************************)
(* The rows of an invocation, as what becomes of each event                *)
(***************************************************************************)

(* Where the events of an account stand: the position, what was applied,   *)
(* what is held back, what was evicted, what was dropped as a replay.      *)
Standing(done, known, run) ==
    [last |-> run.acct.last,
     app  |-> done \cup run.applied,
     buf  |-> run.acct.buf,
     ovf  |-> known.overflow \cup OfKind(run, "BUFFER_OVERFLOW"),
     dup  |-> known.dup \cup OfKind(run, "DUP_DROPPED")]

Proper(x) ==
    /\ x.last \in 0..MaxSeq
    /\ x.app \subseteq 1..x.last
    /\ x.buf \in SUBSET Seqs /\ x.ovf \in SUBSET Seqs /\ x.dup \in SUBSET Seqs
    /\ \A b \in x.buf : x.last + 1 < b

(* The four things a row does to them.                                     *)
Posts(x, s, y) ==
    /\ s = x.last + 1 /\ s <= y.last
    /\ (s + 1)..y.last \subseteq x.buf /\ y.last + 1 \notin x.buf
    /\ y.app = x.app \cup s..y.last
    /\ y.buf = x.buf \ ((s + 1)..y.last)
    /\ y.ovf = x.ovf /\ y.dup = x.dup

Drops(x, s, y) ==
    /\ s <= x.last \/ s \in x.buf
    /\ y.dup = x.dup \cup {s}
    /\ y.last = x.last /\ y.app = x.app /\ y.buf = x.buf /\ y.ovf = x.ovf

Evicts(x, s, y) ==
    /\ x.last + 1 < s /\ s \notin x.buf /\ Cardinality(x.buf) >= MaxBuffer
    /\ \E v \in x.buf \cup {s} :
          /\ y.buf = (x.buf \cup {s}) \ {v} /\ \A b \in y.buf : v < b
          /\ y.ovf = x.ovf \cup {v}
    /\ y.last = x.last /\ y.app = x.app /\ y.dup = x.dup

Holds(x, s, y) ==
    /\ x.last + 1 < s /\ s \notin x.buf /\ Cardinality(x.buf) < MaxBuffer
    /\ y.buf = x.buf \cup {s}
    /\ y.last = x.last /\ y.app = x.app /\ y.ovf = x.ovf /\ y.dup = x.dup

TakesRow(x, s, y) == Posts(x, s, y) \/ Drops(x, s, y) \/ Evicts(x, s, y) \/ Holds(x, s, y)

LEMMA KindAdds ==
    ASSUME NEW r, NEW q, NEW k, NEW s, q.recs = r.recs \cup {Rec(k, s)}
    PROVE  /\ OfKind(q, k) = OfKind(r, k) \cup {s}
           /\ \A kind : kind # k => OfKind(q, kind) = OfKind(r, kind)
<1>1. Rec(k, s).kind = k /\ Rec(k, s).seq = s
  BY DEF Rec
<1>2. {p \in q.recs : p.kind = k} = {p \in r.recs : p.kind = k} \cup {Rec(k, s)}
  BY <1>1
<1>3. \A kind : kind # k => {p \in q.recs : p.kind = kind} = {p \in r.recs : p.kind = kind}
  BY <1>1
<1>4. OfKind(q, k) = OfKind(r, k) \cup {s}
  BY <1>1, <1>2 DEF OfKind
<1>5. \A kind : kind # k => OfKind(q, kind) = OfKind(r, kind)
  BY <1>3, Zenon DEF OfKind
<1> QED
  BY <1>4, <1>5

LEMMA KindSame ==
    ASSUME NEW r, NEW q, q.recs = r.recs
    PROVE  \A kind : OfKind(q, kind) = OfKind(r, kind)
<1>1. \A kind : {p \in q.recs : p.kind = kind} = {p \in r.recs : p.kind = kind}
  OBVIOUS
<1> QED
  BY <1>1, Zenon DEF OfKind

LEMMA RowTaken ==
    ASSUME NEW run \in Run, Sound(run.acct), NEW s \in Seqs, NEW done, NEW known
    PROVE  TakesRow(Standing(done, known, run), s, Standing(done, known, WithRow(run, s)))
<1> DEFINE a == run.acct
           next == WithRow(run, s)
           x == Standing(done, known, run)
           y == Standing(done, known, next)
<1>1. /\ x.last = a.last /\ x.app = done \cup run.applied /\ x.buf = a.buf
      /\ x.ovf = known.overflow \cup OfKind(run, "BUFFER_OVERFLOW")
      /\ x.dup = known.dup \cup OfKind(run, "DUP_DROPPED")
  BY DEF Standing
<1>2. /\ y.last = next.acct.last /\ y.app = done \cup next.applied /\ y.buf = next.acct.buf
      /\ y.ovf = known.overflow \cup OfKind(next, "BUFFER_OVERFLOW")
      /\ y.dup = known.dup \cup OfKind(next, "DUP_DROPPED")
  BY DEF Standing
<1> HIDE DEF x, y
<1>3. ASSUME InOrder(a, s)
      PROVE  TakesRow(x, s, y)
  <2>1. /\ next.acct = AfterInOrder(a, s) /\ next.recs = run.recs
        /\ next.applied = run.applied \cup s..next.acct.last
    BY <1>3, InOrderRow
  <2>2. /\ s = a.last + 1 /\ s <= next.acct.last
        /\ (s + 1)..next.acct.last \subseteq a.buf /\ next.acct.last + 1 \notin a.buf
        /\ next.acct.buf = a.buf \ ((s + 1)..next.acct.last)
    BY <1>3, <2>1, InOrderFact
  <2>3. \A kind : OfKind(next, kind) = OfKind(run, kind)
    BY <2>1, KindSame
  <2> HIDE DEF next
  <2>4. Posts(x, s, y)
    BY <1>1, <1>2, <2>1, <2>2, <2>3 DEF Posts
  <2> QED
    BY <2>4 DEF TakesRow
<1>4. ASSUME ~ InOrder(a, s)
      PROVE  TakesRow(x, s, y)
  <2>1. /\ next.acct = Aside(a, s).acct /\ next.recs = run.recs \cup Aside(a, s).recs
        /\ next.applied = run.applied
    BY <1>4, AsideRow
  <2>2. Aside(a, s).acct.last = a.last
    BY <1>4, AsideFact
  <2> HIDE DEF next
  <2>3. CASE Rebuffered(a, s) \/ Replayed(a, s)
    <3>1. /\ Aside(a, s).acct = AfterDrop(a, s)
          /\ Aside(a, s).recs = {Rec("DUP_DROPPED", s)}
      BY <2>3 DEF Aside
    <3>2. next.acct.buf = a.buf
      BY <2>1, <3>1, DropFact
    <3>3. next.recs = run.recs \cup {Rec("DUP_DROPPED", s)}
      BY <2>1, <3>1
    <3>4. /\ OfKind(next, "DUP_DROPPED") = OfKind(run, "DUP_DROPPED") \cup {s}
          /\ OfKind(next, "BUFFER_OVERFLOW") = OfKind(run, "BUFFER_OVERFLOW")
      BY <3>3, KindAdds
    <3>5. s <= a.last \/ s \in a.buf
      BY <2>3 DEF Rebuffered, Replayed
    <3>6. Drops(x, s, y)
      BY <1>1, <1>2, <2>1, <2>2, <3>2, <3>4, <3>5 DEF Drops
    <3> QED
      BY <3>6 DEF TakesRow
  <2>4. CASE ~ (Rebuffered(a, s) \/ Replayed(a, s)) /\ Overflows(a, s)
    <3>1. /\ Aside(a, s).acct = AfterOverflow(a, s)
          /\ Aside(a, s).recs = {Rec("BUFFER_OVERFLOW", Victim(a, s))}
      BY <2>4 DEF Aside
    <3>2. Early(a, s) /\ s \notin a.buf /\ Cardinality(a.buf) >= MaxBuffer /\ a.last + 1 < s
      BY <2>4, SoundPieces DEF Overflows, Early, Seqs
    <3>3. PICK v \in a.buf \cup {s} :
             /\ next.recs = run.recs \cup {Rec("BUFFER_OVERFLOW", v)}
             /\ next.acct.buf = (a.buf \cup {s}) \ {v}
             /\ \A b \in next.acct.buf : v < b
      <4>1. /\ Victim(a, s) \in a.buf \cup {s}
            /\ next.acct.buf = (a.buf \cup {s}) \ {Victim(a, s)}
            /\ \A b \in next.acct.buf : Victim(a, s) < b
        BY <2>1, <3>1, <3>2, OverflowFact
      <4>2. next.recs = run.recs \cup {Rec("BUFFER_OVERFLOW", Victim(a, s))}
        BY <2>1, <3>1
      <4> QED
        BY <4>1, <4>2
    <3>5. /\ OfKind(next, "DUP_DROPPED") = OfKind(run, "DUP_DROPPED")
          /\ OfKind(next, "BUFFER_OVERFLOW") = OfKind(run, "BUFFER_OVERFLOW") \cup {v}
      <4>1. next.recs = run.recs \cup {Rec("BUFFER_OVERFLOW", v)}
        BY <3>3
      <4>2. /\ OfKind(next, "BUFFER_OVERFLOW") = OfKind(run, "BUFFER_OVERFLOW") \cup {v}
            /\ \A kind : kind # "BUFFER_OVERFLOW" => OfKind(next, kind) = OfKind(run, kind)
        BY ONLY <4>1, KindAdds
      <4> QED
        BY <4>2
    <3>6. Evicts(x, s, y)
      BY <1>1, <1>2, <2>1, <2>2, <3>2, <3>3, <3>5 DEF Evicts
    <3> QED
      BY <3>6 DEF TakesRow
  <2>5. CASE ~ (Rebuffered(a, s) \/ Replayed(a, s)) /\ ~ Overflows(a, s)
    <3>1. Buffers(a, s)
      BY <1>4, <2>5, RowCases
    <3>2. /\ Aside(a, s).acct = AfterBuffer(a, s)
          /\ Aside(a, s).recs = {}
      BY <2>5 DEF Aside
    <3>3. Early(a, s) /\ s \notin a.buf /\ Cardinality(a.buf) < MaxBuffer /\ a.last + 1 < s
      BY <3>1, SoundPieces DEF Buffers, Early, Seqs
    <3>4. next.acct.buf = a.buf \cup {s} /\ next.recs = run.recs
      BY <2>1, <3>2, <3>3, BufferFact
    <3>5. \A kind : OfKind(next, kind) = OfKind(run, kind)
      BY <3>4, KindSame
    <3>6. Holds(x, s, y)
      BY <1>1, <1>2, <2>1, <2>2, <3>3, <3>4, <3>5 DEF Holds
    <3> QED
      BY <3>6 DEF TakesRow
  <2> QED
    BY <2>3, <2>4, <2>5
<1>5. TakesRow(x, s, y)
  BY <1>3, <1>4
<1> QED
  BY <1>5 DEF x, y

(* A position typed as a number and within bounds: the rest follows.       *)
LEMMA TakenProper ==
    ASSUME NEW x, Proper(x), NEW s \in Seqs, NEW y, y.last \in 0..MaxSeq, TakesRow(x, s, y)
    PROVE  /\ Proper(y) /\ x.last <= y.last
           /\ y.app = x.app \cup (x.last + 1)..y.last
           /\ x.ovf \subseteq y.ovf /\ x.dup \subseteq y.dup
           /\ x.buf \subseteq y.app \cup y.buf \cup y.ovf
           /\ y.app \cup y.buf \subseteq x.app \cup x.buf \cup {s}
           /\ y.ovf \subseteq x.ovf \cup x.buf \cup {s}
           /\ s \in y.app \cup y.buf \cup y.ovf \/ s <= x.last
           /\ s <= x.last => s \in y.dup
<1>1. /\ MaxSeq \in Nat /\ x.last \in Nat /\ x.last <= MaxSeq /\ y.last \in Nat /\ y.last <= MaxSeq
      /\ s \in Nat /\ 1 <= s /\ s <= MaxSeq
  BY BoundsAssumption DEF Proper, Seqs
<1>2. /\ x.app \subseteq 1..x.last
      /\ x.buf \in SUBSET Seqs /\ x.ovf \in SUBSET Seqs /\ x.dup \in SUBSET Seqs
      /\ \A b \in x.buf : x.last + 1 < b /\ b \in Nat
  BY DEF Proper, Seqs
<1>3. CASE Posts(x, s, y)
  <2>1. /\ s = x.last + 1 /\ s <= y.last
        /\ (s + 1)..y.last \subseteq x.buf
        /\ y.app = x.app \cup s..y.last
        /\ y.buf = x.buf \ ((s + 1)..y.last)
        /\ y.ovf = x.ovf /\ y.dup = x.dup
    BY <1>3 DEF Posts
  <2>2. s..y.last = {s} \cup (s + 1)..y.last /\ s \in s..y.last
    BY <1>1, <2>1
  <2>3. y.app \subseteq 1..y.last
    BY <1>1, <1>2, <2>1
  <2>4. ASSUME NEW b \in y.buf
        PROVE  y.last + 1 < b \/ b = y.last + 1
    BY <1>1, <1>2, <2>1
  <2>5. \A b \in y.buf : y.last + 1 < b
    BY <1>3, <2>1, <2>4 DEF Posts
  <2>6. Proper(y)
    BY <1>1, <1>2, <2>1, <2>3, <2>5 DEF Proper
  <2> QED
    BY <1>1, <1>2, <2>1, <2>2, <2>6
<1>4. ASSUME y.last = x.last, y.app = x.app
      PROVE  /\ x.last <= y.last /\ y.app = x.app \cup (x.last + 1)..y.last
             /\ y.app \subseteq 1..y.last /\ y.last \in 0..MaxSeq
  BY <1>1, <1>2, <1>4
<1>5. CASE Drops(x, s, y)
  BY <1>1, <1>2, <1>4, <1>5 DEF Drops, Proper
<1>6. CASE Holds(x, s, y)
  BY <1>1, <1>2, <1>4, <1>6 DEF Holds, Proper
<1>7. CASE Evicts(x, s, y)
  <2>1. PICK v \in x.buf \cup {s} :
           /\ y.buf = (x.buf \cup {s}) \ {v} /\ \A b \in y.buf : v < b
           /\ y.ovf = x.ovf \cup {v}
    BY <1>7 DEF Evicts
  <2>2. x.last + 1 < s /\ y.last = x.last /\ y.app = x.app /\ y.dup = x.dup
    BY <1>7 DEF Evicts
  <2>3. Proper(y)
    BY <1>1, <1>2, <1>4, <2>1, <2>2 DEF Proper
  <2> QED
    BY <1>1, <1>2, <1>4, <2>1, <2>2, <2>3
<1> QED
  BY <1>3, <1>5, <1>6, <1>7 DEF TakesRow

Score(x, s) == Bit(s \in x.app \cup x.buf) + Bit(s \in x.ovf) + Bit(s \in x.dup)

(* A row is one thing more at most, for its own event only: an eviction    *)
(* moves an event from the buffer to the DLQ.                              *)
LEMMA TakenScore ==
    ASSUME NEW x, Proper(x), NEW s \in Seqs, NEW y, y.last \in 0..MaxSeq, TakesRow(x, s, y),
           NEW t \in Seqs
    PROVE  Score(y, t) <= Score(x, t) + Bit(s = t)
<1>1. /\ x.last \in Nat /\ x.app \subseteq 1..x.last
      /\ \A b \in x.buf : x.last + 1 < b /\ b \in Nat
      /\ s \in Nat
  BY BoundsAssumption DEF Proper, Seqs
<1>2. CASE Posts(x, s, y)
  <2>1. /\ t \in y.app \cup y.buf => t \in x.app \cup x.buf \/ t = s
        /\ y.ovf = x.ovf /\ y.dup = x.dup
    BY <1>2, TakenProper DEF Posts, TakesRow
  <2> QED
    BY <2>1 DEF Score, Bit
<1>3. CASE Drops(x, s, y)
  BY <1>3 DEF Drops, Score, Bit
<1>4. CASE Holds(x, s, y)
  BY <1>4 DEF Holds, Score, Bit
<1>5. CASE Evicts(x, s, y)
  <2>1. PICK v \in x.buf \cup {s} :
           /\ y.buf = (x.buf \cup {s}) \ {v} /\ \A b \in y.buf : v < b
           /\ y.ovf = x.ovf \cup {v}
    BY <1>5 DEF Evicts
  <2>2. x.last + 1 < s /\ y.app = x.app /\ y.dup = x.dup
    BY <1>5 DEF Evicts
  <2>3. v \notin x.app
    BY <1>1, <2>2
  <2> QED
    BY <2>1, <2>2, <2>3 DEF Score, Bit
<1> QED
  BY <1>2, <1>3, <1>4, <1>5 DEF TakesRow

Crowded(x) == x.ovf # {} => Cardinality(x.app \cup x.buf \cup x.ovf) > MaxBuffer

(* Something is evicted only once there are more events than the buffer.   *)
LEMMA TakenCrowded ==
    ASSUME NEW x, Proper(x), NEW s \in Seqs, NEW y, y.last \in 0..MaxSeq, TakesRow(x, s, y),
           Crowded(x)
    PROVE  Crowded(y)
<1> DEFINE X == x.app \cup x.buf \cup x.ovf
           Y == y.app \cup y.buf \cup y.ovf
<1>1. /\ x.app \in SUBSET Seqs /\ x.buf \in SUBSET Seqs /\ x.ovf \in SUBSET Seqs
      /\ y.app \in SUBSET Seqs /\ y.buf \in SUBSET Seqs /\ y.ovf \in SUBSET Seqs
      /\ x.app \subseteq y.app /\ x.ovf \subseteq y.ovf /\ x.buf \subseteq Y
  <2>1. Proper(y) /\ y.app = x.app \cup (x.last + 1)..y.last /\ x.ovf \subseteq y.ovf /\ x.buf \subseteq Y
    BY TakenProper
  <2>2. /\ x.last \in 0..MaxSeq /\ x.app \subseteq 1..x.last /\ y.last \in 0..MaxSeq
        /\ y.app \subseteq 1..y.last /\ x.buf \in SUBSET Seqs /\ x.ovf \in SUBSET Seqs
        /\ y.buf \in SUBSET Seqs /\ y.ovf \in SUBSET Seqs
    BY <2>1 DEF Proper
  <2>3. x.app \in SUBSET Seqs /\ y.app \in SUBSET Seqs
    BY <2>2, BoundsAssumption DEF Seqs
  <2> QED
    BY <2>1, <2>2, <2>3
<1>2. X \subseteq Y /\ X \in SUBSET Seqs /\ Y \in SUBSET Seqs
  BY <1>1
<1>3. IsFiniteSet(Y) /\ Cardinality(X) \in Nat /\ Cardinality(Y) \in Nat /\ MaxBuffer \in Nat
  BY <1>2, SeqsFinite, BoundsAssumption
<1>4. Cardinality(X) <= Cardinality(Y)
  <2> HIDE DEF X, Y
  <2> QED
    BY <1>2, <1>3, FS_Subset
<1>5. CASE x.ovf # {}
  <2> HIDE DEF X, Y
  <2>1. Cardinality(X) > MaxBuffer
    BY <1>5 DEF Crowded, X
  <2>2. Cardinality(Y) > MaxBuffer
    BY <1>3, <1>4, <2>1
  <2> QED
    BY <2>2 DEF Crowded, Y
<1>6. CASE y.ovf = {}
  BY <1>6 DEF Crowded
<1>7. CASE x.ovf = {} /\ y.ovf # {}
  <2>1. Evicts(x, s, y)
    BY <1>7 DEF TakesRow, Posts, Drops, Holds
  <2>2. x.buf \cup {s} \subseteq Y /\ s \notin x.buf /\ Cardinality(x.buf) >= MaxBuffer
    BY <2>1 DEF Evicts
  <2>3. IsFiniteSet(x.buf) /\ Cardinality(x.buf) \in Nat
    BY <1>1, SeqsFinite
  <2>4. Cardinality(x.buf \cup {s}) = Cardinality(x.buf) + 1
    BY <2>2, <2>3, FS_AddElement
  <2>5. Cardinality(x.buf \cup {s}) <= Cardinality(Y)
    <3> HIDE DEF Y
    <3> QED
      BY <1>3, <2>2, FS_Subset
  <2> HIDE DEF Y
  <2>6. Cardinality(Y) > MaxBuffer
    BY <1>3, <2>2, <2>3, <2>4, <2>5
  <2> QED
    BY <2>6 DEF Crowded, Y
<1> QED
  BY <1>5, <1>6, <1>7

(* Min-first eviction before anything is applied: the buffer keeps the     *)
(* largest events.                                                         *)
Topmost(x) ==
    /\ Cardinality(x.buf) <= MaxBuffer
    /\ x.ovf # {} => Cardinality(x.buf) = MaxBuffer
    /\ \A v \in x.ovf, b \in x.buf : v < b

LEMMA TakenTopmost ==
    ASSUME NEW x, Proper(x), NEW s \in Seqs, NEW y, y.last \in 0..MaxSeq, TakesRow(x, s, y),
           x.last = 0, y.last = 0, Topmost(x)
    PROVE  Topmost(y)
<1>1. s \in Nat /\ MaxBuffer \in Nat /\ x.buf \in SUBSET Seqs /\ x.ovf \in SUBSET Seqs
  BY BoundsAssumption DEF Proper, Seqs
<1>2. IsFiniteSet(x.buf) /\ Cardinality(x.buf) \in Nat
  BY <1>1, SeqsFinite
<1>3. CASE Posts(x, s, y)
  BY <1>1, <1>3 DEF Posts
<1>4. CASE Drops(x, s, y)
  BY <1>4 DEF Drops, Topmost
<1>5. CASE Holds(x, s, y)
  <2>1. s \notin x.buf /\ Cardinality(x.buf) < MaxBuffer /\ y.buf = x.buf \cup {s} /\ y.ovf = x.ovf
    BY <1>5 DEF Holds
  <2>2. x.ovf = {}
    BY <1>1, <1>2, <2>1 DEF Topmost
  <2>3. Cardinality(y.buf) = Cardinality(x.buf) + 1
    BY <1>2, <2>1, FS_AddElement
  <2> QED
    BY <1>1, <1>2, <2>1, <2>2, <2>3 DEF Topmost
<1>6. CASE Evicts(x, s, y)
  <2>1. PICK v \in x.buf \cup {s} :
           /\ y.buf = (x.buf \cup {s}) \ {v} /\ \A b \in y.buf : v < b
           /\ y.ovf = x.ovf \cup {v}
    BY <1>6 DEF Evicts
  <2>2. s \notin x.buf /\ Cardinality(x.buf) = MaxBuffer
    BY <1>1, <1>2, <1>6 DEF Evicts, Topmost
  <2>3. Cardinality(y.buf) = MaxBuffer
    <3>1. IsFiniteSet(x.buf \cup {s}) /\ Cardinality(x.buf \cup {s}) = Cardinality(x.buf) + 1
      BY <1>2, <2>2, FS_AddElement
    <3>2. Cardinality((x.buf \cup {s}) \ {v}) = Cardinality(x.buf \cup {s}) - 1
      BY <3>1, FS_RemoveElement
    <3> QED
      BY <1>1, <2>1, <2>2, <3>1, <3>2
  <2>4. ASSUME NEW u \in y.ovf, NEW b \in y.buf
        PROVE  u < b
    <3>0. \A z \in x.ovf \cup x.buf : z \in Nat
      BY <1>1 DEF Seqs
    <3>1. CASE u = v
      BY <2>1, <3>1
    <3>2. CASE u # v /\ v \in x.buf
      <4>1. u < v /\ v < b /\ u \in Nat /\ v \in Nat /\ b \in Nat
        BY <1>1, <2>1, <3>0, <3>2 DEF Topmost
      <4> QED
        BY <4>1
    <3>3. CASE u # v /\ v = s
      BY <2>1, <3>3 DEF Topmost
    <3> QED
      BY <2>1, <3>1, <3>2, <3>3
  <2> QED
    BY <1>1, <2>3, <2>4 DEF Topmost
<1> QED
  BY <1>3, <1>4, <1>5, <1>6 DEF TakesRow

(* What c readings of an event must have left: one is in the ledger, held  *)
(* back or evicted, a second one is dropped, once nothing is evicted.      *)
Counted(x, t, c) ==
    /\ c >= 1 => t \in x.app \cup x.buf \cup x.ovf
    /\ c >= 2 /\ t \notin x.ovf => t \in x.dup

LEMMA TakenCounted ==
    ASSUME NEW x, Proper(x), NEW s \in Seqs, NEW y, y.last \in 0..MaxSeq, TakesRow(x, s, y),
           s <= x.last => s \in x.app,
           NEW t \in Seqs, NEW c \in Nat, Counted(x, t, c)
    PROVE  Counted(y, t, c + Bit(s = t))
<1>1. /\ x.last \in Nat /\ x.app \subseteq 1..x.last
      /\ \A b \in x.buf : x.last + 1 < b /\ b \in Nat
      /\ s \in Nat
  BY BoundsAssumption DEF Proper, Seqs
<1>2. /\ x.app \subseteq y.app /\ x.ovf \subseteq y.ovf /\ x.dup \subseteq y.dup
      /\ x.buf \subseteq y.app \cup y.buf \cup y.ovf
      /\ s \in y.app \cup y.buf \cup y.ovf
  BY TakenProper
<1>3. CASE s # t
  BY <1>2, <1>3 DEF Counted, Bit
<1>4. CASE s = t
  <2>1. ASSUME c >= 1, t \notin y.ovf
        PROVE  t \in y.dup
    <3>1. s \in x.app \cup x.buf
      BY <1>2, <1>4, <2>1 DEF Counted
    <3>2. s <= x.last \/ s \in x.buf
      BY <1>1, <3>1
    <3>3. Drops(x, s, y)
      BY <1>1, <3>2 DEF TakesRow, Posts, Evicts, Holds
    <3> QED
      BY <1>4, <3>3 DEF Drops
  <2>2. Bit(s = t) = 1
    BY <1>4 DEF Bit
  <2> QED
    BY <1>2, <1>4, <2>1, <2>2 DEF Counted
<1> QED
  BY <1>3, <1>4

Taken(rows, i, t) == Cardinality({j \in 1..i : rows[j] = t})

LEMMA TakenNone ==
    ASSUME NEW rows, NEW t
    PROVE  Taken(rows, 0, t) = 0
<1>1. {j \in 1..0 : rows[j] = t} = {}
  OBVIOUS
<1> QED
  BY <1>1, FS_EmptySet DEF Taken

LEMMA TakenNext ==
    ASSUME NEW rows, NEW i \in Nat, NEW t
    PROVE  /\ Taken(rows, 0, t) = 0
           /\ Taken(rows, i, t) \in Nat
           /\ Taken(rows, i + 1, t) = Taken(rows, i, t) + Bit(rows[i + 1] = t)
<1> DEFINE S(n) == {j \in 1..n : rows[j] = t}
<1>1. \A n \in Nat : IsFiniteSet(S(n))
  <2> TAKE n \in Nat
  <2>1. IsFiniteSet(1..n)
    BY FS_Interval
  <2> QED
    BY <2>1, FS_Subset
<1>2. S(0) = {}
  OBVIOUS
<1>3. S(i + 1) = IF rows[i + 1] = t THEN S(i) \cup {i + 1} ELSE S(i)
  <2>1. \A j : j \in 1..(i + 1) <=> j \in 1..i \/ j = i + 1
    OBVIOUS
  <2> QED
    BY <2>1
<1>4. i + 1 \notin S(i) /\ i + 1 \in Nat
  OBVIOUS
<1> HIDE DEF S
<1>5. Cardinality(S(0)) = 0 /\ Cardinality(S(i)) \in Nat
  BY <1>1, <1>2, FS_EmptySet, FS_CardinalityType
<1>6. Cardinality(S(i) \cup {i + 1}) = Cardinality(S(i)) + 1
  BY <1>1, <1>4, FS_AddElement
<1>7. Cardinality(S(i + 1)) = Cardinality(S(i)) + Bit(rows[i + 1] = t)
  BY <1>3, <1>5, <1>6 DEF Bit
<1> QED
  BY <1>5, <1>7 DEF Taken, S

(* What holds after the first i rows, the invocation having begun at x.    *)
Walked(x, rows, w, i, y) ==
    /\ Proper(y) /\ x.last <= y.last
    /\ y.app = x.app \cup (x.last + 1)..y.last
    /\ x.ovf \subseteq y.ovf /\ x.dup \subseteq y.dup
    /\ x.buf \subseteq y.app \cup y.buf \cup y.ovf
    /\ y.app \cup y.buf \subseteq x.app \cup x.buf \cup {rows[j] : j \in 1..i}
    /\ \A t \in Seqs : Score(y, t) <= Score(x, t) + Taken(rows, i, t)
    /\ \A j \in 1..i : OnTime(rows[j], w) =>
          /\ rows[j] \in y.app \cup y.buf \cup y.ovf \/ rows[j] <= x.last
          /\ rows[j] <= x.last => rows[j] \in y.dup
    /\ Crowded(x) => Crowded(y)
    /\ Topmost(x) /\ y.last = 0 => Topmost(y)
    /\ (\A j \in 1..i : OnTime(rows[j], w) /\ (rows[j] <= x.last => rows[j] \in x.app)) =>
          \A t \in Seqs, c \in Nat : Counted(x, t, c) => Counted(y, t, c + Taken(rows, i, t))

LEMMA ScoreType ==
    ASSUME NEW x, NEW t
    PROVE  Score(x, t) \in Nat
BY DEF Score, Bit

LEMMA WalkStart ==
    ASSUME NEW x, Proper(x), NEW rows, NEW w
    PROVE  Walked(x, rows, w, 0, x)
<1>1. \A t : Taken(rows, 0, t) = 0
  BY TakenNone
<1>2. x.last \in Nat /\ (x.last + 1)..x.last = {} /\ 1..0 = {}
  BY BoundsAssumption DEF Proper
<1>3. \A t \in Seqs : Score(x, t) <= Score(x, t) + 0
  BY ScoreType
<1>4. \A c \in Nat : c + 0 = c
  OBVIOUS
<1> QED
  BY <1>1, <1>2, <1>3, <1>4 DEF Walked

LEMMA WalkStep ==
    ASSUME NEW x, Proper(x), NEW rows \in Seq(Seqs), NEW w, NEW i \in Nat, i + 1 <= Len(rows),
           NEW y, Walked(x, rows, w, i, y),
           NEW z, z.last \in 0..MaxSeq, TakesRow(y, rows[i + 1], z)
    PROVE  Walked(x, rows, w, i + 1, z)
<1> DEFINE s == rows[i + 1]
<1>1. /\ s \in Seqs /\ s \in Nat
      /\ \A j : j \in 1..(i + 1) <=> j \in 1..i \/ j = i + 1
      /\ \A j \in 1..i : rows[j] \in Seqs /\ rows[j] \in Nat
  <2>1. Len(rows) \in Nat /\ i + 1 \in 1..Len(rows) /\ \A j \in 1..i : j \in 1..Len(rows)
    BY LenProperties
  <2>2. \A j \in 1..Len(rows) : rows[j] \in Seqs
    OBVIOUS
  <2> QED
    BY <2>1, <2>2 DEF Seqs
<1>2. /\ Proper(y) /\ x.last <= y.last /\ y.app = x.app \cup (x.last + 1)..y.last
      /\ x.ovf \subseteq y.ovf /\ x.dup \subseteq y.dup
      /\ x.buf \subseteq y.app \cup y.buf \cup y.ovf
      /\ y.app \cup y.buf \subseteq x.app \cup x.buf \cup {rows[j] : j \in 1..i}
  BY DEF Walked
<1>3. x.last \in Nat /\ y.last \in Nat /\ z.last \in Nat
  BY <1>2, BoundsAssumption DEF Proper
<1> HIDE DEF s
<1>4. /\ Proper(z) /\ y.last <= z.last
      /\ z.app = y.app \cup (y.last + 1)..z.last
      /\ y.ovf \subseteq z.ovf /\ y.dup \subseteq z.dup
      /\ y.buf \subseteq z.app \cup z.buf \cup z.ovf
      /\ z.app \cup z.buf \subseteq y.app \cup y.buf \cup {s}
      /\ s \in z.app \cup z.buf \cup z.ovf \/ s <= y.last
      /\ s <= y.last => s \in z.dup
  BY <1>1, <1>2, TakenProper DEF s
<1>5. x.last <= z.last /\ z.app = x.app \cup (x.last + 1)..z.last /\ y.app \subseteq z.app
  BY <1>2, <1>3, <1>4
<1>6. z.app \cup z.buf \subseteq x.app \cup x.buf \cup {rows[j] : j \in 1..(i + 1)}
  BY <1>1, <1>2, <1>4 DEF s
<1>7. ASSUME NEW t \in Seqs
      PROVE  Score(z, t) <= Score(x, t) + Taken(rows, i + 1, t)
  <2>1. Score(y, t) <= Score(x, t) + Taken(rows, i, t)
    BY DEF Walked
  <2>2. Score(z, t) <= Score(y, t) + Bit(s = t)
    BY <1>1, <1>2, TakenScore DEF s
  <2>3. Taken(rows, i, t) \in Nat /\ Taken(rows, i + 1, t) = Taken(rows, i, t) + Bit(s = t)
    BY TakenNext DEF s
  <2>4. Score(x, t) \in Nat /\ Score(y, t) \in Nat /\ Score(z, t) \in Nat /\ Bit(s = t) \in Nat
    BY ScoreType DEF Bit
  <2> QED
    BY <2>1, <2>2, <2>3, <2>4
<1>8. s <= x.last => s <= y.last
  BY <1>1, <1>2, <1>3
<1>9. s <= y.last => s <= x.last \/ s \in y.app
  BY <1>1, <1>2, <1>3
<1>10. ASSUME NEW j \in 1..(i + 1), OnTime(rows[j], w)
       PROVE  /\ rows[j] \in z.app \cup z.buf \cup z.ovf \/ rows[j] <= x.last
              /\ rows[j] <= x.last => rows[j] \in z.dup
  <2>1. CASE j = i + 1
    BY <1>4, <1>5, <1>8, <1>9, <2>1 DEF s
  <2>2. CASE j \in 1..i
    <3>1. /\ rows[j] \in y.app \cup y.buf \cup y.ovf \/ rows[j] <= x.last
          /\ rows[j] <= x.last => rows[j] \in y.dup
      BY <1>10, <2>2 DEF Walked
    <3> QED
      BY <1>4, <1>5, <3>1
  <2> QED
    BY <1>1, <2>1, <2>2
<1>11. Crowded(x) => Crowded(z)
  <2>1. Crowded(x) => Crowded(y)
    BY DEF Walked
  <2> QED
    BY <1>1, <1>2, <2>1, TakenCrowded DEF s
<1>12. Topmost(x) /\ z.last = 0 => Topmost(z)
  <2>1. z.last = 0 => y.last = 0
    BY <1>3, <1>4
  <2>2. Topmost(x) /\ y.last = 0 => Topmost(y)
    BY DEF Walked
  <2> QED
    BY <1>1, <1>2, <2>1, <2>2, TakenTopmost DEF s
<1>13. ASSUME \A j \in 1..(i + 1) : OnTime(rows[j], w) /\ (rows[j] <= x.last => rows[j] \in x.app),
              NEW t \in Seqs, NEW c \in Nat, Counted(x, t, c)
       PROVE  Counted(z, t, c + Taken(rows, i + 1, t))
  <2>1. Counted(y, t, c + Taken(rows, i, t))
    BY <1>1, <1>13 DEF Walked
  <2>2. s <= y.last => s \in y.app
    BY <1>1, <1>2, <1>9, <1>13 DEF s
  <2>3. Taken(rows, i, t) \in Nat /\ Taken(rows, i + 1, t) = Taken(rows, i, t) + Bit(s = t)
    BY TakenNext DEF s
  <2>4. c + Taken(rows, i, t) \in Nat
    BY <2>3
  <2> DEFINE d == c + Taken(rows, i, t)
  <2>5. Counted(z, t, d + Bit(s = t))
    <3>1. Counted(y, t, d) /\ d \in Nat
      BY <2>1, <2>4
    <3> HIDE DEF d
    <3> QED
      BY <1>1, <1>2, <2>2, <3>1, TakenCounted DEF s
  <2>6. d + Bit(s = t) = c + Taken(rows, i + 1, t)
    BY <2>3 DEF Bit
  <2> QED
    BY <2>5, <2>6
<1>14. /\ x.ovf \subseteq z.ovf /\ x.dup \subseteq z.dup
       /\ x.buf \subseteq z.app \cup z.buf \cup z.ovf
  BY <1>2, <1>4, <1>5
<1> QED
  BY <1>4, <1>5, <1>6, <1>7, <1>10, <1>11, <1>12, <1>13, <1>14 DEF Walked

(* A late row never reaches the operator. *)
LEMMA WalkLate ==
    ASSUME NEW x, Proper(x), NEW rows \in Seq(Seqs), NEW w, NEW i \in Nat, i + 1 <= Len(rows),
           NEW y, Walked(x, rows, w, i, y), ~ OnTime(rows[i + 1], w)
    PROVE  Walked(x, rows, w, i + 1, y)
<1>1. \A j : j \in 1..(i + 1) <=> j \in 1..i \/ j = i + 1
  OBVIOUS
<1>2. ASSUME NEW t \in Seqs
      PROVE  Score(y, t) <= Score(x, t) + Taken(rows, i + 1, t)
  <2>1. Score(y, t) <= Score(x, t) + Taken(rows, i, t)
    BY DEF Walked
  <2>2. Taken(rows, i, t) \in Nat /\ Taken(rows, i + 1, t) = Taken(rows, i, t) + Bit(rows[i + 1] = t)
    BY TakenNext
  <2>3. Score(x, t) \in Nat /\ Score(y, t) \in Nat /\ Bit(rows[i + 1] = t) \in Nat
    BY ScoreType DEF Bit
  <2> QED
    BY <2>1, <2>2, <2>3
<1>3. y.app \cup y.buf \subseteq x.app \cup x.buf \cup {rows[j] : j \in 1..(i + 1)}
  BY <1>1 DEF Walked
<1> QED
  BY <1>1, <1>2, <1>3 DEF Walked

(* All of the above holds along an invocation with rows.                   *)
LEMMA WalkFact ==
    ASSUME NEW a, Sound(a), NEW done, done \subseteq 1..a.last, NEW known \in Found,
           NEW rows \in Seq(Seqs), NEW w, NEW i \in 0..Len(rows)
    PROVE  LET run == Runs(FreshRun(a), rows, w)
           IN  /\ Proper(Standing(done, known, FreshRun(a)))
               /\ Walked(Standing(done, known, FreshRun(a)), rows, w, i, Standing(done, known, run[i]))
<1> DEFINE run == Runs(FreshRun(a), rows, w)
           x == Standing(done, known, FreshRun(a))
           y(n) == Standing(done, known, run[n])
           S == {n \in Nat : n <= Len(rows) => Walked(x, rows, w, n, y(n))}
<1>1. /\ run[0] = FreshRun(a)
      /\ \A n \in 1..Len(rows) :
            run[n] = IF OnTime(rows[n], w) THEN WithRow(run[n - 1], rows[n]) ELSE run[n - 1]
  BY RunsFact
<1>2. Len(rows) \in Nat /\ \A n \in 1..Len(rows) : rows[n] \in Seqs
  OBVIOUS
<1>3. \A n \in 0..Len(rows) : run[n] \in Run /\ Sound(run[n].acct)
  BY RunsApply DEF Applies
<1>4. Proper(x)
  <2>1. /\ x.last = a.last /\ x.app = done /\ x.buf = a.buf
        /\ x.ovf = known.overflow /\ x.dup = known.dup
    BY DEF Standing, FreshRun, OfKind
  <2>2. known.overflow \in SUBSET Seqs /\ known.dup \in SUBSET Seqs
    BY DEF Found
  <2>3. a.last \in 0..MaxSeq /\ a.buf \in SUBSET Seqs /\ \A b \in a.buf : a.last + 1 < b
    BY SoundPieces DEF Sound
  <2> HIDE DEF x
  <2> QED
    BY <2>1, <2>2, <2>3 DEF Proper
<1>5. \A n \in 0..Len(rows) : y(n).last \in 0..MaxSeq
  <2> TAKE n \in 0..Len(rows)
  <2>1. run[n].acct.last \in 0..MaxSeq
    BY <1>3, SoundPieces
  <2> QED
    BY <2>1 DEF Standing
<1> HIDE DEF run, x
<1>6. 0 \in S
  BY <1>1, <1>4, WalkStart DEF x
<1>7. ASSUME NEW n \in S
      PROVE  n + 1 \in S
  <2> SUFFICES ASSUME n + 1 <= Len(rows)
               PROVE  Walked(x, rows, w, n + 1, y(n + 1))
    OBVIOUS
  <2>1. /\ n \in Nat /\ n \in 0..Len(rows) /\ n + 1 \in 0..Len(rows) /\ n + 1 \in 1..Len(rows)
        /\ (n + 1) - 1 = n
    BY <1>2
  <2>2. Walked(x, rows, w, n, y(n))
    BY <1>2, <2>1
  <2>3. run[n + 1] = IF OnTime(rows[n + 1], w) THEN WithRow(run[n], rows[n + 1]) ELSE run[n]
    BY <1>1, <2>1
  <2>4. y(n + 1).last \in 0..MaxSeq
    BY <1>5, <2>1
  <2>5. CASE OnTime(rows[n + 1], w)
    <3>1. TakesRow(y(n), rows[n + 1], Standing(done, known, WithRow(run[n], rows[n + 1])))
      BY <1>2, <1>3, <2>1, RowTaken
    <3>2. TakesRow(y(n), rows[n + 1], y(n + 1))
      BY <2>3, <2>5, <3>1
    <3> HIDE DEF y
    <3> QED
      BY <1>4, <2>1, <2>2, <2>4, <3>2, WalkStep
  <2>6. CASE ~ OnTime(rows[n + 1], w)
    <3>1. y(n + 1) = y(n)
      BY <2>3, <2>6
    <3> HIDE DEF y
    <3>2. Walked(x, rows, w, n + 1, y(n))
      BY <1>4, <2>1, <2>2, <2>6, WalkLate
    <3> QED
      BY <3>1, <3>2
  <2> QED
    BY <2>5, <2>6
<1>8. i \in S
  <2>1. S \in SUBSET Nat
    OBVIOUS
  <2>2. i \in Nat
    BY <1>2
  <2> HIDE DEF S
  <2> QED
    BY <1>6, <1>7, <2>1, <2>2, Induction
<1>9. i <= Len(rows)
  BY <1>2
<1> QED
  BY <1>4, <1>8, <1>9 DEF run, x

(***************************************************************************)
(* One micro-batch for one account                                         *)
(***************************************************************************)

Stood(t, done, key, known) ==
    [last |-> t.last, app |-> done, buf |-> key.acct.buf,
     ovf |-> known.overflow, dup |-> known.dup]

Noted(key, known, r) ==
    [known EXCEPT
        !.dup      = @ \cup OfKind(r, "DUP_DROPPED"),
        !.overflow = @ \cup OfKind(r, "BUFFER_OVERFLOW"),
        !.gaps     = @ \cup {Hole(key.acct) : s \in OfKind(r, "SEQUENCE_GAP")}]

(* A key let go holds nothing back, and an open gap is armed no earlier    *)
(* than the first event behind it.                                         *)
Armed(key) ==
    /\ key.exists \/ key.acct.buf = {}
    /\ key.acct.buf # {} => key.alarm >= EarliestTs(key.acct.buf)

(* A gap is confirmed; only FLAG_AND_CONTINUE moves on, over the run that  *)
(* waited behind it.                                                       *)
Confirms(x, y) ==
    /\ x.buf # {} /\ y.ovf = x.ovf /\ y.dup = x.dup
    /\ \/ Policy = "HOLD" /\ y.last = x.last /\ y.app = x.app /\ y.buf = x.buf
       \/ /\ Policy # "HOLD"
          /\ \E h \in x.buf :
                /\ h = Min(x.buf) /\ (\A b \in x.buf : h <= b)
                /\ x.last + 1 < h /\ h <= y.last
                /\ h..y.last \subseteq x.buf /\ y.last + 1 \notin x.buf
                /\ y.app = x.app \cup h..y.last
                /\ y.buf = x.buf \ (h..y.last)

Stays(x, y) ==
    y.last = x.last /\ y.app = x.app /\ y.buf = x.buf /\ y.ovf = x.ovf /\ y.dup = x.dup

LEMMA NotedFact ==
    ASSUME NEW key, NEW known \in Found, NEW r
    PROVE  LET n == Noted(key, known, r)
           IN  /\ n.dup = known.dup \cup OfKind(r, "DUP_DROPPED")
               /\ n.overflow = known.overflow \cup OfKind(r, "BUFFER_OVERFLOW")
               /\ n.gaps = known.gaps \cup {Hole(key.acct) : s \in OfKind(r, "SEQUENCE_GAP")}
               /\ n = [dup |-> n.dup, overflow |-> n.overflow, gaps |-> n.gaps]
<1>1. known = [dup |-> known.dup, overflow |-> known.overflow, gaps |-> known.gaps]
  BY DEF Found
<1> DEFINE d == OfKind(r, "DUP_DROPPED")
           o == OfKind(r, "BUFFER_OVERFLOW")
           g == {Hole(key.acct) : s \in OfKind(r, "SEQUENCE_GAP")}
<1>2. Noted(key, known, r) = [known EXCEPT !.dup = @ \cup d, !.overflow = @ \cup o, !.gaps = @ \cup g]
  BY DEF Noted
<1> HIDE DEF d, o, g
<1>3. Noted(key, known, r) =
         [dup |-> known.dup \cup d, overflow |-> known.overflow \cup o, gaps |-> known.gaps \cup g]
  BY <1>1, <1>2
<1> QED
  BY <1>3 DEF d, o, g

RowsLeave(key, t, done, known, rows, w) ==
    LET r == Invoke(key, rows, t, w)
        n == Noted(key, known, r)
        u == Left(t, r)
    IN  /\ Proper(Stood(t, done, key, known))
        /\ Walked(Stood(t, done, key, known), rows, w, Len(rows),
                  Stood(u, done \cup r.applied, r.key, n))
        /\ n.gaps = known.gaps /\ n \in Found
        /\ u.bal = t.bal + Total[(t.last + 1)..u.last]
        /\ Armed(r.key)

(* What is left of the books once the rows of the account are through.     *)
LEMMA BatchRows ==
    ASSUME NEW key, NEW t, Agree(key, t), Armed(key), NEW done, done \subseteq 1..t.last,
           NEW known \in Found, NEW rows, Ordered(rows), NEW w \in Nat, Reached(rows, w)
    PROVE  RowsLeave(key, t, done, known, rows, w)
<1> USE DEF RowsLeave
<1> DEFINE r == Invoke(key, rows, t, w)
           n == Noted(key, known, r)
           u == Left(t, r)
           a == Opened(key, t)
           run == Runs(FreshRun(a), rows, w)[Len(rows)]
<1>1. /\ Sound(a) /\ a.last = t.last /\ a.bal = t.bal
      /\ ~ key.exists => a.buf = {}
      /\ key.exists => a = key.acct
  BY OpenedFact DEF Opened
<1>2. rows \in Seq(Seqs) /\ Len(rows) \in 0..Len(rows)
  BY DEF Ordered
<1>3. r = WithRows(key, rows, t, w)
  BY DEF Invoke
<1>4. /\ r.ran
      /\ r.key = [acct |-> run.acct, exists |-> TRUE, alarm |-> Alarm(run.acct, w, 0)]
      /\ r.row = RowOf(run.acct) /\ r.recs = run.recs /\ r.applied = run.applied
      /\ Sound(run.acct)
  BY <1>3, WithRowsFact
<1>5. u = RowOf(run.acct) /\ u.last = run.acct.last /\ u.bal = run.acct.bal
  <2>1. r.ran => u = r.row
    BY InvokeAgain
  <2> HIDE DEF r, u, run
  <2> QED
    BY <1>4, <2>1, RowOfFact
<1>6. \A q \in run.recs : OfRow(q)
  BY <1>1, <1>2, RunsRecords
<1>7. Applies(a, run)
  BY <1>1, <1>2, RunsApply
<1>8. /\ Proper(Standing(done, known, FreshRun(a)))
      /\ Walked(Standing(done, known, FreshRun(a)), rows, w, Len(rows), Standing(done, known, run))
  <2>1. done \subseteq 1..a.last
    BY <1>1
  <2> QED
    BY <1>1, <1>2, <2>1, WalkFact
<1> HIDE DEF r, u, run, n, a
<1>9. /\ n.dup = known.dup \cup OfKind(run, "DUP_DROPPED")
      /\ n.overflow = known.overflow \cup OfKind(run, "BUFFER_OVERFLOW")
      /\ n.gaps = known.gaps
      /\ n = [dup |-> n.dup, overflow |-> n.overflow, gaps |-> n.gaps]
  <2>1. \A kind : OfKind(r, kind) = OfKind(run, kind)
    BY <1>4, KindSame
  <2>2. OfKind(run, "SEQUENCE_GAP") = {}
    BY <1>6 DEF OfKind, OfRow
  <2>3. {Hole(key.acct) : s \in OfKind(r, "SEQUENCE_GAP")} = {}
    BY <2>1, <2>2
  <2>4. /\ n.dup = known.dup \cup OfKind(r, "DUP_DROPPED")
        /\ n.overflow = known.overflow \cup OfKind(r, "BUFFER_OVERFLOW")
        /\ n.gaps = known.gaps \cup {Hole(key.acct) : s \in OfKind(r, "SEQUENCE_GAP")}
        /\ n = [dup |-> n.dup, overflow |-> n.overflow, gaps |-> n.gaps]
    BY NotedFact DEF n
  <2> QED
    BY <2>1, <2>3, <2>4
<1>10. n \in Found
  <2>1. OfKind(run, "DUP_DROPPED") \in SUBSET Seqs /\ OfKind(run, "BUFFER_OVERFLOW") \in SUBSET Seqs
    BY <1>6 DEF OfKind, OfRow
  <2> QED
    BY <1>9, <2>1 DEF Found
<1>11. Standing(done, known, FreshRun(a)) = Stood(t, done, key, known)
  <2>1. key.acct.buf = a.buf
    BY <1>1 DEF Armed
  <2>2. FreshRun(a).acct = a /\ FreshRun(a).applied = {} /\ \A kind : OfKind(FreshRun(a), kind) = {}
    BY DEF FreshRun, OfKind
  <2> QED
    BY <1>1, <2>1, <2>2 DEF Standing, Stood
<1>12. Standing(done, known, run) = Stood(u, done \cup r.applied, r.key, n)
  <2>1. r.key.acct = run.acct
    BY <1>4
  <2> QED
    BY <1>4, <1>5, <1>9, <2>1 DEF Standing, Stood
<1>13. u.bal = t.bal + Total[(t.last + 1)..u.last]
  BY <1>1, <1>5, <1>7 DEF Applies
<1>14. Armed(r.key)
  <2>1. run.acct \in Account /\ 0 \in Nat
    BY <1>4 DEF Sound
  <2>2. run.acct.buf # {} => Alarm(run.acct, w, 0) >= EarliestTs(run.acct.buf)
    BY <2>1, AlarmFact
  <2> QED
    BY <1>4, <2>2 DEF Armed
<1> QED
  BY <1>8, <1>9, <1>10, <1>11, <1>12, <1>13, <1>14 DEF r, u, n

GapLeaves(key, t, done, known, rows, w) ==
    LET r == Invoke(key, rows, t, w)
        n == Noted(key, known, r)
        u == Left(t, r)
    IN  /\ Confirms(Stood(t, done, key, known), Stood(u, done \cup r.applied, r.key, n))
        /\ n.gaps = known.gaps \cup {Hole(key.acct)} /\ n \in Found
        /\ Hole(key.acct) = (t.last + 1)..(Min(key.acct.buf) - 1)
        /\ u.bal = t.bal + Total[key.acct.buf \ r.key.acct.buf]
        /\ EarliestTs(key.acct.buf) <= w
        /\ Armed(r.key)

(* The gap is confirmed, by the watermark: some event behind it is that old.*)
LEMMA BatchGap ==
    ASSUME NEW key, NEW t, Agree(key, t), Armed(key), NEW done, NEW known \in Found,
           NEW rows, NEW w \in Nat, ~ Reached(rows, w), Expired(key, w), key.acct.buf # {}
    PROVE  GapLeaves(key, t, done, known, rows, w)
<1> USE DEF GapLeaves
<1> DEFINE r == Invoke(key, rows, t, w)
           n == Noted(key, known, r)
           u == Left(t, r)
           a == key.acct
           b == AfterGap(a)
           alarm == Alarm(b, w, GapDefer)
<1>1. /\ Sound(a) /\ key.exists /\ t = RowOf(a) /\ t.last = a.last /\ t.bal = a.bal
      /\ key \in Key /\ t \in BalanceRow /\ a \in Account
  BY RowOfFact DEF Agree, Expired, Sound
<1>2. key = [acct |-> a, exists |-> key.exists, alarm |-> key.alarm]
  BY <1>1 DEF Key
<1>3. r = Result([key EXCEPT !.acct = b, !.alarm = alarm], b, {Rec("SEQUENCE_GAP", a.last + 1)},
                 a.buf \ b.buf)
  BY DEF Invoke, TimedOut
<1> HIDE DEF r, a, b, alarm
<1>4. /\ r.ran /\ r.row = RowOf(b) /\ r.recs = {Rec("SEQUENCE_GAP", a.last + 1)}
      /\ r.applied = a.buf \ b.buf
      /\ r.key = [acct |-> b, exists |-> key.exists, alarm |-> alarm]
  BY <1>2, <1>3 DEF Result
<1>5. EarliestTs(a.buf) <= w /\ EarliestTs(a.buf) \in Nat /\ key.alarm \in Nat
  <2>1. key.alarm >= EarliestTs(a.buf)
    BY DEF Armed, a
  <2>2. key.alarm <= w /\ key.alarm \in Nat
    BY <1>1 DEF Expired, Key
  <2>3. EarliestTs(a.buf) \in Nat
    BY <1>1, AlarmFact DEF a
  <2> QED
    BY <2>1, <2>2, <2>3
<1>6. /\ OfKind(r, "SEQUENCE_GAP") # {} /\ OfKind(r, "DUP_DROPPED") = {}
      /\ OfKind(r, "BUFFER_OVERFLOW") = {}
  <2> DEFINE gap == Rec("SEQUENCE_GAP", a.last + 1)
  <2>1. gap.kind = "SEQUENCE_GAP" /\ r.recs = {gap}
    BY <1>4 DEF Rec
  <2> HIDE DEF gap
  <2>2. /\ {q \in r.recs : q.kind = "SEQUENCE_GAP"} = {gap}
        /\ {q \in r.recs : q.kind = "DUP_DROPPED"} = {}
        /\ {q \in r.recs : q.kind = "BUFFER_OVERFLOW"} = {}
    BY <2>1
  <2> QED
    BY <2>2 DEF OfKind
<1>7. /\ n.dup = known.dup /\ n.overflow = known.overflow
      /\ n.gaps = known.gaps \cup {Hole(a)}
      /\ n \in Found
  <2>1. /\ n.dup = known.dup \cup OfKind(r, "DUP_DROPPED")
        /\ n.overflow = known.overflow \cup OfKind(r, "BUFFER_OVERFLOW")
        /\ n.gaps = known.gaps \cup {Hole(a) : s \in OfKind(r, "SEQUENCE_GAP")}
        /\ n = [dup |-> n.dup, overflow |-> n.overflow, gaps |-> n.gaps]
    BY NotedFact DEF a
  <2>2. {Hole(a) : s \in OfKind(r, "SEQUENCE_GAP")} = {Hole(a)}
    BY <1>6
  <2>3. Hole(a) \in SUBSET Seqs
    BY <1>1, HoleFact DEF a
  <2> HIDE DEF n
  <2> QED
    BY <1>6, <2>1, <2>2, <2>3 DEF Found
<1>8. GapDefer \in Nat /\ (Policy # "HOLD" => GapDefer = 0)
  BY BoundsAssumption DEF GapDefer
<1>9. CASE Policy = "HOLD"
  <2>1. b = a
    BY <1>9 DEF AfterGap, b
  <2>2. r.key.acct = a /\ r.row = t
    BY <1>1, <1>4, <2>1
  <2>3. u = t
    <3>1. r.ran => u = IF t.last > t.last \/ (t.last = t.last /\ t.size # t.size) THEN t ELSE t
      BY <2>2 DEF Left, Merged
    <3> QED
      BY <1>4, <3>1
  <2>4. r.applied = {} /\ a.buf \ r.key.acct.buf = {}
    BY <1>4, <2>1, <2>2
  <2>5. u.bal = t.bal + Total[{}]
    <3>1. t.bal \in Int
      BY <1>1 DEF BalanceRow
    <3> QED
      BY <2>3, <3>1, TotalAssumption
  <2>6. alarm >= EarliestTs(a.buf)
    <3>1. IF GapDefer > 0 THEN alarm = w + GapDefer ELSE alarm >= EarliestTs(a.buf)
      BY <1>1, <1>8, <2>1, AlarmFact DEF alarm, a
    <3> QED
      BY <1>5, <1>8, <3>1
  <2>7. Armed(r.key)
    BY <1>1, <1>4, <2>1, <2>6 DEF Armed
  <2> DEFINE x == Stood(t, done, key, known)
             y == Stood(u, done \cup r.applied, r.key, n)
  <2>8. /\ x.buf = a.buf /\ y.last = x.last /\ y.app = x.app /\ y.buf = x.buf
        /\ y.ovf = x.ovf /\ y.dup = x.dup /\ x.buf # {}
    BY <1>7, <2>2, <2>3, <2>4 DEF Stood, a
  <2>9. Confirms(x, y)
    BY <1>9, <2>8 DEF Confirms
  <2>10. Hole(a) = (t.last + 1)..(Min(a.buf) - 1)
    BY <1>1 DEF Hole
  <2> QED
    BY <1>5, <1>7, <2>4, <2>5, <2>7, <2>9, <2>10 DEF r, a
<1>10. CASE Policy # "HOLD"
  <2> DEFINE h == Min(a.buf)
  <2>1. /\ Sound(b)
        /\ h \in a.buf /\ \A x \in a.buf : h <= x
        /\ a.last + 1 < h /\ h <= b.last /\ b.last <= MaxSeq
        /\ h..b.last \subseteq a.buf
        /\ b.last + 1 \notin a.buf
        /\ b.buf = a.buf \ (h..b.last)
        /\ b.bal = a.bal + Total[h..b.last]
        /\ a.buf \ b.buf = h..b.last
    BY <1>1, <1>10, GapFact DEF a, b
  <2>2. u = RowOf(b) /\ u.last = b.last /\ u.bal = b.bal
    <3>1. RowOf(b) \in BalanceRow /\ RowOf(b).last = b.last /\ RowOf(b).bal = b.bal
      BY <2>1, RowOfFact
    <3>2. a.last \in Nat /\ b.last \in Nat /\ h \in Nat /\ t.last = a.last
      BY <1>1, <2>1, SoundPieces DEF Seqs
    <3>3. t.last <= RowOf(b).last /\ RowOf(b).last # t.last
      BY <2>1, <3>1, <3>2
    <3>4. Merged(t, RowOf(b)) = RowOf(b)
      BY <1>1, <3>1, <3>3, MergedFact
    <3> QED
      BY <1>4, <3>1, <3>4 DEF Left
  <2>3. alarm >= EarliestTs(b.buf) \/ b.buf = {}
    <3>1. b \in Account /\ GapDefer = 0
      BY <1>8, <1>10, <2>1 DEF Sound
    <3> QED
      BY <1>8, <3>1, AlarmFact DEF alarm
  <2>4. Armed(r.key)
    BY <1>1, <1>4, <2>3 DEF Armed
  <2>5. u.bal = t.bal + Total[a.buf \ r.key.acct.buf]
    <3>1. r.key.acct = b
      BY <1>4
    <3>2. a.buf \ r.key.acct.buf = h..b.last
      BY <3>1, <2>1
    <3>3. u.bal = t.bal + Total[h..b.last]
      BY <1>1, <2>1, <2>2
    <3> QED
      BY <3>2, <3>3
  <2> DEFINE x == Stood(t, done, key, known)
             y == Stood(u, done \cup r.applied, r.key, n)
  <2>6. /\ x.buf = a.buf /\ x.last = a.last /\ y.last = b.last /\ x.app = done
        /\ y.app = done \cup h..b.last /\ y.buf = b.buf
        /\ y.ovf = x.ovf /\ y.dup = x.dup
    BY <1>1, <1>4, <1>7, <2>1, <2>2 DEF Stood, a
  <2>7. Confirms(x, y)
    <3> HIDE DEF x, y
    <3> QED
      BY <1>10, <2>1, <2>6 DEF Confirms, a
  <2>8. Hole(a) = (t.last + 1)..(Min(a.buf) - 1)
    BY <1>1 DEF Hole
  <2> QED
    BY <1>5, <1>7, <2>4, <2>5, <2>7, <2>8 DEF r, a
<1> QED
  BY <1>9, <1>10

QuietLeaves(key, t, done, known, rows, w) ==
    LET r == Invoke(key, rows, t, w)
        n == Noted(key, known, r)
        u == Left(t, r)
    IN  /\ Stays(Stood(t, done, key, known), Stood(u, done \cup r.applied, r.key, n))
        /\ n.gaps = known.gaps /\ n \in Found
        /\ u.bal = t.bal
        /\ Armed(r.key)

(* Nothing happens, or an account that holds nothing back is let go or     *)
(* armed again.                                                            *)
LEMMA BatchQuiet ==
    ASSUME NEW key, NEW t, Agree(key, t), Armed(key), NEW done, NEW known \in Found,
           NEW rows, NEW w \in Nat, ~ Reached(rows, w), ~ Expired(key, w) \/ key.acct.buf = {}
    PROVE  QuietLeaves(key, t, done, known, rows, w)
<1> USE DEF QuietLeaves
<1> DEFINE r == Invoke(key, rows, t, w)
           n == Noted(key, known, r)
           u == Left(t, r)
           a == key.acct
<1>1. /\ Sound(a) /\ key \in Key /\ t \in BalanceRow
      /\ (key.exists => t = RowOf(a))
  BY DEF Agree
<1>2. key = [acct |-> key.acct, exists |-> key.exists, alarm |-> key.alarm]
  <2> HIDE DEF r, u, n, a
  <2> QED
    BY <1>1 DEF Key
<1>3. /\ r.key.acct.buf = key.acct.buf /\ r.applied = {} /\ u = t /\ Armed(r.key)
      /\ \A kind \in {"DUP_DROPPED", "BUFFER_OVERFLOW", "SEQUENCE_GAP"} : OfKind(r, kind) = {}
  <2>1. CASE ~ Expired(key, w)
    <3>1. r = NoResult(key)
      BY <2>1 DEF Invoke
    <3> HIDE DEF r
    <3> QED
      BY <3>1 DEF NoResult, Left, OfKind
  <2>2. CASE Expired(key, w) /\ a.buf = {}
    <3>1. key.exists /\ t = RowOf(a)
      BY <1>1, <2>2 DEF Expired
    <3>2. Merged(t, t) = t
      BY DEF Merged
    <3>3. CASE Idle(a, w)
      <4>1. r = Result(ColdKey, a, {Rec("TTL_FLUSH", a.last)}, {})
        BY <2>2, <3>3 DEF Invoke, TimedOut
      <4> HIDE DEF r
      <4>2. /\ r.ran /\ r.row = t /\ r.key = ColdKey /\ r.applied = {}
            /\ r.recs = {Rec("TTL_FLUSH", a.last)}
        BY <3>1, <4>1 DEF Result
      <4>3. r.key.acct.buf = {}
        BY <4>2 DEF ColdKey, EmptyAccount
      <4>4. \A kind \in {"DUP_DROPPED", "BUFFER_OVERFLOW", "SEQUENCE_GAP"} : OfKind(r, kind) = {}
        BY <4>2 DEF OfKind, Rec
      <4>5. u = t
        BY <3>2, <4>2 DEF Left
      <4> QED
        BY <2>2, <4>2, <4>3, <4>4, <4>5 DEF Armed
    <3>4. CASE ~ Idle(a, w)
      <4> DEFINE alarm == Alarm(a, w, 0)
      <4>1. r = Result([key EXCEPT !.alarm = alarm], a, {}, {})
        BY <2>2, <3>4 DEF Invoke, TimedOut
      <4> HIDE DEF r, alarm
      <4>2. /\ r.ran /\ r.row = t /\ r.applied = {} /\ r.recs = {}
            /\ r.key = [acct |-> a, exists |-> key.exists, alarm |-> alarm]
        BY <1>2, <3>1, <4>1 DEF Result
      <4>3. \A kind : OfKind(r, kind) = {}
        BY <4>2 DEF OfKind
      <4>4. u = t
        BY <3>2, <4>2 DEF Left
      <4> QED
        BY <2>2, <4>2, <4>3, <4>4 DEF Armed
    <3> QED
      BY <3>3, <3>4
  <2> QED
    BY <2>1, <2>2
<1> HIDE DEF r, u
<1>4. n.dup = known.dup /\ n.overflow = known.overflow /\ n.gaps = known.gaps /\ n \in Found
  <2>1. /\ n.dup = known.dup \cup OfKind(r, "DUP_DROPPED")
        /\ n.overflow = known.overflow \cup OfKind(r, "BUFFER_OVERFLOW")
        /\ n.gaps = known.gaps \cup {Hole(a) : s \in OfKind(r, "SEQUENCE_GAP")}
        /\ n = [dup |-> n.dup, overflow |-> n.overflow, gaps |-> n.gaps]
    BY NotedFact
  <2>2. {Hole(a) : s \in OfKind(r, "SEQUENCE_GAP")} = {}
    BY <1>3
  <2> HIDE DEF n
  <2> QED
    BY <1>3, <2>1, <2>2 DEF Found
<1>5. Stays(Stood(t, done, key, known), Stood(u, done \cup r.applied, r.key, n))
  BY <1>3, <1>4 DEF Stays, Stood
<1> QED
  BY <1>3, <1>4, <1>5 DEF r, u

(***************************************************************************)
(* The rows of one account among the records of a batch                    *)
(***************************************************************************)

Events == [acct : Accounts, seq : Seqs]

(* What the topic carries: events and heartbeats.                          *)
Message == Events \cup [acct : {Heartbeat}, seq : Nat]

LEMMA EventFact ==
    ASSUME NEW a \in Accounts, NEW s \in Seqs
    PROVE  /\ Event(a, s) \in Events /\ Event(a, s) \in Message
           /\ Event(a, s).acct = a /\ Event(a, s).seq = s
           /\ TimeOf(Event(a, s)) = EventTs[s]
           /\ \A m \in Message : m = Event(a, s) <=> m.acct = a /\ m.seq = s
<1>1. a # Heartbeat
  BY HarnessAssumption
<1>2. \A m \in Message : /\ m = [acct |-> m.acct, seq |-> m.seq]
  BY DEF Message, Events
<1> QED
  BY <1>1, <1>2 DEF Event, Events, Message, TimeOf

LEMMA TimeType ==
    ASSUME NEW m \in Message
    PROVE  TimeOf(m) \in Nat
<1>1. \A s \in Seqs : EventTs[s] \in Nat
  BY EventTsAssumption
<1>2. m.acct # Heartbeat => m.seq \in Seqs
  BY DEF Message, Events
<1>3. m.acct = Heartbeat => m.seq \in Nat
  BY BoundsAssumption DEF Message, Events, Seqs
<1> QED
  BY <1>1, <1>2, <1>3 DEF TimeOf

(* The rows an account gets are its events among the records, each as      *)
(* often as it is there.                                                   *)
LEMMA RowsCopies ==
    ASSUME NEW a \in Accounts, NEW records \in Seq(Message)
    PROVE  LET rows == RowsOf(a, records)
           IN  /\ Ordered(rows) /\ rows \in Seq(Seqs)
               /\ \A s \in Seqs : Copies(rows, s) = Copies(records, Event(a, s))
               /\ \A s \in ToSet(rows) : s \in Seqs /\ Event(a, s) \in ToSet(records)
               /\ \A s \in Seqs : Event(a, s) \in ToSet(records) => s \in ToSet(rows)
<1> DEFINE masked == [i \in DOMAIN records |-> IF records[i].acct = a THEN records[i].seq ELSE 0]
           rows == RowsOf(a, records)
<1>1. Len(records) \in Nat /\ DOMAIN records = 1..Len(records)
      /\ \A i \in DOMAIN records : records[i] \in Message
  BY LenProperties
<1>2. \A s \in Seqs : s \in Nat /\ s # 0
  BY BoundsAssumption DEF Seqs
<1>3. a # Heartbeat
  BY HarnessAssumption
<1>4. \A i \in DOMAIN records : records[i].acct = a => records[i].seq \in Seqs
  BY <1>1, <1>3 DEF Message, Events
<1>5. masked \in Seq(Nat)
  <2>1. \A i \in 1..Len(records) : masked[i] \in Nat
    BY <1>1, <1>2, <1>4
  <2>2. masked \in [1..Len(records) -> Nat]
    BY <1>1, <2>1
  <2> HIDE DEF masked
  <2> QED
    BY <1>1, <2>2, SeqDef
<1>6. rows = InSeqOrder(masked)
  BY DEF RowsOf
<1>7. \A s \in Seqs : Places(masked, s) = Places(records, Event(a, s))
  <2> TAKE s \in Seqs
  <2>1. \A i \in DOMAIN records : masked[i] = s <=> records[i] = Event(a, s)
    <3> TAKE i \in DOMAIN records
    <3>1. records[i] = Event(a, s) <=> records[i].acct = a /\ records[i].seq = s
      BY <1>1, EventFact
    <3> QED
      BY <1>2, <3>1
  <2> QED
    BY <2>1 DEF Places
<1> HIDE DEF masked, rows
<1>8. Ordered(rows) /\ rows \in Seq(Seqs)
  BY <1>5, <1>6, InSeqOrderFact DEF Ordered
<1>9. \A s \in Seqs : Copies(rows, s) = Copies(records, Event(a, s))
  <2> TAKE s \in Seqs
  <2>1. Copies(rows, s) = Copies(masked, s)
    BY <1>5, <1>6, SortedCopies
  <2> QED
    BY <1>7, <2>1 DEF Copies
<1>10. \A s \in Seqs : s \in ToSet(rows) <=> Event(a, s) \in ToSet(records)
  <2> TAKE s \in Seqs
  <2>1. Copies(rows, s) = 0 <=> s \notin ToSet(rows)
    BY <1>8, PlacesFinite
  <2>2. Copies(records, Event(a, s)) = 0 <=> Event(a, s) \notin ToSet(records)
    BY PlacesFinite
  <2> QED
    BY <1>9, <2>1, <2>2
<1>11. \A s \in ToSet(rows) : s \in Seqs
  <2>1. \A i \in DOMAIN rows : rows[i] \in Seqs
    BY <1>8, LenProperties
  <2> QED
    BY <2>1 DEF ToSet
<1> QED
  BY <1>8, <1>9, <1>10, <1>11 DEF rows

(* Finitely many numbers have a bound.                                     *)
LEMMA NumbersBounded ==
    ASSUME NEW m \in Nat, NEW g \in [1..m -> Nat]
    PROVE  \E b \in Nat : \A i \in 1..m : g[i] <= b
<1> DEFINE P(n) == \E b \in Nat : \A i \in 1..n : g[i] <= b
           S == {n \in Nat : n <= m => P(n)}
<1>1. \A i \in 1..m : g[i] \in Nat
  OBVIOUS
<1>2. 0 \in S
  OBVIOUS
<1>3. ASSUME NEW n \in S
      PROVE  n + 1 \in S
  <2> SUFFICES ASSUME n + 1 <= m
               PROVE  P(n + 1)
    OBVIOUS
  <2>1. n \in Nat /\ n <= m /\ n + 1 \in 1..m
    BY <1>1
  <2>2. PICK b \in Nat : \A i \in 1..n : g[i] <= b
    BY <2>1
  <2> DEFINE t == g[n + 1]
  <2>3. t \in Nat
    BY <1>1, <2>1
  <2> DEFINE c == IF t <= b THEN b ELSE t
  <2>4. c \in Nat /\ b <= c /\ t <= c
    BY <2>3
  <2>5. \A i \in 1..(n + 1) : g[i] \in Nat /\ (i \in 1..n \/ i = n + 1)
    BY <1>1, <2>1
  <2>6. \A i \in 1..(n + 1) : g[i] <= c
    <3> HIDE DEF c
    <3> QED
      BY <2>2, <2>3, <2>4, <2>5
  <2> QED
    BY <2>4, <2>6
<1>4. S = Nat
  <2>1. S \in SUBSET Nat
    OBVIOUS
  <2> HIDE DEF S
  <2> QED
    BY <1>2, <1>3, <2>1, Induction
<1>5. m \in S /\ m <= m
  <2> HIDE DEF S
  <2> QED
    BY <1>4
<1>6. P(m)
  <2> HIDE DEF P
  <2> QED
    BY <1>5
<1> QED
  BY <1>6

LEMMA FiniteBounded ==
    ASSUME NEW S, IsFiniteSet(S), NEW g \in [S -> Nat]
    PROVE  \E b \in Nat : \A x \in S : g[x] <= b
<1>1. PICK m \in Nat : ExistsSurjection(1..m, S)
  BY FS_NatSurjection
<1>2. PICK f \in [1..m -> S] : \A x \in S : \E i \in 1..m : f[i] = x
  BY <1>1 DEF ExistsSurjection, Surjection
<1> DEFINE h == [i \in 1..m |-> g[f[i]]]
<1>3. h \in [1..m -> Nat]
  BY <1>2
<1>4. \A i \in 1..m : h[i] = g[f[i]]
  OBVIOUS
<1> HIDE DEF h
<1>5. PICK b \in Nat : \A i \in 1..m : h[i] <= b
  BY <1>3, NumbersBounded
<1>6. ASSUME NEW x \in S
      PROVE  g[x] <= b
  <2>1. PICK i \in 1..m : f[i] = x
    BY <1>2
  <2> QED
    BY <1>4, <1>5, <2>1
<1> QED
  BY <1>6

(***************************************************************************)
(* The topic                                                               *)
(***************************************************************************)

Topics == [Partitions -> Seq(Message)]

LEMMA PartitionFact ==
    /\ \A a \in Accounts : PartitionOf[a] \in Partitions
    /\ \A m \in Message : PartitionOf[m.acct] \in Partitions
<1>1. \A m \in Message : m.acct \in Accounts \cup {Heartbeat}
  BY DEF Message, Events
<1> QED
  BY <1>1, HarnessAssumption

LEMMA RecordsFact ==
    ASSUME NEW topic \in Topics
    PROVE  /\ RecordsIn(topic) \in SUBSET Message
           /\ \A p \in Partitions : topic[p] \in Seq(Message) /\ ToSet(topic[p]) \subseteq RecordsIn(topic)
           /\ \A r \in RecordsIn(topic) : \E p \in Partitions : r \in ToSet(topic[p])
<1>1. \A p \in Partitions : topic[p] \in Seq(Message)
  BY DEF Topics
<1>2. \A p \in Partitions : \A r \in ToSet(topic[p]) : r \in Message
  <2> TAKE p \in Partitions
  <2>1. \A i \in DOMAIN topic[p] : topic[p][i] \in Message
    BY <1>1, LenProperties
  <2> QED
    BY <2>1 DEF ToSet
<1> QED
  BY <1>1, <1>2 DEF RecordsIn

(* Times have a bound, and so the latest of them is one of them.           *)
LEMMA TimesBounded ==
    ASSUME NEW topic \in Topics
    PROVE  \E b \in Nat : \A r \in RecordsIn(topic) : TimeOf(r) <= b
<1> DEFINE Bounds(p, b) == \A r \in ToSet(topic[p]) : TimeOf(r) <= b
           g == [p \in Partitions |-> CHOOSE b \in Nat : Bounds(p, b)]
<1>1. \A p \in Partitions : \E b \in Nat : Bounds(p, b)
  <2> TAKE p \in Partitions
  <2> DEFINE q == topic[p]
             h == [i \in 1..Len(q) |-> TimeOf(q[i])]
  <2>1. q \in Seq(Message)
    BY RecordsFact
  <2> HIDE DEF q
  <2>2. Len(q) \in Nat /\ DOMAIN q = 1..Len(q) /\ \A i \in DOMAIN q : TimeOf(q[i]) \in Nat
    BY <2>1, LenProperties, TimeType
  <2>3. h \in [1..Len(q) -> Nat]
    BY <2>2
  <2>4. \A i \in 1..Len(q) : h[i] = TimeOf(q[i])
    OBVIOUS
  <2> HIDE DEF h
  <2>5. PICK b \in Nat : \A i \in 1..Len(q) : h[i] <= b
    BY <2>2, <2>3, NumbersBounded
  <2>6. \A r \in ToSet(q) : TimeOf(r) <= b
    BY <2>2, <2>4, <2>5 DEF ToSet
  <2> QED
    BY <2>6 DEF q
<1>2. \A p \in Partitions : g[p] \in Nat /\ Bounds(p, g[p])
  <2> HIDE DEF Bounds
  <2> QED
    BY <1>1
<1>3. g \in [Partitions -> Nat]
  <2>1. g = [p \in Partitions |-> g[p]]
    OBVIOUS
  <2> HIDE DEF g, Bounds
  <2> QED
    BY <1>2, <2>1
<1> HIDE DEF g
<1>4. PICK b \in Nat : \A p \in Partitions : g[p] <= b
  BY <1>3, HarnessAssumption, FiniteBounded
<1>5. ASSUME NEW r \in RecordsIn(topic)
      PROVE  TimeOf(r) <= b
  <2>1. PICK p \in Partitions : r \in ToSet(topic[p])
    BY RecordsFact
  <2>2. TimeOf(r) <= g[p] /\ g[p] \in Nat /\ g[p] <= b
    BY <1>2, <1>4, <2>1
  <2>3. TimeOf(r) \in Nat
    BY RecordsFact, TimeType
  <2> QED
    BY <2>2, <2>3
<1> QED
  BY <1>5

(* The next watermark: the latest time of the batch less the delay, or     *)
(* what it was.                                                            *)
LEMMA WatermarkFact ==
    ASSUME NEW topic \in Topics, NEW w \in Nat
    PROVE  LET v == Max({w} \cup {TimeOf(r) - Delay : r \in RecordsIn(topic)})
           IN  v \in Nat /\ w <= v
<1> DEFINE T == {w} \cup {TimeOf(r) - Delay : r \in RecordsIn(topic)}
<1>1. Delay \in Nat
  BY HarnessAssumption
<1>2. \A r \in RecordsIn(topic) : TimeOf(r) \in Nat
  BY RecordsFact, TimeType
<1>3. PICK b \in Nat : \A r \in RecordsIn(topic) : TimeOf(r) <= b
  BY TimesBounded
<1>4. T \in SUBSET Int /\ w \in T /\ b + w \in Nat
  BY <1>1, <1>2
<1>5. \A x \in T : x <= b + w
  BY <1>1, <1>2, <1>3
<1>6. Max(T) \in T /\ Max(T) \in Nat /\ \A x \in T : x <= Max(T)
  <2> HIDE DEF T
  <2> QED
    BY <1>4, <1>5, MaxOfInts
<1> DEFINE v == Max(T)
<1> HIDE DEF v
<1>7. v \in T /\ v \in Nat /\ \A x \in T : x <= v
  BY <1>6 DEF v
<1>8. v \in Nat /\ w <= v
  BY <1>7
<1> QED
  BY <1>8 DEF v

(* A record more is one of its own partition.                              *)
LEMMA ProducedFact ==
    ASSUME NEW topic \in Topics, NEW m \in Message
    PROVE  /\ Produced(topic, m) \in Topics
           /\ RecordsIn(Produced(topic, m)) = RecordsIn(topic) \cup {m}
           /\ \A a \in Accounts, s \in Seqs :
                 Copies(Produced(topic, m)[PartitionOf[a]], Event(a, s))
                     = Copies(topic[PartitionOf[a]], Event(a, s)) + Bit(Event(a, s) = m)
<1> DEFINE q == PartitionOf[m.acct]
           more == Produced(topic, m)
<1>1. q \in Partitions /\ \A p \in Partitions : topic[p] \in Seq(Message)
  BY PartitionFact, RecordsFact
<1>2. \A p \in Partitions : more[p] = IF p = q THEN Append(topic[p], m) ELSE topic[p]
  BY <1>1 DEF Produced, Topics
<1>3. more = [p \in Partitions |-> more[p]]
  BY DEF Produced, Topics
<1>4. \A p \in Partitions : /\ Append(topic[p], m) \in Seq(Message)
                            /\ \A x : Copies(Append(topic[p], m), x) = Copies(topic[p], x) + Bit(x = m)
                            /\ \A x : Copies(topic[p], x) \in Nat
                            /\ ToSet(Append(topic[p], m)) = ToSet(topic[p]) \cup {m}
  <2> TAKE p \in Partitions
  <2>1. topic[p] \in Seq(Message)
    BY <1>1
  <2>2. ToSet(Append(topic[p], m)) = ToSet(topic[p]) \cup {m}
    <3> DEFINE r == topic[p]
               u == Append(r, m)
    <3>1. /\ Len(r) \in Nat /\ DOMAIN r = 1..Len(r) /\ DOMAIN u = 1..(Len(r) + 1)
          /\ \A i \in 1..Len(r) : u[i] = r[i]
          /\ u[Len(r) + 1] = m
      BY <2>1, LenProperties, AppendProperties
    <3> HIDE DEF u, r
    <3>2. \A x \in ToSet(u) : x \in ToSet(r) \cup {m}
      BY <3>1 DEF ToSet
    <3>3. \A x \in ToSet(r) : x \in ToSet(u)
      BY <3>1 DEF ToSet
    <3>4. m \in ToSet(u)
      <4>1. Len(r) + 1 \in DOMAIN u
        BY <3>1
      <4> QED
        BY <3>1, <4>1 DEF ToSet
    <3> QED
      BY <3>2, <3>3, <3>4 DEF r, u
  <2> QED
    BY <2>1, <2>2, CopiesAppend, PlacesFinite
<1> HIDE DEF more, q
<1>5. more \in Topics
  <2>1. \A p \in Partitions : more[p] \in Seq(Message)
    BY <1>1, <1>2, <1>4
  <2> QED
    BY <1>3, <2>1 DEF Topics
<1>6. RecordsIn(more) = RecordsIn(topic) \cup {m}
  <2>1. \A p \in Partitions : ToSet(more[p]) = IF p = q THEN ToSet(topic[p]) \cup {m} ELSE ToSet(topic[p])
    BY <1>2, <1>4
  <2> QED
    BY <1>1, <2>1 DEF RecordsIn
<1>7. ASSUME NEW a \in Accounts, NEW s \in Seqs
      PROVE  Copies(more[PartitionOf[a]], Event(a, s))
                 = Copies(topic[PartitionOf[a]], Event(a, s)) + Bit(Event(a, s) = m)
  <2> DEFINE p == PartitionOf[a]
  <2>1. p \in Partitions
    BY PartitionFact
  <2> HIDE DEF p
  <2>2. CASE p = q
    BY <1>2, <1>4, <2>1, <2>2 DEF p
  <2>3. CASE p # q
    <3>1. Event(a, s) # m
      BY <2>3, EventFact DEF p, q
    <3>2. more[p] = topic[p]
      BY <1>2, <2>1, <2>3
    <3>3. Copies(topic[p], Event(a, s)) \in Nat
      BY <1>4, <2>1
    <3>4. Bit(Event(a, s) = m) = 0
      BY <3>1 DEF Bit
    <3>5. Copies(more[p], Event(a, s)) = Copies(topic[p], Event(a, s)) + Bit(Event(a, s) = m)
      BY <3>2, <3>3, <3>4
    <3> QED
      BY <3>5 DEF p
  <2> QED
    BY <2>2, <2>3
<1> QED
  BY <1>5, <1>6, <1>7 DEF more

(***************************************************************************)
(* The books of an account: position, applied events, gaps and balance     *)
(***************************************************************************)

(* A gap is a run of seqs right below an applied one and right above       *)
(* another, or from the start.                                             *)
Shaped(g, app) ==
    \E lo, hi \in Seqs :
        g = lo..hi /\ lo <= hi /\ (lo = 1 \/ lo - 1 \in app) /\ hi + 1 \in app

Books(x, gaps, bal) ==
    /\ Proper(x)
    /\ bal = Total[x.app]
    /\ x.last # 0 => x.last \in x.app
    /\ Policy = "HOLD" => x.app = 1..x.last
    /\ Policy # "HOLD" =>
          /\ x.app \cup UNION gaps = 1..x.last
          /\ x.app \cap UNION gaps = {}
          /\ \A g \in gaps : Shaped(g, x.app)

LEMMA ShapedGrows ==
    ASSUME NEW g, NEW A, NEW B, A \subseteq B, Shaped(g, A)
    PROVE  Shaped(g, B)
BY DEF Shaped

LEMMA BooksWalked ==
    ASSUME NEW x, NEW gaps, NEW bal, Books(x, gaps, bal),
           NEW rows, NEW w, NEW i, NEW y, Walked(x, rows, w, i, y),
           NEW c, c = bal + Total[(x.last + 1)..y.last]
    PROVE  Books(y, gaps, c)
<1> DEFINE run == (x.last + 1)..y.last
<1>1. /\ Proper(x) /\ Proper(y) /\ x.last <= y.last
      /\ y.app = x.app \cup run
  BY DEF Books, Walked
<1>2. /\ x.last \in Nat /\ y.last \in Nat /\ y.last <= MaxSeq /\ MaxSeq \in Nat
      /\ x.app \subseteq 1..x.last
  BY <1>1, BoundsAssumption DEF Proper
<1>3. run \in SUBSET Seqs /\ x.app \in SUBSET Seqs /\ x.app \cap run = {}
  <2>1. \A s \in run : s \in Nat /\ x.last < s /\ s \in Seqs
    BY <1>2 DEF Seqs
  <2>2. \A s \in x.app : s \in Nat /\ s <= x.last /\ s \in Seqs
    BY <1>1, <1>2 DEF Seqs
  <2> HIDE DEF run
  <2> QED
    BY <1>2, <2>1, <2>2
<1>4. c = Total[y.app]
  <2>1. Total[x.app \cup run] = Total[x.app] + Total[run]
    <3> HIDE DEF run
    <3> QED
      BY <1>3, TotalAssumption
  <2> QED
    BY <1>1, <2>1 DEF Books
<1>5. y.last # 0 => y.last \in y.app
  BY <1>1, <1>2 DEF Books
<1>6. Policy = "HOLD" => y.app = 1..y.last
  BY <1>1, <1>2 DEF Books
<1>7. ASSUME Policy # "HOLD"
      PROVE  /\ y.app \cup UNION gaps = 1..y.last
             /\ y.app \cap UNION gaps = {}
             /\ \A g \in gaps : Shaped(g, y.app)
  <2>1. /\ x.app \cup UNION gaps = 1..x.last
        /\ x.app \cap UNION gaps = {}
        /\ \A g \in gaps : Shaped(g, x.app)
    BY <1>7 DEF Books
  <2>2. run \cap UNION gaps = {}
    <3>1. \A s \in UNION gaps : s \in 1..x.last
      BY <2>1
    <3> QED
      BY <1>2, <3>1
  <2>3. 1..x.last \cup run = 1..y.last
    BY <1>1, <1>2
  <2>4. \A g \in gaps : Shaped(g, y.app)
    <3>1. x.app \subseteq y.app
      BY <1>1
    <3> QED
      BY <2>1, <3>1, ShapedGrows
  <2> HIDE DEF run
  <2> QED
    BY <1>1, <2>1, <2>2, <2>3, <2>4
<1> QED
  BY <1>1, <1>4, <1>5, <1>6, <1>7 DEF Books

LEMMA BooksConfirmed ==
    ASSUME NEW x, NEW gaps, NEW bal, Books(x, gaps, bal), NEW y, Confirms(x, y), y.last \in 0..MaxSeq,
           NEW c, c = bal + Total[x.buf \ y.buf]
    PROVE  Books(y, gaps \cup {(x.last + 1)..(Min(x.buf) - 1)}, c)
<1> DEFINE hole == (x.last + 1)..(Min(x.buf) - 1)
           more == gaps \cup {hole}
<1>1. /\ Proper(x) /\ x.last \in Nat /\ x.last <= MaxSeq /\ MaxSeq \in Nat
      /\ x.app \subseteq 1..x.last /\ x.buf \in SUBSET Seqs
      /\ \A b \in x.buf : x.last + 1 < b
      /\ y.ovf = x.ovf /\ y.dup = x.dup /\ x.ovf \in SUBSET Seqs /\ x.dup \in SUBSET Seqs
  BY BoundsAssumption DEF Books, Proper, Confirms
<1>2. x.app \in SUBSET Seqs /\ Total[x.app] \in Int
  BY <1>1, TotalAssumption DEF Seqs
<1>3. CASE Policy = "HOLD"
  <2>1. y.last = x.last /\ y.app = x.app /\ y.buf = x.buf
    BY <1>3 DEF Confirms
  <2>2. x.buf \ y.buf = {}
    BY <2>1
  <2>3. c = Total[y.app]
    BY <1>2, <2>1, <2>2, TotalAssumption DEF Books
  <2>4. Proper(y)
    BY <1>1, <2>1 DEF Proper
  <2> QED
    BY <1>3, <2>1, <2>3, <2>4 DEF Books
<1>4. CASE Policy # "HOLD"
  <2>1. PICK h \in x.buf :
           /\ h = Min(x.buf) /\ (\A b \in x.buf : h <= b)
           /\ x.last + 1 < h /\ h <= y.last
           /\ h..y.last \subseteq x.buf /\ y.last + 1 \notin x.buf
           /\ y.app = x.app \cup h..y.last
           /\ y.buf = x.buf \ (h..y.last)
           /\ y.last \in h..y.last
    <3>1. PICK h \in x.buf :
             /\ h = Min(x.buf) /\ (\A b \in x.buf : h <= b)
             /\ x.last + 1 < h /\ h <= y.last
             /\ h..y.last \subseteq x.buf /\ y.last + 1 \notin x.buf
             /\ y.app = x.app \cup h..y.last
             /\ y.buf = x.buf \ (h..y.last)
      BY <1>4 DEF Confirms
    <3>2. y.last \in h..y.last
      <4>1. h \in Nat /\ y.last \in Nat /\ h <= y.last
        BY <1>1, <3>1 DEF Seqs
      <4> QED
        BY <4>1
    <3> QED
      BY <3>1, <3>2
  <2>2. h \in Nat /\ y.last \in Seqs /\ y.last \in Nat /\ y.last <= MaxSeq
    BY <1>1, <2>1 DEF Seqs
  <2>3. y.buf \in SUBSET Seqs /\ \A b \in y.buf : y.last + 1 < b
    <3> SUFFICES ASSUME NEW b \in y.buf
                 PROVE  b \in Seqs /\ y.last + 1 < b
      OBVIOUS
    <3>1. b \in x.buf /\ b \in Nat /\ b \in Seqs /\ ~ (b \in h..y.last) /\ h <= b /\ b # y.last + 1
      BY <1>1, <2>1 DEF Seqs
    <3> QED
      BY <2>2, <3>1
  <2>4. y.app \subseteq 1..y.last
    BY <1>1, <2>1, <2>2
  <2>5. Proper(y)
    BY <1>1, <2>2, <2>3, <2>4 DEF Proper
  <2>6. x.buf \ y.buf = h..y.last
    BY <2>1
  <2>7. x.app \cap h..y.last = {} /\ h..y.last \in SUBSET Seqs
    BY <1>1, <2>1, <2>2
  <2>8. c = Total[y.app]
    <3> DEFINE run == h..y.last
    <3>1. run \in SUBSET Seqs /\ x.app \cap run = {} /\ y.app = x.app \cup run
          /\ x.buf \ y.buf = run
      BY <2>1, <2>6, <2>7
    <3> HIDE DEF run
    <3>2. Total[x.app \cup run] = Total[x.app] + Total[run]
      BY <1>2, <3>1, TotalAssumption
    <3> QED
      BY <3>1, <3>2 DEF Books
  <2>9. /\ x.app \cup UNION gaps = 1..x.last
        /\ x.app \cap UNION gaps = {}
        /\ \A g \in gaps : Shaped(g, x.app)
    BY <1>4 DEF Books
  <2>10. hole = (x.last + 1)..(h - 1) /\ UNION more = (UNION gaps) \cup hole
    BY <2>1
  <2>11. y.app \cup UNION more = 1..y.last
    <3>1. 1..y.last = (1..x.last \cup hole) \cup h..y.last
      BY <1>1, <2>1, <2>2, <2>10
    <3> HIDE DEF hole, more
    <3> QED
      BY <2>1, <2>9, <2>10, <3>1
  <2>12. y.app \cap UNION more = {}
    <3>1. x.app \cap hole = {} /\ h..y.last \cap hole = {}
      BY <1>1, <2>1, <2>2, <2>10
    <3>2. h..y.last \cap UNION gaps = {}
      <4>1. \A s \in UNION gaps : s \in 1..x.last
        BY <2>9
      <4> QED
        BY <1>1, <2>1, <2>2, <4>1
    <3> HIDE DEF hole, more
    <3> QED
      BY <2>1, <2>9, <2>10, <3>1, <3>2
  <2>13. Shaped(hole, y.app)
    <3>1. x.last + 1 \in Seqs /\ h - 1 \in Seqs /\ x.last + 1 <= h - 1
      BY <1>1, <2>1, <2>2 DEF Seqs
    <3>2. x.last + 1 = 1 \/ (x.last + 1) - 1 \in y.app
      BY <1>1, <2>1 DEF Books
    <3>3. (h - 1) + 1 \in y.app
      BY <2>1, <2>2
    <3> QED
      BY <2>10, <3>1, <3>2, <3>3 DEF Shaped
  <2>14. \A g \in more : Shaped(g, y.app)
    <3>1. x.app \subseteq y.app
      BY <2>1
    <3> QED
      BY <2>9, <2>13, <3>1, ShapedGrows
  <2>15. y.last \in y.app
    BY <2>1
  <2> HIDE DEF more
  <2>16. Books(y, more, c)
    BY <1>4, <2>5, <2>8, <2>11, <2>12, <2>14, <2>15 DEF Books
  <2> QED
    BY <2>16 DEF more
<1> QED
  BY <1>3, <1>4

LEMMA BooksStay ==
    ASSUME NEW x, NEW gaps, NEW bal, Books(x, gaps, bal), NEW y, Stays(x, y)
    PROVE  Books(y, gaps, bal)
BY DEF Books, Proper, Stays

(* With the books in order the count derived from position, gaps and       *)
(* evictions is the number of applied events never evicted.                *)
LEMMA CountFact ==
    ASSUME Policy # "HOLD", NEW x, NEW gaps, NEW bal, Books(x, gaps, bal),
           NEW row, row.last = x.last, NEW known, known.gaps = gaps, known.overflow = x.ovf
    PROVE  DerivedCount(row, known) = Cardinality(x.app \ x.ovf)
<1> DEFINE gone == ((UNION gaps) \cup x.ovf) \cap 1..x.last
           kept == x.app \ x.ovf
<1>1. x.last \in Nat /\ x.app \subseteq 1..x.last
  BY DEF Books, Proper
<1>2. x.app \cup UNION gaps = 1..x.last /\ x.app \cap UNION gaps = {}
  BY DEF Books
<1>3. gone \cup kept = 1..x.last /\ gone \cap kept = {}
  BY <1>1, <1>2
<1>4. IsFiniteSet(1..x.last) /\ Cardinality(1..x.last) = x.last
  BY <1>1, FS_Interval
<1>5. gone \in SUBSET (1..x.last) /\ kept \in SUBSET (1..x.last)
  BY <1>1
<1> HIDE DEF gone, kept
<1>6. IsFiniteSet(gone) /\ IsFiniteSet(kept)
  BY <1>4, <1>5, FS_Subset
<1>7. Cardinality(gone \cup kept) = Cardinality(gone) + Cardinality(kept)
  <2>1. Cardinality(gone \cup kept) = Cardinality(gone) + Cardinality(kept) - Cardinality(gone \cap kept)
    BY <1>6, FS_Union
  <2>2. Cardinality(gone \cap kept) = 0
    BY <1>3, FS_EmptySet
  <2>3. Cardinality(gone) \in Nat /\ Cardinality(kept) \in Nat
    BY <1>6, FS_CardinalityType
  <2> QED
    BY <2>1, <2>2, <2>3
<1>8. Cardinality(gone) \in Nat /\ Cardinality(kept) \in Nat
  BY <1>6, FS_CardinalityType
<1>9. Cardinality(kept) = x.last - Cardinality(gone)
  <2>1. x.last = Cardinality(gone) + Cardinality(kept)
    BY <1>3, <1>4, <1>7
  <2> QED
    BY <1>8, <2>1
<1>10. DerivedCount(row, known) = x.last - Cardinality(gone)
  BY DEF DerivedCount, gone
<1> QED
  BY <1>9, <1>10 DEF kept

(***************************************************************************)
(* The first invariant: types, agreement of key and row, and the books     *)
(***************************************************************************)

St(a) == Stood(table[a], applied[a], keys[a], found[a])

Typed ==
    /\ stream \in Seq(Events) /\ unread \in Topics
    /\ published \in Nat /\ trailing \in 0..Trailing /\ releases \in 0..MaxReleases
    /\ log \in [Accounts -> Seq(Seqs)]
    /\ errors \in SUBSET Events
    /\ watermark \in Nat /\ nextWatermark \in Nat
    /\ keys \in [Accounts -> Key] /\ table \in [Accounts -> BalanceRow]
    /\ found \in [Accounts -> Found] /\ applied \in [Accounts -> SUBSET Seqs]
    /\ late \in [Accounts -> SUBSET Seqs] /\ afterGap \in [Accounts -> SUBSET Seqs]

BooksInv ==
    /\ Typed
    /\ \A a \in Accounts :
          /\ Agree(keys[a], table[a]) /\ Armed(keys[a])
          /\ Books(St(a), found[a].gaps, table[a].bal)

(* An account's partition beyond the offset, and what a batch reads of it. *)
Queue(a) == unread[PartitionOf[a]]

Read(a, upto) == SubSeq(Queue(a), 1, upto[PartitionOf[a]])

LEMMA QueueType ==
    ASSUME Typed, NEW a \in Accounts
    PROVE  Queue(a) \in Seq(Message) /\ ToSet(Queue(a)) \subseteq RecordsIn(unread)
BY PartitionFact, RecordsFact DEF Typed, Queue

LEMMA CutFact ==
    ASSUME Typed, NEW upto \in Cuts, NEW p \in Partitions
    PROVE  unread[p] \in Seq(Message) /\ upto[p] \in 0..Len(unread[p])
<1> DEFINE g == [o \in Partitions |-> Len(unread[o])]
           T == {Len(unread[o]) : o \in Partitions}
<1>1. \A o \in Partitions : unread[o] \in Seq(Message) /\ Len(unread[o]) \in Nat
  BY RecordsFact, LenProperties DEF Typed
<1>2. g \in [Partitions -> Nat] /\ \A o \in Partitions : g[o] = Len(unread[o])
  BY <1>1
<1> HIDE DEF g
<1>3. PICK b \in Nat : \A o \in Partitions : g[o] <= b
  BY <1>2, HarnessAssumption, FiniteBounded
<1>4. T \in SUBSET Int /\ Len(unread[p]) \in T /\ Len(unread[p]) \in Nat /\ \A x \in T : x <= b
  BY <1>1, <1>2, <1>3
<1>5. Max(T) \in Nat
  <2> HIDE DEF T
  <2> QED
    BY <1>4, MaxOfInts
<1>6. upto \in [Partitions -> 0..Max(T)] /\ upto[p] <= Len(unread[p])
  BY DEF Cuts
<1> HIDE DEF T
<1>7. upto[p] \in 0..Max(T)
  BY <1>6
<1> QED
  BY <1>1, <1>5, <1>6, <1>7

(* What a batch leaves of a partition and what it takes of it.             *)
LEMMA RestFact ==
    ASSUME Typed, NEW upto \in Cuts
    PROVE  /\ Rest(upto) \in Topics /\ Took(upto) \in Topics
           /\ RecordsIn(Rest(upto)) \subseteq RecordsIn(unread)
           /\ RecordsIn(Took(upto)) \subseteq RecordsIn(unread)
           /\ \A a \in Accounts : /\ Read(a, upto) \in Seq(Message)
                                  /\ Took(upto)[PartitionOf[a]] = Read(a, upto)
                                  /\ ToSet(Read(a, upto)) \subseteq ToSet(Queue(a))
                                  /\ Rest(upto)[PartitionOf[a]] \in Seq(Message)
                                  /\ \A x : Copies(Queue(a), x) = Copies(Read(a, upto), x)
                                                + Copies(Rest(upto)[PartitionOf[a]], x)
<1> DEFINE had(p) == unread[p]
           took(p) == SubSeq(had(p), 1, upto[p])
           left(p) == SubSeq(had(p), upto[p] + 1, Len(had(p)))
<1>1. ASSUME NEW p \in Partitions
      PROVE  /\ took(p) \in Seq(Message) /\ left(p) \in Seq(Message)
             /\ \A x : Copies(had(p), x) = Copies(took(p), x) + Copies(left(p), x)
             /\ ToSet(took(p)) \subseteq ToSet(had(p)) /\ ToSet(left(p)) \subseteq ToSet(had(p))
  <2> DEFINE q == unread[p]
             n == upto[p]
  <2>1. q \in Seq(Message) /\ n \in 0..Len(q)
    BY CutFact
  <2> HIDE DEF q, n
  <2>2. /\ SubSeq(q, 1, n) \in Seq(Message) /\ SubSeq(q, n + 1, Len(q)) \in Seq(Message)
        /\ \A x : Copies(q, x) = Copies(SubSeq(q, 1, n), x) + Copies(SubSeq(q, n + 1, Len(q)), x)
    BY <2>1, CopiesCut
  <2>3. \A x : /\ Copies(q, x) \in Nat /\ Copies(SubSeq(q, 1, n), x) \in Nat
               /\ Copies(SubSeq(q, n + 1, Len(q)), x) \in Nat
               /\ (Copies(q, x) = 0 <=> x \notin ToSet(q))
               /\ (Copies(SubSeq(q, 1, n), x) = 0 <=> x \notin ToSet(SubSeq(q, 1, n)))
               /\ (Copies(SubSeq(q, n + 1, Len(q)), x) = 0 <=> x \notin ToSet(SubSeq(q, n + 1, Len(q))))
    BY <2>1, <2>2, PlacesFinite
  <2>4. /\ \A x \in ToSet(SubSeq(q, 1, n)) : x \in ToSet(q)
        /\ \A x \in ToSet(SubSeq(q, n + 1, Len(q))) : x \in ToSet(q)
    BY <2>2, <2>3
  <2> QED
    BY <2>2, <2>4 DEF q, n
<1>2. /\ Rest(upto) = [p \in Partitions |-> left(p)]
      /\ Took(upto) = [p \in Partitions |-> took(p)]
  BY DEF Rest, Took
<1>3. \A a : Queue(a) = had(PartitionOf[a]) /\ Read(a, upto) = took(PartitionOf[a])
  BY DEF Queue, Read
<1>4. \A topic : RecordsIn(topic) = UNION {ToSet(topic[p]) : p \in Partitions}
  BY DEF RecordsIn
<1>5. \A p \in Partitions : had(p) = unread[p]
  OBVIOUS
<1> HIDE DEF had, took, left
<1>6. \A p \in Partitions : Rest(upto)[p] = left(p) /\ Took(upto)[p] = took(p)
  BY <1>2
<1>7. Rest(upto) \in Topics /\ Took(upto) \in Topics
  BY <1>1, <1>2 DEF Topics
<1>8. RecordsIn(Rest(upto)) \subseteq RecordsIn(unread) /\ RecordsIn(Took(upto)) \subseteq RecordsIn(unread)
  <2>1. \A p \in Partitions : /\ ToSet(Rest(upto)[p]) \subseteq ToSet(unread[p])
                              /\ ToSet(Took(upto)[p]) \subseteq ToSet(unread[p])
    BY <1>1, <1>5, <1>6
  <2> QED
    BY <1>4, <2>1
<1>9. \A a \in Accounts : PartitionOf[a] \in Partitions
  BY PartitionFact
<1> QED
  BY <1>1, <1>3, <1>6, <1>7, <1>8, <1>9

(* One batch.                                                              *)
Batch(upto) ==
    /\ \A a \in Accounts :
          LET rows == RowsOf(a, Read(a, upto))
              r    == Invoke(keys[a], rows, table[a], nextWatermark)
          IN  /\ keys'[a] = r.key
              /\ table'[a] = Left(table[a], r)
              /\ found'[a] = Noted(keys[a], found[a], r)
              /\ applied'[a] = applied[a] \cup r.applied
              /\ late'[a] = late[a] \cup
                    {s \in ToSet(rows) :
                        \/ ~ OnTime(s, nextWatermark)
                        \/ s <= table[a].last /\ s \notin applied[a]}
              /\ afterGap'[a] = afterGap[a] \cup {s \in ToSet(rows) : found[a].gaps # {}}
    /\ keys' = [a \in Accounts |-> keys'[a]] /\ table' = [a \in Accounts |-> table'[a]]
    /\ found' = [a \in Accounts |-> found'[a]] /\ applied' = [a \in Accounts |-> applied'[a]]
    /\ late' = [a \in Accounts |-> late'[a]] /\ afterGap' = [a \in Accounts |-> afterGap'[a]]
    /\ nextWatermark' = Max({nextWatermark} \cup {TimeOf(r) - Delay : r \in RecordsIn(Took(upto))})
    /\ watermark' = nextWatermark
    /\ unread' = Rest(upto)
    /\ disordered' = (disordered \/
           \E r \in RecordsIn(Rest(upto)) : r.acct # Heartbeat /\ EventTs[r.seq] <= nextWatermark')
    /\ UNCHANGED <<stream, published, trailing, log, errors, releases, released>>

LEMMA BatchTaken == RunBatch => \E upto \in Cuts : Batch(upto)
<1> SUFFICES ASSUME RunBatch
             PROVE  \E upto \in Cuts : Batch(upto)
  OBVIOUS
<1> DEFINE rows(upto, a) == RowsOf(a, Read(a, upto))
           r(upto, a) == Invoke(keys[a], rows(upto, a), table[a], nextWatermark)
           B(upto) == [a \in Accounts |-> RowsOf(a, Took(upto)[PartitionOf[a]])]
           R(upto) == [a \in Accounts |-> Invoked(a, B(upto)[a])]
           Common(upto) ==
              /\ nextWatermark' = Max({nextWatermark} \cup {TimeOf(x) - Delay : x \in RecordsIn(Took(upto))})
              /\ watermark' = nextWatermark
              /\ unread' = Rest(upto)
              /\ disordered' = (disordered \/
                     \E x \in RecordsIn(Rest(upto)) : x.acct # Heartbeat /\ EventTs[x.seq] <= nextWatermark')
              /\ UNCHANGED <<stream, published, trailing, log, errors, releases, released>>
<1>1. PICK upto \in Cuts :
         /\ keys' = [a \in Accounts |-> R(upto)[a].key]
         /\ table' = [a \in Accounts |->
                         IF R(upto)[a].ran THEN Merged(table[a], R(upto)[a].row) ELSE table[a]]
         /\ found' = [a \in Accounts |-> Recorded(a, R(upto)[a])]
         /\ applied' = [a \in Accounts |-> applied[a] \cup R(upto)[a].applied]
         /\ late' = [a \in Accounts |-> late[a] \cup
                        {s \in ToSet(B(upto)[a]) :
                            \/ ~ OnTime(s, nextWatermark)
                            \/ s <= table[a].last /\ s \notin applied[a]}]
         /\ afterGap' = [a \in Accounts |-> afterGap[a] \cup
                        {s \in ToSet(B(upto)[a]) : found[a].gaps # {}}]
         /\ Common(upto)
  BY DEF RunBatch, generator
<1>2. \A a \in Accounts : B(upto)[a] = rows(upto, a)
  <2>1. \A a \in Accounts : PartitionOf[a] \in Partitions
    BY PartitionFact
  <2>2. \A a \in Accounts : Took(upto)[PartitionOf[a]] = Read(a, upto)
    BY <2>1 DEF Took, Read, Queue
  <2> QED
    BY <2>2
<1>3. \A a \in Accounts : R(upto)[a] = r(upto, a)
  <2> HIDE DEF B, rows
  <2> QED
    BY <1>2 DEF Invoked
<1>4. \A a, x : Recorded(a, x) = Noted(keys[a], found[a], x)
  BY DEF Recorded, Noted
<1> HIDE DEF B, R, r, Common
<1>5. /\ keys' = [a \in Accounts |-> r(upto, a).key]
      /\ table' = [a \in Accounts |-> Left(table[a], r(upto, a))]
      /\ found' = [a \in Accounts |-> Noted(keys[a], found[a], r(upto, a))]
      /\ applied' = [a \in Accounts |-> applied[a] \cup r(upto, a).applied]
  BY <1>1, <1>3, <1>4 DEF Left
<1> HIDE DEF rows
<1>6. /\ late' = [a \in Accounts |-> late[a] \cup
                     {s \in ToSet(rows(upto, a)) :
                         \/ ~ OnTime(s, nextWatermark)
                         \/ s <= table[a].last /\ s \notin applied[a]}]
      /\ afterGap' = [a \in Accounts |-> afterGap[a] \cup
                     {s \in ToSet(rows(upto, a)) : found[a].gaps # {}}]
  BY <1>1, <1>2
<1>7. Batch(upto)
  BY <1>1, <1>5, <1>6 DEF Batch, Common, r, rows
<1> QED
  BY <1>7

(* What a batch makes of an account.                                       *)
Outcome(a, records) ==
    LET rows == RowsOf(a, records)
        x == St(a)
        y == St(a)'
    IN  /\ y.last \in 0..MaxSeq
        /\ \/ /\ Reached(rows, nextWatermark)
              /\ Walked(x, rows, nextWatermark, Len(rows), y)
              /\ found'[a].gaps = found[a].gaps
              /\ table'[a].bal = table[a].bal + Total[(x.last + 1)..y.last]
           \/ /\ ~ Reached(rows, nextWatermark)
              /\ Confirms(x, y)
              /\ found'[a].gaps = found[a].gaps \cup {(x.last + 1)..(Min(x.buf) - 1)}
              /\ table'[a].bal = table[a].bal + Total[x.buf \ y.buf]
              /\ EarliestTs(x.buf) <= nextWatermark
           \/ /\ ~ Reached(rows, nextWatermark)
              /\ Stays(x, y)
              /\ found'[a].gaps = found[a].gaps
              /\ table'[a].bal = table[a].bal

LEMMA BatchOutcome ==
    ASSUME BooksInv, NEW upto \in Cuts, Batch(upto), NEW a \in Accounts
    PROVE  /\ Outcome(a, Read(a, upto))
           /\ Agree(keys'[a], table'[a]) /\ Armed(keys'[a]) /\ found'[a] \in Found
           /\ applied'[a] \in SUBSET Seqs
<1> DEFINE records == Read(a, upto)
           rows == RowsOf(a, records)
           key == keys[a]
           t == table[a]
           done == applied[a]
           known == found[a]
           w == nextWatermark
           r == Invoke(key, rows, t, w)
           x == St(a)
           y == St(a)'
<1>1. Ordered(rows)
  <2>1. Typed
    BY DEF BooksInv
  <2>2. records \in Seq(Message)
    BY <2>1, RestFact
  <2> HIDE DEF records
  <2> QED
    BY <2>2, RowsCopies
<1>2. /\ Agree(key, t) /\ Armed(key) /\ Books(x, known.gaps, t.bal)
      /\ known \in Found /\ w \in Nat /\ done \in SUBSET Seqs
  BY DEF BooksInv, Typed
<1>3. /\ keys'[a] = r.key /\ table'[a] = Left(t, r)
      /\ found'[a] = Noted(key, known, r) /\ applied'[a] = done \cup r.applied
  BY DEF Batch
<1>4. /\ x = Stood(t, done, key, known)
      /\ y = Stood(Left(t, r), done \cup r.applied, r.key, Noted(key, known, r))
  BY <1>3 DEF St
<1>5. /\ x.last = t.last /\ x.app = done /\ x.buf = key.acct.buf
      /\ y.last = Left(t, r).last /\ y.app = done \cup r.applied /\ y.buf = r.key.acct.buf
  BY <1>4 DEF Stood
<1>6. done \subseteq 1..t.last
  BY <1>2, <1>5 DEF Books, Proper
<1>7. Agree(keys'[a], table'[a])
  <2>1. Agree(r.key, Left(t, r))
    <3> HIDE DEF rows, key, t, w
    <3> QED
      BY <1>1, <1>2, InvokeAgrees
  <2> QED
    BY <1>3, <2>1
<1>8. y.last \in 0..MaxSeq
  <2>1. table'[a].last \in Nat /\ table'[a].last <= MaxSeq
    BY <1>7 DEF Agree, BalanceRow
  <2> QED
    BY <1>3, <1>5, <2>1, BoundsAssumption
<1>9. CASE Reached(rows, w)
  <2> HIDE DEF rows, key, t, w, done, known
  <2>0. /\ Agree(key, t) /\ Armed(key) /\ done \subseteq 1..t.last /\ known \in Found
        /\ Ordered(rows) /\ w \in Nat /\ Reached(rows, w)
    BY <1>1, <1>2, <1>6, <1>9
  <2>1. /\ Walked(Stood(t, done, key, known), rows, w, Len(rows),
                  Stood(Left(t, r), done \cup r.applied, r.key, Noted(key, known, r)))
        /\ Noted(key, known, r).gaps = known.gaps /\ Noted(key, known, r) \in Found
        /\ Left(t, r).bal = t.bal + Total[(t.last + 1)..Left(t, r).last]
        /\ Armed(r.key)
    <3>1. RowsLeave(key, t, done, known, rows, w)
      BY ONLY <2>0, BatchRows, Zenon
    <3> QED
      BY <3>1 DEF RowsLeave
  <2> HIDE DEF r, x, y
  <2>2. /\ Walked(x, rows, w, Len(rows), y)
        /\ found'[a].gaps = known.gaps /\ found'[a] \in Found
        /\ table'[a].bal = t.bal + Total[(x.last + 1)..y.last]
        /\ Armed(keys'[a])
    BY <1>3, <1>4, <1>5, <2>1
  <2>3. y.app \in SUBSET Seqs
    <3>1. Proper(y)
      BY <2>2 DEF Walked
    <3> QED
      BY <1>8, <3>1, BoundsAssumption DEF Proper, Seqs
  <2> QED
    BY <1>3, <1>5, <1>7, <1>8, <1>9, <2>2, <2>3 DEF Outcome, rows, key, t, w, done, known, x, y
<1>10. CASE ~ Reached(rows, w) /\ Expired(key, w) /\ key.acct.buf # {}
  <2> HIDE DEF rows, key, t, w, done, known
  <2>0. /\ Agree(key, t) /\ Armed(key) /\ known \in Found /\ w \in Nat
        /\ ~ Reached(rows, w) /\ Expired(key, w) /\ key.acct.buf # {}
    BY <1>2, <1>10
  <2>1. /\ Confirms(Stood(t, done, key, known),
                    Stood(Left(t, r), done \cup r.applied, r.key, Noted(key, known, r)))
        /\ Noted(key, known, r).gaps = known.gaps \cup {Hole(key.acct)}
        /\ Noted(key, known, r) \in Found
        /\ Hole(key.acct) = (t.last + 1)..(Min(key.acct.buf) - 1)
        /\ Left(t, r).bal = t.bal + Total[key.acct.buf \ r.key.acct.buf]
        /\ EarliestTs(key.acct.buf) <= w
        /\ Armed(r.key)
    <3>1. GapLeaves(key, t, done, known, rows, w)
      BY ONLY <2>0, BatchGap, Zenon
    <3> QED
      BY <3>1 DEF GapLeaves
  <2> HIDE DEF r, x, y
  <2>2. /\ Confirms(x, y)
        /\ found'[a].gaps = known.gaps \cup {(x.last + 1)..(Min(x.buf) - 1)}
        /\ found'[a] \in Found
        /\ table'[a].bal = t.bal + Total[x.buf \ y.buf]
        /\ EarliestTs(x.buf) <= w
        /\ Armed(keys'[a])
    BY <1>3, <1>4, <1>5, <2>1
  <2>3. y.app \in SUBSET Seqs
    <3>1. y.app \subseteq x.app \cup x.buf
      <4>1. y.app = x.app \/ \E h \in x.buf : y.app = x.app \cup h..y.last /\ h..y.last \subseteq x.buf
        BY <2>2 DEF Confirms
      <4> QED
        BY <4>1
    <3>2. x.app \in SUBSET Seqs /\ x.buf \in SUBSET Seqs
      BY <1>2, <1>5 DEF Books, Proper
    <3> QED
      BY <3>1, <3>2
  <2> QED
    BY <1>3, <1>5, <1>7, <1>8, <1>10, <2>2, <2>3 DEF Outcome, rows, key, t, w, done, known, x, y
<1>11. CASE ~ Reached(rows, w) /\ (~ Expired(key, w) \/ key.acct.buf = {})
  <2> HIDE DEF rows, key, t, w, done, known
  <2>0. /\ Agree(key, t) /\ Armed(key) /\ known \in Found /\ w \in Nat
        /\ ~ Reached(rows, w)
        /\ ~ Expired(key, w) \/ key.acct.buf = {}
    BY <1>2, <1>11
  <2>1. /\ Stays(Stood(t, done, key, known),
                 Stood(Left(t, r), done \cup r.applied, r.key, Noted(key, known, r)))
        /\ Noted(key, known, r).gaps = known.gaps /\ Noted(key, known, r) \in Found
        /\ Left(t, r).bal = t.bal
        /\ Armed(r.key)
    <3>1. QuietLeaves(key, t, done, known, rows, w)
      BY ONLY <2>0, BatchQuiet, Zenon
    <3> QED
      BY <3>1 DEF QuietLeaves
  <2> HIDE DEF r, x, y
  <2>2. /\ Stays(x, y)
        /\ found'[a].gaps = known.gaps /\ found'[a] \in Found
        /\ table'[a].bal = t.bal
        /\ Armed(keys'[a])
    BY <1>3, <1>4, <2>1
  <2>3. y.app \in SUBSET Seqs
    BY <1>2, <1>5, <2>2 DEF Stays
  <2> QED
    BY <1>3, <1>5, <1>7, <1>8, <1>11, <2>2, <2>3 DEF Outcome, rows, key, t, w, done, known, x, y
<1> QED
  BY <1>9, <1>10, <1>11

(***************************************************************************)
(* What the generator's steps do to the topic and the delivery log         *)
(***************************************************************************)

LEMMA FrontierFact ==
    ASSUME NEW count \in Nat, NEW tick \in Nat
    PROVE  Frontier(count, tick) \in Nat /\ Tick(Frontier(count, tick)) \in Message
<1> DEFINE l == Len(Order)
           x == count + l - 1
<1>1. l \in Nat \ {0}
  BY HarnessAssumption, EmptySeq, LenProperties
<1>2. x \in Nat
  BY <1>1
<1>3. x \div l \in Nat
  <2> HIDE DEF x, l
  <2> QED
    BY <1>1, <1>2
<1>4. Frontier(count, tick) \in Nat
  <2> HIDE DEF x, l
  <2>1. Frontier(count, tick) = (x \div l) + tick
    BY DEF Frontier, x, l
  <2> QED
    BY <1>3, <2>1
<1> QED
  BY <1>4 DEF Tick, Message

(* The head of the stream goes to the log, and to the topic unless the     *)
(* broker refuses it; a heartbeat may follow.                              *)
Published(e, lost, beat) ==
    /\ stream = <<e>> \o stream' /\ e \in Events /\ stream' \in Seq(Events)
    /\ log' \in [Accounts -> Seq(Seqs)]
    /\ log' = [log EXCEPT ![e.acct] = Append(@, e.seq)]
    /\ errors' = IF lost THEN errors \cup {e} ELSE errors
    /\ errors' \in SUBSET Events
    /\ unread' \in Topics
    /\ \A r \in RecordsIn(unread') : r \in RecordsIn(unread) \/ r = e \/ r.acct = Heartbeat
    /\ \A a \in Accounts, s \in Seqs :
          /\ Copies(Queue(a)', Event(a, s)) = Copies(Queue(a), Event(a, s)) + Bit(Event(a, s) = e /\ ~ lost)
          /\ Copies(stream, Event(a, s)) = Copies(stream', Event(a, s)) + Bit(Event(a, s) = e)
          /\ Copies(log'[a], s) = Copies(log[a], s) + Bit(Event(a, s) = e)
    /\ disordered' = (disordered \/ EventTs[e.seq] <= nextWatermark)
    /\ published' \in Nat
    /\ UNCHANGED <<trailing, releases, keys, table, found, watermark, nextWatermark,
                   applied, late, afterGap, released>>

LEMMA PublishFact ==
    ASSUME Typed, Publish
    PROVE  \E e \in Events, lost \in BOOLEAN, beat \in BOOLEAN : Published(e, lost, beat)
<1> DEFINE e == Head(stream)
<1>1. /\ stream # <<>> /\ stream \in Seq(Events) /\ unread \in Topics
      /\ published \in Nat /\ errors \in SUBSET Events /\ log \in [Accounts -> Seq(Seqs)]
  BY DEF Publish, Typed
<1>2. /\ e \in Events /\ Tail(stream) \in Seq(Events)
      /\ \A x : Copies(stream, x) = Copies(Tail(stream), x) + Bit(x = e)
  BY <1>1, CopiesTail
<1>3. stream = <<e>> \o Tail(stream)
  BY <1>1, HeadTailProperties
<1>4. PICK lost \in BOOLEAN, beat \in BOOLEAN :
         /\ log' = [log EXCEPT ![e.acct] = Append(@, e.seq)]
         /\ errors' = IF lost THEN errors \cup {e} ELSE errors
         /\ unread' = Sent(e, lost, beat)
         /\ disordered' = (disordered \/ EventTs[e.seq] <= nextWatermark)
         /\ stream' = Tail(stream) /\ published' = published + 1
         /\ UNCHANGED <<trailing, releases, keys, table, found, watermark, nextWatermark,
                        applied, late, afterGap, released>>
  BY DEF Publish, engine
<1> HIDE DEF e
<1>5. e.acct \in Accounts /\ e.seq \in Seqs /\ e \in Message /\ e = Event(e.acct, e.seq)
  BY <1>2 DEF Events, Message, Event
<1>6. \A a \in Accounts, s \in Seqs : Event(a, s) = e <=> a = e.acct /\ s = e.seq
  BY <1>5, EventFact
<1>7. \A a \in Accounts : log'[a] = IF a = e.acct THEN Append(log[a], e.seq) ELSE log[a]
  BY <1>1, <1>4
<1>8. /\ log' \in [Accounts -> Seq(Seqs)]
      /\ \A a \in Accounts, s \in Seqs : Copies(log'[a], s) = Copies(log[a], s) + Bit(Event(a, s) = e)
  <2>1. \A a \in Accounts : log[a] \in Seq(Seqs)
    BY <1>1
  <2>2. \A a \in Accounts : \A s : /\ Append(log[a], e.seq) \in Seq(Seqs)
                               /\ Copies(Append(log[a], e.seq), s) = Copies(log[a], s) + Bit(s = e.seq)
    BY <1>5, <2>1, CopiesAppend
  <2>3. \A a \in Accounts : \A s : Copies(log[a], s) \in Nat
    BY <2>1, PlacesFinite
  <2>4. \A a \in Accounts, s \in Seqs : Copies(log'[a], s) = Copies(log[a], s) + Bit(Event(a, s) = e)
    <3> TAKE a \in Accounts, s \in Seqs
    <3>1. CASE a = e.acct
      BY <1>6, <1>7, <2>2, <3>1 DEF Bit
    <3>2. CASE a # e.acct
      BY <1>6, <1>7, <2>3, <3>2 DEF Bit
    <3> QED
      BY <3>1, <3>2
  <2>5. \A a \in Accounts : log'[a] \in Seq(Seqs)
    BY <1>7, <2>1, <2>2
  <2>6. log' = [a \in Accounts |-> log'[a]]
    BY <1>1, <1>4
  <2> QED
    BY <2>4, <2>5, <2>6
<1> DEFINE m == Tick(Frontier(published + 1, 0))
           mid == IF lost THEN unread ELSE Produced(unread, e)
<1>9. m \in Message /\ m.acct = Heartbeat
  <2>1. published + 1 \in Nat /\ 0 \in Nat
    BY <1>1
  <2> QED
    BY <2>1, FrontierFact DEF Tick
<1>10. \A a \in Accounts, s \in Seqs : /\ Event(a, s) # m
                                       /\ Copies(Queue(a), Event(a, s)) \in Nat
  <2> TAKE a \in Accounts, s \in Seqs
  <2>1. Copies(Queue(a), Event(a, s)) \in Nat
    BY QueueType, PlacesFinite
  <2> QED
    BY <1>9, <2>1, EventFact, HarnessAssumption
<1>11. unread' = IF beat THEN Produced(mid, m) ELSE mid
  BY <1>4 DEF Sent
<1> HIDE DEF m
<1>12. /\ mid \in Topics
       /\ \A r \in RecordsIn(mid) : r \in RecordsIn(unread) \/ r = e
       /\ \A a \in Accounts, s \in Seqs :
             Copies(mid[PartitionOf[a]], Event(a, s)) = Copies(Queue(a), Event(a, s)) + Bit(Event(a, s) = e /\ ~ lost)
  <2>1. CASE lost
    BY <1>1, <1>10, <2>1 DEF Bit, Queue
  <2>2. CASE ~ lost
    <3>1. mid = Produced(unread, e)
      BY <2>2
    <3> HIDE DEF mid
    <3> QED
      BY <1>1, <1>5, <2>2, <3>1, ProducedFact DEF Queue
  <2> HIDE DEF mid
  <2> QED
    BY <2>1, <2>2
<1> HIDE DEF mid
<1>13. /\ unread' \in Topics
       /\ \A r \in RecordsIn(unread') : r \in RecordsIn(mid) \/ r = m
       /\ \A a \in Accounts, s \in Seqs :
             Copies(Queue(a)', Event(a, s)) = Copies(mid[PartitionOf[a]], Event(a, s))
  <2>1. CASE beat
    <3>1. unread' = Produced(mid, m)
      BY <1>11, <2>1
    <3>2. \A a \in Accounts, s \in Seqs :
             Copies(Queue(a)', Event(a, s)) = Copies(mid[PartitionOf[a]], Event(a, s)) + Bit(Event(a, s) = m)
      BY <1>9, <1>12, <3>1, ProducedFact DEF Queue
    <3>3. \A a \in Accounts, s \in Seqs : Copies(mid[PartitionOf[a]], Event(a, s)) \in Nat
      BY <1>10, <1>12 DEF Bit
    <3> QED
      BY <1>9, <1>10, <1>12, <3>1, <3>2, <3>3, ProducedFact DEF Bit
  <2>2. CASE ~ beat
    BY <1>11, <1>12, <2>2 DEF Queue
  <2> QED
    BY <2>1, <2>2
<1>14. /\ \A r \in RecordsIn(unread') : r \in RecordsIn(unread) \/ r = e \/ r.acct = Heartbeat
       /\ \A a \in Accounts, s \in Seqs :
             Copies(Queue(a)', Event(a, s)) = Copies(Queue(a), Event(a, s)) + Bit(Event(a, s) = e /\ ~ lost)
  BY <1>9, <1>12, <1>13
<1>15. errors' \in SUBSET Events
  BY <1>1, <1>2, <1>4
<1>16. Published(e, lost, beat)
  BY <1>1, <1>2, <1>3, <1>4, <1>8, <1>13, <1>14, <1>15 DEF Published
<1> QED
  BY <1>2, <1>16

LEMMA TrailingFact ==
    ASSUME Typed, SendTrailing
    PROVE  /\ unread' \in Topics /\ trailing' \in 0..Trailing
           /\ \A r \in RecordsIn(unread') : r \in RecordsIn(unread) \/ r.acct = Heartbeat
           /\ \A a \in Accounts, s \in Seqs :
                 Copies(Queue(a)', Event(a, s)) = Copies(Queue(a), Event(a, s))
<1> DEFINE m == Tick(Frontier(published, trailing + 1))
<1>1. /\ unread \in Topics /\ published \in Nat /\ trailing \in Nat /\ trailing + 1 \in 0..Trailing
      /\ unread' = Produced(unread, m) /\ trailing' = trailing + 1
  BY HarnessAssumption DEF Typed, SendTrailing
<1>2. m \in Message /\ m.acct = Heartbeat
  <2>1. trailing + 1 \in Nat
    BY <1>1
  <2> QED
    BY <1>1, <2>1, FrontierFact DEF Tick
<1> HIDE DEF m
<1>3. \A a \in Accounts, s \in Seqs : Event(a, s) # m /\ Copies(Queue(a), Event(a, s)) \in Nat
  <2> TAKE a \in Accounts, s \in Seqs
  <2>1. Copies(Queue(a), Event(a, s)) \in Nat
    BY QueueType, PlacesFinite
  <2> QED
    BY <1>2, <2>1, EventFact, HarnessAssumption
<1>4. \A a \in Accounts, s \in Seqs :
         Copies(Queue(a)', Event(a, s)) = Copies(Queue(a), Event(a, s)) + Bit(Event(a, s) = m)
  BY <1>1, <1>2, ProducedFact DEF Queue
<1>5. unread' \in Topics /\ RecordsIn(unread') = RecordsIn(unread) \cup {m}
  BY <1>1, <1>2, ProducedFact
<1>6. \A a \in Accounts, s \in Seqs : Copies(Queue(a)', Event(a, s)) = Copies(Queue(a), Event(a, s))
  BY <1>3, <1>4 DEF Bit
<1> QED
  BY <1>1, <1>2, <1>5, <1>6

(* What the log lacks lies below what it has.                              *)
LEMMA MissingFact ==
    ASSUME NEW q \in Seq(Seqs), q # <<>>
    PROVE  /\ ToSet(q) \in SUBSET Seqs /\ ToSet(q) # {}
           /\ Max(ToSet(q)) \in ToSet(q) /\ \A s \in ToSet(q) : s <= Max(ToSet(q))
           /\ Missing(q) \in SUBSET Seqs
           /\ Missing(q) # {} => Min(Missing(q)) \in Missing(q) /\ \A s \in Missing(q) : Min(Missing(q)) <= s
<1>1. Len(q) \in Nat /\ DOMAIN q = 1..Len(q) /\ \A i \in DOMAIN q : q[i] \in Seqs
  BY LenProperties
<1>2. Len(q) # 0
  BY EmptySeq, LenProperties
<1>3. 1 \in DOMAIN q
  BY <1>1, <1>2
<1>4. ToSet(q) \in SUBSET Seqs /\ ToSet(q) # {}
  BY <1>1, <1>3 DEF ToSet
<1>5. MaxSeq \in Nat /\ \A s \in ToSet(q) : s \in Nat /\ s <= MaxSeq
  BY <1>4, BoundsAssumption DEF Seqs
<1>6. Max(ToSet(q)) \in ToSet(q) /\ \A s \in ToSet(q) : s <= Max(ToSet(q))
  BY <1>4, <1>5, MaxOfBounded
<1>7. Missing(q) \in SUBSET Seqs
  <2>1. Max(ToSet(q)) \in Nat /\ Max(ToSet(q)) <= MaxSeq
    BY <1>5, <1>6
  <2> QED
    BY <1>5, <2>1 DEF Missing, Seqs
<1>8. Missing(q) \in SUBSET Nat
  BY <1>7, BoundsAssumption DEF Seqs
<1> QED
  BY <1>4, <1>6, <1>7, <1>8, MinFact

(* A head let go late: what is in the topic and in the log.                *)
LetGo(a, s, m) ==
    /\ m.acct = Heartbeat
    /\ s \in Missing(log[a]) /\ s \notin ToSet(log[a]) /\ log[a] # <<>>
    /\ log' = [log EXCEPT ![a] = Append(@, s)] /\ log' \in [Accounts -> Seq(Seqs)]
    /\ unread' \in Topics
    /\ released' = {[acct |-> a, seq |-> s, row |-> table[a]]}
    /\ \A b \in Accounts, t \in Seqs :
          /\ Copies(log'[b], t) = Copies(log[b], t) + Bit(b = a /\ t = s)
          /\ Copies(Queue(b), Event(b, t)) = 0
          /\ Copies(Queue(b)', Event(b, t)) = Bit(b = a /\ t = s)
    /\ stream = <<>> /\ stream' = <<>> /\ releases' = releases + 1
    /\ releases' \in 0..MaxReleases
    /\ UNCHANGED <<published, trailing, errors, keys, table, found, watermark,
                   nextWatermark, applied, late, afterGap, disordered>>

LEMMA ReleaseFact ==
    ASSUME Typed, ReleaseHead
    PROVE  \E a \in Accounts, s \in Seqs, m \in Message : LetGo(a, s, m)
<1>1. PICK a \in Accounts :
         /\ log[a] # <<>> /\ Missing(log[a]) # {}
         /\ LET s == Min(Missing(log[a]))
            IN  /\ log' = [log EXCEPT ![a] = Append(@, s)]
                /\ unread' = Produced(Produced(unread, Event(a, s)),
                                      Tick(Frontier(published, trailing + 1)))
                /\ released' = {[acct |-> a, seq |-> s, row |-> table[a]]}
  BY DEF ReleaseHead
<1> DEFINE s == Min(Missing(log[a]))
           m == Tick(Frontier(published, trailing + 1))
<1>2. /\ log' = [log EXCEPT ![a] = Append(@, s)]
      /\ unread' = Produced(Produced(unread, Event(a, s)), m)
      /\ released' = {[acct |-> a, seq |-> s, row |-> table[a]]}
  BY <1>1
<1>3. log \in [Accounts -> Seq(Seqs)] /\ published \in Nat /\ trailing + 1 \in Nat
  BY HarnessAssumption DEF Typed
<1>4. s \in Seqs /\ s \in Missing(log[a])
  <2>1. log[a] \in Seq(Seqs)
    BY <1>3
  <2> QED
    BY <1>1, <2>1, MissingFact
<1>5. s \notin ToSet(log[a])
  BY <1>4 DEF Missing
<1>6. m \in Message /\ m.acct = Heartbeat
  BY <1>3, FrontierFact DEF Tick
<1>7. /\ \A p \in Partitions : unread[p] = <<>>
      /\ unread \in Topics /\ stream = <<>> /\ stream' = <<>> /\ releases' = releases + 1
      /\ releases' \in 0..MaxReleases
      /\ UNCHANGED <<published, trailing, errors, keys, table, found, watermark,
                     nextWatermark, applied, late, afterGap, disordered>>
  BY HarnessAssumption DEF ReleaseHead, Drained, engine, Typed
<1> HIDE DEF s, m
<1>8. /\ log' \in [Accounts -> Seq(Seqs)]
      /\ \A b \in Accounts, t \in Seqs : Copies(log'[b], t) = Copies(log[b], t) + Bit(b = a /\ t = s)
  <2>1. \A b \in Accounts : log[b] \in Seq(Seqs)
    BY <1>3
  <2>2. \A b \in Accounts : \A t : /\ Append(log[b], s) \in Seq(Seqs)
                               /\ Copies(Append(log[b], s), t) = Copies(log[b], t) + Bit(t = s)
                               /\ Copies(log[b], t) \in Nat
    BY <1>4, <2>1, CopiesAppend, PlacesFinite
  <2>3. \A b \in Accounts : log'[b] = IF b = a THEN Append(log[b], s) ELSE log[b]
    BY <1>2, <1>3
  <2>4. log' = [b \in Accounts |-> log'[b]]
    BY <1>2, <1>3
  <2>5. \A b \in Accounts, t \in Seqs : Copies(log'[b], t) = Copies(log[b], t) + Bit(b = a /\ t = s)
    <3> TAKE b \in Accounts, t \in Seqs
    <3>1. CASE b = a
      BY <2>2, <2>3, <3>1 DEF Bit
    <3>2. CASE b # a
      BY <2>2, <2>3, <3>2 DEF Bit
    <3> QED
      BY <3>1, <3>2
  <2>6. \A b \in Accounts : log'[b] \in Seq(Seqs)
    BY <2>1, <2>2, <2>3
  <2> QED
    BY <2>4, <2>5, <2>6
<1>9. /\ unread' \in Topics
      /\ \A b \in Accounts, t \in Seqs :
            Copies(Queue(b)', Event(b, t))
                = Copies(Queue(b), Event(b, t)) + Bit(Event(b, t) = Event(a, s)) + Bit(Event(b, t) = m)
  <2> DEFINE f == Event(a, s)
             mid == Produced(unread, f)
  <2>1. f \in Message
    BY <1>4, EventFact
  <2>2. unread' = Produced(mid, m)
    BY <1>2
  <2> HIDE DEF f
  <2>3. /\ mid \in Topics
        /\ \A b \in Accounts, t \in Seqs :
              Copies(mid[PartitionOf[b]], Event(b, t))
                  = Copies(unread[PartitionOf[b]], Event(b, t)) + Bit(Event(b, t) = f)
    BY <1>7, <2>1, ProducedFact
  <2> HIDE DEF mid
  <2>4. /\ unread' \in Topics
        /\ \A b \in Accounts, t \in Seqs :
              Copies(unread'[PartitionOf[b]], Event(b, t))
                  = Copies(mid[PartitionOf[b]], Event(b, t)) + Bit(Event(b, t) = m)
    BY <1>6, <2>2, <2>3, ProducedFact
  <2> QED
    BY <2>3, <2>4 DEF f, Queue
<1>10. \A b \in Accounts, t \in Seqs : /\ Copies(Queue(b)', Event(b, t)) = Bit(b = a /\ t = s)
                                       /\ Copies(Queue(b), Event(b, t)) = 0
  <2> TAKE b \in Accounts, t \in Seqs
  <2>1. Event(b, t) # m /\ (Event(b, t) = Event(a, s) <=> b = a /\ t = s)
    BY <1>4, <1>6, EventFact, HarnessAssumption
  <2>2. Copies(<<>>, Event(b, t)) = 0
    BY CopiesNone
  <2>3. Copies(Queue(b)', Event(b, t))
            = Copies(Queue(b), Event(b, t)) + Bit(Event(b, t) = Event(a, s)) + Bit(Event(b, t) = m)
    BY <1>9
  <2>4. Copies(Queue(b), Event(b, t)) = 0
    BY <1>7, <2>2, PartitionFact DEF Queue
  <2>5. Copies(Queue(b)', Event(b, t)) = Bit(b = a /\ t = s)
    BY <2>1, <2>3, <2>4 DEF Bit
  <2> QED
    BY <2>4, <2>5
<1>11. LetGo(a, s, m)
  BY <1>1, <1>2, <1>4, <1>5, <1>6, <1>7, <1>8, <1>9, <1>10 DEF LetGo
<1> QED
  BY <1>4, <1>6, <1>11

(***************************************************************************)
(* The first invariant is inductive                                        *)
(***************************************************************************)

LEMMA StandingStays ==
    ASSUME UNCHANGED <<keys, table, found, applied>>
    PROVE  \A a : St(a)' = St(a)
BY DEF St

LEMMA BooksInit == Init => BooksInv
<1> SUFFICES ASSUME Init
             PROVE  BooksInv
  OBVIOUS
<1>1. ColdKey \in Key /\ NoRow \in BalanceRow /\ NothingFound \in Found /\ EmptyAccount \in Account
  BY DEF ColdKey, Key, NoRow, BalanceRow, NothingFound, Found, EmptyAccount, Account
<1>2. Typed
  <2>1. stream \in Seq(Events)
    BY StreamAssumption DEF Init, Events
  <2>2. <<>> \in Seq(Message) /\ <<>> \in Seq(Seqs)
    OBVIOUS
  <2>3. unread \in Topics
    BY <2>2 DEF Init, Topics
  <2> QED
    BY <1>1, <2>1, <2>2, <2>3, HarnessAssumption DEF Init, Typed
<1>3. ASSUME NEW a \in Accounts
      PROVE  /\ Agree(keys[a], table[a]) /\ Armed(keys[a])
             /\ Books(St(a), found[a].gaps, table[a].bal)
  <2>1. /\ keys[a] = ColdKey /\ table[a] = NoRow /\ found[a] = NothingFound /\ applied[a] = {}
    BY <1>3 DEF Init
  <2>2. Sound(EmptyAccount)
    BY <1>1, BoundsAssumption DEF Sound, EmptyAccount
  <2>3. Agree(keys[a], table[a])
    BY <1>1, <2>1, <2>2, BoundsAssumption DEF Agree, ColdKey, NoRow
  <2>4. Armed(keys[a])
    BY <2>1 DEF Armed, ColdKey, EmptyAccount
  <2> DEFINE x == St(a)
  <2>5. /\ x.last = 0 /\ x.app = {} /\ x.buf = {} /\ x.ovf = {} /\ x.dup = {}
        /\ found[a].gaps = {} /\ table[a].bal = 0
    BY <2>1 DEF St, Stood, ColdKey, NoRow, NothingFound, EmptyAccount
  <2> HIDE DEF x
  <2>6. Proper(x)
    BY <2>5, BoundsAssumption DEF Proper
  <2>7. 1..0 = {}
    OBVIOUS
  <2>8. Books(x, {}, 0)
    BY <2>5, <2>6, <2>7, TotalAssumption DEF Books
  <2> QED
    BY <2>3, <2>4, <2>5, <2>8 DEF x
<1> QED
  BY <1>2, <1>3 DEF BooksInv

LEMMA BooksRest ==
    ASSUME BooksInv, UNCHANGED <<keys, table, found, applied>>, Typed'
    PROVE  BooksInv'
<1>1. \A a \in Accounts : St(a)' = St(a)
  BY StandingStays
<1> QED
  BY <1>1 DEF BooksInv

LEMMA BooksBatch ==
    ASSUME BooksInv, NEW upto \in Cuts, Batch(upto)
    PROVE  BooksInv'
<1> DEFINE records(a) == Read(a, upto)
<1>1. Typed /\ nextWatermark \in Nat
  BY DEF BooksInv, Typed
<1>2. /\ \A a \in Accounts : records(a) \in Seq(Message)
      /\ unread' \in Topics /\ Took(upto) \in Topics
  BY <1>1, RestFact DEF Batch
<1>3. nextWatermark' \in Nat
  BY <1>1, <1>2, WatermarkFact DEF Batch
<1>4. \A a \in Accounts : /\ Outcome(a, records(a))
                          /\ Agree(keys'[a], table'[a]) /\ Armed(keys'[a])
                          /\ found'[a] \in Found /\ applied'[a] \in SUBSET Seqs
  BY BatchOutcome
<1> HIDE DEF records
<1>5. ASSUME NEW a \in Accounts
      PROVE  Books(St(a)', found'[a].gaps, table'[a].bal)
  <2> DEFINE x == St(a)
             y == St(a)'
             rows == RowsOf(a, records(a))
  <2>1. Books(x, found[a].gaps, table[a].bal)
    BY DEF BooksInv
  <2>2. Outcome(a, records(a))
    BY <1>4
  <2> HIDE DEF x, y, rows
  <2>3. y.last \in 0..MaxSeq
    BY <2>2 DEF Outcome, y
  <2>4. CASE /\ Walked(x, rows, nextWatermark, Len(rows), y)
             /\ found'[a].gaps = found[a].gaps
             /\ table'[a].bal = table[a].bal + Total[(x.last + 1)..y.last]
    BY <2>1, <2>4, BooksWalked DEF y
  <2>5. CASE /\ Confirms(x, y)
             /\ found'[a].gaps = found[a].gaps \cup {(x.last + 1)..(Min(x.buf) - 1)}
             /\ table'[a].bal = table[a].bal + Total[x.buf \ y.buf]
    <3>1. Books(y, found[a].gaps \cup {(x.last + 1)..(Min(x.buf) - 1)}, table'[a].bal)
      BY <2>1, <2>3, <2>5, BooksConfirmed
    <3> QED
      BY <2>5, <3>1 DEF y
  <2>6. CASE /\ Stays(x, y)
             /\ found'[a].gaps = found[a].gaps
             /\ table'[a].bal = table[a].bal
    BY <2>1, <2>6, BooksStay DEF y
  <2> QED
    BY <2>2, <2>4, <2>5, <2>6 DEF Outcome, x, y, rows
<1>6. /\ keys' \in [Accounts -> Key] /\ table' \in [Accounts -> BalanceRow]
      /\ found' \in [Accounts -> Found] /\ applied' \in [Accounts -> SUBSET Seqs]
  <2>1. \A a \in Accounts : keys'[a] \in Key /\ table'[a] \in BalanceRow
    BY <1>4 DEF Agree
  <2> QED
    BY <1>4, <2>1 DEF Batch
<1>7. late' \in [Accounts -> SUBSET Seqs] /\ afterGap' \in [Accounts -> SUBSET Seqs]
  <2>1. \A a \in Accounts : \A s \in ToSet(RowsOf(a, records(a))) : s \in Seqs
    BY <1>2, RowsCopies
  <2>2. \A a \in Accounts : late[a] \in SUBSET Seqs /\ afterGap[a] \in SUBSET Seqs
    BY DEF BooksInv, Typed
  <2>3. \A a \in Accounts : late'[a] \in SUBSET Seqs /\ afterGap'[a] \in SUBSET Seqs
    BY <2>1, <2>2 DEF Batch, records
  <2> QED
    BY <2>3 DEF Batch
<1>8. Typed'
  BY <1>1, <1>2, <1>3, <1>6, <1>7 DEF BooksInv, Typed, Batch
<1> QED
  BY <1>4, <1>5, <1>8 DEF BooksInv

LEMMA BooksKeep == BooksInv /\ [Next]_vars => BooksInv'
<1> SUFFICES ASSUME BooksInv, [Next]_vars
             PROVE  BooksInv'
  OBVIOUS
<1>0. Typed
  BY DEF BooksInv
<1>1. CASE Publish
  <2>1. PICK e \in Events, lost \in BOOLEAN, beat \in BOOLEAN : Published(e, lost, beat)
    BY <1>0, <1>1, PublishFact
  <2>2. Typed' /\ UNCHANGED <<keys, table, found, applied>>
    BY <1>0, <2>1 DEF Typed, Published
  <2> QED
    BY <2>2, BooksRest
<1>2. CASE SendTrailing
  <2>1. unread' \in Topics /\ trailing' \in 0..Trailing
    BY <1>0, <1>2, TrailingFact
  <2>2. Typed' /\ UNCHANGED <<keys, table, found, applied>>
    BY <1>0, <1>2, <2>1 DEF Typed, SendTrailing, engine, history
  <2> QED
    BY <2>2, BooksRest
<1>3. CASE RunBatch
  BY <1>3, BatchTaken, BooksBatch
<1>4. CASE ReleaseHead
  <2>1. PICK a \in Accounts, s \in Seqs, m \in Message : LetGo(a, s, m)
    BY <1>0, <1>4, ReleaseFact
  <2>2. Typed' /\ UNCHANGED <<keys, table, found, applied>>
    BY <1>0, <2>1 DEF Typed, LetGo
  <2> QED
    BY <2>2, BooksRest
<1>5. CASE UNCHANGED vars
  <2>1. Typed' /\ UNCHANGED <<keys, table, found, applied>>
    BY <1>0, <1>5 DEF Typed, vars, generator, engine, history
  <2> QED
    BY <2>1, BooksRest
<1> QED
  BY <1>1, <1>2, <1>3, <1>4, <1>5 DEF Next

LEMMA BooksAlways == Spec => []BooksInv
<1> QED
  BY BooksInit, BooksKeep, PTL DEF Spec

(* Harness is type-correct.                                                *)
THEOREM TypeCorrect == Spec => []TypeOK
<1>1. BooksInv => TypeOK
  <2> SUFFICES ASSUME BooksInv
               PROVE  TypeOK
    OBVIOUS
  <2>1. Typed
    BY DEF BooksInv
  <2>2. \A a \in Accounts : ToSet(log[a]) \subseteq Seqs
    <3> TAKE a \in Accounts
    <3>1. log[a] \in Seq(Seqs)
      BY <2>1 DEF Typed
    <3>2. \A i \in DOMAIN log[a] : log[a][i] \in Seqs
      BY <3>1, LenProperties
    <3> QED
      BY <3>2 DEF ToSet
  <2>3. errors \subseteq {Event(a, s) : a \in Accounts, s \in Seqs}
    <3>1. \A e \in Events : e = Event(e.acct, e.seq) /\ e.acct \in Accounts /\ e.seq \in Seqs
      BY DEF Events, Event
    <3>2. \A e \in errors : \E a \in Accounts, s \in Seqs : e = Event(a, s)
      BY <2>1, <3>1 DEF Typed
    <3> QED
      BY <3>2
  <2> QED
    BY <2>1, <2>2, <2>3 DEF Typed, TypeOK
<1> QED
  BY <1>1, BooksAlways, PTL

(* Table and audit trail together say how many events were applied, after  *)
(* every batch: the count the parity script derives is the true one as     *)
(* long as no evicted event got in by a second delivery.                   *)
THEOREM DerivedCountIsRight == Spec => []CountIsDerivable
<1>1. BooksInv => CountIsDerivable
  <2> SUFFICES ASSUME BooksInv, Policy # "HOLD", NEW a \in Accounts,
                      found[a].overflow \cap applied[a] = {}
               PROVE  DerivedCount(table[a], found[a]) = Cardinality(applied[a])
    BY DEF CountIsDerivable
  <2> DEFINE x == St(a)
  <2>1. /\ Books(x, found[a].gaps, table[a].bal)
        /\ table[a].last = x.last /\ found[a].overflow = x.ovf /\ applied[a] = x.app
    BY DEF BooksInv, St, Stood
  <2> HIDE DEF x
  <2>2. DerivedCount(table[a], found[a]) = Cardinality(x.app \ x.ovf)
    BY <2>1, CountFact
  <2>3. x.app \ x.ovf = x.app
    BY <2>1
  <2> QED
    BY <2>1, <2>2, <2>3
<1> QED
  BY <1>1, BooksAlways, PTL

(***************************************************************************)
(* The second invariant: every delivery is accounted for                   *)
(***************************************************************************)

(* What has become of an event, what is still to be read of it and what    *)
(* was refused of it never exceed the deliveries in the log; and no event  *)
(* is delivered more than twice.                                           *)
Tally(a, s) ==
    Score(St(a), s) + Copies(Queue(a), Event(a, s)) + Bit(Event(a, s) \in errors)
        <= Copies(log[a], s)

TallyInv ==
    \A a \in Accounts, s \in Seqs :
        Tally(a, s) /\ Copies(log[a], s) + Copies(stream, Event(a, s)) <= 2

LEMMA ScoreConfirmed ==
    ASSUME NEW x, NEW y, Confirms(x, y) \/ Stays(x, y)
    PROVE  \A s : Score(y, s) = Score(x, s)
<1>1. y.app \cup y.buf = x.app \cup x.buf /\ y.ovf = x.ovf /\ y.dup = x.dup
  BY DEF Confirms, Stays
<1> QED
  BY <1>1 DEF Score

LEMMA TakenCopies ==
    ASSUME NEW rows \in Seq(Seqs), NEW s
    PROVE  Taken(rows, Len(rows), s) = Copies(rows, s)
<1>1. DOMAIN rows = 1..Len(rows)
  BY LenProperties
<1> QED
  BY <1>1 DEF Taken, Copies, Places

LEMMA CopiesTypes ==
    ASSUME Typed, NEW a \in Accounts, NEW s \in Seqs
    PROVE  /\ Copies(Queue(a), Event(a, s)) \in Nat
           /\ Copies(log[a], s) \in Nat /\ Copies(stream, Event(a, s)) \in Nat
           /\ Copies(log[a], s) = 0 <=> s \notin ToSet(log[a])
<1>1. /\ Queue(a) \in Seq(Message) /\ log[a] \in Seq(Seqs) /\ stream \in Seq(Events)
  BY QueueType DEF Typed
<1> QED
  BY <1>1, PlacesFinite

(* What a batch reads of an event is what the account gets of it.          *)
LEMMA BatchReads ==
    ASSUME Typed, NEW upto \in Cuts, Batch(upto), NEW a \in Accounts, NEW s \in Seqs
    PROVE  LET rows == RowsOf(a, Read(a, upto))
           IN  /\ rows \in Seq(Seqs) /\ Copies(rows, s) \in Nat
               /\ Copies(Queue(a)', Event(a, s)) \in Nat
               /\ Copies(Queue(a), Event(a, s)) = Copies(rows, s) + Copies(Queue(a)', Event(a, s))
               /\ Taken(rows, Len(rows), s) = Copies(rows, s)
<1> DEFINE records == Read(a, upto)
           rows == RowsOf(a, records)
<1>1. Queue(a)' = Rest(upto)[PartitionOf[a]]
  BY DEF Batch, Queue
<1>2. /\ records \in Seq(Message) /\ Queue(a)' \in Seq(Message)
      /\ \A x : Copies(Queue(a), x) = Copies(records, x) + Copies(Queue(a)', x)
  BY <1>1, RestFact
<1> HIDE DEF records
<1>3. rows \in Seq(Seqs) /\ Copies(rows, s) = Copies(records, Event(a, s))
  BY <1>2, RowsCopies
<1>4. Copies(rows, s) \in Nat /\ Copies(Queue(a)', Event(a, s)) \in Nat
  BY <1>2, <1>3, PlacesFinite
<1>5. Taken(rows, Len(rows), s) = Copies(rows, s)
  BY <1>3, TakenCopies
<1> QED
  BY <1>2, <1>3, <1>4, <1>5 DEF records

LEMMA TallyInit == Init => TallyInv
<1> SUFFICES ASSUME Init, NEW a \in Accounts, NEW s \in Seqs
             PROVE  Tally(a, s) /\ Copies(log[a], s) + Copies(stream, Event(a, s)) <= 2
  BY DEF TallyInv
<1>1. log[a] = <<>> /\ Queue(a) = <<>> /\ errors = {} /\ stream \in Streams
  BY PartitionFact DEF Init, Queue
<1>2. Copies(<<>>, s) = 0 /\ Copies(<<>>, Event(a, s)) = 0
  BY CopiesNone
<1>3. Score(St(a), s) = 0
  <2>1. /\ St(a).app = {} /\ St(a).buf = {} /\ St(a).ovf = {} /\ St(a).dup = {}
    BY DEF Init, St, Stood, ColdKey, EmptyAccount, NothingFound
  <2> QED
    BY <2>1 DEF Score, Bit
<1>4. Copies(stream, Event(a, s)) <= 2
  <2>1. stream \in Seq(Events)
    BY <1>1, StreamAssumption DEF Events
  <2>2. CASE Event(a, s) \notin ToSet(stream)
    <3>1. Copies(stream, Event(a, s)) = 0
      BY <2>1, <2>2, PlacesFinite
    <3> QED
      BY <3>1
  <2>3. CASE Event(a, s) \in ToSet(stream)
    <3>1. PICK i \in DOMAIN stream : stream[i] = Event(a, s)
      BY <2>3 DEF ToSet
    <3>2. Cardinality({j \in DOMAIN stream : stream[j] = stream[i]}) <= 2
      BY <1>1, StreamAssumption
    <3> QED
      BY <3>1, <3>2 DEF Copies, Places
  <2> QED
    BY <2>2, <2>3
<1>5. Copies(stream, Event(a, s)) \in Nat
  <2>1. stream \in Seq(Events)
    BY <1>1, StreamAssumption DEF Events
  <2> QED
    BY <2>1, PlacesFinite
<1> QED
  BY <1>1, <1>2, <1>3, <1>4, <1>5 DEF Tally, Bit

LEMMA TallyKeep == BooksInv /\ TallyInv /\ [Next]_vars => TallyInv'
<1> SUFFICES ASSUME BooksInv, TallyInv, [Next]_vars, NEW a \in Accounts, NEW s \in Seqs
             PROVE  /\ Tally(a, s)'
                    /\ Copies(log[a], s)' + Copies(stream, Event(a, s))' <= 2
  BY DEF TallyInv
<1> DEFINE ev == Event(a, s)
           score == Score(St(a), s)
           left == Copies(Queue(a), ev)
           bad == Bit(ev \in errors)
           sent == Copies(log[a], s)
           more == Copies(stream, ev)
<1>0. Typed
  BY DEF BooksInv
<1>1. score \in Nat /\ left \in Nat /\ sent \in Nat /\ more \in Nat /\ bad \in Nat
  BY <1>0, CopiesTypes, ScoreType DEF Bit
<1>2. score + left + bad <= sent /\ sent + more <= 2
  BY DEF TallyInv, Tally
<1>3. SUFFICES score' + left' + bad' <= sent' /\ sent' + more' <= 2
  BY DEF Tally
<1>4. UNCHANGED <<keys, table, found, applied>> => score' = score
  BY DEF St
<1> HIDE DEF score
<1>5. CASE Publish
  <2>1. PICK e \in Events, lost \in BOOLEAN, beat \in BOOLEAN : Published(e, lost, beat)
    BY <1>0, <1>5, PublishFact
  <2>2. /\ left' = left + Bit(ev = e /\ ~ lost)
        /\ more = more' + Bit(ev = e)
        /\ sent' = sent + Bit(ev = e)
        /\ errors' = IF lost THEN errors \cup {e} ELSE errors
    BY <2>1 DEF Published
  <2>3. score' = score
    BY <1>4, <2>1 DEF Published
  <2>4. more' \in Nat
    <3>1. stream' \in Seq(Events)
      BY <2>1 DEF Published
    <3> QED
      BY <3>1, PlacesFinite
  <2>5. bad' = Bit(ev \in errors')
    OBVIOUS
  <2>6. bad' + Bit(ev = e /\ ~ lost) <= bad + Bit(ev = e)
    <3>1. CASE ev = e
      BY <2>2, <2>5, <3>1 DEF Bit
    <3>2. CASE ev # e
      BY <2>2, <2>5, <3>2 DEF Bit
    <3> QED
      BY <3>1, <3>2
  <2>7. Bit(ev = e /\ ~ lost) \in Nat /\ Bit(ev = e) \in Nat /\ bad' \in Nat
    BY DEF Bit
  <2> HIDE DEF ev, left, bad, sent, more
  <2>8. score' + left' + bad' <= sent'
    BY <1>1, <1>2, <2>2, <2>3, <2>6, <2>7
  <2>9. sent' + more' <= 2
    BY <1>1, <1>2, <2>2, <2>4, <2>7
  <2> QED
    BY <2>8, <2>9
<1>6. CASE SendTrailing
  <2>1. left' = left
    BY <1>0, <1>6, TrailingFact
  <2>2. score' = score /\ bad' = bad /\ sent' = sent /\ more' = more
    BY <1>4, <1>6 DEF SendTrailing, engine, history
  <2> QED
    BY <1>2, <2>1, <2>2
<1>7. CASE RunBatch
  <2>1. PICK upto \in Cuts : Batch(upto)
    BY <1>7, BatchTaken
  <2> DEFINE records == Read(a, upto)
             rows == RowsOf(a, records)
             x == St(a)
             y == St(a)'
  <2>2. /\ Copies(rows, s) \in Nat /\ left' \in Nat
        /\ left = Copies(rows, s) + left'
        /\ Taken(rows, Len(rows), s) = Copies(rows, s)
    BY <1>0, <2>1, BatchReads
  <2>3. Outcome(a, records)
    BY <2>1, BatchOutcome
  <2> HIDE DEF records
  <2>4. score = Score(x, s) /\ score' = Score(y, s)
    BY DEF score
  <2>5. score' <= score + Copies(rows, s)
    <3>1. CASE Walked(x, rows, nextWatermark, Len(rows), y)
      <4>1. Score(y, s) <= Score(x, s) + Taken(rows, Len(rows), s)
        <5> HIDE DEF x, y, rows
        <5> QED
          BY <3>1 DEF Walked
      <4> QED
        BY <2>2, <2>4, <4>1
    <3>2. CASE Confirms(x, y) \/ Stays(x, y)
      <4>1. Score(y, s) = Score(x, s)
        BY <3>2, ScoreConfirmed
      <4> QED
        BY <1>1, <2>2, <2>4, <4>1
    <3> QED
      BY <2>3, <3>1, <3>2 DEF Outcome
  <2>6. bad' = bad /\ sent' = sent /\ more' = more
    BY <2>1 DEF Batch
  <2>7. score' \in Nat
    BY <2>4, ScoreType
  <2> DEFINE c == Copies(rows, s)
  <2>8. c \in Nat /\ left' \in Nat /\ left = c + left' /\ score' <= score + c
    BY <2>2, <2>5
  <2> HIDE DEF ev, left, bad, sent, more, rows, c, x, y
  <2>12. score \in Nat /\ score' \in Nat /\ left \in Nat /\ bad \in Nat
    BY <1>1, <2>7
  <2>9. \A p, q, l, m, k, b, t \in Nat :
           l = k + m /\ q <= p + k /\ p + l + b <= t => q + m + b <= t
    OBVIOUS
  <2>10. score' + left' + bad <= sent
    BY ONLY <1>1, <1>2, <2>12, <2>8, <2>9, Zenon
  <2>11. score' + left' + bad' <= sent'
    BY ONLY <2>6, <2>10, Zenon
  <2> QED
    BY <1>2, <2>6, <2>11
<1>8. CASE ReleaseHead
  <2>1. PICK b \in Accounts, t \in Seqs, m \in Message : LetGo(b, t, m)
    BY <1>0, <1>8, ReleaseFact
  <2>2. /\ sent' = sent + Bit(a = b /\ s = t) /\ left = 0 /\ left' = Bit(a = b /\ s = t)
        /\ errors' = errors /\ stream = <<>> /\ stream' = <<>> /\ t \notin ToSet(log[b])
    BY <2>1 DEF LetGo
  <2>3. score' = score
    BY <1>4, <2>1 DEF LetGo
  <2>4. bad' = bad /\ more' = 0
    BY <2>2, CopiesNone
  <2>5. Bit(a = b /\ s = t) \in {0, 1}
    BY DEF Bit
  <2>6. a = b /\ s = t => sent = 0
    BY <1>0, <2>2, CopiesTypes
  <2>7. Bit(a = b /\ s = t) = 1 => sent = 0
    BY <2>6 DEF Bit
  <2> HIDE DEF ev, left, bad, sent, more
  <2> QED
    BY <1>1, <1>2, <2>2, <2>3, <2>4, <2>5, <2>7
<1>9. CASE UNCHANGED vars
  <2>1. score' = score
    BY <1>4, <1>9 DEF vars, engine, history
  <2>2. log' = log /\ unread' = unread /\ errors' = errors /\ stream' = stream
    BY <1>9 DEF vars, generator
  <2>3. left' = left /\ bad' = bad /\ sent' = sent /\ more' = more
    BY <2>2 DEF Queue
  <2> QED
    BY <1>2, <2>1, <2>3
<1> QED
  BY <1>5, <1>6, <1>7, <1>8, <1>9 DEF Next

LEMMA TallyAlways == Spec => []TallyInv
<1>1. Init => BooksInv /\ TallyInv
  BY BooksInit, TallyInit
<1>2. BooksInv /\ TallyInv /\ [Next]_vars => BooksInv' /\ TallyInv'
  BY BooksKeep, TallyKeep
<1> QED
  BY <1>1, <1>2, PTL DEF Spec

(***************************************************************************)
(* A strict pass is earned                                                 *)
(***************************************************************************)

(* What the oracle says is applied is in the log and was not evicted.      *)
LEMMA PredictionFact ==
    ASSUME NEW q \in Seq(Seqs), q # <<>>
    PROVE  /\ PredictedApplied(q) \in SUBSET ToSet(q)
           /\ Policy # "HOLD" => PredictedApplied(q) = ToSet(q) \ PredictedEvicted(q)
           /\ ~ HeadWithheld(q) => PredictedEvicted(q) = {}
           /\ HeadWithheld(q) => Determinate(q)
BY DEF PredictedApplied, PredictedEvicted, Determinate

(* Under HOLD the oracle applies the events before the first missing one.  *)
LEMMA HoldPrediction ==
    ASSUME NEW q \in Seq(Seqs), q # <<>>, Policy = "HOLD", NEW last \in Nat,
           last = IF PredictedApplied(q) = {} THEN 0 ELSE Max(PredictedApplied(q))
    PROVE  PredictedApplied(q) = 1..last
<1> DEFINE S == ToSet(q)
           P == PredictedApplied(q)
           top == Max(S)
<1>1. /\ S \in SUBSET Seqs /\ S # {} /\ top \in S /\ \A s \in S : s <= top
      /\ Missing(q) \in SUBSET Seqs
      /\ Missing(q) # {} => Min(Missing(q)) \in Missing(q) /\ \A s \in Missing(q) : Min(Missing(q)) <= s
  BY MissingFact
<1>2. Missing(q) = (1..top) \ S
  BY DEF Missing
<1>3. MaxSeq \in Nat /\ \A s \in Seqs : s \in Nat /\ 1 <= s
  BY BoundsAssumption DEF Seqs
<1>4. \E k \in Nat : P = 1..k
  <2>1. CASE Missing(q) = {}
    <3>1. ~ HeadWithheld(q)
      BY <2>1 DEF HeadWithheld
    <3>2. P = S
      BY <2>1, <3>1, PredictionFact DEF PredictedApplied
    <3> HIDE DEF P, S, top
    <3>3. S = 1..top /\ top \in Nat
      <4>1. 1..top \subseteq S
        BY <1>2, <2>1
      <4>2. \A s \in S : s \in Nat /\ 1 <= s /\ s <= top
        BY <1>1, <1>3
      <4>3. top \in Nat
        BY <1>1, <4>2
      <4>4. \A s \in S : s \in 1..top
        BY <4>2, <4>3
      <4> QED
        BY <4>1, <4>3, <4>4
    <3> QED
      BY <3>2, <3>3
  <2>2. CASE Missing(q) # {}
    <3> DEFINE m == Min(Missing(q))
    <3>1. m \in Missing(q) /\ (\A s \in Missing(q) : m <= s) /\ m \in Nat /\ 1 <= m /\ m <= top
          /\ m \notin S
      <4>1. m \in Missing(q) /\ \A s \in Missing(q) : m <= s
        BY <1>1, <2>2
      <4> HIDE DEF m, S, top
      <4>2. m \in 1..top /\ m \notin S /\ m \in Seqs
        BY <1>1, <1>2, <4>1
      <4> QED
        BY <1>3, <4>1, <4>2
    <3>2. P = {s \in S : s < m} \ PredictedEvicted(q)
      BY <2>2 DEF PredictedApplied
    <3>3. CASE m = 1
      <4>1. {s \in S : s < m} = {}
        <5> HIDE DEF S, m
        <5> QED
          BY <1>1, <1>3, <3>3
      <4>2. P = 1..0
        BY <3>2, <4>1
      <4> QED
        BY <4>2
    <3>4. CASE m # 1
      <4>1. ~ HeadWithheld(q)
        <5>1. ~ (m <= 1)
          BY <3>1, <3>4
        <5> QED
          BY <3>1, <5>1 DEF HeadWithheld
      <4>2. P = {s \in S : s < m}
        BY <3>2, <4>1, PredictionFact
      <4>3. {s \in S : s < m} = 1..(m - 1)
        <5> HIDE DEF S, m, top
        <5>1. ASSUME NEW s \in S, s < m
              PROVE  s \in 1..(m - 1)
          BY <1>1, <1>3, <3>1, <5>1
        <5>2. ASSUME NEW s \in 1..(m - 1)
              PROVE  s \in S /\ s < m
          <6>1. s \in 1..top /\ s < m /\ ~ (m <= s)
            BY <1>1, <1>3, <3>1, <5>2
          <6>2. s \notin Missing(q)
            BY <3>1, <6>1
          <6> QED
            BY <1>2, <6>1, <6>2
        <5> QED
          BY <5>1, <5>2
      <4>4. m - 1 \in Nat
        BY <3>1
      <4> QED
        BY <4>2, <4>3, <4>4
    <3> QED
      BY <3>3, <3>4
  <2> QED
    BY <2>1, <2>2
<1>5. PICK k \in Nat : P = 1..k
  BY <1>4
<1>6. CASE k = 0
  BY <1>5, <1>6
<1>7. CASE k # 0
  <2>1. P # {} /\ P \in SUBSET Nat /\ k \in P /\ \A s \in P : s <= k
    <3> HIDE DEF P
    <3>1. k \in 1..k /\ 1..k \in SUBSET Nat /\ \A s \in 1..k : s <= k
      BY <1>7
    <3> QED
      BY <1>5, <3>1
  <2>2. Max(P) \in P /\ \A s \in P : s <= Max(P)
    <3> HIDE DEF P
    <3> QED
      BY <2>1, MaxOfBounded
  <2>3. Max(P) = k
    <3> DEFINE t == Max(P)
    <3>1. t \in 1..k /\ k <= t
      BY <1>5, <2>1, <2>2
    <3> HIDE DEF t
    <3>2. t = k
      BY <3>1
    <3> QED
      BY <3>2 DEF t
  <2> QED
    BY <1>5, <2>1, <2>3
<1> QED
  BY <1>6, <1>7

(* What the parity script compares, one by one.                            *)
LEMMA MismatchFact ==
    ASSUME NEW o, NEW row, NEW known, NEW ask
    PROVE  Mismatches(o, row, known, ask) = {} /\ (o.determinate \/ ask.strict) =>
               /\ row.bal = o.bal /\ row.last = o.last
               /\ DerivedCount(row, known) = o.count
               /\ ~ ask.replay => known.dup = o.dup
               /\ o.determinate => known.overflow = o.overflow
<1> DEFINE wrong == [
            balance  |-> row.bal # o.bal,
            last     |-> row.last # o.last,
            count    |-> DerivedCount(row, known) # o.count,
            dup      |-> IF ask.replay THEN ~(o.dup \subseteq known.dup)
                                       ELSE known.dup # o.dup,
            overflow |-> o.determinate /\ known.overflow # o.overflow,
            ranges   |-> ask.ranges /\ known.gaps # o.gaps,
            drained  |-> ask.drained /\ row.size # 0,
            clean    |-> ask.clean /\ known # NothingFound]
<1>1. SUFFICES ASSUME Mismatches(o, row, known, ask) = {}, o.determinate \/ ask.strict
               PROVE  /\ row.bal = o.bal /\ row.last = o.last
                      /\ DerivedCount(row, known) = o.count
                      /\ ~ ask.replay => known.dup = o.dup
                      /\ o.determinate => known.overflow = o.overflow
  OBVIOUS
<1>2. Mismatches(o, row, known, ask) = {c \in DOMAIN wrong : wrong[c] /\ (o.determinate \/ ask.strict)}
  BY DEF Mismatches
<1>3. {"balance", "last", "count", "dup", "overflow"} \subseteq DOMAIN wrong
  OBVIOUS
<1>4. /\ wrong["balance"] = (row.bal # o.bal) /\ wrong["last"] = (row.last # o.last)
      /\ wrong["count"] = (DerivedCount(row, known) # o.count)
      /\ wrong["dup"] = IF ask.replay THEN ~(o.dup \subseteq known.dup) ELSE known.dup # o.dup
      /\ wrong["overflow"] = (o.determinate /\ known.overflow # o.overflow)
  OBVIOUS
<1> HIDE DEF wrong
<1>5. \A c \in DOMAIN wrong : ~ wrong[c]
  BY <1>1, <1>2
<1> QED
  BY <1>3, <1>4, <1>5

(* What the parity script finds equal tells what was applied: under HOLD   *)
(* by the position alone, otherwise by the count, since every delivery is  *)
(* accounted for.                                                          *)
LEMMA StrictFact ==
    ASSUME BooksInv, TallyInv, NEW a \in Accounts, log[a] # <<>>,
           LET o == Prediction(log[a])
           IN  /\ table[a].last = o.last
               /\ DerivedCount(table[a], found[a]) = o.count
               /\ found[a].dup = o.dup
               /\ o.determinate => found[a].overflow = o.overflow
    PROVE  /\ applied[a] = PredictedApplied(log[a])
           /\ Policy # "HOLD" => \A s \in Seqs : Event(a, s) \notin errors
<1> DEFINE q == log[a]
           P == PredictedApplied(q)
           E == PredictedEvicted(q)
           x == St(a)
           A == x.app
           O == x.ovf
<1>0. Typed /\ q \in Seq(Seqs) /\ q # <<>>
  BY DEF BooksInv, Typed
<1>1. /\ x.last = table[a].last /\ A = applied[a] /\ O = found[a].overflow
      /\ x.dup = found[a].dup
      /\ Books(x, found[a].gaps, table[a].bal)
  BY DEF BooksInv, St, Stood
<1>2. /\ x.last = IF P = {} THEN 0 ELSE Max(P)
      /\ DerivedCount(table[a], found[a]) = Cardinality(P)
      /\ x.dup = Repeated(q)
      /\ Determinate(q) => O = E
  BY <1>1 DEF Prediction
<1>3. CASE Policy = "HOLD"
  <2>1. P = 1..x.last
    <3>1. x.last \in Nat
      BY <1>1, BoundsAssumption DEF Books, Proper
    <3> HIDE DEF q, x
    <3> QED
      BY <1>0, <1>2, <1>3, <3>1, HoldPrediction
  <2>2. A = 1..x.last
    BY <1>1, <1>3 DEF Books
  <2> QED
    BY <1>1, <1>3, <2>1, <2>2
<1>4. CASE Policy # "HOLD"
  <2> DEFINE S == ToSet(q)
  <2>1. \A s \in Seqs :
           /\ Score(x, s) + Copies(Queue(a), Event(a, s)) + Bit(Event(a, s) \in errors) <= Copies(q, s)
           /\ Copies(q, s) <= 2
           /\ Score(x, s) \in Nat /\ Copies(Queue(a), Event(a, s)) \in Nat /\ Copies(q, s) \in Nat
           /\ Copies(q, s) = 0 <=> s \notin S
    <3> TAKE s \in Seqs
    <3>1. /\ Copies(Queue(a), Event(a, s)) \in Nat
          /\ Copies(q, s) \in Nat /\ Copies(stream, Event(a, s)) \in Nat
          /\ (Copies(q, s) = 0 <=> s \notin S)
      BY <1>0, CopiesTypes
    <3>2. /\ Tally(a, s) /\ Copies(q, s) + Copies(stream, Event(a, s)) <= 2
          /\ Score(x, s) \in Nat
      BY ScoreType DEF TallyInv
    <3>3. Copies(q, s) <= 2
      <4> DEFINE m == Copies(q, s)
                 n == Copies(stream, Event(a, s))
      <4>1. m \in Nat /\ n \in Nat /\ m + n <= 2
        BY <3>1, <3>2
      <4> HIDE DEF m, n
      <4>2. m <= 2
        BY <4>1
      <4> QED
        BY <4>2 DEF m
    <3> QED
      BY <3>1, <3>2, <3>3 DEF Tally
  <2>2. \A s \in Seqs : s \in Repeated(q) <=> Copies(q, s) > 1
    BY DEF Repeated, Copies, Places
  <2>3. /\ A \in SUBSET Seqs /\ O \in SUBSET Seqs /\ S \in SUBSET Seqs
    <3>1. S \in SUBSET Seqs
      BY <1>0, MissingFact
    <3>2. x.last \in Nat /\ x.last <= MaxSeq /\ A \subseteq 1..x.last /\ O \in SUBSET Seqs
      BY <1>1, BoundsAssumption DEF Books, Proper
    <3> QED
      BY <3>1, <3>2, BoundsAssumption DEF Seqs
  <2>4. P = S \ E /\ (~ HeadWithheld(q) => E = {}) /\ (HeadWithheld(q) => O = E)
    BY <1>0, <1>2, <1>4, PredictionFact
  <2> HIDE DEF q, S, P, E, x, A, O
  <2>5. \A s \in Seqs : Score(x, s) = Bit(s \in A \cup x.buf) + Bit(s \in O) + Bit(s \in x.dup)
    BY DEF Score, A, O
  <2>6. \A s \in Seqs : s \in A \/ s \in O \/ s \in x.dup => s \in S
    <3> SUFFICES ASSUME NEW s \in Seqs, s \in A \/ s \in O \/ s \in x.dup
                 PROVE  s \in S
      OBVIOUS
    <3>1. Score(x, s) >= 1
      BY <2>5 DEF Bit
    <3>2. Bit(Event(a, s) \in errors) \in Nat
      BY DEF Bit
    <3>3. Copies(q, s) # 0
      BY <2>1, <3>1, <3>2
    <3> QED
      BY <2>1, <3>3
  <2>7. A \ O \subseteq P
    BY <2>3, <2>4, <2>6
  <2>8. Cardinality(A \ O) = Cardinality(P)
    <3>1. DerivedCount(table[a], found[a]) = Cardinality(x.app \ x.ovf)
      BY <1>1, <1>4, CountFact DEF O
    <3> QED
      BY <1>2, <3>1 DEF A, O
  <2>9. A \ O = P
    <3>1. IsFiniteSet(P)
      <4>1. IsFiniteSet(Seqs)
        BY SeqsFinite
      <4>2. P \in SUBSET Seqs
        BY <2>3, <2>4
      <4> QED
        BY <4>1, <4>2, FS_Subset
    <3> DEFINE T == A \ O
    <3>2. T \in SUBSET P /\ Cardinality(P) = Cardinality(T)
      BY <2>7, <2>8
    <3> HIDE DEF T
    <3>3. P = T
      BY <3>1, <3>2, FS_Subset
    <3> QED
      BY <3>3 DEF T
  <2>10. A \cap O = {}
    <3> SUFFICES ASSUME NEW s \in Seqs, s \in A, s \in O
                 PROVE  FALSE
      BY <2>3
    <3>1. Bit(Event(a, s) \in errors) \in Nat
      BY DEF Bit
    <3>2. Score(x, s) >= 2
      BY <2>5 DEF Bit
    <3>3. Copies(q, s) > 1
      BY <2>1, <3>1, <3>2
    <3>4. s \in x.dup
      BY <1>2, <2>2, <3>3
    <3>5. Score(x, s) = 3
      BY <2>5, <3>4 DEF Bit
    <3> QED
      BY <2>1, <3>1, <3>5
  <2>11. A = P
    BY <2>9, <2>10
  <2>12. ASSUME NEW s \in Seqs, Event(a, s) \in errors
         PROVE  FALSE
    <3>1. Bit(Event(a, s) \in errors) = 1
      BY <2>12 DEF Bit
    <3>2. s \in S
      BY <2>1, <3>1
    <3>3. s \in A \cup O
      BY <2>4, <2>11, <3>2
    <3>4. Score(x, s) >= 1
      BY <2>5, <3>3 DEF Bit
    <3>5. s \in x.dup
      <4>1. Copies(q, s) > 1
        BY <2>1, <3>1, <3>4
      <4> QED
        BY <1>2, <2>2, <4>1
    <3>6. Score(x, s) >= 2
      BY <2>5, <3>3, <3>5 DEF Bit
    <3> QED
      BY <2>1, <3>1, <3>6
  <2> QED
    BY <1>1, <2>11, <2>12 DEF P, q
<1> QED
  BY <1>3, <1>4

(* A strict pass of the parity script is never given to a run that lost a  *)
(* record, applied one that came too late or left one out: whatever the    *)
(* order of publication, the batches, the duplicates and the evictions.    *)
THEOREM StrictPassProvesTheRun == Spec => []StrictPassIsEarned
<1>1. BooksInv /\ TallyInv => StrictPassIsEarned
  <2> SUFFICES ASSUME BooksInv, TallyInv,
                      ParityPasses(log, table, found, [Plain EXCEPT !.strict = TRUE])
               PROVE  /\ Policy # "HOLD" => errors = {}
                      /\ \A a \in Accounts : log[a] # <<>> => applied[a] = PredictedApplied(log[a])
    BY DEF StrictPassIsEarned
  <2> DEFINE ask == [Plain EXCEPT !.strict = TRUE]
  <2>1. ask.strict = TRUE /\ ask.replay = FALSE
    BY DEF Plain
  <2>2. DOMAIN log = Accounts /\ errors \in SUBSET Events
    BY DEF BooksInv, Typed
  <2> HIDE DEF ask
  <2>3. ASSUME NEW a \in Accounts, log[a] # <<>>
        PROVE  /\ applied[a] = PredictedApplied(log[a])
               /\ Policy # "HOLD" => \A s \in Seqs : Event(a, s) \notin errors
    <3> DEFINE o == Prediction(log[a])
               row == table[a]
               known == found[a]
    <3>1. Mismatches(o, row, known, ask) = {}
      BY <2>2, <2>3 DEF ParityPasses, Failing, ask
    <3> HIDE DEF o, row, known
    <3>2. /\ row.last = o.last
          /\ DerivedCount(row, known) = o.count
          /\ known.dup = o.dup
          /\ o.determinate => known.overflow = o.overflow
      BY <2>1, <3>1, MismatchFact
    <3> QED
      BY <2>3, <3>2, StrictFact DEF o, row, known
  <2>4. ASSUME NEW a \in Accounts, log[a] = <<>>, NEW s \in Seqs
        PROVE  Event(a, s) \notin errors
    <3>1. Tally(a, s) /\ Score(St(a), s) \in Nat /\ Copies(Queue(a), Event(a, s)) \in Nat
      BY CopiesTypes, ScoreType DEF TallyInv, BooksInv
    <3>2. Copies(log[a], s) = 0
      BY <2>4, CopiesNone
    <3>3. Bit(Event(a, s) \in errors) \in {0, 1} /\ (Event(a, s) \in errors => Bit(Event(a, s) \in errors) = 1)
      BY DEF Bit
    <3> QED
      BY <3>1, <3>2, <3>3 DEF Tally
  <2>5. Policy # "HOLD" => errors = {}
    <3> SUFFICES ASSUME Policy # "HOLD", NEW e \in errors
                 PROVE  FALSE
      OBVIOUS
    <3>1. e.acct \in Accounts /\ e.seq \in Seqs /\ e = Event(e.acct, e.seq)
      BY <2>2 DEF Events, Event
    <3> QED
      BY <2>3, <2>4, <3>1
  <2> QED
    BY <2>3, <2>5
<1> QED
  BY <1>1, BooksAlways, TallyAlways, PTL

(***************************************************************************)
(* The third invariant: as long as nothing that is read passes an event    *)
(* that is not by a whole delay, none is read late                         *)
(***************************************************************************)

(* What is still to be read is ahead of the watermark.                     *)
AheadOfTime ==
    \A r \in RecordsIn(unread) : r.acct # Heartbeat => EventTs[r.seq] > nextWatermark

(* An event that was logged and not refused is in the topic or known to    *)
(* the account.                                                            *)
Kept(a, s) ==
    s \in ToSet(log[a]) /\ Event(a, s) \notin errors =>
        Event(a, s) \in ToSet(Queue(a)) \/ s \in St(a).app \cup St(a).buf \cup St(a).ovf

(* A seq inside a reported gap is not logged and can no longer be, or was  *)
(* refused, or evicted.                                                    *)
Absent(a, s) ==
    s \in UNION found[a].gaps =>
        \/ s \notin ToSet(log[a]) /\ EventTs[s] <= nextWatermark
        \/ Event(a, s) \in errors
        \/ s \in St(a).ovf

WaitInv ==
    ~ disordered /\ releases = 0 =>
        /\ AheadOfTime
        /\ \A a \in Accounts, s \in Seqs : Kept(a, s) /\ Absent(a, s)

LEMMA EarliestFact ==
    ASSUME NEW B \in SUBSET Seqs, B # {}
    PROVE  \E b \in B : EarliestTs(B) = EventTs[b]
<1> DEFINE T == {EventTs[s] : s \in B}
<1>1. T \in SUBSET Nat /\ T # {}
  BY EventTsAssumption
<1>2. Min(T) \in T
  <2> HIDE DEF T
  <2> QED
    BY <1>1, MinFact
<1> QED
  BY <1>2 DEF EarliestTs

LEMMA TopicIsAhead ==
    ASSUME Typed, AheadOfTime, NEW a \in Accounts, NEW s \in Seqs, Event(a, s) \in ToSet(Queue(a))
    PROVE  EventTs[s] > nextWatermark
<1>1. Event(a, s) \in RecordsIn(unread)
  BY QueueType
<1>2. Event(a, s).seq = s /\ Event(a, s).acct # Heartbeat
  BY EventFact, HarnessAssumption
<1> HIDE DEF AheadOfTime
<1> QED
  BY <1>1, <1>2 DEF AheadOfTime

LEMMA RowsOnTime ==
    ASSUME Typed, AheadOfTime, NEW upto \in Cuts, NEW a \in Accounts
    PROVE  LET rows == RowsOf(a, Read(a, upto))
           IN  \A i \in DOMAIN rows : OnTime(rows[i], nextWatermark)
<1> DEFINE records == Read(a, upto)
           rows == RowsOf(a, records)
<1>1. records \in Seq(Message) /\ ToSet(records) \subseteq ToSet(Queue(a))
  BY RestFact
<1> HIDE DEF records
<1>2. \A s \in ToSet(rows) : s \in Seqs /\ Event(a, s) \in ToSet(records)
  BY <1>1, RowsCopies
<1>3. ASSUME NEW s \in ToSet(rows)
      PROVE  OnTime(s, nextWatermark)
  <2>1. s \in Seqs /\ Event(a, s) \in ToSet(Queue(a))
    BY <1>1, <1>2
  <2>2. EventTs[s] > nextWatermark
    BY <2>1, TopicIsAhead
  <2> QED
    BY <2>2 DEF OnTime
<1> QED
  BY <1>3 DEF ToSet, records

LEMMA WaitBatch ==
    ASSUME BooksInv, AheadOfTime, \A a \in Accounts, s \in Seqs : Kept(a, s) /\ Absent(a, s),
           NEW upto \in Cuts, Batch(upto), NEW a \in Accounts, NEW s \in Seqs
    PROVE  Kept(a, s)' /\ Absent(a, s)'
<1> DEFINE records == Read(a, upto)
           rows == RowsOf(a, records)
           x == St(a)
           y == St(a)'
           w == nextWatermark
           ev == Event(a, s)
           X == x.app \cup x.buf \cup x.ovf
           Y == y.app \cup y.buf \cup y.ovf
           G == UNION found[a].gaps
           H == UNION found'[a].gaps
<1>0. Typed
  BY DEF BooksInv
<1>1. /\ Queue(a) \in Seq(Message) /\ w \in Nat /\ EventTs[s] \in Nat /\ s \in Nat
  BY <1>0, QueueType, EventTsAssumption, BoundsAssumption DEF Typed, Seqs
<1>2. /\ records \in Seq(Message) /\ Queue(a)' \in Seq(Message)
      /\ \A z : Copies(Queue(a), z) = Copies(records, z) + Copies(Queue(a)', z)
  <2>1. Queue(a)' = Rest(upto)[PartitionOf[a]]
    BY DEF Batch, Queue
  <2> QED
    BY <1>0, <2>1, RestFact
<1>3. log' = log /\ errors' = errors
  BY DEF Batch
<1>4. Outcome(a, records)
  BY BatchOutcome
<1>5. w <= nextWatermark' /\ nextWatermark' \in Nat
  <2>1. Took(upto) \in Topics
    BY <1>0, RestFact
  <2> QED
    BY <1>1, <2>1, WatermarkFact DEF Batch
<1>6. \A i \in DOMAIN rows : OnTime(rows[i], w)
  BY <1>0, RowsOnTime
<1>7. ev \in ToSet(Queue(a)) => ev \in ToSet(Queue(a)') \/ s \in ToSet(rows)
  <2>1. /\ Copies(Queue(a), ev) = 0 <=> ev \notin ToSet(Queue(a))
        /\ Copies(Queue(a)', ev) = 0 <=> ev \notin ToSet(Queue(a)')
        /\ Copies(records, ev) = 0 <=> ev \notin ToSet(records)
    <3> HIDE DEF records, ev
    <3> QED
      BY <1>1, <1>2, PlacesFinite
  <2>2. Copies(Queue(a), ev) = Copies(records, ev) + Copies(Queue(a)', ev)
    BY <1>2
  <2>3. ev \in ToSet(records) => s \in ToSet(rows)
    <3> HIDE DEF records
    <3> QED
      BY <1>2, RowsCopies
  <2> QED
    BY <2>1, <2>2, <2>3
<1>8. /\ Books(x, found[a].gaps, table[a].bal) /\ x.last \in Nat
      /\ x.app \subseteq 1..x.last
      /\ x.buf \in SUBSET Seqs /\ \A b \in x.buf : x.last + 1 < b /\ b \in Nat
  BY BoundsAssumption DEF BooksInv, Books, Proper, Seqs
<1>9. /\ s \in ToSet(log[a]) /\ ev \notin errors => ev \in ToSet(Queue(a)) \/ s \in X
      /\ s \in G => \/ s \notin ToSet(log[a]) /\ EventTs[s] <= w
                    \/ ev \in errors
                    \/ s \in x.ovf
  BY DEF Kept, Absent
<1>10. SUFFICES /\ s \in ToSet(log[a]) /\ ev \notin errors => ev \in ToSet(Queue(a)') \/ s \in Y
                /\ s \in H => \/ s \notin ToSet(log[a]) /\ EventTs[s] <= nextWatermark'
                              \/ ev \in errors
                              \/ s \in y.ovf
  BY <1>3 DEF Kept, Absent
<1> HIDE DEF records, ev, x, y, w, G, H
<1>11. CASE /\ Walked(x, rows, w, Len(rows), y)
            /\ found'[a].gaps = found[a].gaps
  <2>1. /\ x.app \subseteq y.app /\ x.ovf \subseteq y.ovf /\ x.buf \subseteq Y
    <3> HIDE DEF rows
    <3> QED
      BY <1>11 DEF Walked
  <2>2. H = G
    BY <1>11 DEF G, H
  <2>3. ASSUME s \in ToSet(log[a]), ev \notin errors, s \in ToSet(rows)
        PROVE  s \in Y
    <3>1. PICK i \in DOMAIN rows : rows[i] = s
      BY <2>3 DEF ToSet
    <3>2. i \in 1..Len(rows) /\ OnTime(rows[i], w)
      <4>1. rows \in Seq(Seqs)
        BY <1>2, RowsCopies
      <4> QED
        BY <1>6, <4>1, LenProperties
    <3>3. rows[i] \in Y \/ rows[i] <= x.last
      <4> HIDE DEF rows
      <4> QED
        BY <1>11, <3>2 DEF Walked
    <3>4. CASE s <= x.last
      <4>1. CASE Policy = "HOLD"
        <5>1. s \in x.app
          <6>1. x.app = 1..x.last
            BY <1>8, <4>1 DEF Books
          <6>2. 1 <= s
            BY DEF Seqs
          <6> QED
            BY <1>1, <1>8, <3>4, <6>1, <6>2
        <5> QED
          BY <2>1, <5>1
      <4>2. CASE Policy # "HOLD"
        <5>1. x.app \cup G = 1..x.last
          BY <1>8, <4>2 DEF Books, G
        <5>2. s \in 1..x.last
          BY <1>1, <1>8, <3>4 DEF Seqs
        <5>3. s \in x.app \/ s \in G
          BY <5>1, <5>2
        <5> QED
          BY <1>9, <2>1, <2>3, <5>3
      <4> QED
        BY <4>1, <4>2
    <3> QED
      BY <3>1, <3>3, <3>4
  <2>4. s \in ToSet(log[a]) /\ ev \notin errors => ev \in ToSet(Queue(a)') \/ s \in Y
    BY <1>7, <1>9, <2>1, <2>3
  <2>5. s \in G => \/ s \notin ToSet(log[a]) /\ EventTs[s] <= nextWatermark'
                   \/ ev \in errors
                   \/ s \in y.ovf
    BY <1>1, <1>5, <1>9, <2>1
  <2> QED
    BY <2>2, <2>4, <2>5
<1>12. ASSUME ~ Reached(rows, w)
       PROVE  ev \in ToSet(Queue(a)) => ev \in ToSet(Queue(a)')
  <2>1. ASSUME s \in ToSet(rows)
        PROVE  FALSE
    BY <1>6, <1>12, <2>1 DEF ToSet, Reached
  <2> QED
    BY <1>7, <2>1
<1>13. CASE /\ ~ Reached(rows, w)
            /\ Confirms(x, y)
            /\ found'[a].gaps = found[a].gaps \cup {(x.last + 1)..(Min(x.buf) - 1)}
            /\ EarliestTs(x.buf) <= w
  <2> DEFINE hole == (x.last + 1)..(Min(x.buf) - 1)
  <2>1. x.buf # {} /\ y.app \cup y.buf = x.app \cup x.buf /\ y.ovf = x.ovf
    BY <1>13 DEF Confirms
  <2>2. Y = X /\ H = G \cup hole
    BY <1>13, <2>1 DEF G, H
  <2>3. PICK b \in x.buf : EarliestTs(x.buf) = EventTs[b]
    BY <1>8, <2>1, EarliestFact
  <2>4. Min(x.buf) \in x.buf /\ Min(x.buf) <= b
    <3>1. x.buf \in SUBSET Nat
      BY <1>8
    <3> QED
      BY <2>1, <3>1, MinFact
  <2>5. ASSUME s \in hole
        PROVE  \/ s \notin ToSet(log[a]) /\ EventTs[s] <= nextWatermark'
               \/ ev \in errors
               \/ s \in y.ovf
    <3>1. /\ x.last < s /\ s < Min(x.buf)
      BY <1>1, <1>8, <2>4, <2>5
    <3>2. s <= b /\ b \in Seqs
      BY <1>1, <1>8, <2>4, <3>1
    <3>3. EventTs[s] <= EventTs[b] /\ EventTs[b] \in Nat
      BY <3>2, StreamAssumption, EventTsAssumption
    <3>4. EventTs[s] <= w
      BY <1>1, <1>13, <2>3, <3>3
    <3>5. s \notin x.app
      BY <1>1, <1>8, <3>1
    <3>6. s \notin x.buf
      <4>1. \A z \in x.buf : Min(x.buf) <= z
        <5>1. x.buf \in SUBSET Nat
          BY <1>8
        <5> QED
          BY <2>1, <5>1, MinFact
      <4> QED
        BY <1>1, <1>8, <2>4, <3>1, <4>1
    <3>7. ev \notin ToSet(Queue(a))
      <4>1. ev \in ToSet(Queue(a)) => EventTs[s] > w
        BY <1>0, TopicIsAhead DEF ev, w
      <4> QED
        BY <1>1, <3>4, <4>1
    <3>8. EventTs[s] <= nextWatermark'
      BY <1>1, <1>5, <3>4
    <3> QED
      BY <1>9, <2>1, <3>5, <3>6, <3>7, <3>8
  <2>6. s \in G => \/ s \notin ToSet(log[a]) /\ EventTs[s] <= nextWatermark'
                   \/ ev \in errors
                   \/ s \in y.ovf
    BY <1>1, <1>5, <1>9, <2>1
  <2> HIDE DEF hole, X, Y
  <2> QED
    BY <1>9, <1>12, <1>13, <2>2, <2>5, <2>6
<1>14. CASE /\ ~ Reached(rows, w) /\ Stays(x, y) /\ found'[a].gaps = found[a].gaps
  <2>1. Y = X /\ H = G /\ y.ovf = x.ovf
    BY <1>14 DEF G, H, Stays
  <2>2. s \in G => \/ s \notin ToSet(log[a]) /\ EventTs[s] <= nextWatermark'
                   \/ ev \in errors
                   \/ s \in y.ovf
    BY <1>1, <1>5, <1>9, <2>1
  <2> HIDE DEF X, Y
  <2> QED
    BY <1>9, <1>12, <1>14, <2>1, <2>2
<1> QED
  <2> HIDE DEF rows, X, Y
  <2> QED
    BY <1>4, <1>11, <1>13, <1>14 DEF Outcome, records, x, y, w, rows

LEMMA WaitInit == Init => WaitInv
<1> SUFFICES ASSUME Init
             PROVE  WaitInv
  OBVIOUS
<1>1. /\ unread = [p \in Partitions |-> <<>>]
      /\ log = [a \in Accounts |-> <<>>] /\ found = [a \in Accounts |-> NothingFound]
  BY DEF Init
<1>2. /\ RecordsIn(unread) = {}
      /\ \A a \in Accounts : ToSet(log[a]) = {} /\ found[a].gaps = {}
  <2>1. ToSet(<<>>) = {}
    BY DEF ToSet
  <2> QED
    BY <1>1, <2>1 DEF RecordsIn, NothingFound
<1> QED
  BY <1>2 DEF WaitInv, AheadOfTime, Kept, Absent

LEMMA WaitPublish ==
    ASSUME BooksInv, BooksInv', AheadOfTime, NEW a \in Accounts, NEW s \in Seqs,
           Kept(a, s), Absent(a, s), Publish, ~ disordered'
    PROVE  Kept(a, s)' /\ Absent(a, s)'
<1> DEFINE ev == Event(a, s)
           X == St(a).app \cup St(a).buf \cup St(a).ovf
           O == St(a).ovf
<1>0. Typed /\ Typed'
  BY DEF BooksInv
<1>1. PICK e \in Events, lost \in BOOLEAN, beat \in BOOLEAN : Published(e, lost, beat)
  BY <1>0, PublishFact
<1>2. St(a)' = St(a) /\ found' = found /\ nextWatermark' = nextWatermark
  BY <1>1, StandingStays DEF Published
<1>3. /\ errors \subseteq errors' /\ (lost => e \in errors')
      /\ ~ (EventTs[e.seq] <= nextWatermark)
  BY <1>1 DEF Published
<1>4. ev # e => (s \in ToSet(log'[a]) <=> s \in ToSet(log[a]))
  <2>1. log[a] \in Seq(Seqs) /\ log'[a] \in Seq(Seqs)
    BY <1>0 DEF Typed
  <2>2. /\ Copies(log[a], s) \in Nat /\ Copies(log'[a], s) \in Nat
        /\ Copies(log[a], s) = 0 <=> s \notin ToSet(log[a])
        /\ Copies(log'[a], s) = 0 <=> s \notin ToSet(log'[a])
    BY <2>1, PlacesFinite
  <2>3. Copies(log'[a], s) = Copies(log[a], s) + Bit(ev = e)
    BY <1>1 DEF Published
  <2>4. ev # e => Bit(ev = e) = 0
    BY DEF Bit
  <2> HIDE DEF ev
  <2> QED
    BY <2>2, <2>3, <2>4
<1>5. /\ ev \in ToSet(Queue(a)) => ev \in ToSet(Queue(a)')
      /\ ev = e /\ ~ lost => ev \in ToSet(Queue(a)')
  <2>1. Queue(a) \in Seq(Message) /\ Queue(a)' \in Seq(Message)
    BY <1>0, PartitionFact, RecordsFact DEF Typed, Queue
  <2>2. /\ Copies(Queue(a), ev) \in Nat /\ Copies(Queue(a)', ev) \in Nat
        /\ Copies(Queue(a), ev) = 0 <=> ev \notin ToSet(Queue(a))
        /\ Copies(Queue(a)', ev) = 0 <=> ev \notin ToSet(Queue(a)')
    <3> HIDE DEF ev
    <3> QED
      BY <2>1, PlacesFinite
  <2>3. Copies(Queue(a)', ev) = Copies(Queue(a), ev) + Bit(ev = e /\ ~ lost)
    BY <1>1 DEF Published
  <2> HIDE DEF ev
  <2> QED
    BY <2>2, <2>3 DEF Bit
<1>6. ev = e => EventTs[s] > nextWatermark
  <2>1. ev = e => e.seq = s
    BY DEF Event
  <2>2. nextWatermark \in Nat /\ EventTs[s] \in Nat
    BY <1>0, EventTsAssumption DEF Typed
  <2> HIDE DEF ev
  <2> QED
    BY <1>3, <2>1, <2>2
<1>7. nextWatermark \in Nat /\ EventTs[s] \in Nat
  BY <1>0, EventTsAssumption DEF Typed
<1>8. /\ s \in ToSet(log[a]) /\ ev \notin errors => ev \in ToSet(Queue(a)) \/ s \in X
      /\ s \in UNION found[a].gaps => \/ s \notin ToSet(log[a]) /\ EventTs[s] <= nextWatermark
                                      \/ ev \in errors
                                      \/ s \in O
  BY DEF Kept, Absent
<1>9. SUFFICES /\ s \in ToSet(log'[a]) /\ ev \notin errors' => ev \in ToSet(Queue(a)') \/ s \in X
               /\ s \in UNION found[a].gaps => \/ s \notin ToSet(log'[a]) /\ EventTs[s] <= nextWatermark
                                               \/ ev \in errors'
                                               \/ s \in O
  BY <1>2 DEF Kept, Absent
<1> HIDE DEF ev, X, O
<1>10. CASE ev = e
  <2>1. ~ (EventTs[s] <= nextWatermark)
    BY <1>6, <1>7, <1>10
  <2> QED
    BY <1>3, <1>5, <1>8, <1>10, <2>1
<1>11. CASE ev # e
  BY <1>3, <1>4, <1>5, <1>8, <1>11
<1> QED
  BY <1>10, <1>11

LEMMA WaitKeep == BooksInv /\ WaitInv /\ [Next]_vars => WaitInv'
<1> SUFFICES ASSUME BooksInv, WaitInv, [Next]_vars, ~ disordered', releases' = 0
             PROVE  AheadOfTime' /\ \A a \in Accounts, s \in Seqs : Kept(a, s)' /\ Absent(a, s)'
  BY DEF WaitInv
<1>0. Typed /\ BooksInv' /\ releases \in Nat
  <2>1. BooksInv'
    BY BooksKeep
  <2>2. Typed /\ releases \in Nat
    BY HarnessAssumption DEF BooksInv, Typed
  <2> QED
    BY <2>1, <2>2
<1>1. CASE UNCHANGED vars
  <2>1. /\ UNCHANGED <<keys, table, found, applied>>
        /\ unread' = unread /\ log' = log /\ errors' = errors /\ nextWatermark' = nextWatermark
        /\ disordered' = disordered /\ releases' = releases
    BY <1>1 DEF vars, generator, engine, history
  <2>2. /\ AheadOfTime
        /\ \A a \in Accounts, s \in Seqs : Kept(a, s) /\ Absent(a, s)
    BY <2>1 DEF WaitInv
  <2>3. \A a \in Accounts : St(a)' = St(a)
    BY <2>1, StandingStays
  <2>4. AheadOfTime'
    BY <2>1, <2>2 DEF AheadOfTime
  <2>5. \A a : Queue(a)' = Queue(a)
    BY <2>1 DEF Queue
  <2> QED
    BY <2>1, <2>2, <2>3, <2>4, <2>5 DEF Kept, Absent
<1>2. CASE ReleaseHead
  <2>1. releases' = releases + 1
    BY <1>2 DEF ReleaseHead
  <2> QED
    BY <1>0, <2>1
<1>3. CASE Publish \/ SendTrailing \/ RunBatch
  <2>1. ~ disordered /\ releases = 0
    <3>1. CASE Publish
      <4>1. PICK e \in Events, lost \in BOOLEAN, beat \in BOOLEAN : Published(e, lost, beat)
        BY <1>0, <3>1, PublishFact
      <4> QED
        BY <4>1 DEF Published
    <3>2. CASE SendTrailing
      BY <3>2 DEF SendTrailing, history
    <3>3. CASE RunBatch
      <4>1. PICK upto \in Cuts : Batch(upto)
        BY <3>3, BatchTaken
      <4> QED
        BY <4>1 DEF Batch
    <3> QED
      BY <1>3, <3>1, <3>2, <3>3
  <2>2. /\ AheadOfTime
        /\ \A a \in Accounts, s \in Seqs : Kept(a, s) /\ Absent(a, s)
    BY <2>1 DEF WaitInv
  <2>3. AheadOfTime'
    <3>1. CASE Publish
      <4>1. PICK e \in Events, lost \in BOOLEAN, beat \in BOOLEAN : Published(e, lost, beat)
        BY <1>0, <3>1, PublishFact
      <4>2. /\ nextWatermark' = nextWatermark /\ ~ (EventTs[e.seq] <= nextWatermark)
            /\ \A r \in RecordsIn(unread') : r \in RecordsIn(unread) \/ r = e \/ r.acct = Heartbeat
        BY <4>1 DEF Published
      <4>3. EventTs[e.seq] \in Nat /\ nextWatermark \in Nat
        BY <1>0, EventTsAssumption DEF Typed, Events
      <4> QED
        BY <2>2, <4>2, <4>3 DEF AheadOfTime
    <3>2. CASE SendTrailing
      <4>1. /\ nextWatermark' = nextWatermark
            /\ \A r \in RecordsIn(unread') : r \in RecordsIn(unread) \/ r.acct = Heartbeat
        BY <1>0, <3>2, TrailingFact DEF SendTrailing, engine
      <4> QED
        BY <2>2, <4>1 DEF AheadOfTime
    <3>3. CASE RunBatch
      <4>1. PICK upto \in Cuts : Batch(upto)
        BY <3>3, BatchTaken
      <4>2. /\ unread' = Rest(upto)
            /\ \A r \in RecordsIn(unread') : ~ (r.acct # Heartbeat /\ EventTs[r.seq] <= nextWatermark')
        BY <4>1 DEF Batch
      <4>3. \A r \in RecordsIn(unread') : r.acct # Heartbeat => EventTs[r.seq] \in Nat
        <5>1. unread' \in Topics
          BY <1>0 DEF BooksInv, Typed
        <5>2. \A r \in RecordsIn(unread') : r \in Message
          BY <5>1, RecordsFact
        <5>3. \A r \in Message : r.acct # Heartbeat => r.seq \in Seqs
          BY DEF Message, Events
        <5> QED
          BY <5>2, <5>3, EventTsAssumption
      <4>4. nextWatermark' \in Nat
        BY <1>0 DEF BooksInv, Typed
      <4> QED
        BY <4>2, <4>3, <4>4 DEF AheadOfTime
    <3> QED
      BY <1>3, <3>1, <3>2, <3>3
  <2>4. ASSUME NEW a \in Accounts, NEW s \in Seqs
        PROVE  Kept(a, s)' /\ Absent(a, s)'
    <3>1. CASE Publish
      BY <1>0, <2>2, <3>1, WaitPublish
    <3>2. CASE SendTrailing
      <4>1. /\ UNCHANGED <<keys, table, found, applied>>
            /\ log' = log /\ errors' = errors /\ nextWatermark' = nextWatermark
        BY <3>2 DEF SendTrailing, engine, history
      <4>2. St(a)' = St(a)
        BY <4>1, StandingStays
      <4>3. Event(a, s) \in ToSet(Queue(a)) => Event(a, s) \in ToSet(Queue(a)')
        <5>1. Queue(a) \in Seq(Message) /\ Queue(a)' \in Seq(Message)
          BY <1>0, PartitionFact, RecordsFact DEF BooksInv, Typed, Queue
        <5>2. Copies(Queue(a)', Event(a, s)) = Copies(Queue(a), Event(a, s))
          BY <1>0, <3>2, TrailingFact
        <5> QED
          BY <5>1, <5>2, PlacesFinite
      <4>4. Kept(a, s) /\ Absent(a, s)
        BY <2>2
      <4> QED
        BY <4>1, <4>2, <4>3, <4>4 DEF Kept, Absent
    <3>3. CASE RunBatch
      <4>1. PICK upto \in Cuts : Batch(upto)
        BY <3>3, BatchTaken
      <4> QED
        BY <2>2, <4>1, WaitBatch
    <3> QED
      BY <1>3, <3>1, <3>2, <3>3
  <2> QED
    BY <2>3, <2>4
<1> QED
  BY <1>1, <1>2, <1>3 DEF Next

LEMMA WaitAlways == Spec => []WaitInv
<1>1. Init => BooksInv /\ WaitInv
  BY BooksInit, WaitInit
<1>2. BooksInv /\ WaitInv /\ [Next]_vars => BooksInv' /\ WaitInv'
  BY BooksKeep, WaitKeep
<1> QED
  BY <1>1, <1>2, PTL DEF Spec

(* A reorder within the watermark is late, not lost: unless some event is  *)
(* still to be read, or to be published, when what has been read is a      *)
(* whole delay past it, a gap is reported only over a seq that was         *)
(* withheld, refused or evicted, whatever the partitions and the batches.  *)
THEOREM ReorderWithinTheDelay == Spec => []ReorderIsNotLoss
<1>1. BooksInv /\ WaitInv => ReorderIsNotLoss
  <2> SUFFICES ASSUME BooksInv, WaitInv, ~ disordered, releases = 0,
                      NEW a \in Accounts, NEW s \in UNION found[a].gaps
               PROVE  \/ s \notin ToSet(log[a])
                      \/ Event(a, s) \in errors
                      \/ s \in found[a].overflow
    BY DEF ReorderIsNotLoss
  <2>1. s \in Seqs
    <3>1. found[a].gaps \in SUBSET (SUBSET Seqs)
      BY DEF BooksInv, Typed, Found
    <3> QED
      BY <3>1
  <2>2. Absent(a, s)
    BY <2>1 DEF WaitInv
  <2>3. St(a).ovf = found[a].overflow
    BY DEF St, Stood
  <2> QED
    BY <2>2, <2>3 DEF Absent
<1> QED
  BY <1>1, BooksAlways, WaitAlways, PTL

(***************************************************************************)
(* The fourth invariant: what is in has been read, and what was evicted is *)
(* below what was kept                                                     *)
(***************************************************************************)

(* Every event of the account that is known to it is in the log.           *)
LEMMA LoggedFact ==
    ASSUME BooksInv, TallyInv, NEW a \in Accounts, NEW s \in Seqs
    PROVE  /\ s \in St(a).app \cup St(a).buf \cup St(a).ovf \cup St(a).dup => s \in ToSet(log[a])
           /\ Event(a, s) \in ToSet(Queue(a)) => s \in ToSet(log[a])
<1>0. Typed
  BY DEF BooksInv
<1>1. /\ Copies(Queue(a), Event(a, s)) \in Nat
      /\ Copies(log[a], s) \in Nat
      /\ Copies(log[a], s) = 0 <=> s \notin ToSet(log[a])
  BY <1>0, CopiesTypes
<1>2. Copies(Queue(a), Event(a, s)) = 0 <=> Event(a, s) \notin ToSet(Queue(a))
  <2>1. Queue(a) \in Seq(Message)
    BY <1>0, QueueType
  <2> QED
    BY <2>1, PlacesFinite
<1>3. /\ Score(St(a), s) \in Nat
      /\ s \in St(a).app \cup St(a).buf \cup St(a).ovf \cup St(a).dup => Score(St(a), s) >= 1
  BY DEF Score, Bit
<1>4. Score(St(a), s) + Copies(Queue(a), Event(a, s)) <= Copies(log[a], s)
  <2>1. Bit(Event(a, s) \in errors) \in Nat
    BY DEF Bit
  <2>2. Tally(a, s)
    BY DEF TallyInv
  <2> QED
    BY <1>1, <1>3, <2>1, <2>2 DEF Tally
<1> QED
  BY <1>1, <1>2, <1>3, <1>4

(* Whatever is evicted is older than whatever is left.                     *)
Ranked(x) ==
    LET held == x.app \cup x.buf
    IN  /\ Cardinality(held) <= MaxBuffer
        /\ x.ovf # {} => Cardinality(held) = MaxBuffer
        /\ \A v \in x.ovf, b \in held : v < b

(* Nothing was refused, and nothing came late.                             *)
Trusted(a) == late[a] = {} /\ \A e \in errors : e.acct # a

(* What was read of an event is what was logged and is not in the topic.   *)
Seen(a, s) ==
    Trusted(a) =>
        \A c \in Nat : Copies(log[a], s) = Copies(Queue(a), Event(a, s)) + c => Counted(St(a), s, c)

Foreseen(a) ==
    /\ Crowded(St(a))
    /\ afterGap[a] = {} /\ 1 \notin ToSet(log[a]) => Ranked(St(a))
    /\ afterGap[a] = {} /\ Policy = "HOLD" => \A s \in UNION found[a].gaps : St(a).last < s
    /\ \A s \in Seqs : Seen(a, s)

SightInv == \A a \in Accounts : Foreseen(a)

LEMMA SightInit == Init => SightInv
<1> SUFFICES ASSUME Init, NEW a \in Accounts
             PROVE  Foreseen(a)
  BY DEF SightInv
<1> DEFINE x == St(a)
<1>1. /\ x.last = 0 /\ x.app = {} /\ x.buf = {} /\ x.ovf = {} /\ x.dup = {}
      /\ found[a].gaps = {} /\ log[a] = <<>> /\ Queue(a) = <<>>
  <2>1. /\ x.last = 0 /\ x.app = {} /\ x.buf = {} /\ x.ovf = {} /\ x.dup = {}
        /\ found[a].gaps = {} /\ log[a] = <<>>
    BY DEF Init, St, Stood, ColdKey, NoRow, NothingFound, EmptyAccount
  <2>2. Queue(a) = <<>>
    BY PartitionFact DEF Init, Queue
  <2> QED
    BY <2>1, <2>2
<1>2. \A s : Copies(log[a], s) = 0 /\ Copies(Queue(a), Event(a, s)) = 0
  BY <1>1, CopiesNone
<1> HIDE DEF x
<1>3. Crowded(x)
  BY <1>1 DEF Crowded
<1>4. Ranked(x)
  BY <1>1, FS_EmptySet, BoundsAssumption DEF Ranked
<1>5. \A s \in Seqs : Seen(a, s)
  <2>1. \A s, c : Counted(x, s, 0)
    BY DEF Counted
  <2> QED
    BY <1>2, <2>1 DEF Seen, x
<1> QED
  BY <1>1, <1>3, <1>4, <1>5 DEF Foreseen, x

(* A step that leaves the account alone.                                   *)
LEMMA SightRest ==
    ASSUME NEW a \in Accounts, Foreseen(a), UNCHANGED <<keys, table, found, applied, late, afterGap>>,
           errors \subseteq errors', ToSet(log[a]) \subseteq ToSet(log'[a]),
           Trusted(a)' => \A s \in Seqs, c \in Nat :
               Copies(log'[a], s) = Copies(Queue(a)', Event(a, s)) + c =>
                   Copies(log[a], s) = Copies(Queue(a), Event(a, s)) + c
    PROVE  Foreseen(a)'
<1>1. St(a)' = St(a)
  BY StandingStays
<1>2. Trusted(a)' => Trusted(a)
  BY DEF Trusted
<1>3. ASSUME NEW s \in Seqs
      PROVE  Seen(a, s)'
  <2>1. Seen(a, s)
    BY DEF Foreseen
  <2>2. SUFFICES ASSUME Trusted(a)', NEW c \in Nat, Copies(log'[a], s) = Copies(Queue(a)', Event(a, s)) + c
                 PROVE  Counted(St(a)', s, c)
    BY DEF Seen
  <2>3. Copies(log[a], s) = Copies(Queue(a), Event(a, s)) + c
    BY <2>2
  <2>4. Counted(St(a), s, c)
    BY <1>2, <2>1, <2>2, <2>3 DEF Seen
  <2> QED
    BY <1>1, <2>4
<1>4. Crowded(St(a)')
  BY <1>1 DEF Foreseen
<1>5. /\ afterGap'[a] = {} /\ 1 \notin ToSet(log'[a]) => Ranked(St(a)')
      /\ afterGap'[a] = {} /\ Policy = "HOLD" => \A s \in UNION found'[a].gaps : St(a)'.last < s
  BY <1>1 DEF Foreseen
<1> QED
  BY <1>3, <1>4, <1>5 DEF Foreseen

LEMMA SightBatch ==
    ASSUME BooksInv, TallyInv, SightInv, NEW upto \in Cuts, Batch(upto), NEW a \in Accounts
    PROVE  Foreseen(a)'
<1> DEFINE records == Read(a, upto)
           rows == RowsOf(a, records)
           w == nextWatermark
           x == St(a)
           y == St(a)'
<1>0. Typed /\ Foreseen(a)
  BY DEF BooksInv, SightInv
<1>1. /\ rows \in Seq(Seqs)
      /\ \A s \in Seqs : /\ Copies(rows, s) \in Nat /\ Copies(Queue(a)', Event(a, s)) \in Nat
                         /\ Copies(Queue(a), Event(a, s)) = Copies(rows, s) + Copies(Queue(a)', Event(a, s))
                         /\ Taken(rows, Len(rows), s) = Copies(rows, s)
  <2>1. records \in Seq(Message)
    BY <1>0, RestFact
  <2>3. rows \in Seq(Seqs)
    <3> HIDE DEF records
    <3> QED
      BY <2>1, RowsCopies
  <2> QED
    BY <1>0, <2>3, BatchReads
<1>2. Outcome(a, records)
  BY BatchOutcome
<1>3. /\ Books(x, found[a].gaps, table[a].bal) /\ Proper(x)
      /\ x.last = table[a].last /\ x.app = applied[a]
  BY DEF BooksInv, Books, St, Stood
<1>4. /\ log' = log /\ errors' = errors
      /\ late'[a] = late[a] \cup {s \in ToSet(rows) : \/ ~ OnTime(s, w)
                                                      \/ s <= table[a].last /\ s \notin applied[a]}
      /\ afterGap'[a] = afterGap[a] \cup {s \in ToSet(rows) : found[a].gaps # {}}
  BY DEF Batch
<1>5. DOMAIN rows = 1..Len(rows) /\ Len(rows) \in Nat
  BY <1>1, LenProperties
<1>6. \A s \in Seqs : /\ s \in x.app \cup x.buf => s \in ToSet(log[a])
                      /\ s \in ToSet(rows) => s \in ToSet(log[a])
  <2>1. ASSUME NEW s \in Seqs
        PROVE  s \in ToSet(rows) => s \in ToSet(log[a])
    <3>1. Copies(rows, s) = 0 <=> s \notin ToSet(rows)
      BY <1>1, PlacesFinite
    <3>2. Copies(Queue(a), Event(a, s)) = 0 <=> Event(a, s) \notin ToSet(Queue(a))
      <4>1. Queue(a) \in Seq(Message)
        BY <1>0, QueueType
      <4> QED
        BY <4>1, PlacesFinite
    <3>3. /\ Copies(rows, s) \in Nat /\ Copies(Queue(a)', Event(a, s)) \in Nat
          /\ Copies(Queue(a), Event(a, s)) = Copies(rows, s) + Copies(Queue(a)', Event(a, s))
      BY <1>1
    <3>4. Event(a, s) \in ToSet(Queue(a)) => s \in ToSet(log[a])
      BY LoggedFact
    <3> HIDE DEF rows
    <3> QED
      BY <3>1, <3>2, <3>3, <3>4
  <2>2. \A s \in Seqs : s \in x.app \cup x.buf => s \in ToSet(log[a])
    BY LoggedFact
  <2> QED
    BY <2>1, <2>2
<1>7. Trusted(a)' => /\ Trusted(a)
                     /\ \A j \in 1..Len(rows) :
                           OnTime(rows[j], w) /\ (rows[j] <= x.last => rows[j] \in x.app)
  <2> SUFFICES ASSUME Trusted(a)'
               PROVE  /\ Trusted(a)
                      /\ \A j \in 1..Len(rows) :
                            OnTime(rows[j], w) /\ (rows[j] <= x.last => rows[j] \in x.app)
    OBVIOUS
  <2>1. late'[a] = {} /\ \A e \in errors' : e.acct # a
    BY DEF Trusted
  <2> HIDE DEF rows, x, w
  <2>2. Trusted(a)
    BY <1>4, <2>1 DEF Trusted
  <2>3. \A s \in ToSet(rows) : OnTime(s, w) /\ ~ (s <= table[a].last /\ s \notin applied[a])
    BY <1>4, <2>1
  <2>4. \A j \in 1..Len(rows) : rows[j] \in ToSet(rows)
    BY <1>5 DEF ToSet
  <2> QED
    BY <1>3, <2>2, <2>3, <2>4
<1>8. Reached(rows, w) /\ afterGap'[a] = {} => found[a].gaps = {} /\ afterGap[a] = {}
  <2> SUFFICES ASSUME Reached(rows, w), afterGap'[a] = {}
               PROVE  found[a].gaps = {} /\ afterGap[a] = {}
    OBVIOUS
  <2>1. PICK i \in DOMAIN rows : TRUE
    BY DEF Reached
  <2> HIDE DEF rows
  <2>2. rows[i] \in ToSet(rows)
    BY DEF ToSet
  <2> QED
    BY <1>4, <2>2
<1>9. Trusted(a)' /\ ~ Reached(rows, w) => \A s \in Seqs : Copies(rows, s) = 0
  <2> SUFFICES ASSUME Trusted(a)', ~ Reached(rows, w), NEW s \in Seqs
               PROVE  Copies(rows, s) = 0
    OBVIOUS
  <2> HIDE DEF rows, x, w
  <2>1. ToSet(rows) = {}
    <3>1. \A j \in DOMAIN rows : FALSE
      BY <1>5, <1>7 DEF Reached
    <3> QED
      BY <3>1 DEF ToSet
  <2> QED
    BY <1>1, <2>1, PlacesFinite
<1>10. ASSUME Trusted(a)', NEW s \in Seqs, NEW c \in Nat,
              Copies(log[a], s) = Copies(Queue(a)', Event(a, s)) + c
       PROVE  \E d \in Nat : /\ c = d + Copies(rows, s) /\ Counted(x, s, d)
  <2> DEFINE left == Copies(Queue(a), Event(a, s))
             rest == Copies(Queue(a)', Event(a, s))
             sent == Copies(log[a], s)
             k == Copies(rows, s)
  <2>1. k \in Nat /\ rest \in Nat /\ left \in Nat /\ sent \in Nat /\ left = k + rest
    BY <1>0, <1>1, CopiesTypes
  <2>2. left <= sent
    <3>1. Score(x, s) \in Nat /\ Bit(Event(a, s) \in errors) \in Nat
      BY ScoreType DEF Bit
    <3>2. Tally(a, s)
      BY DEF TallyInv
    <3> QED
      BY <2>1, <3>1, <3>2 DEF Tally
  <2>3. \A d \in Nat : sent = left + d => Counted(x, s, d)
    BY <1>0, <1>7, <1>10 DEF Foreseen, Seen
  <2>4. sent = rest + c
    BY <1>10
  <2> HIDE DEF left, rest, sent, k
  <2>5. sent - left \in Nat /\ sent = left + (sent - left) /\ c = (sent - left) + k
    BY <2>1, <2>2, <2>4
  <2> QED
    BY <2>3, <2>5 DEF k
<1>11. CASE /\ Reached(rows, w) /\ Walked(x, rows, w, Len(rows), y)
            /\ found'[a].gaps = found[a].gaps /\ y.last \in 0..MaxSeq
  <2> HIDE DEF rows, x, y, w
  <2>1. Crowded(y)
    BY <1>0, <1>11 DEF Walked, Foreseen, x
  <2>2. ASSUME afterGap'[a] = {}, 1 \notin ToSet(log'[a])
        PROVE  Ranked(y)
    <3>1. found[a].gaps = {} /\ afterGap[a] = {} /\ 1 \notin ToSet(log[a])
      BY <1>4, <1>8, <1>11, <2>2
    <3>2. x.app = 1..x.last
      BY <1>3, <3>1 DEF Books
    <3>3. 1 \in Seqs
      BY BoundsAssumption DEF Seqs
    <3>4. 1 \notin x.app \cup x.buf /\ 1 \notin ToSet(rows)
      BY <1>6, <3>1, <3>3
    <3>5. x.last \in Nat /\ y.last \in Nat /\ y.app = x.app \cup (x.last + 1)..y.last
      BY <1>3, <1>11, BoundsAssumption DEF Proper, Walked
    <3>6. x.last = 0
      <4>1. ~ (1 <= x.last)
        BY <3>2, <3>4, <3>5
      <4> QED
        BY <3>5, <4>1
    <3>7. 1 \notin y.app
      <4>1. y.app \subseteq x.app \cup x.buf \cup {rows[j] : j \in 1..Len(rows)}
        BY <1>11 DEF Walked
      <4>2. {rows[j] : j \in 1..Len(rows)} = ToSet(rows)
        BY <1>5 DEF ToSet
      <4> QED
        BY <3>4, <4>1, <4>2
    <3>8. y.last = 0
      <4>1. ~ (1 <= y.last)
        BY <3>5, <3>6, <3>7
      <4> QED
        BY <3>5, <4>1
    <3>9. x.app = {} /\ y.app = {}
      BY <3>2, <3>5, <3>6, <3>8
    <3>10. Ranked(x)
      BY <1>0, <3>1 DEF Foreseen, x
    <3>11. Topmost(x)
      <4>1. x.app \cup x.buf = x.buf
        BY <3>9
      <4> QED
        BY <3>10, <4>1 DEF Ranked, Topmost
    <3>12. Topmost(y)
      BY <1>11, <3>8, <3>11 DEF Walked
    <3>13. y.app \cup y.buf = y.buf
      BY <3>9
    <3> QED
      BY <3>12, <3>13 DEF Ranked, Topmost
  <2>3. ASSUME afterGap'[a] = {}, Policy = "HOLD", NEW s \in UNION found'[a].gaps
        PROVE  y.last < s
    BY <1>8, <1>11, <2>3
  <2>4. ASSUME NEW s \in Seqs, Trusted(a)', NEW c \in Nat,
               Copies(log'[a], s) = Copies(Queue(a)', Event(a, s)) + c
        PROVE  Counted(y, s, c)
    <3>1. PICK d \in Nat : c = d + Copies(rows, s) /\ Counted(x, s, d)
      BY <1>4, <1>10, <2>4
    <3>2. Counted(y, s, d + Taken(rows, Len(rows), s))
      BY <1>7, <1>11, <2>4, <3>1 DEF Walked
    <3> QED
      BY <1>1, <3>1, <3>2
  <2> QED
    BY <2>1, <2>2, <2>3, <2>4 DEF Foreseen, Seen, y
<1>12. CASE /\ ~ Reached(rows, w)
            /\ \/ Confirms(x, y) /\ found'[a].gaps = found[a].gaps \cup {(x.last + 1)..(Min(x.buf) - 1)}
               \/ Stays(x, y) /\ found'[a].gaps = found[a].gaps
  <2> HIDE DEF rows, x, y, w
  <2>1. y.app \cup y.buf = x.app \cup x.buf /\ y.ovf = x.ovf /\ y.dup = x.dup
    BY <1>12 DEF Confirms, Stays
  <2>2. Crowded(y)
    <3>1. Crowded(x)
      BY <1>0 DEF Foreseen, x
    <3> QED
      BY <2>1, <3>1 DEF Crowded
  <2>3. ASSUME afterGap'[a] = {}, 1 \notin ToSet(log'[a])
        PROVE  Ranked(y)
    <3>1. Ranked(x)
      BY <1>0, <1>4, <2>3 DEF Foreseen, x
    <3> QED
      BY <2>1, <3>1 DEF Ranked
  <2>4. ASSUME afterGap'[a] = {}, Policy = "HOLD", NEW s \in UNION found'[a].gaps
        PROVE  y.last < s
    <3>1. y.last = x.last
      BY <1>12, <2>4 DEF Confirms, Stays
    <3>2. \A z \in UNION found[a].gaps : x.last < z
      BY <1>0, <1>4, <2>4 DEF Foreseen, x
    <3>3. CASE Stays(x, y) /\ found'[a].gaps = found[a].gaps
      BY <2>4, <3>1, <3>2, <3>3
    <3>4. CASE Confirms(x, y) /\ found'[a].gaps = found[a].gaps \cup {(x.last + 1)..(Min(x.buf) - 1)}
      <4>1. x.last \in Nat /\ x.buf \in SUBSET Nat /\ x.buf # {}
        BY <1>3, <3>4, BoundsAssumption DEF Proper, Confirms, Seqs
      <4>2. Min(x.buf) \in Nat
        BY <4>1, MinFact
      <4>3. \A z \in (x.last + 1)..(Min(x.buf) - 1) : x.last < z
        BY <4>1, <4>2
      <4> QED
        BY <2>4, <3>1, <3>2, <3>4, <4>3
    <3> QED
      BY <1>12, <3>3, <3>4
  <2>5. ASSUME NEW s \in Seqs, Trusted(a)', NEW c \in Nat,
               Copies(log'[a], s) = Copies(Queue(a)', Event(a, s)) + c
        PROVE  Counted(y, s, c)
    <3>1. PICK d \in Nat : c = d + Copies(rows, s) /\ Counted(x, s, d)
      BY <1>4, <1>10, <2>5
    <3>2. c = d
      BY <1>9, <1>12, <2>5, <3>1
    <3> QED
      BY <2>1, <3>1, <3>2 DEF Counted
  <2> QED
    BY <2>2, <2>3, <2>4, <2>5 DEF Foreseen, Seen, y
<1> QED
  <2> HIDE DEF rows
  <2> QED
    BY <1>2, <1>11, <1>12 DEF Outcome, rows, w, x, y

LEMMA SightKeep == BooksInv /\ TallyInv /\ SightInv /\ [Next]_vars => SightInv'
<1> SUFFICES ASSUME BooksInv, TallyInv, SightInv, [Next]_vars, NEW a \in Accounts
             PROVE  Foreseen(a)'
  BY DEF SightInv
<1>0. Typed /\ Foreseen(a)
  BY DEF BooksInv, SightInv
<1>1. CASE RunBatch
  BY <1>1, BatchTaken, SightBatch
<1>2. CASE Publish
  <2>1. PICK e \in Events, lost \in BOOLEAN, beat \in BOOLEAN : Published(e, lost, beat)
    BY <1>0, <1>2, PublishFact
  <2>2. /\ UNCHANGED <<keys, table, found, applied, late, afterGap>>
        /\ errors' = IF lost THEN errors \cup {e} ELSE errors
        /\ \A s \in Seqs :
              /\ Copies(Queue(a)', Event(a, s)) = Copies(Queue(a), Event(a, s)) + Bit(Event(a, s) = e /\ ~ lost)
              /\ Copies(log'[a], s) = Copies(log[a], s) + Bit(Event(a, s) = e)
        /\ log[a] \in Seq(Seqs) /\ log'[a] \in Seq(Seqs)
    BY <1>0, <2>1 DEF Published, Typed
  <2>3. ToSet(log[a]) \subseteq ToSet(log'[a])
    <3> SUFFICES ASSUME NEW s \in ToSet(log[a])
                 PROVE  s \in ToSet(log'[a])
      OBVIOUS
    <3>1. s \in Seqs
      BY <2>2, LenProperties DEF ToSet
    <3>2. /\ Copies(log[a], s) \in Nat /\ Copies(log[a], s) # 0
          /\ Copies(log'[a], s) = 0 <=> s \notin ToSet(log'[a])
      BY <2>2, PlacesFinite
    <3>3. Copies(log'[a], s) = Copies(log[a], s) + Bit(Event(a, s) = e) /\ Bit(Event(a, s) = e) \in Nat
      BY <2>2, <3>1 DEF Bit
    <3> QED
      BY <3>2, <3>3
  <2>4. ASSUME Trusted(a)', NEW s \in Seqs, NEW c \in Nat,
               Copies(log'[a], s) = Copies(Queue(a)', Event(a, s)) + c
        PROVE  Copies(log[a], s) = Copies(Queue(a), Event(a, s)) + c
    <3>1. Event(a, s) = e => ~ lost
      <4>1. \A z \in errors' : z.acct # a
        BY <2>4 DEF Trusted
      <4>2. Event(a, s).acct = a
        BY EventFact
      <4> QED
        BY <2>2, <4>1, <4>2
    <3>2. Bit(Event(a, s) = e /\ ~ lost) = Bit(Event(a, s) = e) /\ Bit(Event(a, s) = e) \in Nat
      BY <3>1 DEF Bit
    <3>3. Copies(log[a], s) \in Nat /\ Copies(Queue(a), Event(a, s)) \in Nat
      BY <1>0, CopiesTypes
    <3>4. /\ Copies(Queue(a)', Event(a, s)) = Copies(Queue(a), Event(a, s)) + Bit(Event(a, s) = e)
          /\ Copies(log'[a], s) = Copies(log[a], s) + Bit(Event(a, s) = e)
      BY <2>2, <3>2
    <3> QED
      BY <2>4, <3>2, <3>3, <3>4
  <2>5. errors \subseteq errors'
    BY <2>2
  <2> QED
    BY <1>0, <2>2, <2>3, <2>4, <2>5, SightRest
<1>3. CASE SendTrailing
  <2>1. /\ UNCHANGED <<keys, table, found, applied, late, afterGap>> /\ errors' = errors /\ log' = log
    BY <1>3 DEF SendTrailing, engine, history
  <2>2. \A s \in Seqs : Copies(Queue(a)', Event(a, s)) = Copies(Queue(a), Event(a, s))
    BY <1>0, <1>3, TrailingFact
  <2> QED
    BY <1>0, <2>1, <2>2, SightRest
<1>4. CASE ReleaseHead
  <2>1. PICK b \in Accounts, t \in Seqs, m \in Message : LetGo(b, t, m)
    BY <1>0, <1>4, ReleaseFact
  <2>2. /\ UNCHANGED <<keys, table, found, applied, late, afterGap>> /\ errors' = errors
        /\ \A s \in Seqs :
              /\ Copies(Queue(a)', Event(a, s)) = Bit(a = b /\ s = t)
              /\ Copies(Queue(a), Event(a, s)) = 0
              /\ Copies(log'[a], s) = Copies(log[a], s) + Bit(a = b /\ s = t)
        /\ log[a] \in Seq(Seqs) /\ log'[a] \in Seq(Seqs)
    BY <1>0, <2>1 DEF LetGo, Typed
  <2>3. ToSet(log[a]) \subseteq ToSet(log'[a])
    <3> SUFFICES ASSUME NEW s \in ToSet(log[a])
                 PROVE  s \in ToSet(log'[a])
      OBVIOUS
    <3>1. s \in Seqs
      BY <2>2, LenProperties DEF ToSet
    <3>2. /\ Copies(log[a], s) \in Nat /\ Copies(log[a], s) # 0
          /\ Copies(log'[a], s) = 0 <=> s \notin ToSet(log'[a])
      BY <2>2, PlacesFinite
    <3>3. Copies(log'[a], s) = Copies(log[a], s) + Bit(a = b /\ s = t) /\ Bit(a = b /\ s = t) \in Nat
      BY <2>2, <3>1 DEF Bit
    <3> QED
      BY <3>2, <3>3
  <2>4. ASSUME NEW s \in Seqs, NEW c \in Nat,
               Copies(log'[a], s) = Copies(Queue(a)', Event(a, s)) + c
        PROVE  Copies(log[a], s) = Copies(Queue(a), Event(a, s)) + c
    <3>1. Copies(log[a], s) \in Nat /\ Bit(a = b /\ s = t) \in Nat
      BY <1>0, CopiesTypes DEF Bit
    <3> QED
      BY <2>2, <2>4, <3>1
  <2> QED
    BY <1>0, <2>2, <2>3, <2>4, SightRest
<1>5. CASE UNCHANGED vars
  <2>1. /\ UNCHANGED <<keys, table, found, applied, late, afterGap>> /\ errors' = errors
        /\ log' = log /\ unread' = unread
    BY <1>5 DEF vars, generator, engine, history
  <2>2. /\ errors \subseteq errors' /\ ToSet(log[a]) \subseteq ToSet(log'[a])
        /\ log'[a] = log[a] /\ Queue(a)' = Queue(a)
    BY <2>1 DEF Queue
  <2>3. \A s \in Seqs, c \in Nat :
           Copies(log'[a], s) = Copies(Queue(a)', Event(a, s)) + c =>
               Copies(log[a], s) = Copies(Queue(a), Event(a, s)) + c
    BY <2>2
  <2> QED
    BY <1>0, <2>1, <2>2, <2>3, SightRest
<1> QED
  BY <1>1, <1>2, <1>3, <1>4, <1>5 DEF Next

LEMMA SightAlways == Spec => []SightInv
<1>1. Init => BooksInv /\ TallyInv /\ SightInv
  BY BooksInit, TallyInit, SightInit
<1>2. BooksInv /\ TallyInv /\ SightInv /\ [Next]_vars => BooksInv' /\ TallyInv' /\ SightInv'
  BY BooksKeep, TallyKeep, SightKeep
<1> QED
  BY <1>1, <1>2, PTL DEF Spec

(***************************************************************************)
(* The oracle predicts the engine                                          *)
(***************************************************************************)

(* What min-first eviction left tells what it took.                        *)
LEMMA EvictionFact ==
    ASSUME NEW P \in SUBSET Seqs, NEW O \in SUBSET Seqs, P \cap O = {},
           Cardinality(P) <= MaxBuffer, O # {} => Cardinality(P) = MaxBuffer,
           \A v \in O, b \in P : v < b
    PROVE  {s \in P \cup O : Cardinality({t \in P \cup O : t > s}) >= MaxBuffer} = O
<1> DEFINE L == P \cup O
           above(s) == {t \in L : t > s}
<1>1. /\ \A s \in Seqs : s \in Nat
      /\ MaxBuffer \in Nat /\ L \in SUBSET Seqs
  BY BoundsAssumption DEF Seqs
<1>2. ASSUME NEW s \in O
      PROVE  Cardinality(above(s)) >= MaxBuffer
  <2>1. P \in SUBSET above(s)
    BY <1>1
  <2>2. IsFiniteSet(above(s)) /\ Cardinality(above(s)) \in Nat
    BY <1>1, SeqsFinite
  <2> HIDE DEF above
  <2>3. Cardinality(P) <= Cardinality(above(s))
    BY <2>1, <2>2, FS_Subset
  <2> QED
    BY <1>2, <2>2, <2>3
<1>3. ASSUME NEW s \in P
      PROVE  ~ (Cardinality(above(s)) >= MaxBuffer)
  <2>1. above(s) \in SUBSET (P \ {s})
    BY <1>1, <1>3
  <2>2. /\ IsFiniteSet(P) /\ IsFiniteSet(P \ {s}) /\ Cardinality(P) \in Nat
        /\ Cardinality(P \ {s}) \in Nat
    BY SeqsFinite
  <2>3. Cardinality(P \ {s}) = Cardinality(P) - 1
    BY <1>3, <2>2, FS_RemoveElement
  <2> HIDE DEF above
  <2>4. Cardinality(above(s)) <= Cardinality(P \ {s}) /\ Cardinality(above(s)) \in Nat
    BY <2>1, <2>2, FS_Subset, FS_CardinalityType
  <2> QED
    BY <1>1, <2>2, <2>3, <2>4
<1> HIDE DEF above
<1>4. {s \in L : Cardinality(above(s)) >= MaxBuffer} = O
  BY <1>2, <1>3
<1> QED
  BY <1>4 DEF above

(* Above the cap the first event at least is evicted.                      *)
LEMMA SomeEvicted ==
    ASSUME NEW L \in SUBSET Seqs, Cardinality(L) > MaxBuffer
    PROVE  {s \in L : Cardinality({t \in L : t > s}) >= MaxBuffer} # {}
<1> DEFINE m == Min(L)
<1>1. IsFiniteSet(L) /\ Cardinality(L) \in Nat /\ MaxBuffer \in Nat /\ L \in SUBSET Nat
  BY SeqsFinite, BoundsAssumption DEF Seqs
<1>2. L # {}
  BY <1>1, FS_EmptySet
<1>3. m \in L /\ \A t \in L : m <= t
  BY <1>1, <1>2, MinFact
<1> HIDE DEF m
<1>4. {t \in L : t > m} = L \ {m}
  <2>1. \A t \in L : t > m <=> t # m
    BY <1>1, <1>3
  <2> QED
    BY <1>3, <2>1
<1>5. Cardinality(L \ {m}) = Cardinality(L) - 1
  BY <1>1, <1>3, FS_RemoveElement
<1>6. Cardinality({t \in L : t > m}) >= MaxBuffer
  BY <1>1, <1>4, <1>5
<1> QED
  BY <1>3, <1>6

LEMMA IntervalEnds ==
    ASSUME NEW lo \in Nat, NEW hi \in Nat, lo <= hi
    PROVE  Min(lo..hi) = lo /\ Max(lo..hi) = hi
<1> DEFINE S == lo..hi
<1>1. S \in SUBSET Nat /\ S # {} /\ lo \in S /\ hi \in S /\ \A s \in S : lo <= s /\ s <= hi
  OBVIOUS
<1> HIDE DEF S
<1>2. Min(S) \in S /\ Max(S) \in S /\ Min(S) <= lo /\ hi <= Max(S)
  BY <1>1, MinFact, MaxOfBounded
<1> DEFINE i == Min(S)
           j == Max(S)
<1>3. i = lo /\ j = hi
  <2>1. /\ i \in S /\ j \in S /\ i <= lo /\ hi <= j
        /\ S \in SUBSET Nat /\ \A s \in S : lo <= s /\ s <= hi
    BY <1>1, <1>2
  <2> HIDE DEF i, j
  <2> QED
    BY <2>1
<1> QED
  BY <1>3 DEF S

(* The ranges of what the gaps cover are the gaps themselves: each lies    *)
(* between two applied events.                                             *)
LEMMA RangesFact ==
    ASSUME NEW gaps, NEW A \in SUBSET Seqs, A \cap UNION gaps = {},
           \A g \in gaps : Shaped(g, A)
    PROVE  Ranges(UNION gaps) = gaps
<1> DEFINE S == UNION gaps
           Fits(r) == r # {} /\ r \subseteq S /\ Min(r) - 1 \notin S /\ Max(r) + 1 \notin S
<1>1. \A s \in Seqs : s \in Nat /\ 1 <= s
  BY BoundsAssumption DEF Seqs
<1>2. S \in SUBSET Seqs
  <2> SUFFICES ASSUME NEW g \in gaps
               PROVE  g \subseteq Seqs
    OBVIOUS
  <2>1. PICK lo \in Seqs, hi \in Seqs : g = lo..hi
    BY DEF Shaped
  <2> QED
    BY <2>1, BoundsAssumption DEF Seqs
<1>3. Ranges(S) = {r \in {lo..hi : lo, hi \in S} : Fits(r)}
  BY DEF Ranges
<1>4. ASSUME NEW g \in gaps
      PROVE  g \in Ranges(S)
  <2>1. PICK lo \in Seqs, hi \in Seqs :
           g = lo..hi /\ lo <= hi /\ (lo = 1 \/ lo - 1 \in A) /\ hi + 1 \in A
    BY DEF Shaped
  <2>2. lo \in Nat /\ hi \in Nat /\ lo \in g /\ hi \in g
    BY <1>1, <2>1
  <2>3. lo \in S /\ hi \in S /\ g \subseteq S
    BY <2>2
  <2>4. Min(g) = lo /\ Max(g) = hi
    BY <2>1, <2>2, IntervalEnds
  <2>5. lo - 1 \notin S
    <3>1. CASE lo = 1
      <4>1. 0 \notin S
        BY <1>1, <1>2
      <4> QED
        BY <3>1, <4>1
    <3>2. CASE lo - 1 \in A
      BY <3>2
    <3> QED
      BY <2>1, <3>1, <3>2
  <2>6. hi + 1 \notin S
    BY <2>1
  <2>7. Fits(g)
    BY <2>2, <2>3, <2>4, <2>5, <2>6
  <2> HIDE DEF Fits, S
  <2>8. g \in {i..j : i, j \in S}
    BY <2>1, <2>3
  <2> QED
    BY <1>3, <2>7, <2>8
<1>5. ASSUME NEW r \in Ranges(S)
      PROVE  r \in gaps
  <2>1. PICK lo \in S, hi \in S : r = lo..hi /\ Fits(r)
    <3> HIDE DEF Fits, S
    <3> QED
      BY <1>3
  <2>2. lo \in Nat /\ hi \in Nat
    BY <1>1, <1>2
  <2>3. lo <= hi
    BY <2>1, <2>2
  <2>4. Min(r) = lo /\ Max(r) = hi
    BY <2>1, <2>2, <2>3, IntervalEnds
  <2>5. lo - 1 \notin S /\ hi + 1 \notin S /\ r \subseteq S
    BY <2>1, <2>4
  <2>6. PICK g \in gaps : lo \in g
    OBVIOUS
  <2>7. PICK i \in Seqs, j \in Seqs : g = i..j /\ i <= j /\ j + 1 \in A
    BY DEF Shaped
  <2>8. i \in Nat /\ j \in Nat /\ i <= lo /\ lo <= j /\ g \subseteq S /\ j + 1 \notin S
    BY <1>1, <2>2, <2>6, <2>7
  <2> HIDE DEF S, Fits
  <2>9. i = lo
    <3>1. CASE i < lo
      <4>1. lo - 1 \in i..j
        BY <2>2, <2>8, <3>1
      <4> QED
        BY <2>5, <2>7, <2>8, <4>1
    <3> QED
      BY <2>2, <2>8, <3>1
  <2>10. j = hi
    <3>1. CASE j < hi
      <4>1. j + 1 \in lo..hi
        BY <2>2, <2>8, <3>1
      <4> QED
        BY <2>1, <2>5, <2>8, <4>1
    <3>2. CASE hi < j
      <4>1. hi + 1 \in i..j
        BY <2>2, <2>3, <2>8, <3>2
      <4> QED
        BY <2>5, <2>7, <2>8, <4>1
    <3> QED
      BY <2>2, <2>8, <3>1, <3>2
  <2> QED
    BY <2>1, <2>7, <2>9, <2>10
<1> HIDE DEF S
<1> QED
  <2>1. Ranges(S) = gaps
    BY <1>4, <1>5
  <2> QED
    BY <2>1 DEF S

(* A drained run of a predictable account: what was delivered is in one    *)
(* place each, and what came twice was dropped once.                       *)
LEMMA DeliveredFact ==
    ASSUME BooksInv, TallyInv, SightInv, Drained, NEW a \in Accounts, Predictable(a)
    PROVE  LET x == St(a)
           IN  /\ (x.app \cup x.buf) \cup x.ovf = ToSet(log[a])
               /\ (x.app \cup x.buf) \cap x.ovf = {}
               /\ x.dup = Repeated(log[a])
<1> DEFINE x == St(a)
           q == log[a]
           P == x.app \cup x.buf
           O == x.ovf
           D == x.dup
<1>0. Typed /\ q \in Seq(Seqs)
  BY DEF BooksInv, Typed
<1>1. P \in SUBSET Seqs /\ O \in SUBSET Seqs /\ D \in SUBSET Seqs
  <2>1. Proper(x)
    BY DEF BooksInv, Books
  <2> HIDE DEF x
  <2>2. x.app \subseteq 1..x.last /\ x.last \in 0..MaxSeq
    BY <2>1 DEF Proper
  <2>3. x.app \in SUBSET Seqs
    BY <2>2, BoundsAssumption DEF Seqs
  <2> QED
    BY <2>1, <2>3 DEF Proper
<1>2. Trusted(a) /\ O \cap Repeated(q) = {}
  BY DEF Predictable, Trusted, St, Stood
<1>3. ASSUME NEW s \in Seqs
      PROVE  /\ s \in ToSet(q) <=> s \in P \cup O
             /\ ~ (s \in P /\ s \in O)
             /\ s \in D <=> s \in Repeated(q)
  <2> DEFINE c == Copies(q, s)
  <2>1. c \in Nat /\ (c = 0 <=> s \notin ToSet(q))
    BY <1>0, PlacesFinite
  <2>2. Copies(Queue(a), Event(a, s)) = 0
    BY PartitionFact, CopiesNone DEF Drained, Queue
  <2>3. Counted(x, s, c)
    <3>1. Seen(a, s)
      BY DEF SightInv, Foreseen
    <3> HIDE DEF x
    <3>2. c = 0 + c
      BY <2>1
    <3> QED
      BY <1>2, <2>1, <2>2, <3>1, <3>2 DEF Seen, x
  <2>4. Score(x, s) <= c /\ Score(x, s) \in Nat
    <3>1. Tally(a, s)
      BY DEF TallyInv
    <3>2. Score(x, s) \in Nat
      BY ScoreType
    <3>3. Bit(Event(a, s) \in errors) \in Nat
      BY DEF Bit
    <3> QED
      BY <2>1, <2>2, <3>1, <3>2, <3>3 DEF Tally
  <2>5. s \in Repeated(q) <=> c > 1
    BY DEF Repeated, Copies, Places
  <2>6. s \in P \cup O \cup D => s \in ToSet(q)
    BY LoggedFact
  <2> HIDE DEF c, q
  <2>7. s \in ToSet(q) => s \in P \cup O
    BY <2>1, <2>3 DEF Counted
  <2>8. /\ s \in P /\ s \in O => Score(x, s) >= 2
        /\ s \in D /\ s \in P \cup O => Score(x, s) >= 2
    BY DEF Score, Bit
  <2>9. ~ (s \in P /\ s \in O)
    BY <1>2, <2>1, <2>4, <2>5, <2>8
  <2>10. s \in D => s \in Repeated(q)
    BY <2>1, <2>4, <2>5, <2>6, <2>7, <2>8
  <2>11. s \in Repeated(q) => s \in D
    BY <1>2, <2>1, <2>3, <2>5 DEF Counted
  <2> QED
    BY <2>6, <2>7, <2>9, <2>10, <2>11
<1>4. ToSet(q) \in SUBSET Seqs /\ Repeated(q) \in SUBSET Seqs
  <2>1. ToSet(q) \in SUBSET Seqs
    BY <1>0, LenProperties DEF ToSet
  <2> QED
    BY <2>1 DEF Repeated
<1> HIDE DEF P, O, D, q
<1>5. P \cup O = ToSet(q) /\ P \cap O = {} /\ D = Repeated(q)
  BY <1>1, <1>3, <1>4
<1> QED
  BY <1>5 DEF P, O, D, q

(* Evicted is what the oracle says.                                        *)
LEMMA EvictedFact ==
    ASSUME MaxBuffer > 0, BooksInv, TallyInv, SightInv, Drained, NEW a \in Accounts,
           log[a] # <<>>, Predictable(a), Determinate(log[a])
    PROVE  /\ St(a).ovf = PredictedEvicted(log[a])
           /\ HeadWithheld(log[a]) <=> 1 \notin ToSet(log[a])
           /\ HeadWithheld(log[a]) /\ afterGap[a] = {} => Ranked(St(a))
           /\ ~ HeadWithheld(log[a]) => St(a).ovf = {}
<1> DEFINE x == St(a)
           q == log[a]
           L == ToSet(q)
           P == x.app \cup x.buf
           O == x.ovf
           E == {s \in L : Cardinality({t \in L : t > s}) >= MaxBuffer}
<1>0. q \in Seq(Seqs) /\ q # <<>>
  BY DEF BooksInv, Typed
<1>1. P \cup O = L /\ P \cap O = {}
  BY DeliveredFact
<1>2. L \in SUBSET Seqs /\ L # {} /\ Max(L) \in L
  BY <1>0, MissingFact
<1>3. HeadWithheld(q) <=> 1 \notin L
  <2>1. Max(L) \in Nat /\ 1 <= Max(L)
    BY <1>2, BoundsAssumption DEF Seqs
  <2>2. Missing(q) = (1..Max(L)) \ L
    BY DEF Missing
  <2> HIDE DEF L
  <2> QED
    BY <2>1, <2>2 DEF HeadWithheld
<1>4. PredictedEvicted(q) = IF HeadWithheld(q) THEN E ELSE {}
  <2>1. PredictedEvicted(q) = {s \in L : HeadWithheld(q) /\ Cardinality({t \in L : t > s}) >= MaxBuffer}
    BY DEF PredictedEvicted
  <2> HIDE DEF L, q
  <2> QED
    BY <2>1
<1>5. Foreseen(a)
  BY DEF SightInv
<1>6. O # {} => Cardinality(L) > MaxBuffer
  BY <1>1, <1>5 DEF Foreseen, Crowded
<1>7. P \in SUBSET Seqs /\ O \in SUBSET Seqs
  BY <1>1, <1>2
<1>8. Cardinality(L) \in Nat /\ MaxBuffer \in Nat
  BY <1>2, SeqsFinite, BoundsAssumption
<1>9. HeadWithheld(q) /\ afterGap[a] = {} => Ranked(x)
  BY <1>3, <1>5 DEF Foreseen
<1>10. ~ HeadWithheld(q) => O = {}
  <2>1. ~ HeadWithheld(q) => Cardinality(L) <= MaxBuffer
    BY DEF Determinate
  <2> HIDE DEF L, O
  <2> QED
    BY <1>6, <1>8, <2>1
<1>11. CASE HeadWithheld(q) /\ PredictedEvicted(q) = {}
  <2>1. E = {}
    BY <1>4, <1>11
  <2>2. ~ (Cardinality(L) > MaxBuffer)
    BY <1>2, <2>1, SomeEvicted
  <2>3. O = {}
    BY <1>6, <2>2
  <2> QED
    BY <1>3, <1>9, <1>10, <1>11, <2>3
<1>12. CASE HeadWithheld(q) /\ PredictedEvicted(q) # {}
  <2>1. afterGap[a] = {}
    BY <1>12 DEF Predictable
  <2>2. Ranked(x)
    BY <1>9, <1>12, <2>1
  <2>3. {s \in P \cup O : Cardinality({t \in P \cup O : t > s}) >= MaxBuffer} = O
    <3>1. /\ Cardinality(P) <= MaxBuffer /\ (O # {} => Cardinality(P) = MaxBuffer)
          /\ \A v \in O, b \in P : v < b
      BY <2>2 DEF Ranked
    <3> HIDE DEF P, O
    <3> QED
      BY <1>1, <1>7, <3>1, EvictionFact
  <2>4. E = O
    BY <1>1, <2>3
  <2> QED
    BY <1>3, <1>4, <1>9, <1>10, <1>12, <2>4
<1>13. CASE ~ HeadWithheld(q)
  BY <1>3, <1>4, <1>9, <1>10, <1>13
<1> QED
  BY <1>11, <1>12, <1>13

(* Applied is what the oracle says.                                        *)
LEMMA AppliedFact ==
    ASSUME MaxBuffer > 0, BooksInv, TallyInv, SightInv, Drained, NEW a \in Accounts,
           log[a] # <<>>, Predictable(a), Determinate(log[a])
    PROVE  /\ St(a).app = PredictedApplied(log[a])
           /\ Policy # "HOLD" => St(a).buf = {}
<1> DEFINE x == St(a)
           q == log[a]
           L == ToSet(q)
           A == x.app
           B == x.buf
           O == x.ovf
           l == x.last
           top == Max(L)
<1>0. q \in Seq(Seqs) /\ q # <<>>
  BY DEF BooksInv, Typed
<1>1. (A \cup B) \cup O = L /\ (A \cup B) \cap O = {}
  BY DeliveredFact
<1>2. /\ L \in SUBSET Seqs /\ L # {} /\ top \in L /\ \A s \in L : s <= top
      /\ Missing(q) # {} => Min(Missing(q)) \in Missing(q) /\ \A s \in Missing(q) : Min(Missing(q)) <= s
  BY <1>0, MissingFact
<1>3. Missing(q) = (1..top) \ L
  BY DEF Missing
<1>4. O = PredictedEvicted(q) /\ (HeadWithheld(q) <=> 1 \notin L) /\ (~ HeadWithheld(q) => O = {})
  BY EvictedFact
<1>5. /\ Books(x, found[a].gaps, table[a].bal)
      /\ l \in Nat /\ A \subseteq 1..l /\ \A b \in B : l + 1 < b
  BY BoundsAssumption DEF BooksInv, Books, Proper
<1>6. \A s \in Seqs : s \in Nat /\ 1 <= s
  BY BoundsAssumption DEF Seqs
<1>7. CASE Policy # "HOLD"
  <2>1. B = {}
    <3>1. table[a].size = 0 /\ Agree(keys[a], table[a]) /\ Armed(keys[a])
      BY <1>7 DEF Predictable, BooksInv
    <3>2. B = keys[a].acct.buf
      BY DEF St, Stood
    <3>3. CASE keys[a].exists
      <4>1. Cardinality(keys[a].acct.buf) = 0
        BY <3>1, <3>3 DEF Agree, RowOf
      <4>2. keys[a].acct.buf \in SUBSET Seqs
        BY <3>1, SoundPieces DEF Agree
      <4>3. IsFiniteSet(keys[a].acct.buf)
        BY <4>2, SeqsFinite
      <4> QED
        BY <3>2, <4>1, <4>3, FS_EmptySet
    <3>4. CASE ~ keys[a].exists
      BY <3>1, <3>2, <3>4 DEF Armed
    <3> QED
      BY <3>3, <3>4
  <2>2. PredictedApplied(q) = L \ PredictedEvicted(q)
    BY <1>0, <1>7, PredictionFact
  <2> HIDE DEF A, B, O, L, q
  <2>3. A = PredictedApplied(q)
    BY <1>1, <1>4, <2>1, <2>2
  <2> QED
    BY <2>1, <2>3 DEF A, B, q
<1>8. CASE Policy = "HOLD"
  <2>1. A = 1..l
    BY <1>5, <1>8 DEF Books
  <2>2. PredictedApplied(q) =
           (IF Missing(q) # {} THEN {s \in L : s < Min(Missing(q))} ELSE L) \ PredictedEvicted(q)
    BY <1>8 DEF PredictedApplied
  <2> DEFINE m == Min(Missing(q))
  <2> HIDE DEF A, B, O, L, l, top, m
  <2>3. top \in Nat /\ 1 <= top
    BY <1>2, <1>6
  <2>4. CASE HeadWithheld(q)
    <3>1. 1 \notin L /\ 1 \in Missing(q)
      BY <1>4, <2>4 DEF HeadWithheld
    <3>2. m = 1
      <4>1. m \in Missing(q) /\ m <= 1 /\ m \in 1..top
        BY <1>2, <1>3, <3>1 DEF m
      <4> QED
        BY <2>3, <4>1
    <3>3. {s \in L : s < m} = {}
      BY <1>2, <1>6, <3>2
    <3>4. l = 0
      <4>1. ~ (1 <= l)
        BY <1>1, <1>5, <2>1, <3>1
      <4> QED
        BY <1>5, <4>1
    <3>5. A = {}
      BY <2>1, <3>4
    <3>6. PredictedApplied(q) = {}
      BY <2>2, <3>1, <3>3 DEF m
    <3> QED
      BY <1>8, <3>5, <3>6 DEF A
  <2>5. CASE ~ HeadWithheld(q)
    <3>1. O = {} /\ PredictedEvicted(q) = {} /\ L = A \cup B
      BY <1>1, <1>4, <2>5
    <3>2. l + 1 \notin L
      <4>1. l + 1 \notin A /\ l + 1 \notin B
        BY <1>5
      <4> QED
        BY <3>1, <4>1
    <3>3. CASE Missing(q) = {}
      <4>1. B = {}
        <5> SUFFICES ASSUME NEW b \in B
                     PROVE  FALSE
          OBVIOUS
        <5>1. b \in L /\ b \in Nat /\ b <= top /\ l + 1 < b
          BY <1>2, <1>5, <1>6, <3>1
        <5>2. l + 1 \in 1..top
          BY <1>5, <2>3, <5>1
        <5> QED
          BY <1>3, <3>2, <3>3, <5>2
      <4> QED
        BY <1>8, <2>2, <3>1, <3>3, <4>1 DEF A
    <3>4. CASE Missing(q) # {}
      <4>1. m \in Missing(q) /\ (\A s \in Missing(q) : m <= s) /\ m \in 1..top /\ m \notin L
        BY <1>2, <1>3, <3>4 DEF m
      <4>2. ASSUME NEW s \in A
            PROVE  s < m
        <5>1. ~ (m <= l)
          BY <1>5, <2>1, <2>3, <3>1, <4>1
        <5>2. s \in 1..l
          BY <2>1
        <5> QED
          BY <1>5, <2>3, <4>1, <5>1, <5>2
      <4>3. ASSUME NEW b \in B
            PROVE  ~ (b < m)
        <5> SUFFICES ASSUME b < m
                     PROVE  FALSE
          OBVIOUS
        <5>1. b \in Nat /\ l + 1 < b
          BY <1>2, <1>5, <1>6, <3>1
        <5>2. l + 1 \in 1..top /\ ~ (m <= l + 1)
          BY <1>5, <2>3, <4>1, <5>1
        <5>3. l + 1 \in Missing(q)
          BY <1>3, <3>2, <5>2
        <5> QED
          BY <4>1, <5>2, <5>3
      <4>4. {s \in L : s < m} = A
        BY <3>1, <4>2, <4>3
      <4>5. PredictedApplied(q) = A
        BY <2>2, <3>1, <3>4, <4>4 DEF m
      <4> QED
        BY <1>8, <4>5 DEF A
    <3> QED
      BY <3>3, <3>4
  <2> QED
    BY <2>4, <2>5
<1> QED
  BY <1>7, <1>8

(* Nothing differs when balance, position, count, duplicates, evictions    *)
(* and, if they are asked for, the ranges agree.                           *)
LEMMA NoMismatch ==
    ASSUME NEW o, NEW row, NEW known, NEW ranges \in BOOLEAN,
           o.determinate =>
               /\ row.bal = o.bal /\ row.last = o.last
               /\ DerivedCount(row, known) = o.count
               /\ known.dup = o.dup
               /\ known.overflow = o.overflow
               /\ ranges => known.gaps = o.gaps
    PROVE  Mismatches(o, row, known, [Plain EXCEPT !.ranges = ranges]) = {}
<1> DEFINE ask == [Plain EXCEPT !.ranges = ranges]
           wrong == [
            balance  |-> row.bal # o.bal,
            last     |-> row.last # o.last,
            count    |-> DerivedCount(row, known) # o.count,
            dup      |-> IF ask.replay THEN ~(o.dup \subseteq known.dup)
                                       ELSE known.dup # o.dup,
            overflow |-> o.determinate /\ known.overflow # o.overflow,
            ranges   |-> ask.ranges /\ known.gaps # o.gaps,
            drained  |-> ask.drained /\ row.size # 0,
            clean    |-> ask.clean /\ known # NothingFound]
<1>1. /\ ask.strict = FALSE /\ ask.replay = FALSE /\ ask.drained = FALSE /\ ask.clean = FALSE
      /\ ask.ranges = ranges
  BY DEF Plain
<1>2. Mismatches(o, row, known, ask) = {c \in DOMAIN wrong : wrong[c] /\ (o.determinate \/ ask.strict)}
  BY DEF Mismatches
<1> HIDE DEF ask
<1>3. DOMAIN wrong = {"balance", "last", "count", "dup", "overflow", "ranges", "drained", "clean"}
  OBVIOUS
<1>4. /\ wrong["balance"] = (row.bal # o.bal) /\ wrong["last"] = (row.last # o.last)
      /\ wrong["count"] = (DerivedCount(row, known) # o.count)
      /\ wrong["dup"] = IF ask.replay THEN ~(o.dup \subseteq known.dup) ELSE known.dup # o.dup
      /\ wrong["overflow"] = (o.determinate /\ known.overflow # o.overflow)
      /\ wrong["ranges"] = (ask.ranges /\ known.gaps # o.gaps)
      /\ wrong["drained"] = (ask.drained /\ row.size # 0)
      /\ wrong["clean"] = (ask.clean /\ known # NothingFound)
  OBVIOUS
<1> HIDE DEF wrong
<1>5. ASSUME NEW c \in DOMAIN wrong
      PROVE  ~ (wrong[c] /\ (o.determinate \/ ask.strict))
  <2> SUFFICES ASSUME o.determinate
               PROVE  ~ wrong[c]
    BY <1>1
  <2>1. /\ ~ wrong["balance"] /\ ~ wrong["last"] /\ ~ wrong["count"] /\ ~ wrong["dup"]
        /\ ~ wrong["overflow"] /\ ~ wrong["ranges"] /\ ~ wrong["drained"] /\ ~ wrong["clean"]
    BY <1>1, <1>4
  <2> QED
    BY <1>3, <2>1
<1>6. Mismatches(o, row, known, ask) = {}
  BY <1>2, <1>5
<1> QED
  BY <1>6 DEF ask

(* The oracle is right: after a drained run every account it claims to     *)
(* know agrees with the engine in balance, position, derived count, the    *)
(* duplicates dropped and the events evicted, whatever the order of        *)
(* publication and the batches, and without evictions in the gap ranges.   *)
THEOREM OracleIsRight ==
    ASSUME MaxBuffer > 0
    PROVE  Spec => []OraclePredictsEngine
<1>1. BooksInv /\ TallyInv /\ SightInv => OraclePredictsEngine
  <2> SUFFICES ASSUME BooksInv, TallyInv, SightInv, Drained, NEW a \in Accounts, log[a] # <<>>,
                      Predictable(a)
               PROVE  Mismatches(Prediction(log[a]), table[a], found[a],
                          [Plain EXCEPT !.ranges = Policy # "HOLD" /\ found[a].overflow = {}]) = {}
    BY DEF OraclePredictsEngine
  <2> DEFINE x == St(a)
             q == log[a]
             o == Prediction(q)
             A == x.app
             l == x.last
             G == UNION found[a].gaps
             ranges == Policy # "HOLD" /\ found[a].overflow = {}
  <2>1. /\ o.bal = Total[PredictedApplied(q)]
        /\ o.last = IF PredictedApplied(q) = {} THEN 0 ELSE Max(PredictedApplied(q))
        /\ o.count = Cardinality(PredictedApplied(q))
        /\ o.gaps = Ranges(Missing(q)) /\ o.dup = Repeated(q)
        /\ o.overflow = PredictedEvicted(q) /\ o.determinate = Determinate(q)
    BY DEF Prediction
  <2>2. /\ Books(x, found[a].gaps, table[a].bal)
        /\ table[a].last = l /\ found[a].overflow = x.ovf /\ found[a].dup = x.dup
    BY DEF BooksInv, St, Stood
  <2>3. /\ l \in Nat /\ l <= MaxSeq /\ MaxSeq \in Nat /\ A \subseteq 1..l /\ (l # 0 => l \in A)
        /\ table[a].bal = Total[A]
        /\ Policy = "HOLD" => A = 1..l
        /\ Policy # "HOLD" => A \cup G = 1..l /\ A \cap G = {} /\ \A g \in found[a].gaps : Shaped(g, A)
    BY <2>2, BoundsAssumption DEF Books, Proper
  <2>4. SUFFICES ASSUME Determinate(q)
                 PROVE  /\ table[a].bal = o.bal /\ table[a].last = o.last
                        /\ DerivedCount(table[a], found[a]) = o.count
                        /\ found[a].dup = o.dup
                        /\ found[a].overflow = o.overflow
                        /\ ranges => found[a].gaps = o.gaps
    <3>1. ranges \in BOOLEAN
      OBVIOUS
    <3> HIDE DEF o, ranges
    <3>2. o.determinate => /\ table[a].bal = o.bal /\ table[a].last = o.last
                           /\ DerivedCount(table[a], found[a]) = o.count
                           /\ found[a].dup = o.dup
                           /\ found[a].overflow = o.overflow
                           /\ ranges => found[a].gaps = o.gaps
      BY <2>1, <2>4
    <3>3. Mismatches(o, table[a], found[a], [Plain EXCEPT !.ranges = ranges]) = {}
      BY <3>1, <3>2, NoMismatch
    <3> QED
      BY <3>3 DEF o, ranges
  <2>5. A = PredictedApplied(q) /\ (Policy # "HOLD" => x.buf = {})
    BY <2>4, AppliedFact
  <2>6. /\ (A \cup x.buf) \cup x.ovf = ToSet(q) /\ (A \cup x.buf) \cap x.ovf = {}
        /\ x.dup = Repeated(q)
    BY DeliveredFact
  <2>7. x.ovf = PredictedEvicted(q)
    BY <2>4, EvictedFact
  <2>8. A \in SUBSET Nat /\ A \in SUBSET Seqs /\ \A s \in A : s <= l
    BY <2>3 DEF Seqs
  <2>9. table[a].last = o.last
    <3>1. CASE A = {}
      BY <2>1, <2>2, <2>3, <2>5, <3>1
    <3>2. CASE A # {}
      <4>1. Max(A) \in A /\ \A s \in A : s <= Max(A)
        <5> HIDE DEF A, l
        <5> QED
          BY <2>3, <2>8, <3>2, MaxOfBounded
      <4> DEFINE t == Max(A)
      <4>2. t \in 1..l /\ (l # 0 => l <= t)
        BY <2>3, <4>1
      <4> HIDE DEF t, A, l
      <4>3. t = l
        BY <2>3, <4>2
      <4> QED
        BY <2>1, <2>2, <2>5, <3>2, <4>3 DEF t
    <3> QED
      BY <3>1, <3>2
  <2>10. DerivedCount(table[a], found[a]) = Cardinality(A)
    <3>1. CASE Policy # "HOLD"
      <4>1. DerivedCount(table[a], found[a]) = Cardinality(x.app \ x.ovf)
        <5> HIDE DEF x
        <5> QED
          BY <2>2, <3>1, CountFact
      <4>2. x.app \ x.ovf = A
        BY <2>6
      <4> QED
        BY <4>1, <4>2
    <3>2. CASE Policy = "HOLD"
      <4>1. afterGap[a] = {}
        BY <3>2 DEF Predictable
      <4>2. \A s \in G : l < s
        BY <3>2, <4>1 DEF SightInv, Foreseen
      <4>3. A = 1..l /\ A \cap x.ovf = {}
        BY <2>3, <2>6, <3>2
      <4> HIDE DEF A, l, G
      <4>4. (G \cup x.ovf) \cap 1..l = {}
        BY <2>3, <4>2, <4>3
      <4>5. Cardinality((G \cup x.ovf) \cap 1..l) = 0 /\ Cardinality(1..l) = l
        <5>1. Cardinality((G \cup x.ovf) \cap 1..l) = 0
          BY <4>4, FS_EmptySet
        <5>2. \A n \in Nat : Cardinality(1..n) = n
          <6> TAKE n \in Nat
          <6>1. Cardinality(1..n) = IF 1 > n THEN 0 ELSE n - 1 + 1
            BY FS_Interval
          <6> QED
            BY <6>1
        <5> QED
          BY <2>3, <5>1, <5>2
      <4>6. DerivedCount(table[a], found[a]) = l - Cardinality((G \cup x.ovf) \cap 1..l)
        BY <2>2 DEF DerivedCount, G
      <4> QED
        BY <2>3, <4>3, <4>5, <4>6
    <3> QED
      BY <3>1, <3>2
  <2>11. ASSUME ranges
         PROVE  found[a].gaps = o.gaps
    <3>1. Policy # "HOLD" /\ x.ovf = {}
      BY <2>2, <2>11
    <3>2. A = ToSet(q)
      BY <2>5, <2>6, <3>1
    <3>3. /\ A # {} /\ Max(A) \in A /\ \A s \in A : s <= Max(A)
      <4>1. q \in Seq(Seqs) /\ q # <<>>
        BY DEF BooksInv, Typed
      <4> QED
        BY <3>2, <4>1, MissingFact
    <3> DEFINE t == Max(A)
    <3>4. t \in 1..l /\ l <= t
      <4>1. t \in 1..l
        BY <2>3, <3>3
      <4>2. l # 0
        BY <2>3, <4>1
      <4>3. l \in A
        BY <2>3, <4>2
      <4> QED
        BY <3>3, <4>1, <4>3
    <3>5. Missing(q) = (1..t) \ A
      BY <3>2 DEF Missing
    <3> HIDE DEF t, A, l, G
    <3>6. t = l
      BY <2>3, <3>4
    <3>7. Missing(q) = G
      BY <2>3, <3>1, <3>5, <3>6
    <3>8. Ranges(G) = found[a].gaps
      <4>1. A \cap UNION found[a].gaps = {} /\ \A g \in found[a].gaps : Shaped(g, A)
        BY <2>3, <3>1 DEF G
      <4>2. A \in SUBSET Seqs
        BY <2>8
      <4>3. Ranges(UNION found[a].gaps) = found[a].gaps
        BY <4>1, <4>2, RangesFact
      <4> QED
        BY <4>3 DEF G
    <3> QED
      BY <2>1, <3>7, <3>8
  <2> HIDE DEF o, A, ranges
  <2> QED
    BY <2>1, <2>2, <2>3, <2>5, <2>6, <2>7, <2>9, <2>10, <2>11
<1> QED
  BY <1>1, BooksAlways, TallyAlways, SightAlways, PTL

(***************************************************************************)
(* The fifth invariant: a head let go after its gap was settled            *)
(***************************************************************************)

(* Nothing of the account is in the topic but the head, and until it is    *)
(* recorded as dropped it is there; the row is the one the drill noted.    *)
Spent(r) ==
    r.row.size = 0 /\ r.seq < r.row.last =>
        /\ table[r.acct].last = r.row.last /\ table[r.acct].bal = r.row.bal
        /\ St(r.acct).buf = {} /\ found[r.acct].gaps # {}
        /\ Event(r.acct, r.seq) \in ToSet(Queue(r.acct)) \/ r.seq \in found[r.acct].dup
        /\ \A s \in Seqs : Event(r.acct, s) \in ToSet(Queue(r.acct)) => s = r.seq

DrillInv ==
    /\ released # {} => stream = <<>>
    /\ \A r \in released : r.acct \in Accounts /\ r.seq \in Seqs /\ Spent(r)

LEMMA InTopic ==
    ASSUME NEW topic \in Topics, NEW a \in Accounts, NEW s
    PROVE  LET q == topic[PartitionOf[a]]
           IN  /\ Copies(q, Event(a, s)) \in Nat
               /\ Event(a, s) \in ToSet(q) <=> Copies(q, Event(a, s)) # 0
<1>1. topic[PartitionOf[a]] \in Seq(Message)
  BY PartitionFact, RecordsFact
<1> QED
  BY <1>1, PlacesFinite

(* A row that waits for nothing has nothing held back.                     *)
LEMMA SettledFact ==
    ASSUME BooksInv, NEW a \in Accounts, table[a].size = 0
    PROVE  St(a).buf = {}
<1>1. Agree(keys[a], table[a]) /\ Armed(keys[a])
  BY DEF BooksInv
<1>2. St(a).buf = keys[a].acct.buf
  BY DEF St, Stood
<1>3. CASE keys[a].exists
  <2>1. Cardinality(keys[a].acct.buf) = 0
    BY <1>1, <1>3 DEF Agree, RowOf
  <2>2. keys[a].acct.buf \in SUBSET Seqs
    BY <1>1, SoundPieces DEF Agree
  <2>3. IsFiniteSet(keys[a].acct.buf)
    BY <2>2, SeqsFinite
  <2> QED
    BY <1>2, <2>1, <2>3, FS_EmptySet
<1>4. CASE ~ keys[a].exists
  BY <1>1, <1>2, <1>4 DEF Armed
<1> QED
  BY <1>3, <1>4

LEMMA SpentRelease ==
    ASSUME BooksInv, TallyInv, NEW a \in Accounts, NEW s \in Seqs, NEW m, LetGo(a, s, m),
           NEW r, r = [acct |-> a, seq |-> s, row |-> table[a]]
    PROVE  Spent(r)'
<1>0. Typed
  BY DEF BooksInv
<1>1. r.acct = a /\ r.seq = s /\ r.row = table[a]
  OBVIOUS
<1>2. /\ unread' \in Topics /\ s \notin ToSet(log[a])
      /\ \A t \in Seqs : Copies(Queue(a)', Event(a, t)) = Bit(a = a /\ t = s)
      /\ UNCHANGED <<keys, table, found, applied>>
  BY DEF LetGo
<1>3. SUFFICES ASSUME table[a].size = 0, s < table[a].last
               PROVE  /\ St(a)'.buf = {} /\ found[a].gaps # {}
                      /\ Event(a, s) \in ToSet(Queue(a)')
                      /\ \A t \in Seqs : Event(a, t) \in ToSet(Queue(a)') => t = s
  BY <1>1, <1>2 DEF Spent
<1>4. St(a)' = St(a) /\ St(a).buf = {}
  BY <1>2, <1>3, StandingStays, SettledFact
<1>5. Event(a, s) \in ToSet(Queue(a)') /\ \A t \in Seqs : Event(a, t) \in ToSet(Queue(a)') => t = s
  <2>1. \A t \in Seqs : Event(a, t) \in ToSet(Queue(a)') <=> Bit(a = a /\ t = s) # 0
    BY <1>2, InTopic DEF Queue
  <2> QED
    BY <2>1 DEF Bit
<1>6. found[a].gaps # {}
  <2> DEFINE x == St(a)
  <2>1. /\ Books(x, found[a].gaps, table[a].bal) /\ x.last = table[a].last
    BY DEF BooksInv, St, Stood
  <2>2. s \notin x.app
    BY <1>2, LoggedFact
  <2> HIDE DEF x
  <2>3. s \in 1..x.last
    <3>1. x.last \in Nat /\ s \in Nat /\ 1 <= s
      BY <2>1, BoundsAssumption DEF Books, Proper, Seqs
    <3> QED
      BY <1>3, <2>1, <3>1
  <2>4. Policy # "HOLD" /\ x.app \cup UNION found[a].gaps = 1..x.last
    BY <2>1, <2>2, <2>3 DEF Books
  <2>5. s \in UNION found[a].gaps
    BY <2>2, <2>3, <2>4
  <2> QED
    BY <2>5
<1> QED
  BY <1>4, <1>5, <1>6

LEMMA SpentBatch ==
    ASSUME ~ DropLate, BooksInv, NEW upto \in Cuts, Batch(upto),
           NEW r, r.acct \in Accounts, r.seq \in Seqs, Spent(r)
    PROVE  Spent(r)'
<1> DEFINE a == r.acct
           s == r.seq
           records == Read(a, upto)
           rows == RowsOf(a, records)
           w == nextWatermark
           x == St(a)
           y == St(a)'
<1>0. Typed /\ unread \in Topics /\ unread' \in Topics /\ a \in Accounts
  <2>1. Typed /\ unread \in Topics
    BY DEF BooksInv, Typed
  <2> QED
    BY <2>1, RestFact DEF Batch
<1>1. SUFFICES ASSUME r.row.size = 0, s < r.row.last
               PROVE  /\ table'[a].last = r.row.last /\ table'[a].bal = r.row.bal
                      /\ y.buf = {} /\ found'[a].gaps # {}
                      /\ Event(a, s) \in ToSet(Queue(a)') \/ s \in found'[a].dup
                      /\ \A t \in Seqs : Event(a, t) \in ToSet(Queue(a)') => t = s
  BY DEF Spent
<1>2. /\ table[a].last = r.row.last /\ table[a].bal = r.row.bal
      /\ x.buf = {} /\ found[a].gaps # {}
      /\ Event(a, s) \in ToSet(Queue(a)) \/ s \in found[a].dup
      /\ \A t \in Seqs : Event(a, t) \in ToSet(Queue(a)) => t = s
  BY <1>1 DEF Spent
<1>3. /\ rows \in Seq(Seqs)
      /\ \A t \in Seqs : /\ Copies(rows, t) \in Nat /\ Copies(Queue(a)', Event(a, t)) \in Nat
                         /\ Copies(Queue(a), Event(a, t)) = Copies(rows, t) + Copies(Queue(a)', Event(a, t))
  <2>1. records \in Seq(Message)
    BY <1>0, RestFact
  <2>2. rows \in Seq(Seqs)
    <3> HIDE DEF records
    <3> QED
      BY <2>1, RowsCopies
  <2> QED
    BY <1>0, <2>2, BatchReads
<1>4. Outcome(a, records)
  BY BatchOutcome
<1>5. /\ x.last = table[a].last /\ y.last = table'[a].last
      /\ x.dup = found[a].dup /\ y.dup = found'[a].dup
      /\ Books(x, found[a].gaps, table[a].bal) /\ table[a].bal \in Int
  <2>1. table[a] \in BalanceRow
    BY <1>0 DEF Typed
  <2> QED
    BY <2>1 DEF BooksInv, St, Stood, BalanceRow
<1> HIDE DEF rows, x, y, w, a, s
<1>6. \A t \in Seqs : Event(a, t) \in ToSet(Queue(a)') => t = s
  <2> SUFFICES ASSUME NEW t \in Seqs, Event(a, t) \in ToSet(Queue(a)')
               PROVE  t = s
    OBVIOUS
  <2>1. Copies(Queue(a)', Event(a, t)) # 0
    BY <1>0, InTopic DEF Queue
  <2>2. Copies(Queue(a), Event(a, t)) # 0
    BY <1>3, <2>1
  <2>3. Event(a, t) \in ToSet(Queue(a))
    BY <1>0, <2>2, InTopic DEF Queue
  <2> QED
    BY <1>2, <2>3
<1>7. \A t \in ToSet(rows) : t = s
  <2> SUFFICES ASSUME NEW t \in ToSet(rows)
               PROVE  t = s
    OBVIOUS
  <2>1. t \in Seqs
    BY <1>3, LenProperties DEF ToSet
  <2>2. Copies(rows, t) # 0
    BY <1>3, PlacesFinite
  <2>3. Copies(Queue(a), Event(a, t)) # 0
    BY <1>3, <2>1, <2>2
  <2>4. Event(a, t) \in ToSet(Queue(a))
    BY <1>0, <2>3, InTopic DEF Queue
  <2> QED
    BY <1>2, <2>1, <2>4
<1>8. DOMAIN rows = 1..Len(rows) /\ s \in Seqs /\ s \in Nat
  BY <1>3, LenProperties, BoundsAssumption DEF Seqs, s
<1>9. s \notin ToSet(rows) => Event(a, s) \in ToSet(Queue(a)') \/ s \in found[a].dup
  <2> SUFFICES ASSUME s \notin ToSet(rows), Event(a, s) \in ToSet(Queue(a))
               PROVE  Event(a, s) \in ToSet(Queue(a)')
    BY <1>2
  <2>1. Copies(rows, s) = 0
    BY <1>3, PlacesFinite
  <2>2. Copies(Queue(a), Event(a, s)) # 0
    BY <1>0, InTopic DEF Queue
  <2>3. Copies(Queue(a)', Event(a, s)) # 0
    BY <1>3, <1>8, <2>1, <2>2
  <2> QED
    BY <1>0, <2>3, InTopic DEF Queue
<1>10. CASE /\ Walked(x, rows, w, Len(rows), y)
            /\ found'[a].gaps = found[a].gaps
            /\ table'[a].bal = table[a].bal + Total[(x.last + 1)..y.last]
  <2>1. /\ Proper(x) /\ Proper(y) /\ x.last \in Nat /\ y.last \in Nat /\ x.last <= y.last
        /\ y.app = x.app \cup (x.last + 1)..y.last /\ x.app \subseteq 1..x.last
        /\ y.app \cup y.buf \subseteq x.app \cup x.buf \cup {rows[j] : j \in 1..Len(rows)}
        /\ \A b \in y.buf : y.last + 1 < b
        /\ x.dup \subseteq y.dup
    BY <1>5, <1>10, BoundsAssumption DEF Walked, Books, Proper
  <2>2. s < x.last
    BY <1>1, <1>2, <1>5
  <2>3. \A t \in y.app \cup y.buf : t <= x.last
    <3>1. \A j \in 1..Len(rows) : rows[j] = s
      BY <1>7, <1>8 DEF ToSet
    <3>2. \A t \in x.app : t <= x.last
      BY <2>1
    <3> QED
      BY <1>2, <1>8, <2>1, <2>2, <3>1, <3>2
  <2>4. y.last = x.last
    <3>1. ASSUME x.last < y.last
          PROVE  FALSE
      <4>1. y.last \in y.app
        BY <2>1, <3>1
      <4> QED
        BY <2>1, <2>3, <3>1, <4>1
    <3> QED
      BY <2>1, <3>1
  <2>5. y.buf = {}
    <3> SUFFICES ASSUME NEW b \in y.buf
                 PROVE  FALSE
      OBVIOUS
    <3>1. b <= x.last /\ x.last + 1 < b /\ b \in Nat
      BY <2>1, <2>3, <2>4, BoundsAssumption DEF Proper, Seqs
    <3> QED
      BY <2>1, <3>1
  <2>6. table'[a].bal = table[a].bal
    <3>1. (x.last + 1)..y.last = {}
      BY <2>1, <2>4
    <3>2. Total[(x.last + 1)..y.last] = 0
      BY <3>1, TotalAssumption
    <3>3. table'[a].bal = table[a].bal + 0
      BY <1>10, <3>2
    <3> QED
      BY <1>5, <3>3
  <2>7. s \in ToSet(rows) => s \in y.dup
    <3> SUFFICES ASSUME s \in ToSet(rows)
                 PROVE  s \in y.dup
      OBVIOUS
    <3>1. PICK j \in 1..Len(rows) : rows[j] = s
      BY <1>8 DEF ToSet
    <3>2. OnTime(rows[j], w)
      BY DEF OnTime
    <3>3. rows[j] <= x.last
      BY <1>8, <2>1, <2>2, <3>1
    <3>4. rows[j] \in y.dup
      BY <1>10, <3>2, <3>3 DEF Walked
    <3> QED
      BY <3>1, <3>4
  <2> QED
    BY <1>2, <1>5, <1>6, <1>9, <1>10, <2>1, <2>4, <2>5, <2>6, <2>7
<1>11. CASE Confirms(x, y)
  BY <1>2, <1>11 DEF Confirms
<1>12. CASE /\ ~ Reached(rows, w) /\ Stays(x, y) /\ found'[a].gaps = found[a].gaps
            /\ table'[a].bal = table[a].bal
  <2>1. s \notin ToSet(rows)
    BY <1>12 DEF Reached, OnTime, ToSet
  <2> QED
    BY <1>2, <1>5, <1>6, <1>9, <1>12, <2>1 DEF Stays
<1> QED
  <2> HIDE DEF records
  <2> QED
    BY <1>4, <1>10, <1>11, <1>12 DEF Outcome, rows, w, x, y

LEMMA DrillKeep ==
    ASSUME ~ DropLate
    PROVE  BooksInv /\ TallyInv /\ DrillInv /\ [Next]_vars => DrillInv'
<1> SUFFICES ASSUME BooksInv, TallyInv, DrillInv, [Next]_vars
             PROVE  DrillInv'
  OBVIOUS
<1>0. Typed
  BY DEF BooksInv
<1>1. CASE Publish
  <2>1. released' = released /\ stream # <<>>
    BY <1>1 DEF Publish
  <2>2. released = {}
    BY <2>1 DEF DrillInv
  <2> QED
    BY <2>1, <2>2 DEF DrillInv
<1>2. CASE SendTrailing
  <2>1. /\ UNCHANGED <<keys, table, found, applied>> /\ released' = released /\ stream' = stream
    BY <1>2 DEF SendTrailing, engine, history
  <2>2. /\ unread \in Topics /\ unread' \in Topics
        /\ \A a \in Accounts, s \in Seqs : Copies(Queue(a)', Event(a, s)) = Copies(Queue(a), Event(a, s))
    BY <1>0, <1>2, TrailingFact DEF Typed
  <2>3. \A a \in Accounts, s \in Seqs : Event(a, s) \in ToSet(Queue(a)') <=> Event(a, s) \in ToSet(Queue(a))
    BY <2>2, InTopic DEF Queue
  <2>4. \A a : St(a)' = St(a)
    BY <2>1, StandingStays
  <2>5. ASSUME NEW r \in released
        PROVE  r.acct \in Accounts /\ r.seq \in Seqs /\ Spent(r)'
    <3>1. r.acct \in Accounts /\ r.seq \in Seqs /\ Spent(r)
      BY DEF DrillInv
    <3> QED
      BY <2>1, <2>3, <2>4, <3>1 DEF Spent
  <2> QED
    BY <2>1, <2>5 DEF DrillInv
<1>3. CASE RunBatch
  <2>1. PICK upto \in Cuts : Batch(upto)
    BY <1>3, BatchTaken
  <2>2. released' = released /\ stream' = stream
    BY <2>1 DEF Batch
  <2>3. \A r \in released : r.acct \in Accounts /\ r.seq \in Seqs /\ Spent(r)
    BY DEF DrillInv
  <2>4. \A r \in released : Spent(r)'
    BY <2>1, <2>3, SpentBatch
  <2> QED
    BY <2>2, <2>3, <2>4 DEF DrillInv
<1>4. CASE ReleaseHead
  <2>1. PICK a \in Accounts, s \in Seqs, m \in Message : LetGo(a, s, m)
    BY <1>0, <1>4, ReleaseFact
  <2>2. PICK r : r = [acct |-> a, seq |-> s, row |-> table[a]]
    OBVIOUS
  <2>3. Spent(r)'
    BY <2>1, <2>2, SpentRelease
  <2>4. r.acct \in Accounts /\ r.seq \in Seqs
    BY <2>2
  <2>5. released' = {r} /\ stream' = <<>>
    BY <2>1, <2>2 DEF LetGo
  <2> QED
    BY <2>3, <2>4, <2>5 DEF DrillInv
<1>5. CASE UNCHANGED vars
  <2>1. /\ UNCHANGED <<keys, table, found, applied>> /\ released' = released /\ stream' = stream
        /\ unread' = unread
    BY <1>5 DEF vars, generator, engine, history
  <2>2. \A a : St(a)' = St(a)
    BY <2>1, StandingStays
  <2>3. \A a : Queue(a)' = Queue(a)
    BY <2>1 DEF Queue
  <2>4. \A r \in released : Spent(r)'
    BY <2>1, <2>2, <2>3 DEF DrillInv, Spent
  <2> QED
    BY <2>1, <2>4 DEF DrillInv
<1> QED
  BY <1>1, <1>2, <1>3, <1>4, <1>5 DEF Next

(* The head that came too late left a record and moved nothing.            *)
LEMMA LateFact == DrillInv => ReleasedHeadIsDropped
<1> SUFFICES ASSUME DrillInv, Drained, NEW r \in released, r.row.size = 0, r.row.last > r.seq
             PROVE  LateArrivalPasses(r.row, r.seq, table[r.acct], found[r.acct])
  BY DEF ReleasedHeadIsDropped
<1>1. r.seq < r.row.last => Spent(r) /\ r.seq \in Nat
  BY BoundsAssumption DEF DrillInv, Seqs
<1>2. Spent(r)
  BY DEF DrillInv
<1>3. \A a \in Accounts : ToSet(Queue(a)) = {}
  BY PartitionFact DEF Drained, Queue, ToSet
<1>4. r.acct \in Accounts /\ r.seq < r.row.last
  BY <1>1 DEF DrillInv
<1> QED
  BY <1>2, <1>3, <1>4 DEF Spent, LateArrivalPasses

(* The figures of a burst behind a withheld head.                          *)
LEMMA BurstFact ==
    ASSUME MaxBuffer > 0, BooksInv, TallyInv, SightInv
    PROVE  BurstKeepsTheCap
<1> SUFFICES ASSUME Drained, Policy # "HOLD", NEW a \in Accounts, log[a] # <<>>, HeadWithheld(log[a]),
                    Missing(log[a]) = {1}, Predictable(a), afterGap[a] = {}
             PROVE  BufferProofPasses(table[a], applied[a], found[a], Cardinality(ToSet(log[a])))
  BY DEF BurstKeepsTheCap
<1> DEFINE x == St(a)
           q == log[a]
           L == ToSet(q)
           A == x.app
           O == x.ovf
           l == x.last
           top == Max(L)
           n == Cardinality(L)
<1>0. q \in Seq(Seqs) /\ q # <<>>
  BY DEF BooksInv, Typed
<1>1. L \in SUBSET Seqs /\ L # {} /\ top \in L /\ \A s \in L : s <= top
  BY <1>0, MissingFact
<1>2. \A s \in Seqs : s \in Nat /\ 1 <= s
  BY BoundsAssumption DEF Seqs
<1>3. Determinate(q)
  BY DEF Determinate
<1>4. x.buf = {}
  BY <1>3, AppliedFact
<1>5. A \cup O = L /\ A \cap O = {}
  <2>1. (A \cup x.buf) \cup O = L /\ (A \cup x.buf) \cap O = {}
    BY DeliveredFact
  <2> QED
    BY <1>4, <2>1
<1>6. /\ Cardinality(A) <= MaxBuffer
      /\ O # {} => Cardinality(A) = MaxBuffer
      /\ \A v \in O, b \in A : v < b
  <2>1. Ranked(x)
    BY <1>3, EvictedFact
  <2>2. A \cup x.buf = A
    BY <1>4
  <2> QED
    BY <2>1, <2>2 DEF Ranked
<1>7. /\ table[a].last = l /\ applied[a] = A /\ found[a].overflow = O
      /\ A \subseteq 1..l /\ l \in Nat /\ (l # 0 => l \in A)
  <2>1. Books(x, found[a].gaps, table[a].bal)
    BY DEF BooksInv
  <2>2. table[a].last = l /\ applied[a] = A /\ found[a].overflow = O
    BY DEF St, Stood
  <2> QED
    BY <2>1, <2>2, BoundsAssumption DEF Books, Proper
<1>8. (1..top) \ L = {1}
  BY DEF Missing
<1>9. A \in SUBSET Seqs /\ O \in SUBSET Seqs
  BY <1>1, <1>5
<1> HIDE DEF A, O, L, l, top, q
<1>10. IsFiniteSet(A) /\ IsFiniteSet(O) /\ Cardinality(A) \in Nat /\ Cardinality(O) \in Nat
       /\ MaxBuffer \in Nat
  BY <1>9, SeqsFinite, BoundsAssumption
<1>11. n = Cardinality(A) + Cardinality(O)
  <2>1. Cardinality(A \cup O) = Cardinality(A) + Cardinality(O) - Cardinality(A \cap O)
    BY <1>10, FS_Union
  <2>2. Cardinality(A \cap O) = 0
    BY <1>5, FS_EmptySet
  <2>3. n = Cardinality(A \cup O)
    BY <1>5
  <2> HIDE DEF n
  <2> QED
    BY <1>10, <2>1, <2>2, <2>3
<1>12. A # {}
  <2>1. CASE O = {}
    BY <1>1, <1>5, <2>1
  <2>2. CASE O # {}
    <3>1. Cardinality(A) # 0
      BY <1>6, <1>10, <2>2
    <3> QED
      BY <1>10, <3>1, FS_EmptySet
  <2> QED
    BY <2>1, <2>2
<1>13. top \in Nat /\ 1 <= top
  BY <1>1, <1>2
<1>14. top \in A
  <2>1. PICK b \in A : TRUE
    BY <1>12
  <2>2. b \in L /\ b \in Nat /\ b <= top
    BY <1>1, <1>2, <1>5
  <2>3. top \notin O
    <3>1. top \in O => top < b
      BY <1>6
    <3> QED
      BY <1>13, <2>2, <3>1
  <2> QED
    BY <1>1, <1>5, <2>3
<1>15. l = top
  <2>1. top \in 1..l
    BY <1>7, <1>14
  <2>2. l \in A
    BY <1>7, <1>13, <2>1
  <2>3. l <= top
    BY <1>1, <1>5, <2>2
  <2> QED
    BY <1>7, <1>13, <2>1, <2>3
<1>16. n + 1 = top
  <2>1. L = (1..top) \ {1}
    <3>1. L \subseteq 1..top
      BY <1>1, <1>2, <1>13
    <3> QED
      BY <1>8, <3>1
  <2>2. IsFiniteSet(1..top) /\ Cardinality(1..top) = top
    <3>1. Cardinality(1..top) = IF 1 > top THEN 0 ELSE top - 1 + 1
      BY <1>13, FS_Interval
    <3>2. IsFiniteSet(1..top)
      BY <1>13, FS_Interval
    <3> QED
      BY <1>13, <3>1, <3>2
  <2>3. 1 \in 1..top
    BY <1>13
  <2>4. Cardinality((1..top) \ {1}) = Cardinality(1..top) - 1
    BY <2>2, <2>3, FS_RemoveElement
  <2> QED
    BY <1>13, <2>1, <2>2, <2>4
<1> DEFINE i == Cardinality(A)
           j == Cardinality(O)
<1>17. /\ i \in Nat /\ j \in Nat /\ n = i + j /\ i <= MaxBuffer
       /\ j # 0 => i = MaxBuffer
  <2>1. O = {} => j = 0
    BY FS_EmptySet
  <2> QED
    BY <1>6, <1>10, <1>11, <2>1
<1> HIDE DEF i, j, n
<1>18. i = Min({MaxBuffer, n})
  <2> DEFINE m == Min({MaxBuffer, n})
  <2>1. {MaxBuffer, n} \in SUBSET Nat
    BY <1>10, <1>17
  <2>2. m \in {MaxBuffer, n} /\ \A z \in {MaxBuffer, n} : m <= z
    BY <2>1, MinFact
  <2> HIDE DEF m
  <2>3. m = i
    BY <1>10, <1>17, <2>2
  <2> QED
    BY <2>3 DEF m
<1>19. j = Max({0, n - MaxBuffer})
  <2> DEFINE m == Max({0, n - MaxBuffer})
  <2>1. {0, n - MaxBuffer} \in SUBSET Int /\ 0 \in {0, n - MaxBuffer} /\ n \in Nat
    BY <1>10, <1>17
  <2>2. \A z \in {0, n - MaxBuffer} : z <= n
    BY <1>10, <1>17
  <2>3. m \in {0, n - MaxBuffer} /\ \A z \in {0, n - MaxBuffer} : z <= m
    BY <2>1, <2>2, MaxOfInts
  <2> HIDE DEF m
  <2>4. m = j
    BY <1>10, <1>17, <2>3
  <2> QED
    BY <2>4 DEF m
<1>20. /\ table[a].last = n + 1
       /\ Cardinality(applied[a]) = Min({MaxBuffer, n})
       /\ Cardinality(found[a].overflow) = Max({0, n - MaxBuffer})
  BY <1>7, <1>15, <1>16, <1>18, <1>19 DEF i, j
<1> QED
  BY <1>20 DEF BufferProofPasses, n, L, q

(* The proofs of the two drills that end a run.  A head that arrives after *)
(* its hole was confirmed and the buffer let go is dropped with a record,  *)
(* and neither balance nor position moves; a burst behind a withheld head, *)
(* all in before its gap was confirmed, leaves the figures of the cap.     *)
(* The buffer holds something, and no row is taken for late by Spark: a    *)
(* released head carries the time of its release.                          *)
THEOREM DrillsPassTheirProofs ==
    ASSUME MaxBuffer > 0, ~ DropLate
    PROVE  Spec => []DrillVerdictsHold
<1>1. Init => BooksInv /\ TallyInv /\ SightInv /\ DrillInv
  <2>1. Init => DrillInv
    BY DEF Init, DrillInv
  <2> QED
    BY <2>1, BooksInit, TallyInit, SightInit
<1>2. /\ BooksInv /\ TallyInv /\ SightInv /\ DrillInv /\ [Next]_vars
      => BooksInv' /\ TallyInv' /\ SightInv' /\ DrillInv'
  BY BooksKeep, TallyKeep, SightKeep, DrillKeep
<1>3. BooksInv /\ TallyInv /\ SightInv /\ DrillInv => DrillVerdictsHold
  BY LateFact, BurstFact DEF DrillVerdictsHold
<1> QED
  BY <1>1, <1>2, <1>3, PTL DEF Spec
=============================================================================
