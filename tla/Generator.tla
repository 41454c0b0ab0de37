----------------------------- MODULE Generator -----------------------------
(***************************************************************************)
(* What the event generator (scripts/event_generator.py) and the burst     *)
(* injector (scripts/inject_burst.py) may publish, in publish order.       *)
(* Event times are stamped by logical position before any of the mangling  *)
(* below, so they are a function of the event and are not carried here.    *)
(***************************************************************************)
EXTENDS SequencerCore, SequencesExt, TLC

Event(a, s) == [acct |-> a, seq |-> s]

(* build_plan and interleave_round_robin: the accounts progress together.  *)
RoundRobin(order, perAccount) ==
    [i \in 1..(Len(order) * perAccount) |->
        Event(order[((i - 1) % Len(order)) + 1], ((i - 1) \div Len(order)) + 1)]

(* --gap removes an event for good, --dup delivers it twice in a row.      *)
GapsAndDups(stream, gaps, dups) ==
    FoldLeft(LAMBDA out, e : out \o (IF e.seq \in gaps THEN <<>>
                                     ELSE IF e.seq \in dups THEN <<e, e>> ELSE <<e>>),
             <<>>, stream)

(* The elements of the stream at the positions of S, in their order.       *)
At(stream, S) ==
    LET order == SetToSortSeq(S, <) IN [i \in DOMAIN order |-> stream[order[i]]]

(* --burst: the last k events of the first account go to the front.        *)
Burst(stream, k) ==
    LET own   == {i \in DOMAIN stream : stream[i].acct = stream[1].acct}
        moved == {i \in own : Cardinality({j \in own : j > i}) < k}
    IN  At(stream, moved) \o At(stream, DOMAIN stream \ moved)

(* --shuffle-window: any order within consecutive windows of w.            *)
Shuffles(stream, w) ==
    {[i \in DOMAIN stream |-> stream[p[i]]] :
        p \in {q \in Permutations(DOMAIN stream) :
                  \A i \in DOMAIN stream : (q[i] - 1) \div w = (i - 1) \div w}}

(* args: perAccount, gaps, dups, burst and window (1 is --ordered).        *)
GeneratorStreams(order, args) ==
    LET planned == GapsAndDups(RoundRobin(order, args.perAccount), args.gaps, args.dups)
    IN  Shuffles(Burst(planned, args.burst), args.window)

(* The injector: seqs start..start+n-1 of one account but those withheld,  *)
(* shuffled as a whole.                                                    *)
BurstStreams(a, start, n, withheld) ==
    LET plan == SetToSeq({Event(a, s) : s \in (start..(start + n - 1)) \ withheld})
    IN  Shuffles(plan, Len(plan))
=============================================================================
