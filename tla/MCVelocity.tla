----------------------------- MODULE MCVelocity -----------------------------
(* Short streams of debits and a credit, cut into batches in every way.    *)
EXTENDS Velocity

Debit(ts, amt) == [ts |-> ts, amt |-> 0 - amt]
Credit(ts) == [ts |-> ts, amt |-> 9]

(* In order and reordered, two debits of a window, one far behind, the     *)
(* trailing heartbeats.                                                    *)
MCStreams == {
    <<Debit(4, 2), Debit(5, 3), Credit(6), Debit(9, 1), Credit(14)>>,
    <<Debit(8, 2), Credit(8), Debit(7, 3), Credit(14)>>,
    <<Debit(6, 2), Debit(5, 3), Debit(7, 1), Credit(12), Credit(14)>>,
    <<Debit(5, 2), Credit(9), Debit(4, 3), Credit(11), Debit(5, 1), Credit(14)>> }
=============================================================================
