------------------------------- MODULE Ledger -------------------------------
(***************************************************************************)
(* What the engine promises of ONE account, whatever Kafka, Spark and the  *)
(* sinks do: a position that only moves forward, a balance that is the sum *)
(* of the events settled, each of them settled once.                       *)
(*                                                                         *)
(* Sequencer.tla implements it with the state tuple, BalanceEngine.tla     *)
(* with the balances table under crashes and re-executed batches.          *)
(***************************************************************************)
EXTENDS Integers

CONSTANTS
    MaxSeq,         \* sequence numbers run from 1 to MaxSeq
    Policy,         \* gap_policy: FLAG_AND_CONTINUE or HOLD
    Total           \* Total[S]: the summed amount of the events in S

VARIABLES
    position,       \* last_applied_seq
    balance,        \* balance_minor
    settled         \* the events the balance is made of

ledger == <<position, balance, settled>>

Init == position = 0 /\ balance = 0 /\ settled = {}

(* The position moves over the events up to `to`, the last of which is     *)
(* settled; only FLAG_AND_CONTINUE may leave some of them out, for good.   *)
Settle == \E to \in (position + 1)..MaxSeq : \E taken \in SUBSET ((position + 1)..to) :
    /\ to \in taken
    /\ Policy = "HOLD" => taken = (position + 1)..to
    /\ position' = to
    /\ balance' = balance + Total[taken]
    /\ settled' = settled \cup taken

Spec == Init /\ [][Settle]_ledger
=============================================================================
