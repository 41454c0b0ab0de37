---------------------------- MODULE MCDrainWait ----------------------------
(* The waiter and the probe beside the sequencer's query.                  *)
EXTENDS DrainWait, Probe

CONSTANTS balance_engine
=============================================================================
