---------------------------- MODULE MCLifecycle ----------------------------
(* One script or two, and a topic of a few batches.                        *)
EXTENDS Lifecycle
=============================================================================
