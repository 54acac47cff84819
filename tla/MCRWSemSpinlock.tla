--------------------------- MODULE MCRWSemSpinlock ---------------------------
(* RWSemSpinlock for TLC. *)
EXTENDS RWSemSpinlock
==============================================================================
