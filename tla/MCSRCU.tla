------------------------------- MODULE MCSRCU -------------------------------
(***************************************************************************)
(* SRCU for TLC: one reader with two updaters, which meet in the mutex and *)
(* in the early exit, and two readers with one updater, which sums up the  *)
(* counters while both of them change CPU.                                 *)
(***************************************************************************)
EXTENDS SRCU

CONSTANTS r1, r2, u1, u2

MCSharings == {{r1, u1, u2}, {r1, r2, u1}}
==============================================================================
