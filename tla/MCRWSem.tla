------------------------------- MODULE MCRWSem -------------------------------
(* RWSem for TLC. *)
EXTENDS RWSem

CONSTANT t1

(* RWSem!EverybodyServed for one task, t1: the tasks are interchangeable,  *)
(* so what rwsem_down_failed_common() and __rwsem_do_wake() do for one     *)
(* they do for all.                                                        *)
FirstServed == Served(t1)
==============================================================================
