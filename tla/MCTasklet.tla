------------------------------ MODULE MCTasklet ------------------------------
(***************************************************************************)
(* Tasklet for TLC: two CPUs, two tasklets, two tasks, and combinations of *)
(* calls that make the interesting races.                                  *)
(***************************************************************************)
EXTENDS Tasklet

CONSTANTS u1, u2

Program(first, second, hotplug) ==
  [a \in Actors |-> CASE a = u1 -> first
                      [] a = u2 -> second
                      [] a = Hotplug -> hotplug
                      [] OTHER -> {}]

MCPrograms ==
  { Program({"schedule"}, {"disable", "disable_nosync", "kill"}, {}),
    Program({"schedule"}, {"disable", "disable_nosync"}, {"cpu_down"}),
    Program({"schedule"}, {"hi_schedule"}, {"cpu_down"}) }

(* One task uses tasklet_hi_schedule_first(), the other tasklet_hi_schedule(). *)
MCFirstPrograms == { Program({"hi_schedule_first"}, {"hi_schedule"}, {}) }
==============================================================================
