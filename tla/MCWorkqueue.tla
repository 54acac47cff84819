----------------------------- MODULE MCWorkqueue -----------------------------
(***************************************************************************)
(* Workqueue for TLC: two or three CPUs, one delayed work item, two tasks, *)
(* and the combinations of calls that make the interesting races.          *)
(***************************************************************************)
EXTENDS Workqueue, TLC

CONSTANTS t1, t2

Program(first, second, function, hotplug) ==
  [a \in Actors |-> CASE a = t1 -> first
                      [] a = t2 -> second
                      [] a \in CPUs -> function
                      [] a = Hotplug -> hotplug
                      [] OTHER -> {}]

Queue == {"queue_work", "queue_delayed_work"}

(* Safety; the last one is without delays. *)
MCPrograms ==
  { Program(Queue \cup {"cancel_delayed_work"},
            {"flush_workqueue", "flush_work", "flush_delayed_work",
             "cancel_work_sync", "cancel_delayed_work_sync"}, Queue, {}),
    Program({"queue_work", "cancel_delayed_work_sync"}, {"flush_workqueue", "cancel_work_sync"},
            Queue, {}),
    Program({"queue_work", "flush_workqueue", "flush_delayed_work", "cancel_work_sync"}, {}, Queue,
            {"cpu_down", "cpu_up", "destroy_workqueue"}),
    Program({"queue_work"}, {"cancel_work_sync", "flush_work"}, {"queue_work"}, {}) }

(* Liveness: work items that queue themselves for ever, while CPUs go and  *)
(* come, while another task flushes, while another task cancels.           *)
MCLivePrograms ==
  { Program({"queue_work", "flush_workqueue"}, {}, {"queue_work"},
            {"cpu_down", "cpu_up", "destroy_workqueue"}),
    Program({"queue_work"}, {"flush_workqueue"}, {"queue_delayed_work"}, {}),
    Program({"queue_delayed_work"}, {"cancel_work_sync"}, {"queue_work"}, {}) }

(* One task queues the work item, the other calls flush_work(). *)
MCFlushPrograms == { Program({"queue_work"}, {"flush_work"}, {}, {}) }

(* One task queues the work item, with and without a delay, the other      *)
(* cancels it.                                                             *)
MCGrabPrograms == { Program(Queue, {"cancel_delayed_work_sync"}, {}, {}) }
==============================================================================
