-------------------------------- MODULE Sched --------------------------------
(***************************************************************************)
(* The part of the scheduler the blocking primitives rely on: task states, *)
(* pending signals, and when a call of schedule() comes back.              *)
(*                                                                         *)
(* A primitive puts its task to sleep in two steps: it stores a sleep      *)
(* state in task->state while it still holds its own spinlock, and it      *)
(* calls schedule() after dropping that lock.  A wake_up_process() that    *)
(* falls in between stores TASK_RUNNING, so schedule() does not block; a   *)
(* signal that falls in between is noticed by schedule() itself.           *)
(***************************************************************************)

TASK_RUNNING         == "TASK_RUNNING"
TASK_INTERRUPTIBLE   == "TASK_INTERRUPTIBLE"
TASK_UNINTERRUPTIBLE == "TASK_UNINTERRUPTIBLE"
TASK_KILLABLE        == "TASK_KILLABLE"

SleepState == {TASK_INTERRUPTIBLE, TASK_UNINTERRUPTIBLE, TASK_KILLABLE}
TaskState  == SleepState \cup {TASK_RUNNING}

(* No signal, a signal that is not fatal, SIGKILL. *)
Signal == {"none", "signal", "fatal"}

(* A sleeper in this state gives up because of the signals it has pending. *)
signal_pending_state(state, sig) ==
  \/ state = TASK_INTERRUPTIBLE /\ sig \in {"signal", "fatal"}
  \/ state = TASK_KILLABLE /\ sig = "fatal"

(* schedule() takes a task off the run queue only if its state is a sleep  *)
(* state and no signal that this state listens to is pending.              *)
ScheduleReturns(state, sig) ==
  \/ state = TASK_RUNNING
  \/ signal_pending_state(state, sig)

(* What wake_up_process(t) does to the states of all tasks. *)
wake_up_process(tstate, t) == [tstate EXCEPT ![t] = TASK_RUNNING]
==============================================================================
