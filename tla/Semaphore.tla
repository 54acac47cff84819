------------------------------ MODULE Semaphore ------------------------------
(***************************************************************************)
(* Counting semaphores, kernel/semaphore.c.                                *)
(*                                                                         *)
(* Every field is read and written under sem->lock with interrupts off, so *)
(* one critical section is one action.  A contended down() runs several of *)
(* them: it queues itself and goes to sleep in the first, and each time    *)
(* schedule_timeout() returns it runs another one.  In between, up(),      *)
(* signals, the timer and wakeups that are not meant for it act in any     *)
(* order.                                                                  *)
(***************************************************************************)
EXTENDS Integers, Sequences, FiniteSets, Sched, KList

CONSTANTS Tasks,       \* tasks that call down*(); up() comes from anywhere
          InitCount,   \* the val given to sema_init()
          MaxCount,    \* bound on count: no up() beyond it
          MaxTimeout   \* bound on the jiffies given to down_timeout()

ASSUME SemaphoreAssumption ==
  /\ IsFiniteSet(Tasks)
  /\ InitCount \in Nat
  /\ MaxCount \in Nat
  /\ MaxTimeout \in Nat

VARIABLES count,      \* sem->count
          wait_list,  \* sem->wait_list: the tasks of the queued waiters
          up,         \* up[t]: ->up of the waiter on t's stack
          pc,         \* where t is in down*()
          state,      \* the state parameter of __down_common()
          timeout,    \* its timeout, as schedule_timeout() leaves it
          tstate,     \* task->state
          sig,        \* signals pending for the task
          owed        \* history: successful returns of down*() less calls of up()

vars == <<count, wait_list, up, pc, state, timeout, tstate, sig, owed>>

(* Larger than every timeout; schedule_timeout() hands it back unchanged. *)
MAX_SCHEDULE_TIMEOUT == MaxTimeout + 1

Init ==
  /\ count = InitCount
  /\ wait_list = <<>>
  /\ up = [t \in Tasks |-> FALSE]
  /\ pc = [t \in Tasks |-> "idle"]
  /\ state = [t \in Tasks |-> TASK_UNINTERRUPTIBLE]
  /\ timeout = [t \in Tasks |-> MAX_SCHEDULE_TIMEOUT]
  /\ tstate = [t \in Tasks |-> TASK_RUNNING]
  /\ sig = [t \in Tasks |-> "none"]
  /\ owed = 0

------------------------------------------------------------------------------
(* The calls of __down_common(): the state and the timeouts each of        *)
(* down(), down_interruptible(), down_killable() and down_timeout() passes. *)
DownCall ==
  ({TASK_UNINTERRUPTIBLE, TASK_INTERRUPTIBLE, TASK_KILLABLE} \X {MAX_SCHEDULE_TIMEOUT})
    \cup ({TASK_UNINTERRUPTIBLE} \X (0 .. MaxTimeout))


(* down*() returns: the waiter and the parameters, on its stack, are gone. *)
Return(t) ==
  /\ pc' = [pc EXCEPT ![t] = "idle"]
  /\ up' = [up EXCEPT ![t] = FALSE]
  /\ state' = [state EXCEPT ![t] = TASK_UNINTERRUPTIBLE]
  /\ timeout' = [timeout EXCEPT ![t] = MAX_SCHEDULE_TIMEOUT]

Sleep(t, st, to) ==
  /\ pc' = [pc EXCEPT ![t] = "schedule"]
  /\ up' = [up EXCEPT ![t] = FALSE]
  /\ state' = [state EXCEPT ![t] = st]
  /\ timeout' = [timeout EXCEPT ![t] = to]
  /\ tstate' = [tstate EXCEPT ![t] = st]

(* Variant with a bug: giving up leaves the waiter on the list. *)
BuggyLeaveOnList(t, list, st, to) ==
  /\ wait_list' = list
  /\ \/ /\ signal_pending_state(st, sig[t]) \/ to <= 0
        /\ Return(t)
        /\ UNCHANGED tstate
     \/ /\ ~signal_pending_state(st, sig[t])
        /\ to > 0
        /\ Sleep(t, st, to)

(* One pass of the loop of __down_common(), from its top to the            *)
(* spin_unlock_irq(): give up, or set the task state and go to sleep.      *)
WaitOrGiveUp(t, list, st, to) ==
  \/ /\ signal_pending_state(st, sig[t]) \/ to <= 0
     /\ wait_list' = list_del(list, t)
     /\ Return(t)
     /\ UNCHANGED tstate
  \/ /\ ~signal_pending_state(st, sig[t])
     /\ to > 0
     /\ wait_list' = list
     /\ Sleep(t, st, to)

(* down*() that finds count > 0. *)
DownFast(t) ==
  /\ pc[t] = "idle"
  /\ count > 0
  /\ count' = count - 1
  /\ owed' = owed + 1
  /\ UNCHANGED <<wait_list, up, pc, state, timeout, tstate, sig>>

(* Variant with a bug: the newcomer goes to the front of the list. *)
BuggyDownSlow(t, call) ==
  /\ pc[t] = "idle"
  /\ ~(count > 0)
  /\ WaitOrGiveUp(t, <<t>> \o wait_list, call[1], call[2])
  /\ UNCHANGED <<count, sig, owed>>

(* down*() that does not: __down_common() up to its first schedule. *)
DownSlow(t, call) ==
  /\ pc[t] = "idle"
  /\ ~(count > 0)
  /\ WaitOrGiveUp(t, list_add_tail(wait_list, t), call[1], call[2])
  /\ UNCHANGED <<count, sig, owed>>

(* Variant with a bug: the test is off by one. *)
BuggyTrylock(t) ==
  /\ pc[t] = "idle"
  /\ count >= 0
  /\ count' = count - 1
  /\ owed' = owed + 1
  /\ UNCHANGED <<wait_list, up, pc, state, timeout, tstate, sig>>

(* down_trylock() that succeeds; one that fails changes nothing. *)
down_trylock(t) ==
  /\ pc[t] = "idle"
  /\ count - 1 >= 0
  /\ count' = count - 1
  /\ owed' = owed + 1
  /\ UNCHANGED <<wait_list, up, pc, state, timeout, tstate, sig>>

(* The timer armed by schedule_timeout() fires: process_timeout(). *)
TimerExpires(t) ==
  /\ pc[t] = "schedule"
  /\ timeout[t] \notin {0, MAX_SCHEDULE_TIMEOUT}
  /\ timeout' = [timeout EXCEPT ![t] = 0]
  /\ tstate' = wake_up_process(tstate, t)
  /\ UNCHANGED <<count, wait_list, up, pc, state, sig, owed>>

(* Somebody who knows nothing of the semaphore wakes t: the waiter has to  *)
(* find out that it got no unit and to sleep on for the rest of its time.  *)
SpuriousWakeup(t) ==
  /\ pc[t] = "schedule"
  /\ tstate' = wake_up_process(tstate, t)
  /\ UNCHANGED <<count, wait_list, up, pc, state, timeout, sig, owed>>

(* Variant with a bug: what schedule_timeout() returns is not stored, and  *)
(* a task that is woken for nothing waits for the whole timeout again.     *)
BuggyScheduleTimeoutReturns(t, left) ==
  /\ pc[t] = "schedule"
  /\ ScheduleReturns(tstate[t], sig[t])
  /\ IF timeout[t] = MAX_SCHEDULE_TIMEOUT THEN left = timeout[t] ELSE left <= timeout[t]
  /\ tstate' = [tstate EXCEPT ![t] = TASK_RUNNING]
  /\ timeout' = [timeout EXCEPT ![t] = IF left = 0 THEN 0 ELSE timeout[t]]
  /\ pc' = [pc EXCEPT ![t] = "relock"]
  /\ UNCHANGED <<count, wait_list, up, state, sig, owed>>

(* schedule_timeout() returns what is left of the timeout: any part of it, *)
(* since the task may run long after it was woken.                         *)
ScheduleTimeoutReturns(t, left) ==
  /\ pc[t] = "schedule"
  /\ ScheduleReturns(tstate[t], sig[t])
  /\ IF timeout[t] = MAX_SCHEDULE_TIMEOUT THEN left = timeout[t] ELSE left <= timeout[t]
  /\ tstate' = [tstate EXCEPT ![t] = TASK_RUNNING]
  /\ timeout' = [timeout EXCEPT ![t] = left]
  /\ pc' = [pc EXCEPT ![t] = "relock"]
  /\ UNCHANGED <<count, wait_list, up, state, sig, owed>>

(* Variant with a bug: signals and the timeout are tested before waiter.up. *)
BuggyRelock(t) ==
  /\ pc[t] = "relock"
  /\ \/ /\ up[t]
        /\ ~(signal_pending_state(state[t], sig[t]) \/ timeout[t] <= 0)
        /\ owed' = owed + 1
        /\ Return(t)
        /\ UNCHANGED <<wait_list, tstate>>
     \/ /\ up[t]
        /\ signal_pending_state(state[t], sig[t]) \/ timeout[t] <= 0
        /\ Return(t)
        /\ UNCHANGED <<wait_list, tstate, owed>>
     \/ /\ ~up[t]
        /\ WaitOrGiveUp(t, wait_list, state[t], timeout[t])
        /\ UNCHANGED owed
  /\ UNCHANGED <<count, sig>>

(* The rest of the loop body after spin_lock_irq(): the unit was handed    *)
(* over and down*() returns 0, or another pass of the loop.                *)
Relock(t) ==
  /\ pc[t] = "relock"
  /\ \/ /\ up[t]
        /\ owed' = owed + 1
        /\ Return(t)
        /\ UNCHANGED <<wait_list, tstate>>
     \/ /\ ~up[t]
        /\ WaitOrGiveUp(t, wait_list, state[t], timeout[t])
        /\ UNCHANGED owed
  /\ UNCHANGED <<count, sig>>

(* Variant with a bug: up() always increments count and leaves the woken   *)
(* waiter to compete for the unit.                                         *)
BuggyUpIncrements ==
  /\ owed' = owed - 1
  /\ count < MaxCount
  /\ count' = count + 1
  /\ \/ /\ wait_list = <<>>
        /\ UNCHANGED <<wait_list, up, tstate>>
     \/ /\ wait_list # <<>>
        /\ tstate' = wake_up_process(tstate, Head(wait_list))
        /\ UNCHANGED <<wait_list, up>>
  /\ UNCHANGED <<pc, state, timeout, sig>>

(* Variant with a bug: the waiter is handed the unit and not woken. *)
BuggyUpNoWake ==
  /\ owed' = owed - 1
  /\ \/ /\ wait_list = <<>>
        /\ count < MaxCount
        /\ count' = count + 1
        /\ UNCHANGED <<wait_list, up>>
     \/ /\ wait_list # <<>>
        /\ wait_list' = Tail(wait_list)
        /\ up' = [up EXCEPT ![Head(wait_list)] = TRUE]
        /\ UNCHANGED count
  /\ UNCHANGED <<pc, state, timeout, tstate, sig>>

(* up() from any context, whether or not the caller called down*(). *)
up_ ==
  /\ owed' = owed - 1
  /\ \/ /\ wait_list = <<>>
        /\ count < MaxCount
        /\ count' = count + 1
        /\ UNCHANGED <<wait_list, up, tstate>>
     \/ /\ wait_list # <<>>
        /\ wait_list' = Tail(wait_list)
        /\ up' = [up EXCEPT ![Head(wait_list)] = TRUE]
        /\ tstate' = wake_up_process(tstate, Head(wait_list))
        /\ UNCHANGED count
  /\ UNCHANGED <<pc, state, timeout, sig>>

(* A signal is sent to t; pending signals are dealt with outside down*(). *)
SignalArrives(t, s) ==
  /\ sig[t] = "none"
  /\ sig' = [sig EXCEPT ![t] = s]
  /\ UNCHANGED <<count, wait_list, up, pc, state, timeout, tstate, owed>>

SignalHandled(t) ==
  /\ pc[t] = "idle"
  /\ sig[t] # "none"
  /\ sig' = [sig EXCEPT ![t] = "none"]
  /\ UNCHANGED <<count, wait_list, up, pc, state, timeout, tstate, owed>>

Next ==
  \/ up_
  \/ \E t \in Tasks :
       \/ DownFast(t) \/ down_trylock(t) \/ Relock(t) \/ TimerExpires(t)
       \/ SpuriousWakeup(t) \/ SignalHandled(t)
       \/ \E call \in DownCall : DownSlow(t, call)
       \/ \E left \in 0 .. MAX_SCHEDULE_TIMEOUT : ScheduleTimeoutReturns(t, left)
       \/ \E s \in Signal \ {"none"} : SignalArrives(t, s)

Spec == Init /\ [][Next]_vars

(* A return from schedule_timeout() that finds jiffies has gone on. *)
TimePasses(t) ==
  \E left \in 0 .. MAX_SCHEDULE_TIMEOUT : left < timeout[t] /\ ScheduleTimeoutReturns(t, left)

(* A task that can run does run, and timers fire.  Of the passes of the    *)
(* loop that wakeups without a unit cause, not all take place within one   *)
(* jiffy.  Nobody is obliged to call down*() or up(), to send a signal or  *)
(* to wake a task for nothing.                                             *)
Fairness ==
  \A t \in Tasks :
    /\ WF_vars(Relock(t))
    /\ WF_vars(TimerExpires(t))
    /\ WF_vars(\E left \in 0 .. MAX_SCHEDULE_TIMEOUT : ScheduleTimeoutReturns(t, left))
    /\ SF_vars(TimePasses(t))

FairSpec == Spec /\ Fairness

(* Moreover, units that were taken may be given back in the end. *)
UnitsReturned == WF_vars(owed > 0 /\ up_)

------------------------------------------------------------------------------
(* Tasks whose waiter __up() has taken off the list and marked, and that   *)
(* have not returned from down*() yet.                                     *)
Granted == {t \in Tasks : pc[t] # "idle" /\ up[t]}

(* Tasks inside __down_common() that were not handed a unit. *)
Waiting == {t \in Tasks : pc[t] # "idle" /\ ~up[t]}

(* Every variable holds a value of its C type. *)
TypeOK ==
  /\ count \in Nat
  /\ wait_list \in Seq(Tasks)
  /\ up \in [Tasks -> BOOLEAN]
  /\ pc \in [Tasks -> {"idle", "schedule", "relock"}]
  /\ state \in [Tasks -> SleepState]
  /\ timeout \in [Tasks -> 0 .. MAX_SCHEDULE_TIMEOUT]
  /\ tstate \in [Tasks -> TaskState]
  /\ sig \in [Tasks -> Signal]
  /\ owed \in Int

(* No unit is lost or made up: what the semaphore still has, what down*()  *)
(* callers were told they got and what __up() has handed to a waiter that  *)
(* still sleeps always add up to the initial count, whatever signals and   *)
(* timeouts hit the waiter at the moment of the hand-over.                 *)
UnitsConserved == count + owed + Cardinality(Granted) = InitCount

(* up() hands its unit to a waiter and does not increment count while one  *)
(* is queued: so count is zero whenever somebody waits, and no later       *)
(* down*() or down_trylock() overtakes the queue.                          *)
NoOvertaking == wait_list # <<>> => count = 0

(* The list holds exactly the tasks that still wait, each once: a waiter   *)
(* that gave up (its stack frame is gone) is never on the list, and a task *)
(* that was handed a unit cannot be handed another.                        *)
ListIsWaiters ==
  /\ ListEntries(wait_list) = Waiting
  /\ ListOK(wait_list)

(* __up() wakes the task it hands the unit to: the task never sleeps on    *)
(* with a unit in its hand, even if __up() ran before it called schedule(). *)
GrantedIsAwake == \A t \in Granted : tstate[t] = TASK_RUNNING

(* A down() that cannot give up gets a unit in the end, whatever the       *)
(* others do, if users give back the units they took: the list is served   *)
(* in order of arrival.                                                    *)
DownReturns ==
  UnitsReturned =>
    \A t \in Tasks : (t \in Waiting /\ timeout[t] = MAX_SCHEDULE_TIMEOUT) ~> (t \notin Waiting)

(* A down_timeout() comes back even if nobody calls up() and it is woken   *)
(* for nothing again and again: each pass of the loop goes on with what    *)
(* the one before left of the timeout.                                     *)
TimeoutReturns ==
  \A t \in Tasks : (pc[t] # "idle" /\ timeout[t] # MAX_SCHEDULE_TIMEOUT) ~> (pc[t] = "idle")
==============================================================================
