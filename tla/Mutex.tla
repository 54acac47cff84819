-------------------------------- MODULE Mutex --------------------------------
(***************************************************************************)
(* Sleeping locks, kernel/mutex.c, with the three generic fast paths of    *)
(* include/asm-generic/mutex-{dec,xchg,null}.h.                            *)
(*                                                                         *)
(* lock->count is 1 when the mutex is free, 0 when it is taken and         *)
(* negative when it is taken and there may be waiters.  The fast paths     *)
(* change it without any lock, so an action here is at most one access to  *)
(* count or to owner; what wait_lock protects (the list of waiters, and    *)
(* the task states the waiters set) goes with the neighbouring access.     *)
(***************************************************************************)
EXTENDS Integers, Sequences, FiniteSets, Sched, KList

CONSTANTS Tasks,        \* the tasks that use the mutex
          Null,         \* NULL, for lock->owner and for a free wait_lock
          SpinOnOwner   \* CONFIG_MUTEX_SPIN_ON_OWNER

ASSUME MutexAssumption ==
  /\ IsFiniteSet(Tasks)
  /\ Null \notin Tasks
  /\ SpinOnOwner \in BOOLEAN

VARIABLES FastPath,   \* the asm-generic/mutex-*.h the kernel was built with
          count,      \* lock->count
          owner,      \* lock->owner (a history variable where the build keeps none)
          wait_lock,  \* the task that holds lock->wait_lock, or Null
          wait_list,  \* lock->wait_list: the tasks of the queued waiters
          pc,         \* where each task is
          state,      \* the state parameter of __mutex_lock_common()
          seen,       \* its local owner in the spin loop
          prev,       \* the local prev of the trylock functions
          tstate,     \* task->state
          sig         \* signals pending for the task

vars == <<FastPath, count, owner, wait_lock, wait_list, pc, state, seen, prev, tstate, sig>>

Init ==
  /\ FastPath \in {"dec", "xchg", "null"}
  /\ count = 1
  /\ owner = Null
  /\ wait_lock = Null
  /\ wait_list = <<>>
  /\ pc = [t \in Tasks |-> "idle"]
  /\ state = [t \in Tasks |-> TASK_UNINTERRUPTIBLE]
  /\ seen = [t \in Tasks |-> Null]
  /\ prev = [t \in Tasks |-> 0]
  /\ tstate = [t \in Tasks |-> TASK_RUNNING]
  /\ sig = [t \in Tasks |-> "none"]

(* t goes on in the code of the one build that is running. *)
Goto(t, from, to) ==
  /\ pc[t] = from
  /\ pc' = [pc EXCEPT ![t] = to]
  /\ UNCHANGED FastPath

(* A local variable goes back to its initial value when its function is    *)
(* done with it.                                                           *)
StateDead(t) == state' = [state EXCEPT ![t] = TASK_UNINTERRUPTIBLE]
SeenDead(t)  == seen' = [seen EXCEPT ![t] = Null]
PrevDead(t)  == prev' = [prev EXCEPT ![t] = 0]

------------------------------------------------------------------------------
(* mutex_lock(), mutex_lock_interruptible(), mutex_lock_killable(): the    *)
(* fast path, and what it leaves in count when it fails.                   *)
FastCount == CASE FastPath = "dec"  -> count - 1
               [] FastPath = "xchg" -> 0
               [] FastPath = "null" -> count

(* mutex-null.h is the fast path of CONFIG_DEBUG_MUTEXES, which rules out  *)
(* CONFIG_MUTEX_SPIN_ON_OWNER; asm/mutex.h picks mutex-xchg.h only for ARM *)
(* before v6, which has no SMP and so does not spin either.                *)
Spins == SpinOnOwner /\ FastPath = "dec"

FastLockSucceeds == FastPath # "null" /\ count = 1

mutex_lock(t, st) ==
  /\ count' = FastCount
  /\ \/ /\ FastLockSucceeds
        /\ Goto(t, "idle", "set_owner")
        /\ UNCHANGED state
     \/ /\ ~FastLockSucceeds
        /\ Goto(t, "idle", IF Spins THEN "spin" ELSE "enqueue")
        /\ state' = [state EXCEPT ![t] = st]
  /\ UNCHANGED <<owner, wait_lock, wait_list, seen, prev, tstate, sig>>

(* mutex_set_owner(), after the lock was taken. *)
mutex_set_owner(t) ==
  /\ Goto(t, "set_owner", "held")
  /\ owner' = t
  /\ UNCHANGED <<count, wait_lock, wait_list, state, seen, prev, tstate, sig>>

------------------------------------------------------------------------------
(* __mutex_lock_common(): optimistic spinning. *)
SpinReadOwner(t) ==
  /\ Goto(t, "spin", IF owner = Null THEN "spin_try" ELSE "spin_on_owner")
  /\ seen' = [seen EXCEPT ![t] = owner]
  /\ UNCHANGED <<count, owner, wait_lock, wait_list, state, prev, tstate, sig>>

(* mutex_spin_on_owner() returns 1: the owner changed. *)
SpinOwnerChanged(t) ==
  /\ owner # seen[t]
  /\ Goto(t, "spin_on_owner", "spin_try")
  /\ UNCHANGED <<count, owner, wait_lock, wait_list, state, seen, prev, tstate, sig>>

(* It returns 0: the owner does not run, or the spinner has to reschedule. *)
SpinGivesUp(t) ==
  /\ Goto(t, "spin_on_owner", "enqueue")
  /\ SeenDead(t)
  /\ UNCHANGED <<count, owner, wait_lock, wait_list, state, prev, tstate, sig>>

(* The atomic_cmpxchg() of the spin loop.  When there was no owner, an RT  *)
(* task and one that has to reschedule stop spinning.                      *)
SpinTry(t) ==
  /\ \/ /\ count = 1
        /\ count' = 0
        /\ Goto(t, "spin_try", "set_owner")
        /\ StateDead(t)
     \/ /\ count # 1
        /\ UNCHANGED <<count, state>>
        /\ \/ Goto(t, "spin_try", "spin")
           \/ seen[t] = Null /\ Goto(t, "spin_try", "enqueue")
  /\ SeenDead(t)
  /\ UNCHANGED <<owner, wait_lock, wait_list, prev, tstate, sig>>

------------------------------------------------------------------------------
(* __mutex_lock_common(): the wait list. *)
Enqueue(t) ==
  /\ wait_lock = Null
  /\ Goto(t, "enqueue", "xchg_first")
  /\ wait_lock' = t
  /\ wait_list' = list_add_tail(wait_list, t)
  /\ UNCHANGED <<count, owner, state, seen, prev, tstate, sig>>

(* Variant with a bug: a waiter that was woken tries to take the mutex by  *)
(* a cmpxchg from 1 to 0, as the fast path does, and so hides the others.  *)
BuggyXchg(t) ==
  /\ Goto(t, "xchg", IF count = 1 THEN "got" ELSE "no_luck")
  /\ count' = IF count = 1 THEN 0 ELSE count
  /\ UNCHANGED <<owner, wait_lock, wait_list, state, seen, prev, tstate, sig>>

(* The two atomic_xchg(&lock->count, -1): before the loop and in it. *)
XchgFirst(t) ==
  /\ Goto(t, "xchg_first", IF count = 1 THEN "got" ELSE "xchg")
  /\ count' = -1
  /\ UNCHANGED <<owner, wait_lock, wait_list, state, seen, prev, tstate, sig>>

Xchg(t) ==
  /\ Goto(t, "xchg", IF count = 1 THEN "got" ELSE "no_luck")
  /\ count' = -1
  /\ UNCHANGED <<owner, wait_lock, wait_list, state, seen, prev, tstate, sig>>

(* Variant with a bug: -EINTR leaves the waiter on the list. *)
BuggyNoLuckListed(t) ==
  /\ \/ /\ signal_pending_state(state[t], sig[t])
        /\ Goto(t, "no_luck", "idle")
        /\ StateDead(t)
        /\ UNCHANGED tstate
     \/ /\ ~signal_pending_state(state[t], sig[t])
        /\ Goto(t, "no_luck", "schedule")
        /\ tstate' = [tstate EXCEPT ![t] = state[t]]
        /\ UNCHANGED state
  /\ wait_lock' = Null
  /\ UNCHANGED <<count, owner, wait_list, seen, prev, sig>>

(* Variant with a bug: a caller that got -EINTR unlocks all the same. *)
BuggyNoLuckUnlocks(t) ==
  /\ \/ /\ signal_pending_state(state[t], sig[t])
        /\ Goto(t, "no_luck", "unlock")
        /\ wait_list' = list_del(wait_list, t)
        /\ StateDead(t)
        /\ UNCHANGED tstate
     \/ /\ ~signal_pending_state(state[t], sig[t])
        /\ Goto(t, "no_luck", "schedule")
        /\ tstate' = [tstate EXCEPT ![t] = state[t]]
        /\ UNCHANGED <<wait_list, state>>
  /\ wait_lock' = Null
  /\ UNCHANGED <<count, owner, seen, prev, sig>>

(* Give up with -EINTR, or set the task state and drop wait_lock. *)
NoLuck(t) ==
  /\ \/ /\ signal_pending_state(state[t], sig[t])
        /\ Goto(t, "no_luck", "idle")
        /\ wait_list' = list_del(wait_list, t)
        /\ StateDead(t)
        /\ UNCHANGED tstate
     \/ /\ ~signal_pending_state(state[t], sig[t])
        /\ Goto(t, "no_luck", "schedule")
        /\ tstate' = [tstate EXCEPT ![t] = state[t]]
        /\ UNCHANGED <<wait_list, state>>
  /\ wait_lock' = Null
  /\ UNCHANGED <<count, owner, seen, prev, sig>>

(* schedule() returns. *)
Woken(t) ==
  /\ ScheduleReturns(tstate[t], sig[t])
  /\ Goto(t, "schedule", "relock")
  /\ tstate' = [tstate EXCEPT ![t] = TASK_RUNNING]
  /\ UNCHANGED <<count, owner, wait_lock, wait_list, state, seen, prev, sig>>

Relock(t) ==
  /\ wait_lock = Null
  /\ Goto(t, "relock", "xchg")
  /\ wait_lock' = t
  /\ UNCHANGED <<count, owner, wait_list, state, seen, prev, tstate, sig>>

(* done: leave the list and set the owner ... *)
Got(t) ==
  /\ Goto(t, "got", "settle")
  /\ wait_list' = list_del(wait_list, t)
  /\ owner' = t
  /\ StateDead(t)
  /\ UNCHANGED <<count, wait_lock, seen, prev, tstate, sig>>

(* ... and say in count whether waiters are left. *)
Settle(t) ==
  /\ Goto(t, "settle", "set_owner")
  /\ count' = IF wait_list = <<>> THEN 0 ELSE count
  /\ wait_lock' = Null
  /\ UNCHANGED <<owner, wait_list, state, seen, prev, tstate, sig>>

------------------------------------------------------------------------------
(* Variant with a bug: the owner stays behind after the unlock. *)
BuggyClearOwner(t) ==
  /\ FastPath # "null"
  /\ Goto(t, "held", "unlock")
  /\ UNCHANGED <<count, owner, wait_lock, wait_list, state, seen, prev, tstate, sig>>

(* mutex_unlock(): mutex_clear_owner(), unless CONFIG_DEBUG_MUTEXES leaves *)
(* that to the slow path, then the fast path.                              *)
mutex_clear_owner(t) ==
  /\ FastPath # "null"
  /\ Goto(t, "held", "unlock")
  /\ owner' = Null
  /\ UNCHANGED <<count, wait_lock, wait_list, state, seen, prev, tstate, sig>>

FastUnlock(t) ==
  /\ \/ /\ FastPath = "dec"
        /\ count' = count + 1
        /\ Goto(t, "unlock", IF count + 1 <= 0 THEN "unlock_slow" ELSE "idle")
     \/ /\ FastPath = "xchg"
        /\ count' = 1
        /\ Goto(t, "unlock", IF count # 0 THEN "unlock_slow" ELSE "idle")
     \/ /\ FastPath = "null"
        /\ UNCHANGED count
        /\ Goto(t, "held", "unlock_slow")
  /\ UNCHANGED <<owner, wait_lock, wait_list, state, seen, prev, tstate, sig>>

(* __mutex_slowpath_needs_to_unlock() *)
NeedsToUnlock == FastPath # "xchg"

(* __mutex_unlock_common_slowpath(): take wait_lock, clear the owner in    *)
(* debug_mutex_unlock() (when debugging, nobody reads owner or count       *)
(* without wait_lock), and free the mutex ...                              *)
UnlockSlow(t) ==
  /\ wait_lock = Null
  /\ Goto(t, "unlock_slow", "unlock_wake")
  /\ wait_lock' = t
  /\ owner' = IF FastPath = "null" THEN Null ELSE owner
  /\ count' = IF NeedsToUnlock THEN 1 ELSE count
  /\ UNCHANGED <<wait_list, state, seen, prev, tstate, sig>>

(* Variant with a bug: the first waiter is not woken. *)
BuggyUnlockWake(t) ==
  /\ Goto(t, "unlock_wake", "idle")
  /\ wait_lock' = Null
  /\ UNCHANGED <<count, owner, wait_list, state, seen, prev, tstate, sig>>

(* ... and wake the first waiter, which stays on the list. *)
UnlockWake(t) ==
  /\ Goto(t, "unlock_wake", "idle")
  /\ tstate' = IF wait_list # <<>> THEN wake_up_process(tstate, Head(wait_list))
                                   ELSE tstate
  /\ wait_lock' = Null
  /\ UNCHANGED <<count, owner, wait_list, state, seen, prev, sig>>

------------------------------------------------------------------------------
(* mutex_trylock(): mutex-dec.h uses one atomic_cmpxchg(). *)
TryDec(t) ==
  /\ FastPath = "dec"
  /\ count = 1
  /\ count' = 0
  /\ Goto(t, "idle", "set_owner")
  /\ UNCHANGED <<owner, wait_lock, wait_list, state, seen, prev, tstate, sig>>

(* mutex-xchg.h takes the count and puts a negative one back. *)
TryXchg(t) ==
  /\ FastPath = "xchg"
  /\ count' = 0
  /\ \/ /\ count < 0
        /\ Goto(t, "idle", "try_restore")
        /\ prev' = [prev EXCEPT ![t] = count]
     \/ /\ count = 1
        /\ Goto(t, "idle", "set_owner")
        /\ UNCHANGED prev
  /\ UNCHANGED <<owner, wait_lock, wait_list, state, seen, tstate, sig>>

(* Variant with a bug: any count that was not negative counts as success. *)
BuggyTryRestore(t) ==
  /\ Goto(t, "try_restore", IF count >= 0 THEN "set_owner" ELSE "idle")
  /\ count' = prev[t]
  /\ PrevDead(t)
  /\ UNCHANGED <<owner, wait_lock, wait_list, state, seen, tstate, sig>>

(* The second xchg; if the mutex was freed in between, the task has it. *)
TryRestore(t) ==
  /\ Goto(t, "try_restore", IF count = 1 THEN "set_owner" ELSE "idle")
  /\ count' = prev[t]
  /\ PrevDead(t)
  /\ UNCHANGED <<owner, wait_lock, wait_list, state, seen, tstate, sig>>

(* mutex-null.h calls __mutex_trylock_slowpath(). *)
TrySlow(t) ==
  /\ FastPath = "null"
  /\ wait_lock = Null
  /\ Goto(t, "idle", IF count = 1 THEN "try_owner" ELSE "try_settle")
  /\ wait_lock' = t
  /\ prev' = [prev EXCEPT ![t] = count]
  /\ count' = -1
  /\ UNCHANGED <<owner, wait_list, state, seen, tstate, sig>>

TryOwner(t) ==
  /\ Goto(t, "try_owner", "try_settle")
  /\ owner' = t
  /\ UNCHANGED <<count, wait_lock, wait_list, state, seen, prev, tstate, sig>>

TrySettle(t) ==
  /\ Goto(t, "try_settle", IF prev[t] = 1 THEN "set_owner" ELSE "idle")
  /\ count' = IF wait_list = <<>> THEN 0 ELSE count
  /\ wait_lock' = Null
  /\ PrevDead(t)
  /\ UNCHANGED <<owner, wait_list, state, seen, tstate, sig>>

------------------------------------------------------------------------------
(* Signals come at any time and are dealt with outside the mutex code. *)
SignalArrives(t, s) ==
  /\ sig[t] = "none"
  /\ sig' = [sig EXCEPT ![t] = s]
  /\ UNCHANGED <<FastPath, count, owner, wait_lock, wait_list, pc, state, seen, prev, tstate>>

SignalHandled(t) ==
  /\ pc[t] = "idle"
  /\ sig[t] # "none"
  /\ sig' = [sig EXCEPT ![t] = "none"]
  /\ UNCHANGED <<FastPath, count, owner, wait_lock, wait_list, pc, state, seen, prev, tstate>>

(* The steps a task takes once it has called one of the functions, but for *)
(* the ones that spin on wait_lock.                                        *)
Step(t) ==
  \/ mutex_set_owner(t) \/ SpinReadOwner(t) \/ SpinOwnerChanged(t) \/ SpinGivesUp(t)
  \/ SpinTry(t) \/ XchgFirst(t) \/ Xchg(t) \/ NoLuck(t) \/ Woken(t) \/ Got(t) \/ Settle(t)
  \/ mutex_clear_owner(t) \/ FastUnlock(t) \/ UnlockWake(t)
  \/ TryRestore(t) \/ TryOwner(t) \/ TrySettle(t)

SpinLockStep(t) == Enqueue(t) \/ Relock(t) \/ UnlockSlow(t)

Call(t) == TryDec(t) \/ TryXchg(t) \/ TrySlow(t) \/ \E st \in SleepState : mutex_lock(t, st)

Next ==
  \E t \in Tasks :
    \/ Step(t) \/ SpinLockStep(t) \/ Call(t)
    \/ SignalHandled(t)
    \/ \E s \in Signal \ {"none"} : SignalArrives(t, s)

Spec == Init /\ [][Next]_vars

(* Tasks that can run do run, the holder unlocks, and wait_lock is a       *)
(* ticket lock: whoever spins on it gets it.  Nobody has to call lock.     *)
Fairness == \A t \in Tasks : WF_vars(Step(t)) /\ SF_vars(SpinLockStep(t))

FairSpec == Spec /\ Fairness

------------------------------------------------------------------------------
(* From the atomic operation that took the mutex to the one that frees it. *)
Holds(t) ==
  \/ pc[t] \in {"got", "settle", "set_owner", "held", "unlock", "try_owner"}
  \/ pc[t] = "try_settle" /\ prev[t] = 1
  \/ pc[t] = "unlock_slow" /\ NeedsToUnlock

(* Between spin_lock_mutex() and spin_unlock_mutex(). *)
HasWaitLock(t) ==
  pc[t] \in {"xchg_first", "xchg", "no_luck", "got", "settle", "unlock_wake",
            "try_owner", "try_settle"}

(* On the wait list. *)
Queued(t) == pc[t] \in {"xchg_first", "xchg", "no_luck", "got", "schedule", "relock"}

Label == {"idle", "set_owner", "held", "spin", "spin_on_owner", "spin_try", "enqueue",
          "xchg_first", "xchg", "no_luck", "schedule", "relock", "got", "settle",
          "unlock", "unlock_slow", "unlock_wake", "try_restore", "try_owner", "try_settle"}

(* Every variable holds a value of its type, and count is what kernel      *)
(* comments call "1: unlocked, 0: locked, negative: locked, possible        *)
(* waiters": no unlock ever takes it past 1.                                *)
TypeOK ==
  /\ FastPath \in {"dec", "xchg", "null"}
  /\ count \in Int /\ count <= 1
  /\ owner \in Tasks \cup {Null}
  /\ wait_lock \in Tasks \cup {Null}
  /\ wait_list \in Seq(Tasks)
  /\ pc \in [Tasks -> Label]
  /\ state \in [Tasks -> SleepState]
  /\ seen \in [Tasks -> Tasks \cup {Null}]
  /\ prev \in [Tasks -> Int]
  /\ tstate \in [Tasks -> TaskState]
  /\ sig \in [Tasks -> Signal]

(* Two tasks never hold the mutex together, whether they got it from a     *)
(* fast path, by spinning, from the wait list or from a trylock.           *)
MutualExclusion == \A t, u \in Tasks : Holds(t) /\ Holds(u) => t = u

(* lock->owner is written without any lock, yet it only ever names the     *)
(* task that holds the mutex, so that a spinner spins on the holder; and   *)
(* it names the holder from lock to unlock, so that the warning of         *)
(* debug_mutex_unlock() about a foreign owner never fires.                 *)
OwnerIsHolder ==
  /\ owner # Null => Holds(owner)
  /\ \A t \in Tasks : pc[t] = "held" => owner = t

(* Somebody is about to look after the waiters: an unlocker on its way to  *)
(* wake one, a waiter that is awake and has not failed to get the mutex    *)
(* since, or a newcomer that will queue behind them or restore the count.  *)
WakeupUnderWay ==
  \E t \in Tasks :
    \/ pc[t] \in {"unlock_slow", "unlock_wake", "xchg_first", "xchg", "relock", "got"}
    \/ pc[t] = "schedule" /\ tstate[t] = TASK_RUNNING
    \/ FastPath = "xchg" /\ pc[t] \in {"enqueue", "try_restore"}

(* While there are waiters, either count is negative, so that mutex_unlock *)
(* takes the slow path and wakes the first of them, or a wakeup is already *)
(* under way: the fast paths never hide the waiters from the holder.       *)
NoLostWakeup == wait_list # <<>> => count < 0 \/ WakeupUnderWay

(* wait_lock, the list and the program agree: the list holds each queued   *)
(* task once, so no waiter on a dead stack frame is ever woken.            *)
ListIsWaiters ==
  /\ ListEntries(wait_list) = {t \in Tasks : Queued(t)}
  /\ ListOK(wait_list)

(* Waiters are not left behind on a free mutex: when somebody is queued,   *)
(* somebody gets the mutex in the end or signals drive all waiters away.   *)
SomeoneGetsIt ==
  (wait_list # <<>>) ~> (wait_list = <<>> \/ \E t \in Tasks : Holds(t))
==============================================================================
