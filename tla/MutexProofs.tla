----------------------------- MODULE MutexProofs -----------------------------
(***************************************************************************)
(* Mutual exclusion, the owner field, the wait list and the wakeups of the *)
(* mutex, for any number of tasks and for each of the fast paths.          *)
(*                                                                         *)
(* That at most one task holds the mutex follows from count alone: a task  *)
(* that takes the mutex changes count from 1 in one atomic access, and     *)
(* while somebody holds it no other access stores 1.  The owner field is   *)
(* right because it is cleared before the access that frees the mutex.  A  *)
(* wakeup is not lost because what hides the waiters, a count of 0 or 1,   *)
(* is always some task's to repair.                                        *)
(***************************************************************************)
EXTENDS Mutex, KListProofs, TLAPS

(* A mutex that is held never looks free. *)
HeldIsLocked == \A t \in Tasks : Holds(t) => count <= 0

(* What __mutex_trylock_slowpath() and the trylock of mutex-xchg.h know    *)
(* about the count they read.                                              *)
PrevOK ==
  \A t \in Tasks :
    /\ pc[t] = "try_restore" => prev[t] < 0
    /\ pc[t] = "try_owner" => prev[t] = 1

(* The owner is cleared before the mutex is freed. *)
OwnerCleared ==
  \A t \in Tasks :
    \/ pc[t] = "unlock"
    \/ pc[t] = "unlock_slow" /\ FastPath = "dec"
    => owner = Null

(* The task that is inside spin_lock_mutex() holds wait_lock. *)
LockIsHeld == \A t \in Tasks : HasWaitLock(t) => wait_lock = t

(* What makes up for a count that a fast path of mutex-xchg.h has set to   *)
(* 0: its caller is about to queue itself or to put the old value back.    *)
Restorer(t) == FastPath = "xchg" /\ pc[t] \in {"enqueue", "try_restore"}

(* A waiter that has taken the mutex finds count as it left it, at -1 or   *)
(* below, or a task that will make it negative again: nothing is lost when *)
(* it leaves the list.                                                     *)
GotIsSeen == \A t \in Tasks : pc[t] = "got" => count < 0 \/ \E u \in Tasks : Restorer(u)

(* t looks after the waiters: one disjunct of WakeupUnderWay. *)
Watches(t) ==
  \/ pc[t] \in {"unlock_slow", "unlock_wake", "xchg_first", "xchg", "relock", "got"}
  \/ pc[t] = "schedule" /\ tstate[t] = TASK_RUNNING
  \/ Restorer(t)

IInv ==
  /\ TypeOK
  /\ ListIsWaiters
  /\ MutualExclusion
  /\ HeldIsLocked
  /\ PrevOK
  /\ OwnerIsHolder
  /\ OwnerCleared
  /\ LockIsHeld
  /\ GotIsSeen
  /\ NoLostWakeup

(* The steps of one task, with the signals sent to it. *)
TaskStep(t) ==
  \/ Step(t) \/ SpinLockStep(t) \/ Call(t)
  \/ SignalHandled(t)
  \/ \E s \in Signal \ {"none"} : SignalArrives(t, s)

(* The steps of a task leave the build alone. *)
LEMMA BuildIsFixed ==
  ASSUME NEW t \in Tasks, TaskStep(t)
  PROVE  FastPath' = FastPath
<1> USE DEF Goto
<1>1. CASE Step(t)
  BY <1>1 DEF Step, mutex_set_owner, SpinReadOwner, SpinOwnerChanged, SpinGivesUp, SpinTry,
     XchgFirst, Xchg, NoLuck, Woken, Got, Settle, mutex_clear_owner, FastUnlock, UnlockWake,
     TryRestore, TryOwner, TrySettle
<1>2. CASE SpinLockStep(t)
  BY <1>2 DEF SpinLockStep, Enqueue, Relock, UnlockSlow
<1>3. CASE Call(t)
  BY <1>3 DEF Call, TryDec, TryXchg, TrySlow, mutex_lock
<1> QED
  BY <1>1, <1>2, <1>3 DEF TaskStep, SignalHandled, SignalArrives

(* mutex_init() establishes the invariant. *)
LEMMA InitInv == Init => IInv
<1> SUFFICES ASSUME Init PROVE IInv
  OBVIOUS
<1>1. TypeOK
  BY MutexAssumption DEF Init, TypeOK, Label, SleepState, TaskState, Signal, TASK_UNINTERRUPTIBLE,
     TASK_RUNNING
<1>2. ListIsWaiters
  BY DEF Init, ListIsWaiters, ListEntries, ListOK, Queued
<1>3. \A t \in Tasks : ~Holds(t)
  BY DEF Init, Holds
<1> QED
  BY <1>1, <1>2, <1>3 DEF Init, IInv, MutualExclusion, HeldIsLocked, PrevOK, OwnerIsHolder, OwnerCleared,
     LockIsHeld, HasWaitLock, GotIsSeen, NoLostWakeup

(* The list gains the task that enqueues itself and loses the one that is  *)
(* done with it; every other step leaves it and its tasks alone.           *)
LEMMA ListInv ==
  ASSUME IInv, NEW t \in Tasks, TaskStep(t)
  PROVE  wait_list' \in Seq(Tasks) /\ ListIsWaiters'
<1> DEFINE Q == {u \in Tasks : Queued(u)}
<1>0. /\ pc \in [Tasks -> Label]
      /\ wait_list \in Seq(Tasks)
      /\ ListEntries(wait_list) = Q
      /\ ListOK(wait_list)
  BY DEF IInv, TypeOK, ListIsWaiters
<1>1. CASE Enqueue(t)
  <2>1. t \notin Q /\ wait_list' = list_add_tail(wait_list, t)
    BY <1>1 DEF Enqueue, Goto, Queued
  <2>2. Q' = Q \cup {t}
    BY <1>0, <1>1 DEF Enqueue, Goto, Queued
  <2> HIDE DEF Q
  <2>3. /\ wait_list' \in Seq(Tasks)
        /\ ListEntries(wait_list') = Q \cup {t}
        /\ ListOK(wait_list')
    BY <1>0, <2>1, AddTailFacts, ZenonT(30)
  <2> QED
    BY <2>2, <2>3 DEF ListIsWaiters, Q
<1>2. ASSUME Queued(t), wait_list' = list_del(wait_list, t), Q' = Q \ {t}
      PROVE  wait_list' \in Seq(Tasks) /\ ListIsWaiters'
  <2>1. t \in Q
    BY <1>2
  <2> HIDE DEF Q
  <2>2. /\ wait_list' \in Seq(Tasks)
        /\ ListEntries(wait_list') = Q \ {t}
        /\ ListOK(wait_list')
    BY <1>0, <1>2, <2>1, DelFacts
  <2> QED
    BY <1>2, <2>2 DEF ListIsWaiters, Q
<1>3. CASE Got(t)
  <2>1. Queued(t) /\ wait_list' = list_del(wait_list, t) /\ Q' = Q \ {t}
    BY <1>0, <1>3 DEF Got, Goto, Queued
  <2> QED
    BY <1>2, <2>1
<1>4. ASSUME wait_list' = wait_list, Q' = Q
      PROVE  wait_list' \in Seq(Tasks) /\ ListIsWaiters'
  BY <1>0, <1>4 DEF ListIsWaiters
<1>5. CASE NoLuck(t)
  <2>1. CASE signal_pending_state(state[t], sig[t])
    <3>1. Queued(t) /\ wait_list' = list_del(wait_list, t) /\ Q' = Q \ {t}
      BY <1>0, <1>5, <2>1 DEF NoLuck, Goto, Queued
    <3> QED
      BY <1>2, <3>1
  <2>2. CASE ~signal_pending_state(state[t], sig[t])
    <3>1. wait_list' = wait_list /\ Q' = Q
      BY <1>0, <1>5, <2>2 DEF NoLuck, Goto, Queued
    <3> QED
      BY <1>4, <3>1
  <2> QED
    BY <2>1, <2>2
<1>6. CASE mutex_set_owner(t) \/ SpinReadOwner(t) \/ SpinOwnerChanged(t) \/ SpinGivesUp(t) \/ SpinTry(t)
  <2>1. wait_list' = wait_list /\ Q' = Q
    BY <1>0, <1>6 DEF mutex_set_owner, SpinReadOwner, SpinOwnerChanged, SpinGivesUp, SpinTry, Goto, Queued
  <2> QED
    BY <1>4, <2>1
<1>7. CASE XchgFirst(t) \/ Xchg(t) \/ Woken(t) \/ Settle(t) \/ mutex_clear_owner(t)
  <2>1. wait_list' = wait_list /\ Q' = Q
    BY <1>0, <1>7 DEF XchgFirst, Xchg, Woken, Settle, mutex_clear_owner, Goto, Queued
  <2> QED
    BY <1>4, <2>1
<1>8. CASE FastUnlock(t) \/ UnlockWake(t) \/ TryRestore(t) \/ TryOwner(t) \/ TrySettle(t)
  <2>1. wait_list' = wait_list /\ Q' = Q
    BY <1>0, <1>8 DEF FastUnlock, UnlockWake, TryRestore, TryOwner, TrySettle, Goto, Queued
  <2> QED
    BY <1>4, <2>1
<1>9. CASE Relock(t) \/ UnlockSlow(t) \/ TryDec(t) \/ TryXchg(t) \/ TrySlow(t)
  <2>1. wait_list' = wait_list /\ Q' = Q
    BY <1>0, <1>9 DEF Relock, UnlockSlow, TryDec, TryXchg, TrySlow, Goto, Queued
  <2> QED
    BY <1>4, <2>1
<1>10. CASE \/ \E st \in SleepState : mutex_lock(t, st)
          \/ SignalHandled(t) \/ \E s \in Signal \ {"none"} : SignalArrives(t, s)
  <2>1. wait_list' = wait_list /\ Q' = Q
    BY <1>0, <1>10 DEF mutex_lock, SignalHandled, SignalArrives, Goto, Queued
  <2> QED
    BY <1>4, <2>1
<1> QED
  BY <1>1, <1>3, <1>5, <1>6, <1>7, <1>8, <1>9, <1>10 DEF TaskStep, Step, SpinLockStep, Call

(* The variables keep their types; count does not go past 1 because it is  *)
(* at most 0 when the holder adds 1 to it.                                 *)
LEMMA TypeInv ==
  ASSUME IInv, NEW t \in Tasks, TaskStep(t)
  PROVE  TypeOK'
<1> USE DEF StateDead, SeenDead, PrevDead, Goto
<1>0. /\ TypeOK
      /\ wait_list' \in Seq(Tasks)
      /\ Holds(t) => count <= 0
      /\ pc[t] = "try_restore" => prev[t] < 0
      /\ TASK_UNINTERRUPTIBLE \in SleepState
      /\ TASK_RUNNING \in TaskState
      /\ SleepState \subseteq TaskState
  BY ListInv DEF IInv, HeldIsLocked, PrevOK, SleepState, TaskState
<1>1. CASE mutex_set_owner(t) \/ SpinReadOwner(t) \/ SpinOwnerChanged(t) \/ SpinGivesUp(t)
  BY <1>0, <1>1, ZenonT(30) DEF TypeOK, Label, mutex_set_owner, SpinReadOwner, SpinOwnerChanged, SpinGivesUp
<1>2. CASE SpinTry(t)
  <2>1. count' \in Int /\ count' <= 1
    BY <1>0, <1>2 DEF TypeOK, SpinTry
  <2>2. pc' \in [Tasks -> Label]
    BY <1>0, <1>2 DEF TypeOK, Label, SpinTry
  <2> QED
    BY <1>0, <1>2, <2>1, <2>2 DEF TypeOK, SpinTry
<1>3. CASE Enqueue(t) \/ Relock(t)
  BY <1>0, <1>3 DEF TypeOK, Label, Enqueue, Relock
<1>4. CASE XchgFirst(t) \/ Xchg(t)
  <2>1. count' \in Int /\ count' <= 1
    BY <1>0, <1>4 DEF TypeOK, XchgFirst, Xchg
  <2>2. pc' \in [Tasks -> Label]
    BY <1>0, <1>4 DEF TypeOK, Label, XchgFirst, Xchg
  <2> QED
    BY <1>0, <1>4, <2>1, <2>2 DEF TypeOK, XchgFirst, Xchg
<1>5. CASE NoLuck(t) \/ Woken(t)
  BY <1>0, <1>5, ZenonT(30) DEF TypeOK, Label, NoLuck, Woken
<1>6. CASE Got(t) \/ mutex_clear_owner(t) \/ TryOwner(t)
  BY <1>0, <1>6 DEF TypeOK, Label, Got, mutex_clear_owner, TryOwner
<1>7. CASE UnlockWake(t)
  <2>1. \/ tstate' = tstate
        \/ \E u \in Tasks : tstate' = [tstate EXCEPT ![u] = TASK_RUNNING]
    BY <1>0, <1>7, FirstFacts DEF UnlockWake, TypeOK, wake_up_process
  <2> QED
    BY <1>0, <1>7, <2>1 DEF UnlockWake, TypeOK, Label
<1>8. CASE Settle(t)
  <2>1. count' \in Int /\ count' <= 1
    BY <1>0, <1>8 DEF TypeOK, Settle
  <2>2. pc' \in [Tasks -> Label]
    BY <1>0, <1>8 DEF TypeOK, Label, Settle
  <2> QED
    BY <1>0, <1>8, <2>1, <2>2 DEF TypeOK, Settle
<1>9. CASE FastUnlock(t)
  <2>1. count' \in Int /\ count' <= 1
    BY <1>0, <1>9 DEF TypeOK, FastUnlock, Holds
  <2>2. pc' \in [Tasks -> Label]
    BY <1>0, <1>9 DEF TypeOK, Label, FastUnlock
  <2> QED
    BY <1>0, <1>9, <2>1, <2>2 DEF TypeOK, FastUnlock
<1>10. CASE UnlockSlow(t)
  BY <1>0, <1>10 DEF TypeOK, Label, UnlockSlow
<1>11. CASE TryDec(t)
  BY <1>0, <1>11 DEF TypeOK, Label, TryDec
<1>12. CASE TryXchg(t)
  <2>1. count' \in Int /\ count' <= 1 /\ prev' \in [Tasks -> Int]
    BY <1>0, <1>12 DEF TypeOK, TryXchg
  <2>2. pc' \in [Tasks -> Label]
    BY <1>0, <1>12 DEF TypeOK, Label, TryXchg
  <2> QED
    BY <1>0, <1>12, <2>1, <2>2 DEF TypeOK, TryXchg
<1>13. CASE TryRestore(t)
  <2>1. count' \in Int /\ count' <= 1 /\ prev' \in [Tasks -> Int]
    BY <1>0, <1>13 DEF TypeOK, TryRestore
  <2>2. pc' \in [Tasks -> Label]
    BY <1>0, <1>13 DEF TypeOK, Label, TryRestore
  <2> QED
    BY <1>0, <1>13, <2>1, <2>2 DEF TypeOK, TryRestore
<1>14. CASE TrySlow(t)
  <2>1. count' \in Int /\ count' <= 1 /\ prev' \in [Tasks -> Int]
    BY <1>0, <1>14 DEF TypeOK, TrySlow
  <2>2. pc' \in [Tasks -> Label]
    BY <1>0, <1>14 DEF TypeOK, Label, TrySlow
  <2> QED
    BY <1>0, <1>14, <2>1, <2>2 DEF TypeOK, TrySlow
<1>15. CASE TrySettle(t)
  <2>1. count' \in Int /\ count' <= 1 /\ prev' \in [Tasks -> Int]
    BY <1>0, <1>15 DEF TypeOK, TrySettle
  <2>2. pc' \in [Tasks -> Label]
    BY <1>0, <1>15 DEF TypeOK, Label, TrySettle
  <2> QED
    BY <1>0, <1>15, <2>1, <2>2 DEF TypeOK, TrySettle
<1>16. CASE \E st \in SleepState : mutex_lock(t, st)
  <2>1. count' \in Int /\ count' <= 1
    BY <1>0, <1>16 DEF TypeOK, mutex_lock, FastCount
  <2>2. pc' \in [Tasks -> Label]
    BY <1>0, <1>16 DEF TypeOK, Label, mutex_lock
  <2> QED
    BY <1>0, <1>16, <2>1, <2>2, ZenonT(30) DEF TypeOK, mutex_lock
<1>17. CASE SignalHandled(t) \/ \E s \in Signal \ {"none"} : SignalArrives(t, s)
  BY <1>0, <1>17 DEF TypeOK, SignalHandled, SignalArrives, Signal
<1> QED
  BY <1>1, <1>2, <1>3, <1>4, <1>5, <1>6, <1>7, <1>8, <1>9, <1>10, <1>11, <1>12, <1>13, <1>14, <1>15, <1>16, <1>17 DEF TaskStep, Step, SpinLockStep, Call

(* A task gets the mutex only by changing count from 1, which nobody       *)
(* stores but the holder that lets go.                                     *)
LEMMA HoldInv ==
  ASSUME IInv, NEW t \in Tasks, TaskStep(t)
  PROVE  MutualExclusion' /\ HeldIsLocked' /\ PrevOK'
<1> USE DEF StateDead, SeenDead, PrevDead, Goto, Holds, NeedsToUnlock, MutualExclusion, HeldIsLocked, PrevOK
<1>0. /\ TypeOK
      /\ MutualExclusion /\ HeldIsLocked /\ PrevOK
      /\ FastPath' = FastPath
  BY BuildIsFixed DEF IInv
<1>1. CASE mutex_set_owner(t)
  BY <1>0, <1>1 DEF TypeOK, mutex_set_owner
<1>2. CASE SpinReadOwner(t) \/ SpinOwnerChanged(t) \/ SpinGivesUp(t)
  BY <1>0, <1>2 DEF TypeOK, SpinReadOwner, SpinOwnerChanged, SpinGivesUp
<1>3. CASE SpinTry(t)
  <2>1. CASE count = 1
    BY <1>0, <1>3, <2>1 DEF TypeOK, SpinTry
  <2>2. CASE count # 1
    BY <1>0, <1>3, <2>2 DEF TypeOK, SpinTry
  <2> QED
    BY <2>1, <2>2
<1>4. CASE Enqueue(t) \/ Relock(t) \/ Woken(t)
  BY <1>0, <1>4 DEF TypeOK, Enqueue, Relock, Woken
<1>5. CASE XchgFirst(t)
  BY <1>0, <1>5 DEF TypeOK, XchgFirst
<1>6. CASE Xchg(t)
  BY <1>0, <1>6 DEF TypeOK, Xchg
<1>7. CASE NoLuck(t)
  BY <1>0, <1>7 DEF TypeOK, NoLuck
<1>8. CASE Got(t)
  BY <1>0, <1>8 DEF TypeOK, Got
<1>9. CASE Settle(t)
  BY <1>0, <1>9 DEF TypeOK, Settle
<1>10. CASE mutex_clear_owner(t)
  BY <1>0, <1>10 DEF TypeOK, mutex_clear_owner
<1>11. CASE FastUnlock(t)
  <2>1. CASE FastPath = "dec" /\ count + 1 <= 0
    <3>1. /\ count' = count + 1
          /\ pc[t] = "unlock"
          /\ pc' = [pc EXCEPT ![t] = "unlock_slow"]
          /\ prev' = prev
      BY <1>0, <1>11, <2>1 DEF TypeOK, FastUnlock
    <3>2. \A u \in Tasks : Holds(u)' => Holds(u)
      BY <1>0, <3>1 DEF TypeOK
    <3>3. MutualExclusion' /\ HeldIsLocked'
      BY <1>0, <2>1, <3>1, <3>2 DEF TypeOK
    <3>4. PrevOK'
      BY <1>0, <3>1 DEF TypeOK
    <3> QED
      BY <3>3, <3>4
  <2>2. CASE FastPath = "dec" /\ ~(count + 1 <= 0)
    BY <1>0, <1>11, <2>2, ZenonT(30) DEF TypeOK, FastUnlock
  <2>3. CASE FastPath = "xchg"
    BY <1>0, <1>11, <2>3, ZenonT(30) DEF TypeOK, FastUnlock
  <2>4. CASE FastPath = "null"
    BY <1>0, <1>11, <2>4 DEF TypeOK, FastUnlock
  <2> QED
    BY <1>11, <2>1, <2>2, <2>3, <2>4 DEF FastUnlock
<1>12. CASE UnlockSlow(t)
  BY <1>0, <1>12 DEF TypeOK, UnlockSlow
<1>13. CASE UnlockWake(t)
  BY <1>0, <1>13 DEF TypeOK, UnlockWake
<1>14. CASE TryDec(t)
  BY <1>0, <1>14 DEF TypeOK, TryDec
<1>15. CASE TryXchg(t)
  <2>1. CASE count < 0
    <3>1. /\ count' = 0
          /\ pc[t] = "idle"
          /\ pc' = [pc EXCEPT ![t] = "try_restore"]
          /\ prev' = [prev EXCEPT ![t] = count]
      BY <1>0, <1>15, <2>1 DEF TypeOK, TryXchg
    <3>2. \A u \in Tasks : Holds(u)' => Holds(u)
      BY <1>0, <3>1 DEF TypeOK
    <3>3. MutualExclusion' /\ HeldIsLocked'
      BY <1>0, <3>1, <3>2 DEF TypeOK
    <3>4. PrevOK'
      BY <1>0, <2>1, <3>1 DEF TypeOK
    <3> QED
      BY <3>3, <3>4
  <2>2. CASE count = 1
    BY <1>0, <1>15, <2>2 DEF TypeOK, TryXchg
  <2> QED
    BY <1>15, <2>1, <2>2 DEF TryXchg
<1>16. CASE TryRestore(t)
  BY <1>0, <1>16 DEF TypeOK, TryRestore
<1>17. CASE TrySlow(t)
  BY <1>0, <1>17 DEF TypeOK, TrySlow
<1>18. CASE TryOwner(t)
  BY <1>0, <1>18 DEF TypeOK, TryOwner
<1>19. CASE TrySettle(t)
  BY <1>0, <1>19 DEF TypeOK, TrySettle
<1>20. CASE \E st \in SleepState : mutex_lock(t, st)
  BY <1>0, <1>20 DEF TypeOK, mutex_lock, FastCount, FastLockSucceeds
<1>21. CASE SignalHandled(t) \/ \E s \in Signal \ {"none"} : SignalArrives(t, s)
  BY <1>0, <1>21 DEF SignalHandled, SignalArrives
<1> QED
  BY <1>1, <1>2, <1>3, <1>4, <1>5, <1>6, <1>7, <1>8, <1>9, <1>10, <1>11, <1>12, <1>13, <1>14, <1>15, <1>16, <1>17, <1>18, <1>19, <1>20, <1>21 DEF TaskStep, Step, SpinLockStep, Call

(* owner is stored by the holder only, and cleared before count says that  *)
(* the mutex is free.                                                      *)
LEMMA OwnerInv ==
  ASSUME IInv, NEW t \in Tasks, TaskStep(t)
  PROVE  OwnerIsHolder' /\ OwnerCleared'
<1> USE DEF StateDead, SeenDead, PrevDead, Goto, Holds, NeedsToUnlock, OwnerIsHolder, OwnerCleared
<1>0. /\ TypeOK /\ PrevOK
      /\ OwnerIsHolder /\ OwnerCleared
      /\ Null \notin Tasks
      /\ \A u, v \in Tasks : Holds(u) /\ Holds(v) => u = v
      /\ \A u \in Tasks : Holds(u) => count <= 0
      /\ FastPath' = FastPath
  BY BuildIsFixed, MutexAssumption DEF IInv, MutualExclusion, HeldIsLocked
<1>1. CASE mutex_set_owner(t)
  BY <1>0, <1>1 DEF TypeOK, mutex_set_owner
<1>2. CASE SpinReadOwner(t) \/ SpinOwnerChanged(t) \/ SpinGivesUp(t)
  BY <1>0, <1>2 DEF TypeOK, SpinReadOwner, SpinOwnerChanged, SpinGivesUp
<1>3. CASE SpinTry(t)
  BY <1>0, <1>3 DEF TypeOK, SpinTry
<1>4. CASE Enqueue(t) \/ Relock(t) \/ Woken(t)
  BY <1>0, <1>4 DEF TypeOK, Enqueue, Relock, Woken
<1>5. CASE XchgFirst(t)
  BY <1>0, <1>5 DEF TypeOK, XchgFirst
<1>6. CASE Xchg(t)
  BY <1>0, <1>6 DEF TypeOK, Xchg
<1>7. CASE NoLuck(t)
  BY <1>0, <1>7 DEF TypeOK, NoLuck
<1>8. CASE Got(t)
  BY <1>0, <1>8 DEF TypeOK, Got
<1>9. CASE Settle(t)
  BY <1>0, <1>9 DEF TypeOK, Settle
<1>10. CASE mutex_clear_owner(t)
  BY <1>0, <1>10 DEF TypeOK, mutex_clear_owner
<1>11. CASE FastUnlock(t)
  BY <1>0, <1>11 DEF TypeOK, FastUnlock
<1>12. CASE UnlockSlow(t)
  <2>1. CASE FastPath = "xchg"
    BY <1>0, <1>12, <2>1 DEF TypeOK, UnlockSlow
  <2>2. CASE FastPath # "xchg"
    <3>1. Holds(t) /\ owner' = Null
      BY <1>0, <1>12, <2>2 DEF TypeOK, UnlockSlow
    <3>2. pc' = [pc EXCEPT ![t] = "unlock_wake"]
      BY <1>12 DEF UnlockSlow
    <3> QED
      BY <1>0, <3>1, <3>2 DEF TypeOK
  <2> QED
    BY <2>1, <2>2
<1>13. CASE UnlockWake(t)
  BY <1>0, <1>13 DEF TypeOK, UnlockWake
<1>14. CASE TryDec(t)
  BY <1>0, <1>14 DEF TypeOK, TryDec
<1>15. CASE TryXchg(t)
  BY <1>0, <1>15 DEF TypeOK, TryXchg
<1>16. CASE TryRestore(t)
  BY <1>0, <1>16 DEF TypeOK, TryRestore
<1>17. CASE TrySlow(t)
  BY <1>0, <1>17 DEF TypeOK, TrySlow
<1>18. CASE TryOwner(t)
  BY <1>0, <1>18 DEF TypeOK, TryOwner, PrevOK
<1>19. CASE TrySettle(t)
  BY <1>0, <1>19 DEF TypeOK, TrySettle
<1>20. CASE \E st \in SleepState : mutex_lock(t, st)
  BY <1>0, <1>20 DEF TypeOK, mutex_lock
<1>21. CASE SignalHandled(t) \/ \E s \in Signal \ {"none"} : SignalArrives(t, s)
  BY <1>0, <1>21 DEF SignalHandled, SignalArrives
<1> QED
  BY <1>1, <1>2, <1>3, <1>4, <1>5, <1>6, <1>7, <1>8, <1>9, <1>10, <1>11, <1>12, <1>13, <1>14, <1>15, <1>16, <1>17, <1>18, <1>19, <1>20, <1>21 DEF TaskStep, Step, SpinLockStep, Call

(* wait_lock is taken before its critical section is entered, and dropped  *)
(* with the step that leaves it.                                           *)
LEMMA LockInv ==
  ASSUME IInv, NEW t \in Tasks, TaskStep(t)
  PROVE  LockIsHeld'
<1> USE DEF Goto, HasWaitLock, LockIsHeld
<1>0. TypeOK /\ LockIsHeld /\ Null \notin Tasks
  BY MutexAssumption DEF IInv
<1>1. CASE mutex_set_owner(t) \/ SpinReadOwner(t) \/ SpinOwnerChanged(t) \/ SpinGivesUp(t)
  BY <1>0, <1>1 DEF TypeOK, mutex_set_owner, SpinReadOwner, SpinOwnerChanged, SpinGivesUp
<1>2. CASE SpinTry(t)
  BY <1>0, <1>2 DEF TypeOK, SpinTry
<1>3. CASE Enqueue(t)
  BY <1>0, <1>3 DEF TypeOK, Enqueue
<1>4. CASE Relock(t)
  BY <1>0, <1>4 DEF TypeOK, Relock
<1>5. CASE Woken(t)
  BY <1>0, <1>5 DEF TypeOK, Woken
<1>6. CASE XchgFirst(t)
  BY <1>0, <1>6 DEF TypeOK, XchgFirst
<1>7. CASE Xchg(t)
  BY <1>0, <1>7 DEF TypeOK, Xchg
<1>8. CASE NoLuck(t)
  BY <1>0, <1>8 DEF TypeOK, NoLuck
<1>9. CASE Got(t)
  BY <1>0, <1>9 DEF TypeOK, Got
<1>10. CASE Settle(t)
  BY <1>0, <1>10 DEF TypeOK, Settle
<1>11. CASE mutex_clear_owner(t)
  BY <1>0, <1>11 DEF TypeOK, mutex_clear_owner
<1>12. CASE FastUnlock(t)
  BY <1>0, <1>12 DEF TypeOK, FastUnlock
<1>13. CASE UnlockSlow(t)
  BY <1>0, <1>13 DEF TypeOK, UnlockSlow
<1>14. CASE UnlockWake(t)
  BY <1>0, <1>14 DEF TypeOK, UnlockWake
<1>15. CASE TryDec(t)
  BY <1>0, <1>15 DEF TypeOK, TryDec
<1>16. CASE TryXchg(t)
  BY <1>0, <1>16 DEF TypeOK, TryXchg
<1>17. CASE TryRestore(t)
  BY <1>0, <1>17 DEF TypeOK, TryRestore
<1>18. CASE TrySlow(t)
  BY <1>0, <1>18 DEF TypeOK, TrySlow
<1>19. CASE TryOwner(t)
  BY <1>0, <1>19 DEF TypeOK, TryOwner
<1>20. CASE TrySettle(t)
  BY <1>0, <1>20 DEF TypeOK, TrySettle
<1>21. CASE \E st \in SleepState : mutex_lock(t, st)
  BY <1>0, <1>21 DEF TypeOK, mutex_lock, FastCount, FastLockSucceeds
<1>22. CASE SignalHandled(t) \/ \E s \in Signal \ {"none"} : SignalArrives(t, s)
  BY <1>0, <1>22 DEF TypeOK, SignalHandled, SignalArrives
<1> QED
  BY <1>1, <1>2, <1>3, <1>4, <1>5, <1>6, <1>7, <1>8, <1>9, <1>10, <1>11, <1>12, <1>13, <1>14, <1>15, <1>16, <1>17, <1>18, <1>19, <1>20, <1>21, <1>22
     DEF TaskStep, Step, SpinLockStep, Call

(* While a task has the mutex and has not left the list yet, it holds      *)
(* wait_lock, and only the fast paths of the others can change count.      *)
LEMMA GotInv ==
  ASSUME IInv, NEW t \in Tasks, TaskStep(t)
  PROVE  GotIsSeen'
<1> USE DEF Goto, HasWaitLock, LockIsHeld, GotIsSeen, Restorer
<1>0. /\ TypeOK /\ LockIsHeld /\ GotIsSeen /\ Null \notin Tasks
      /\ FastPath' = FastPath
      /\ pc[t] = "try_restore" => prev[t] < 0
      /\ \A u \in Tasks : pc[u] = "got" => count <= 0
      /\ \A u \in Tasks : pc[u] = "got" /\ u # t => ~Holds(t)
  BY BuildIsFixed, MutexAssumption DEF IInv, PrevOK, HeldIsLocked, MutualExclusion, Holds
<1>1. CASE mutex_set_owner(t) \/ SpinReadOwner(t) \/ SpinOwnerChanged(t) \/ SpinGivesUp(t)
  BY <1>0, <1>1 DEF TypeOK, mutex_set_owner, SpinReadOwner, SpinOwnerChanged, SpinGivesUp
<1>2. CASE SpinTry(t)
  <2>1. CASE count = 1
    <3>1. \A u \in Tasks : pc[u] # "got"
      BY <1>0, <2>1
    <3> QED
      BY <1>0, <1>2, <2>1, <3>1 DEF TypeOK, SpinTry
  <2>2. CASE count # 1
    <3>1. /\ pc[t] = "spin_try" /\ count' = count
          /\ pc' = [pc EXCEPT ![t] = "spin"] \/ pc' = [pc EXCEPT ![t] = "enqueue"]
      BY <1>2, <2>2 DEF SpinTry
    <3> QED
      BY <1>0, <3>1 DEF TypeOK
  <2> QED
    BY <2>1, <2>2
<1>3. CASE Enqueue(t)
  BY <1>0, <1>3 DEF TypeOK, Enqueue
<1>4. CASE Relock(t)
  BY <1>0, <1>4 DEF TypeOK, Relock
<1>5. CASE Woken(t)
  BY <1>0, <1>5 DEF TypeOK, Woken
<1>6. CASE XchgFirst(t)
  BY <1>0, <1>6 DEF TypeOK, XchgFirst
<1>7. CASE Xchg(t)
  BY <1>0, <1>7 DEF TypeOK, Xchg
<1>8. CASE NoLuck(t)
  BY <1>0, <1>8 DEF TypeOK, NoLuck
<1>9. CASE Got(t)
  BY <1>0, <1>9 DEF TypeOK, Got
<1>10. CASE Settle(t)
  BY <1>0, <1>10 DEF TypeOK, Settle
<1>11. CASE mutex_clear_owner(t)
  BY <1>0, <1>11 DEF TypeOK, mutex_clear_owner
<1>12. CASE FastUnlock(t)
  BY <1>0, <1>12 DEF TypeOK, FastUnlock, Holds
<1>13. CASE UnlockSlow(t)
  BY <1>0, <1>13 DEF TypeOK, UnlockSlow
<1>14. CASE UnlockWake(t)
  BY <1>0, <1>14 DEF TypeOK, UnlockWake
<1>15. CASE TryDec(t)
  BY <1>0, <1>15 DEF TypeOK, TryDec
<1>16. CASE TryXchg(t)
  BY <1>0, <1>16 DEF TypeOK, TryXchg
<1>17. CASE TryRestore(t)
  BY <1>0, <1>17 DEF TypeOK, TryRestore
<1>18. CASE TrySlow(t)
  BY <1>0, <1>18 DEF TypeOK, TrySlow
<1>19. CASE TryOwner(t)
  BY <1>0, <1>19 DEF TypeOK, TryOwner
<1>20. CASE TrySettle(t)
  BY <1>0, <1>20 DEF TypeOK, TrySettle
<1>21. CASE \E st \in SleepState : mutex_lock(t, st)
  <2>1. PICK st \in SleepState : mutex_lock(t, st)
    BY <1>21
  <2> SUFFICES ASSUME NEW u \in Tasks, pc'[u] = "got"
               PROVE  count' < 0 \/ \E v \in Tasks : Restorer(v)'
    OBVIOUS
  <2>2. pc[u] = "got" /\ u # t
    BY <1>0, <2>1 DEF TypeOK, mutex_lock
  <2>3. count \in Int /\ count <= 0
    BY <1>0, <2>2 DEF TypeOK
  <2>4. CASE FastPath = "dec"
    BY <2>1, <2>3, <2>4 DEF mutex_lock, FastCount
  <2>5. CASE FastPath = "xchg"
    <3>1. pc'[t] = "enqueue"
      BY <1>0, <2>1, <2>3, <2>5 DEF TypeOK, mutex_lock, FastLockSucceeds, Spins
    <3> QED
      BY <1>0, <2>5, <3>1
  <2>6. CASE FastPath = "null"
    <3>1. count' = count
      BY <2>1, <2>6 DEF mutex_lock, FastCount
    <3> QED
      BY <1>0, <2>2, <2>6, <3>1
  <2> QED
    BY <1>0, <2>4, <2>5, <2>6 DEF TypeOK
<1>22. CASE SignalHandled(t) \/ \E s \in Signal \ {"none"} : SignalArrives(t, s)
  BY <1>0, <1>22 DEF TypeOK, SignalHandled, SignalArrives
<1> QED
  BY <1>1, <1>2, <1>3, <1>4, <1>5, <1>6, <1>7, <1>8, <1>9, <1>10, <1>11, <1>12, <1>13, <1>14, <1>15, <1>16, <1>17, <1>18, <1>19, <1>20, <1>21, <1>22
     DEF TaskStep, Step, SpinLockStep, Call

(* While tasks wait, a step that makes count 0 or 1, or ends a wakeup,     *)
(* leaves another one under way.  The step that could go wrong is the      *)
(* wakeup itself: it finds the first waiter asleep or on its way to        *)
(* wait_lock, because the others are kept out of the critical section.     *)
LEMMA WakeupInv ==
  ASSUME IInv, NEW t \in Tasks, TaskStep(t)
  PROVE  NoLostWakeup'
<1> USE DEF Goto, Restorer
<1>0. /\ TypeOK /\ FastPath' = FastPath
      /\ Holds(t) => count <= 0
      /\ pc[t] = "try_restore" => prev[t] < 0
      /\ pc[t] = "got" => count < 0 \/ \E u \in Tasks : Restorer(u)
      /\ wait_list # <<>> => count < 0 \/ \E u \in Tasks : Watches(u)
  BY BuildIsFixed DEF IInv, PrevOK, HeldIsLocked, GotIsSeen, NoLostWakeup, WakeupUnderWay, Watches
<1>a. SUFFICES ASSUME wait_list' # <<>>, ~(count' < 0)
               PROVE  \E u \in Tasks : Watches(u)'
  BY DEF NoLostWakeup, WakeupUnderWay, Watches
<1> USE <1>a
<1>1. CASE mutex_set_owner(t) \/ SpinReadOwner(t) \/ SpinOwnerChanged(t) \/ SpinGivesUp(t)
  BY <1>0, <1>1 DEF TypeOK, Watches, Holds, mutex_set_owner, SpinReadOwner, SpinOwnerChanged, SpinGivesUp
<1>2. CASE SpinTry(t)
  BY <1>0, <1>2 DEF TypeOK, Watches, Holds, SpinTry
<1>3. CASE Enqueue(t)
  BY <1>0, <1>3 DEF TypeOK, Watches, Holds, Enqueue
<1>4. CASE Relock(t)
  BY <1>0, <1>4 DEF TypeOK, Watches, Holds, Relock
<1>5. CASE Woken(t)
  BY <1>0, <1>5 DEF TypeOK, Watches, Holds, Woken
<1>6. CASE XchgFirst(t)
  BY <1>0, <1>6 DEF TypeOK, Watches, Holds, XchgFirst
<1>7. CASE Xchg(t)
  BY <1>0, <1>7 DEF TypeOK, Watches, Holds, Xchg
<1>8. CASE NoLuck(t)
  <2>1. pc[t] = "no_luck" /\ count' = count /\ wait_list # <<>>
    <3>1. pc[t] = "no_luck" /\ count' = count
      BY <1>8 DEF NoLuck
    <3>2. t \in ListEntries(wait_list)
      BY <3>1 DEF IInv, ListIsWaiters, Queued
    <3> QED
      BY <3>1, <3>2 DEF ListEntries
  <2>2. PICK u \in Tasks : Watches(u)
    BY <1>0, <2>1
  <2>3. u # t
    BY <2>1, <2>2 DEF Watches
  <2>4. pc'[u] = pc[u] /\ tstate'[u] = tstate[u]
    BY <1>0, <1>8, <2>3 DEF TypeOK, NoLuck
  <2> QED
    BY <1>0, <2>2, <2>4 DEF Watches
<1>9. CASE Got(t)
  BY <1>0, <1>9 DEF TypeOK, Got, Watches
<1>10. CASE Settle(t)
  BY <1>0, <1>10 DEF TypeOK, Watches, Holds, Settle
<1>11. CASE mutex_clear_owner(t)
  BY <1>0, <1>11 DEF TypeOK, Watches, Holds, mutex_clear_owner
<1>12. CASE FastUnlock(t)
  BY <1>0, <1>12 DEF TypeOK, Watches, Holds, FastUnlock
<1>13. CASE UnlockSlow(t)
  BY <1>0, <1>13 DEF TypeOK, Watches, Holds, UnlockSlow
<1>14. CASE UnlockWake(t)
  <2>1. /\ wait_list \in Seq(Tasks) /\ wait_list # <<>> /\ pc[t] = "unlock_wake"
        /\ pc' = [pc EXCEPT ![t] = "idle"]
        /\ tstate' = [tstate EXCEPT ![Head(wait_list)] = TASK_RUNNING]
    BY <1>0, <1>14 DEF TypeOK, UnlockWake, wake_up_process
  <2>2. PICK h \in Tasks : h = Head(wait_list) /\ h \in ListEntries(wait_list)
    BY <2>1, FirstFacts DEF TypeOK
  <2>3. Queued(h)
    BY <2>2 DEF IInv, ListIsWaiters
  <2>4. h # t
    BY <2>1, <2>3 DEF Queued
  <2>5. pc[h] \in {"schedule", "relock"}
    BY <2>1, <2>3, <2>4 DEF Queued, IInv, LockIsHeld, HasWaitLock
  <2>6. pc'[h] = pc[h] /\ tstate'[h] = TASK_RUNNING
    BY <1>0, <2>1, <2>2, <2>4 DEF TypeOK
  <2> QED
    BY <2>5, <2>6 DEF Watches
<1>15. CASE TryDec(t)
  BY <1>0, <1>15 DEF TypeOK, Watches, Holds, TryDec
<1>16. CASE TryXchg(t)
  BY <1>0, <1>16 DEF TypeOK, Watches, Holds, TryXchg
<1>17. CASE TryRestore(t)
  BY <1>0, <1>17 DEF TypeOK, Watches, Holds, TryRestore
<1>18. CASE TrySlow(t)
  BY <1>0, <1>18 DEF TypeOK, Watches, Holds, TrySlow
<1>19. CASE TryOwner(t)
  BY <1>0, <1>19 DEF TypeOK, Watches, Holds, TryOwner
<1>20. CASE TrySettle(t)
  BY <1>0, <1>20 DEF TypeOK, Watches, Holds, TrySettle
<1>21. CASE \E st \in SleepState : mutex_lock(t, st)
  <2>1. PICK st \in SleepState : mutex_lock(t, st)
    BY <1>21
  <2>2. pc[t] = "idle" /\ wait_list' = wait_list /\ tstate' = tstate
    BY <2>1 DEF mutex_lock
  <2>3. \A u \in Tasks : u # t => pc'[u] = pc[u]
    BY <1>0, <2>1 DEF TypeOK, mutex_lock
  <2>4. CASE count < 0
    <3>1. FastPath = "xchg"
      BY <1>0, <2>1, <2>4 DEF TypeOK, mutex_lock, FastCount
    <3>2. pc'[t] = "enqueue"
      BY <1>0, <2>1, <2>4, <3>1 DEF TypeOK, mutex_lock, FastLockSucceeds, Spins
    <3> QED
      BY <1>0, <3>1, <3>2 DEF Watches
  <2>5. CASE ~(count < 0)
    <3>1. PICK u \in Tasks : Watches(u)
      BY <1>0, <2>2, <2>5
    <3>2. u # t
      BY <2>2, <3>1 DEF Watches
    <3> QED
      BY <1>0, <2>2, <2>3, <3>1, <3>2 DEF Watches
  <2> QED
    BY <2>4, <2>5
<1>22. CASE SignalHandled(t) \/ \E s \in Signal \ {"none"} : SignalArrives(t, s)
  BY <1>0, <1>22 DEF TypeOK, Watches, Holds, SignalHandled, SignalArrives
<1> QED
  BY <1>1, <1>2, <1>3, <1>4, <1>5, <1>6, <1>7, <1>8, <1>9, <1>10, <1>11, <1>12, <1>13, <1>14, <1>15, <1>16, <1>17, <1>18, <1>19, <1>20, <1>21, <1>22
     DEF TaskStep, Step, SpinLockStep, Call

(* Every step keeps the invariant. *)
LEMMA NextInv == IInv /\ [Next]_vars => IInv'
<1> SUFFICES ASSUME IInv, [Next]_vars PROVE IInv'
  OBVIOUS
<1>1. CASE Next
  <2>1. PICK t \in Tasks : TaskStep(t)
    BY <1>1 DEF Next, TaskStep
  <2> QED
    BY <2>1, ListInv, TypeInv, HoldInv, OwnerInv, LockInv, GotInv, WakeupInv DEF IInv
<1>2. CASE UNCHANGED vars
  BY <1>2 DEF vars, IInv, TypeOK, ListIsWaiters, MutualExclusion, HeldIsLocked, PrevOK,
     OwnerIsHolder, OwnerCleared, Holds, Queued, NeedsToUnlock, LockIsHeld, HasWaitLock,
     GotIsSeen, Restorer, NoLostWakeup, WakeupUnderWay
<1> QED
  BY <1>1, <1>2

(* The invariant holds throughout, for any number of tasks and each of the *)
(* fast paths.                                                             *)
THEOREM InvariantHolds == Spec => []IInv
BY InitInv, NextInv, PTL DEF Spec

(* Every variable keeps its type, and count stays at most 1. *)
THEOREM TypeCorrect == Spec => []TypeOK
<1>1. IInv => TypeOK
  BY DEF IInv
<1> QED
  BY <1>1, InvariantHolds, PTL

(* mutex_lock() and its relatives let one task in at a time. *)
THEOREM MutexExcludes == Spec => []MutualExclusion
<1>1. IInv => MutualExclusion
  BY DEF IInv
<1> QED
  BY <1>1, InvariantHolds, PTL

(* lock->owner is the holder or NULL, and it is the holder from the end of *)
(* the lock function to the start of mutex_unlock().                       *)
THEOREM OwnerHolds == Spec => []OwnerIsHolder
<1>1. IInv => OwnerIsHolder
  BY DEF IInv
<1> QED
  BY <1>1, InvariantHolds, PTL

(* The wait list holds exactly the tasks whose waiter is live. *)
THEOREM ListIsExact == Spec => []ListIsWaiters
<1>1. IInv => ListIsWaiters
  BY DEF IInv
<1> QED
  BY <1>1, InvariantHolds, PTL

(* The fast paths never hide the waiters: while the list is not empty,     *)
(* count is negative, so that mutex_unlock() takes the slow path, or a     *)
(* wakeup is under way already.                                            *)
THEOREM NoWakeupIsLost == Spec => []NoLostWakeup
<1>1. IInv => NoLostWakeup
  BY DEF IInv
<1> QED
  BY <1>1, InvariantHolds, PTL
==============================================================================
