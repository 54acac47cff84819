--------------------------- MODULE SemaphoreProofs ---------------------------
(***************************************************************************)
(* The safety properties of the semaphore hold for any number of tasks,    *)
(* any initial count and any timeouts.  They are inductive together: the   *)
(* list tells up() whom to hand the unit to, so the units add up only      *)
(* because the list holds no task that already has one, and a fast down()  *)
(* is safe only because count is 0 while the list is not empty.            *)
(***************************************************************************)
EXTENDS Semaphore, KListProofs, FiniteSetTheorems, TLAPS

IInv ==
  /\ TypeOK
  /\ UnitsConserved
  /\ NoOvertaking
  /\ ListIsWaiters
  /\ GrantedIsAwake

(* The tasks that were handed a unit are finitely many, so they can be     *)
(* counted one by one.                                                     *)
LEMMA GrantedFinite == IsFiniteSet(Granted) /\ Cardinality(Granted) \in Nat
<1>1. Granted \in SUBSET Tasks
  BY DEF Granted
<1>2. IsFiniteSet(Granted)
  BY <1>1, FS_Subset, SemaphoreAssumption
<1> QED
  BY <1>2, FS_CardinalityType

(* sema_init() establishes the invariant. *)
LEMMA InitInv == Init => IInv
<1> SUFFICES ASSUME Init PROVE IInv
  OBVIOUS
<1>1. TypeOK
  BY SemaphoreAssumption DEF Init, TypeOK, MAX_SCHEDULE_TIMEOUT, SleepState, TaskState, Signal,
     TASK_UNINTERRUPTIBLE, TASK_RUNNING
<1>2. Granted = {} /\ Waiting = {}
  BY DEF Init, Granted, Waiting
<1>3. UnitsConserved
  BY <1>2, FS_EmptySet, SemaphoreAssumption DEF Init, UnitsConserved
<1>4. ListIsWaiters
  BY <1>2 DEF Init, ListIsWaiters, ListEntries, ListOK
<1> QED
  BY <1>1, <1>2, <1>3, <1>4 DEF Init, IInv, NoOvertaking, GrantedIsAwake

(* A pass of the loop of __down_common() by a task that is on the list it  *)
(* is given (its own waiter added) keeps the list exact.                   *)
LEMMA WaitOrGiveUpList ==
  ASSUME NEW t \in Tasks, NEW list \in Seq(Tasks), NEW st, NEW to,
         ListOK(list), t \in ListEntries(list),
         WaitOrGiveUp(t, list, st, to)
  PROVE  /\ wait_list' \in Seq(Tasks)
         /\ ListOK(wait_list')
         /\ up' = [up EXCEPT ![t] = FALSE]
         /\ \/ /\ pc' = [pc EXCEPT ![t] = "idle"]
               /\ tstate' = tstate
               /\ ListEntries(wait_list') = ListEntries(list) \ {t}
            \/ /\ pc' = [pc EXCEPT ![t] = "schedule"]
               /\ tstate' = [tstate EXCEPT ![t] = st]
               /\ ListEntries(wait_list') = ListEntries(list)
         /\ st \in SleepState /\ to \in 0 .. MAX_SCHEDULE_TIMEOUT =>
              /\ \E s \in SleepState : state' = [state EXCEPT ![t] = s]
              /\ \E left \in 0 .. MAX_SCHEDULE_TIMEOUT : timeout' = [timeout EXCEPT ![t] = left]
<1>1. /\ list_del(list, t) \in Seq(Tasks)
      /\ ListEntries(list_del(list, t)) = ListEntries(list) \ {t}
      /\ ListOK(list_del(list, t))
  BY DelFacts
<1>2. TASK_UNINTERRUPTIBLE \in SleepState /\ MAX_SCHEDULE_TIMEOUT \in 0 .. MAX_SCHEDULE_TIMEOUT
  BY SemaphoreAssumption DEF SleepState, MAX_SCHEDULE_TIMEOUT
<1> QED
  BY <1>1, <1>2 DEF WaitOrGiveUp, Return, Sleep

(* Taking a unit from count: down*() and down_trylock() that succeed. *)
LEMMA TakeInv ==
  ASSUME IInv, count > 0, count' = count - 1, owed' = owed + 1,
         UNCHANGED <<wait_list, up, pc, state, timeout, tstate, sig>>
  PROVE  IInv'
<1> USE DEF IInv
<1>1. TypeOK'
  BY DEF TypeOK
<1>2. Granted' = Granted /\ Waiting' = Waiting
  BY DEF Granted, Waiting
<1>3. UnitsConserved'
  BY <1>2, GrantedFinite, SemaphoreAssumption DEF UnitsConserved, TypeOK
<1>4. NoOvertaking'
  BY DEF NoOvertaking, TypeOK
<1>5. ListIsWaiters' /\ GrantedIsAwake'
  BY <1>2 DEF ListIsWaiters, GrantedIsAwake
<1> QED
  BY <1>1, <1>3, <1>4, <1>5

(* A down*() that finds no unit queues, or gives up at once. *)
LEMMA DownSlowInv ==
  ASSUME IInv, NEW t \in Tasks, NEW call \in DownCall, DownSlow(t, call)
  PROVE  IInv'
<1> USE DEF IInv
<1> DEFINE list == list_add_tail(wait_list, t)
<1>0. t \notin Waiting /\ t \notin Granted /\ pc[t] = "idle"
  BY DEF DownSlow, Waiting, Granted
<1>1. /\ list \in Seq(Tasks)
      /\ ListOK(list)
      /\ ListEntries(list) = Waiting \cup {t}
  BY <1>0, AddTailFacts, ZenonT(30) DEF ListIsWaiters, TypeOK
<1>2. call[1] \in SleepState /\ call[2] \in 0 .. MAX_SCHEDULE_TIMEOUT
  BY SemaphoreAssumption DEF DownCall, SleepState, MAX_SCHEDULE_TIMEOUT, TASK_UNINTERRUPTIBLE,
     TASK_INTERRUPTIBLE, TASK_KILLABLE
<1>3. /\ wait_list' \in Seq(Tasks)
      /\ ListOK(wait_list')
      /\ \/ /\ pc' = [pc EXCEPT ![t] = "idle"]
            /\ tstate' = tstate
            /\ ListEntries(wait_list') = ListEntries(list) \ {t}
         \/ /\ pc' = [pc EXCEPT ![t] = "schedule"]
            /\ tstate' = [tstate EXCEPT ![t] = call[1]]
            /\ ListEntries(wait_list') = ListEntries(list)
      /\ up' = [up EXCEPT ![t] = FALSE]
      /\ \E s \in SleepState : state' = [state EXCEPT ![t] = s]
      /\ \E left \in 0 .. MAX_SCHEDULE_TIMEOUT : timeout' = [timeout EXCEPT ![t] = left]
  <2>1. WaitOrGiveUp(t, list, call[1], call[2])
    BY DEF DownSlow
  <2>2. t \in ListEntries(list)
    BY <1>1
  <2> QED
    BY <1>1, <1>2, <2>1, <2>2, WaitOrGiveUpList
<1> HIDE DEF list
<1>4. count' = count /\ sig' = sig /\ owed' = owed /\ ~(count > 0)
  BY DEF DownSlow
<1>5. TypeOK'
  <2>1. tstate' \in [Tasks -> TaskState]
    BY <1>2, <1>3 DEF TypeOK, TaskState
  <2>2. pc' \in [Tasks -> {"idle", "schedule", "relock"}]
    BY <1>3 DEF TypeOK
  <2> HIDE DEF IInv
  <2>3. TypeOK
    BY DEF IInv
  <2> QED
    BY <1>3, <1>4, <2>1, <2>2, <2>3 DEF TypeOK
<1>6. Granted' = Granted
  BY <1>0, <1>3, <1>4 DEF Granted, TypeOK
<1>7. UnitsConserved'
  BY <1>4, <1>6 DEF UnitsConserved
<1>8. NoOvertaking'
  BY <1>4 DEF NoOvertaking, TypeOK
<1>9. ListIsWaiters'
  <2>1. CASE pc' = [pc EXCEPT ![t] = "idle"]
    <3>1. Waiting' = Waiting
      BY <1>0, <1>3, <1>4, <2>1 DEF Waiting, TypeOK
    <3>2. pc'[t] = "idle"
      BY <2>1 DEF TypeOK
    <3>3. ListEntries(wait_list') = ListEntries(list) \ {t}
      BY <1>3, <3>2 DEF TypeOK
    <3>4. ListEntries(wait_list') = Waiting
      BY <1>0, <1>1, <3>3
    <3> QED
      BY <1>3, <3>1, <3>4 DEF ListIsWaiters
  <2>2. CASE pc' = [pc EXCEPT ![t] = "schedule"]
    <3>1. Waiting' = Waiting \cup {t}
      BY <1>3, <1>4, <2>2 DEF Waiting, TypeOK
    <3>2. pc'[t] = "schedule"
      BY <2>2 DEF TypeOK
    <3>3. ListEntries(wait_list') = Waiting \cup {t}
      BY <1>1, <1>3, <3>2 DEF TypeOK
    <3> QED
      BY <1>3, <3>1, <3>3 DEF ListIsWaiters
  <2> QED
    BY <1>3, <2>1, <2>2
<1>10. GrantedIsAwake'
  BY <1>0, <1>3, <1>6 DEF GrantedIsAwake, Granted, TypeOK
<1> QED
  BY <1>5, <1>7, <1>8, <1>9, <1>10

(* The timer and the scheduler change no more than a timeout, a task state *)
(* and where in the loop the task is.                                      *)
LEMMA SleepInv ==
  ASSUME IInv, NEW t \in Tasks,
         \/ TimerExpires(t) \/ SpuriousWakeup(t)
         \/ \E left \in 0 .. MAX_SCHEDULE_TIMEOUT : ScheduleTimeoutReturns(t, left)
  PROVE  IInv'
<1> USE DEF IInv
<1>1. /\ UNCHANGED <<count, wait_list, up, state, sig, owed>>
      /\ tstate' = [tstate EXCEPT ![t] = TASK_RUNNING]
      /\ pc[t] = "schedule"
      /\ pc' = pc \/ pc' = [pc EXCEPT ![t] = "relock"]
      /\ \E left \in 0 .. MAX_SCHEDULE_TIMEOUT : timeout' = [timeout EXCEPT ![t] = left]
  <2>1. CASE TimerExpires(t) \/ \E left \in 0 .. MAX_SCHEDULE_TIMEOUT : ScheduleTimeoutReturns(t, left)
    BY <2>1, SemaphoreAssumption DEF TimerExpires, ScheduleTimeoutReturns, wake_up_process,
       MAX_SCHEDULE_TIMEOUT
  <2>2. CASE SpuriousWakeup(t)
    <3>1. timeout[t] \in 0 .. MAX_SCHEDULE_TIMEOUT /\ timeout' = [timeout EXCEPT ![t] = timeout[t]]
      BY <2>2 DEF SpuriousWakeup, TypeOK
    <3> QED
      BY <2>2, <3>1 DEF SpuriousWakeup, wake_up_process
  <2> QED
    BY <2>1, <2>2
<1>2. TypeOK'
  BY <1>1 DEF TypeOK, TaskState
<1>3. Granted' = Granted /\ Waiting' = Waiting
  BY <1>1 DEF Granted, Waiting, TypeOK
<1>4. UnitsConserved' /\ NoOvertaking' /\ ListIsWaiters'
  BY <1>1, <1>3 DEF UnitsConserved, NoOvertaking, ListIsWaiters
<1>5. GrantedIsAwake'
  BY <1>1, <1>3 DEF GrantedIsAwake, Granted, TypeOK
<1> QED
  BY <1>2, <1>4, <1>5

(* A task that is awake returns with the unit it was handed, gives up, or  *)
(* goes back to sleep.                                                     *)
LEMMA RelockInv ==
  ASSUME IInv, NEW t \in Tasks, Relock(t)
  PROVE  IInv'
<1> USE DEF IInv
<1>0. /\ pc[t] = "relock"
      /\ UNCHANGED <<count, sig>>
  BY DEF Relock
<1>1. CASE up[t]
  <2>1. /\ owed' = owed + 1
        /\ pc' = [pc EXCEPT ![t] = "idle"]
        /\ up' = [up EXCEPT ![t] = FALSE]
        /\ \E s \in SleepState : state' = [state EXCEPT ![t] = s]
        /\ \E left \in 0 .. MAX_SCHEDULE_TIMEOUT : timeout' = [timeout EXCEPT ![t] = left]
        /\ UNCHANGED <<wait_list, tstate>>
    BY <1>1, SemaphoreAssumption DEF Relock, Return, SleepState, MAX_SCHEDULE_TIMEOUT
  <2>2. TypeOK'
    BY <1>0, <2>1 DEF TypeOK
  <2>3. t \in Granted /\ Granted' = Granted \ {t} /\ Waiting' = Waiting
    BY <1>0, <1>1, <2>1 DEF Granted, Waiting, TypeOK
  <2>4. Cardinality(Granted') = Cardinality(Granted) - 1
    BY <2>3, GrantedFinite, FS_RemoveElement
  <2>5. UnitsConserved'
    BY <1>0, <2>1, <2>4, GrantedFinite, SemaphoreAssumption DEF UnitsConserved, TypeOK
  <2>6. NoOvertaking' /\ ListIsWaiters' /\ GrantedIsAwake'
    BY <1>0, <2>1, <2>3 DEF NoOvertaking, ListIsWaiters, GrantedIsAwake
  <2> QED
    BY <2>2, <2>5, <2>6
<1>2. CASE ~up[t]
  <2>1. WaitOrGiveUp(t, wait_list, state[t], timeout[t]) /\ owed' = owed
    BY <1>2 DEF Relock
  <2>2. t \in Waiting /\ t \notin Granted
    BY <1>0, <1>2 DEF Waiting, Granted
  <2>3. /\ wait_list' \in Seq(Tasks)
        /\ ListOK(wait_list')
        /\ \/ /\ pc' = [pc EXCEPT ![t] = "idle"]
              /\ tstate' = tstate
              /\ ListEntries(wait_list') = Waiting \ {t}
           \/ /\ pc' = [pc EXCEPT ![t] = "schedule"]
              /\ tstate' = [tstate EXCEPT ![t] = state[t]]
              /\ ListEntries(wait_list') = Waiting
        /\ up' = [up EXCEPT ![t] = FALSE]
        /\ \E s \in SleepState : state' = [state EXCEPT ![t] = s]
        /\ \E left \in 0 .. MAX_SCHEDULE_TIMEOUT : timeout' = [timeout EXCEPT ![t] = left]
    <3>1. /\ wait_list \in Seq(Tasks) /\ ListOK(wait_list)
          /\ ListEntries(wait_list) = Waiting /\ t \in ListEntries(wait_list)
          /\ state[t] \in SleepState /\ timeout[t] \in 0 .. MAX_SCHEDULE_TIMEOUT
      BY <2>2 DEF TypeOK, ListIsWaiters
    <3>2. /\ wait_list' \in Seq(Tasks)
          /\ ListOK(wait_list')
          /\ \/ /\ pc' = [pc EXCEPT ![t] = "idle"]
                /\ tstate' = tstate
                /\ ListEntries(wait_list') = ListEntries(wait_list) \ {t}
             \/ /\ pc' = [pc EXCEPT ![t] = "schedule"]
                /\ tstate' = [tstate EXCEPT ![t] = state[t]]
                /\ ListEntries(wait_list') = ListEntries(wait_list)
          /\ up' = [up EXCEPT ![t] = FALSE]
          /\ \E s \in SleepState : state' = [state EXCEPT ![t] = s]
          /\ \E left \in 0 .. MAX_SCHEDULE_TIMEOUT : timeout' = [timeout EXCEPT ![t] = left]
      BY <2>1, <3>1, WaitOrGiveUpList
    <3> QED
      BY <3>1, <3>2
  <2>4. TypeOK'
    BY <1>0, <2>1, <2>3, ZenonT(30) DEF TypeOK, TaskState
  <2>5. Granted' = Granted
    BY <1>0, <1>2, <2>3 DEF Granted, TypeOK
  <2>6. UnitsConserved'
    BY <1>0, <2>1, <2>5 DEF UnitsConserved
  <2>7. NoOvertaking'
    <3>1. wait_list # <<>>
      BY <2>2, EmptyFacts DEF TypeOK, ListIsWaiters
    <3> QED
      BY <1>0, <3>1 DEF NoOvertaking
  <2>8. ListIsWaiters'
    <3>1. CASE pc' = [pc EXCEPT ![t] = "idle"]
      <4>1. Waiting' = Waiting \ {t} /\ pc'[t] = "idle"
        BY <1>0, <2>3, <3>1 DEF Waiting, TypeOK
      <4> QED
        BY <2>3, <4>1 DEF ListIsWaiters, TypeOK
    <3>2. CASE pc' = [pc EXCEPT ![t] = "schedule"]
      <4>1. Waiting' = Waiting /\ pc'[t] = "schedule"
        BY <1>0, <1>2, <2>3, <3>2 DEF Waiting, TypeOK
      <4> QED
        BY <2>3, <4>1 DEF ListIsWaiters, TypeOK
    <3> QED
      BY <2>3, <3>1, <3>2
  <2>9. GrantedIsAwake'
    BY <2>2, <2>3, <2>5 DEF GrantedIsAwake, Granted, TypeOK
  <2> QED
    BY <2>4, <2>6, <2>7, <2>8, <2>9
<1> QED
  BY <1>1, <1>2

(* up() increments count or hands its unit to the first waiter. *)
LEMMA UpInv ==
  ASSUME IInv, up_
  PROVE  IInv'
<1> USE DEF IInv
<1>0. owed' = owed - 1 /\ UNCHANGED <<pc, state, timeout, sig>>
  BY DEF up_
<1>1. CASE wait_list = <<>>
  <2>1. count' = count + 1 /\ UNCHANGED <<wait_list, up, tstate>>
    BY <1>1 DEF up_
  <2>2. TypeOK'
    BY <1>0, <2>1 DEF TypeOK
  <2>3. Granted' = Granted /\ Waiting' = Waiting
    BY <1>0, <2>1 DEF Granted, Waiting
  <2>4. UnitsConserved'
    BY <1>0, <2>1, <2>3, GrantedFinite, SemaphoreAssumption DEF UnitsConserved, TypeOK
  <2>5. NoOvertaking' /\ ListIsWaiters' /\ GrantedIsAwake'
    BY <1>0, <1>1, <2>1, <2>3 DEF NoOvertaking, ListIsWaiters, GrantedIsAwake
  <2> QED
    BY <2>2, <2>4, <2>5
<1>2. CASE wait_list # <<>>
  <2> DEFINE h == Head(wait_list)
  <2>1. /\ wait_list' = Tail(wait_list)
        /\ up' = [up EXCEPT ![h] = TRUE]
        /\ tstate' = [tstate EXCEPT ![h] = TASK_RUNNING]
        /\ count' = count
    BY <1>2 DEF up_, wake_up_process
  <2>2. /\ h \in Waiting /\ h \in Tasks
        /\ wait_list' \in Seq(Tasks)
        /\ ListEntries(wait_list') = Waiting \ {h}
        /\ ListOK(wait_list')
    BY <1>2, <2>1, FirstFacts DEF TypeOK, ListIsWaiters
  <2> HIDE DEF h
  <2>3. TypeOK'
    BY <1>0, <2>1, <2>2 DEF TypeOK, TaskState
  <2>4. Granted' = Granted \cup {h} /\ h \notin Granted /\ Waiting' = Waiting \ {h}
    BY <1>0, <2>1, <2>2 DEF Granted, Waiting, TypeOK
  <2>5. Cardinality(Granted') = Cardinality(Granted) + 1
    BY <2>4, GrantedFinite, FS_AddElement
  <2>6. UnitsConserved'
    BY <1>0, <2>1, <2>5, GrantedFinite, SemaphoreAssumption DEF UnitsConserved, TypeOK
  <2>7. NoOvertaking'
    BY <1>2, <2>1 DEF NoOvertaking
  <2>8. ListIsWaiters'
    BY <2>2, <2>4 DEF ListIsWaiters
  <2>9. GrantedIsAwake'
    BY <2>1, <2>2, <2>4 DEF GrantedIsAwake, TypeOK
  <2> QED
    BY <2>3, <2>6, <2>7, <2>8, <2>9
<1> QED
  BY <1>1, <1>2

(* Signals change nothing the invariant is about, but for their own type. *)
LEMMA SignalInv ==
  ASSUME IInv, NEW t \in Tasks,
         SignalHandled(t) \/ \E s \in Signal \ {"none"} : SignalArrives(t, s)
  PROVE  IInv'
<1> USE DEF IInv
<1>1. /\ UNCHANGED <<count, wait_list, up, pc, state, timeout, tstate, owed>>
      /\ \E s \in Signal : sig' = [sig EXCEPT ![t] = s]
  BY DEF SignalHandled, SignalArrives, Signal
<1>2. TypeOK'
  BY <1>1 DEF TypeOK
<1>3. Granted' = Granted /\ Waiting' = Waiting
  BY <1>1 DEF Granted, Waiting
<1> QED
  BY <1>1, <1>2, <1>3 DEF UnitsConserved, NoOvertaking, ListIsWaiters, GrantedIsAwake

(* Every step keeps the invariant. *)
LEMMA NextInv == IInv /\ [Next]_vars => IInv'
<1> SUFFICES ASSUME IInv, [Next]_vars PROVE IInv'
  OBVIOUS
<1>1. CASE up_
  BY <1>1, UpInv
<1>2. ASSUME NEW t \in Tasks, DownFast(t) \/ down_trylock(t)
      PROVE  IInv'
  <2>1. /\ count > 0 /\ count' = count - 1 /\ owed' = owed + 1
        /\ UNCHANGED <<wait_list, up, pc, state, timeout, tstate, sig>>
    BY <1>2 DEF DownFast, down_trylock, IInv, TypeOK
  <2> QED
    BY <2>1, TakeInv
<1>3. ASSUME NEW t \in Tasks, NEW call \in DownCall, DownSlow(t, call)
      PROVE  IInv'
  BY <1>3, DownSlowInv
<1>4. ASSUME NEW t \in Tasks, Relock(t)
      PROVE  IInv'
  BY <1>4, RelockInv
<1>5. ASSUME NEW t \in Tasks,
             \/ TimerExpires(t) \/ SpuriousWakeup(t)
             \/ \E left \in 0 .. MAX_SCHEDULE_TIMEOUT : ScheduleTimeoutReturns(t, left)
      PROVE  IInv'
  BY <1>5, SleepInv
<1>6. ASSUME NEW t \in Tasks,
             SignalHandled(t) \/ \E s \in Signal \ {"none"} : SignalArrives(t, s)
      PROVE  IInv'
  BY <1>6, SignalInv
<1>7. CASE UNCHANGED vars
  BY <1>7 DEF vars, IInv, TypeOK, UnitsConserved, NoOvertaking, ListIsWaiters, GrantedIsAwake,
     Granted, Waiting
<1> QED
  BY <1>1, <1>2, <1>3, <1>4, <1>5, <1>6, <1>7 DEF Next

(* The invariant holds throughout, for any number of tasks. *)
THEOREM InvariantHolds == Spec => []IInv
BY InitInv, NextInv, PTL DEF Spec

(* Every variable keeps its type; in particular count never goes below 0,  *)
(* whatever mix of down*(), down_trylock() and up() is called.             *)
THEOREM TypeCorrect == Spec => []TypeOK
<1>1. IInv => TypeOK
  BY DEF IInv
<1> QED
  BY <1>1, InvariantHolds, PTL

(* No unit is lost or made up when __up() hands one to a waiter that a     *)
(* signal or its timer wakes at the same time.                             *)
THEOREM UnitsAreConserved == Spec => []UnitsConserved
<1>1. IInv => UnitsConserved
  BY DEF IInv
<1> QED
  BY <1>1, InvariantHolds, PTL

(* While a waiter is queued count is 0: nobody overtakes the queue. *)
THEOREM QueueIsNotOvertaken == Spec => []NoOvertaking
<1>1. IInv => NoOvertaking
  BY DEF IInv
<1> QED
  BY <1>1, InvariantHolds, PTL

(* wait_list holds exactly the tasks that wait and were not handed a unit, *)
(* so __up() never touches the stack of a task that has returned.          *)
THEOREM ListIsExact == Spec => []ListIsWaiters
<1>1. IInv => ListIsWaiters
  BY DEF IInv
<1> QED
  BY <1>1, InvariantHolds, PTL

(* A task that was handed a unit is awake. *)
THEOREM GrantedTasksAreAwake == Spec => []GrantedIsAwake
<1>1. IInv => GrantedIsAwake
  BY DEF IInv
<1> QED
  BY <1>1, InvariantHolds, PTL
==============================================================================
