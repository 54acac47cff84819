---------------------------- MODULE RWSemSpinlock ----------------------------
(***************************************************************************)
(* Reader/writer semaphores of architectures without atomic operations to  *)
(* build on: lib/rwsem-spinlock.c.  Every operation holds wait_lock, so    *)
(* that one step covers what it does to activity and to the list; only the *)
(* stores to waiter->task and the wakeups that follow are seen by others   *)
(* while the lock is held, and are steps of their own.                     *)
(***************************************************************************)
EXTENDS Integers, Sequences, FiniteSets, KList, Sched

CONSTANTS Tasks, Null

ASSUME RWSemSpinlockAssumption == IsFiniteSet(Tasks) /\ Null \notin Tasks

VARIABLES activity,   \* sem->activity: -1 with a writer, else the number of readers
          wait_lock,  \* the task that holds sem->wait_lock, or Null
          wait_list,  \* sem->wait_list: the tasks of the queued waiters
          flags,      \* flags[t]: what t's waiter waits for
          granted,    \* granted[t]: the task field of t's waiter is NULL
          batch,      \* waiters the holder of wait_lock has taken off the list to wake
          return,     \* return[t]: where t goes on when it has woken them
          pc,         \* where each task is
          tstate      \* task->state

vars == <<activity, wait_lock, wait_list, flags, granted, batch, return, pc, tstate>>

Init ==
  /\ activity = 0
  /\ wait_lock = Null
  /\ wait_list = <<>>
  /\ flags = [t \in Tasks |-> "read"]
  /\ granted = [t \in Tasks |-> FALSE]
  /\ batch = <<>>
  /\ return = [t \in Tasks |-> "idle"]
  /\ pc = [t \in Tasks |-> "idle"]
  /\ tstate = [t \in Tasks |-> TASK_RUNNING]

Goto(t, from, to) == pc[t] = from /\ pc' = [pc EXCEPT ![t] = to]

------------------------------------------------------------------------------
(* Variant with a bug: readers do not mind those who wait. *)
BuggyMayRead == activity >= 0

MayRead == activity >= 0 /\ wait_list = <<>>
MayWrite == activity = 0 /\ wait_list = <<>>

(* Set up a waiter and go to sleep. *)
Enqueue(t, flag) ==
  /\ Goto(t, "idle", "wait")
  /\ tstate' = [tstate EXCEPT ![t] = TASK_UNINTERRUPTIBLE]
  /\ flags' = [flags EXCEPT ![t] = flag]
  /\ granted' = [granted EXCEPT ![t] = FALSE]
  /\ wait_list' = list_add_tail(wait_list, t)
  /\ UNCHANGED <<activity, wait_lock, batch, return>>

__down_read_trylock(t) ==
  /\ wait_lock = Null
  /\ MayRead
  /\ Goto(t, "idle", "reading")
  /\ activity' = activity + 1
  /\ UNCHANGED <<wait_lock, wait_list, flags, granted, batch, return, tstate>>

__down_read(t) ==
  \/ __down_read_trylock(t)
  \/ wait_lock = Null /\ ~MayRead /\ Enqueue(t, "read")

__down_write_trylock(t) ==
  /\ wait_lock = Null
  /\ MayWrite
  /\ Goto(t, "idle", "writing")
  /\ activity' = -1
  /\ UNCHANGED <<wait_lock, wait_list, flags, granted, batch, return, tstate>>

__down_write(t) ==
  \/ __down_write_trylock(t)
  \/ wait_lock = Null /\ ~MayWrite /\ Enqueue(t, "write")

(* for (;;) { if (!waiter.task) break; ... } *)
WaitTest(t) ==
  /\ pc[t] = "wait"
  /\ \/ /\ granted[t]
        /\ Goto(t, "wait", IF flags[t] = "read" THEN "reading" ELSE "writing")
        /\ tstate' = [tstate EXCEPT ![t] = TASK_RUNNING]
     \/ /\ ~granted[t]
        /\ Goto(t, "wait", "schedule")
        /\ UNCHANGED tstate
  /\ UNCHANGED <<activity, wait_lock, wait_list, flags, granted, batch, return>>

Woken(t) ==
  /\ ScheduleReturns(tstate[t], "none")
  /\ Goto(t, "schedule", "wait")
  /\ tstate' = [tstate EXCEPT ![t] = TASK_UNINTERRUPTIBLE]
  /\ UNCHANGED <<activity, wait_lock, wait_list, flags, granted, batch, return>>

------------------------------------------------------------------------------
(* Variant with a bug: one reader is woken, whoever is behind it. *)
BuggyLeadingReaders == 1

(* The number of readers at the front of the queue. *)
LeadingReaders ==
  CHOOSE n \in 0 .. Len(wait_list) :
    /\ \A i \in 1 .. n : flags[wait_list[i]] = "read"
    /\ n < Len(wait_list) => flags[wait_list[n + 1]] = "write"

(* Take the first n waiters off the list; t, which holds wait_lock and     *)
(* will go on at to, wakes them.                                           *)
Wake(t, from, n, to) ==
  /\ Goto(t, from, "grant")
  /\ wait_lock' = t
  /\ batch' = SubSeq(wait_list, 1, n)
  /\ wait_list' = SubSeq(wait_list, n + 1, Len(wait_list))
  /\ return' = [return EXCEPT ![t] = to]

WakeNobody(t, from, to) ==
  /\ Goto(t, from, to)
  /\ UNCHANGED <<wait_lock, batch, wait_list, return>>

(* __rwsem_wake_one_writer() takes the first waiter for a writer. *)
__rwsem_wake_one_writer(t) ==
  /\ activity' = -1
  /\ Wake(t, "reading", 1, "idle")

__up_read(t) ==
  /\ wait_lock = Null
  /\ \/ /\ activity = 1 /\ wait_list # <<>>
        /\ __rwsem_wake_one_writer(t)
     \/ /\ ~(activity = 1 /\ wait_list # <<>>)
        /\ activity' = activity - 1
        /\ WakeNobody(t, "reading", "idle")
  /\ UNCHANGED <<flags, granted, tstate>>

(* Variant with a bug: the reader that has downgraded is forgotten. *)
BuggyDoWake(t, wakewrite, base, to) ==
  \/ /\ flags[Head(wait_list)] = "write" /\ ~wakewrite
     /\ activity' = base
     /\ WakeNobody(t, "writing", to)
  \/ /\ flags[Head(wait_list)] = "write" /\ wakewrite
     /\ activity' = -1
     /\ Wake(t, "writing", 1, to)
  \/ /\ flags[Head(wait_list)] = "read"
     /\ activity' = LeadingReaders
     /\ Wake(t, "writing", LeadingReaders, to)

(* __rwsem_do_wake(sem, wakewrite), with activity set to base before.  The *)
(* code adds the readers to activity after it has woken them; nobody can   *)
(* tell, since activity is used under wait_lock alone.                     *)
__rwsem_do_wake(t, wakewrite, base, to) ==
  \/ /\ flags[Head(wait_list)] = "write" /\ ~wakewrite
     /\ activity' = base
     /\ WakeNobody(t, "writing", to)
  \/ /\ flags[Head(wait_list)] = "write" /\ wakewrite
     /\ activity' = -1
     /\ Wake(t, "writing", 1, to)
  \/ /\ flags[Head(wait_list)] = "read"
     /\ activity' = base + LeadingReaders
     /\ Wake(t, "writing", LeadingReaders, to)

LeaveWriting(t, wakewrite, base, to) ==
  /\ wait_lock = Null
  /\ pc[t] = "writing"
  /\ \/ /\ wait_list # <<>>
        /\ __rwsem_do_wake(t, wakewrite, base, to)
     \/ /\ wait_list = <<>>
        /\ activity' = base
        /\ WakeNobody(t, "writing", to)
  /\ UNCHANGED <<flags, granted, tstate>>

__up_write(t) == LeaveWriting(t, TRUE, 0, "idle")

(* Variant with a bug: a downgrade may wake a writer. *)
BuggyDowngrade(t) == LeaveWriting(t, TRUE, 1, "reading")

__downgrade_write(t) == LeaveWriting(t, FALSE, 1, "reading")

(* waiter->task = NULL: the waiter may return from now on ... *)
Grant(t) ==
  /\ Goto(t, "grant", "wake_up")
  /\ granted' = [granted EXCEPT ![Head(batch)] = TRUE]
  /\ UNCHANGED <<activity, wait_lock, wait_list, flags, batch, return, tstate>>

(* ... wake_up_process(), the next waiter or spin_unlock_irqrestore(). *)
WakeUp(t) ==
  /\ pc[t] = "wake_up"
  /\ tstate' = wake_up_process(tstate, Head(batch))
  /\ batch' = Tail(batch)
  /\ \/ /\ Tail(batch) # <<>>
        /\ Goto(t, "wake_up", "grant")
        /\ UNCHANGED <<wait_lock, return>>
     \/ /\ Tail(batch) = <<>>
        /\ Goto(t, "wake_up", return[t])
        /\ wait_lock' = Null
        /\ return' = [return EXCEPT ![t] = "idle"]
  /\ UNCHANGED <<activity, wait_list, flags, granted>>

------------------------------------------------------------------------------
Call(t) ==
  \/ __down_read(t) \/ __down_write(t)
  \/ __down_read_trylock(t) \/ __down_write_trylock(t)

Release(t) == __up_read(t) \/ __up_write(t) \/ __downgrade_write(t)

Step(t) == WaitTest(t) \/ Woken(t) \/ Grant(t) \/ WakeUp(t)

Next == \E t \in Tasks : Call(t) \/ Release(t) \/ Step(t)

Spec == Init /\ [][Next]_vars

(* Tasks run; those that hold the semaphore release it in the end, and get *)
(* wait_lock for that, which spins in the order of arrival.                *)
Fairness == \A t \in Tasks : WF_vars(Step(t)) /\ SF_vars(__up_read(t) \/ __up_write(t))

FairSpec == Spec /\ Fairness

------------------------------------------------------------------------------
(* A task holds the semaphore from the moment it got it, or its waiter was *)
(* granted it, until it releases it.                                       *)
Readers ==
  {t \in Tasks : \/ pc[t] = "reading"
                 \/ pc[t] \in {"wait", "schedule"} /\ granted[t] /\ flags[t] = "read"
                 \/ pc[t] \in {"grant", "wake_up"} /\ return[t] = "reading"}

Writers ==
  {t \in Tasks : \/ pc[t] = "writing"
                 \/ pc[t] \in {"wait", "schedule"} /\ granted[t] /\ flags[t] = "write"}

Label == {"idle", "reading", "writing", "wait", "schedule", "grant", "wake_up"}

(* Every variable holds a value of its C type; activity stays between one  *)
(* writer and all tasks reading.                                           *)
TypeOK ==
  /\ activity \in -1 .. Cardinality(Tasks)
  /\ wait_lock \in Tasks \cup {Null}
  /\ wait_list \in Seq(Tasks)
  /\ flags \in [Tasks -> {"read", "write"}]
  /\ granted \in [Tasks -> BOOLEAN]
  /\ batch \in Seq(Tasks)
  /\ return \in [Tasks -> {"idle", "reading"}]
  /\ pc \in [Tasks -> Label]
  /\ tstate \in [Tasks -> {TASK_RUNNING, TASK_UNINTERRUPTIBLE}]

(* Waiters in the batch that were not granted the semaphore yet. *)
Promised == {t \in ListEntries(batch) : ~granted[t]}

(* rwsem-spinlock.h: 0 "no active readers or writers", positive "the       *)
(* number of active readers", -1 "one active writer", counting those that  *)
(* are about to be told, however readers, writers and downgrades follow    *)
(* each other.                                                             *)
ActivityIsExact ==
  LET all == Readers \cup Writers \cup Promised IN
  \/ activity >= 0 /\ Writers = {} /\ Cardinality(all) = activity
  \/ activity = -1 /\ Readers = {} /\ Cardinality(all) = 1

(* __rwsem_wake_one_writer() does not look at the flags of the waiter it   *)
(* wakes: whenever it may be called, a writer is at the front.  Nobody     *)
(* waits for a semaphore that is free, and no reader for nothing but       *)
(* readers.                                                                *)
FrontIsRight ==
  wait_list # <<>> =>
    /\ activity # 0
    /\ activity > 0 => flags[Head(wait_list)] = "write"

(* A task that was granted the semaphore does not sleep on: it is awake,   *)
(* or the task that granted it is about to wake it.                        *)
GrantedIsWoken ==
  \A t \in Tasks :
    pc[t] = "schedule" /\ granted[t] =>
      \/ tstate[t] = TASK_RUNNING
      \/ \E u \in Tasks : pc[u] = "wake_up" /\ Head(batch) = t

(* As long as holders release the semaphore, whoever queues for it gets    *)
(* it: readers that come later do not keep a writer out.                   *)
Served == \A t \in Tasks : pc[t] = "wait" ~> t \in Readers \cup Writers

Abstract == INSTANCE RWLock WITH readers <- Readers, writers <- Writers

(* Every step of this implementation, too, is a step of the abstract       *)
(* reader/writer lock or leaves it alone.                                  *)
IsRWLock == Abstract!Spec
==============================================================================
