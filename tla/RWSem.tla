-------------------------------- MODULE RWSem --------------------------------
(***************************************************************************)
(* Reader/writer semaphores: the XADD/CMPXCHG fast paths of                *)
(* arch/x86/include/asm/rwsem.h and the contention code of lib/rwsem.c.    *)
(*                                                                         *)
(* sem->count packs two numbers: its low part (ACTIVE_MASK) counts the     *)
(* active lockers, its high part is the negated number of active writers   *)
(* and waiting lockers.  A locker first adds its bias and then learns from *)
(* the result whether it got the lock; if not, it takes wait_lock, queues  *)
(* and corrects count.  An action here is at most one access to count or   *)
(* to a waiter's task field.                                               *)
(***************************************************************************)
EXTENDS Integers, Sequences, FiniteSets, Sched, KList

CONSTANTS Tasks,        \* the tasks that use the semaphore
          Null,         \* a free wait_lock
          ACTIVE_MASK   \* RWSEM_ACTIVE_MASK

(* The low part has room for one active locker per task and for the        *)
(* increment of the task that wakes others.                                *)
ASSUME RWSemAssumption ==
  /\ IsFiniteSet(Tasks)
  /\ Null \notin Tasks
  /\ ACTIVE_MASK \in Nat
  /\ ACTIVE_MASK > Cardinality(Tasks)

VARIABLES count,      \* sem->count
          wait_lock,  \* the task that holds sem->wait_lock, or Null
          wait_list,  \* sem->wait_list: the tasks of the queued waiters
          flags,      \* flags[t]: what t's waiter waits for
          granted,    \* granted[t]: the task field of t's waiter is NULL
          batch,      \* batch[t]: waiters __rwsem_do_wake(), run by t, has still to wake
          return,     \* return[t]: where __rwsem_do_wake(), run by t, returns to
          pc,         \* where each task is
          tstate      \* task->state

vars == <<count, wait_lock, wait_list, flags, granted, batch, return, pc, tstate>>

ACTIVE_BIAS       == 1
WAITING_BIAS      == -ACTIVE_MASK - 1
ACTIVE_READ_BIAS  == ACTIVE_BIAS
ACTIVE_WRITE_BIAS == WAITING_BIAS + ACTIVE_BIAS

(* c & RWSEM_ACTIVE_MASK, on two's complement. *)
Active(c) == c % (ACTIVE_MASK + 1)

Init ==
  /\ count = 0
  /\ wait_lock = Null
  /\ wait_list = <<>>
  /\ flags = [t \in Tasks |-> "read"]
  /\ granted = [t \in Tasks |-> FALSE]
  /\ batch = [t \in Tasks |-> <<>>]
  /\ return = [t \in Tasks |-> "idle"]
  /\ pc = [t \in Tasks |-> "idle"]
  /\ tstate = [t \in Tasks |-> TASK_RUNNING]

Goto(t, from, to) == pc[t] = from /\ pc' = [pc EXCEPT ![t] = to]

------------------------------------------------------------------------------
(* The fast paths. *)
__down_read(t) ==
  /\ count' = count + ACTIVE_READ_BIAS
  /\ Goto(t, "idle", IF count' >= 0 THEN "reading" ELSE "read_failed")
  /\ UNCHANGED <<wait_lock, wait_list, flags, granted, batch, return, tstate>>

(* The cmpxchg loop succeeds iff it finds a count that is not negative. *)
__down_read_trylock(t) ==
  /\ count >= 0
  /\ count' = count + ACTIVE_READ_BIAS
  /\ Goto(t, "idle", "reading")
  /\ UNCHANGED <<wait_lock, wait_list, flags, granted, batch, return, tstate>>

__down_write(t) ==
  /\ count' = count + ACTIVE_WRITE_BIAS
  /\ Goto(t, "idle", IF count = 0 THEN "writing" ELSE "write_failed")
  /\ UNCHANGED <<wait_lock, wait_list, flags, granted, batch, return, tstate>>

__down_write_trylock(t) ==
  /\ count = 0
  /\ count' = ACTIVE_WRITE_BIAS
  /\ Goto(t, "idle", "writing")
  /\ UNCHANGED <<wait_lock, wait_list, flags, granted, batch, return, tstate>>

(* call_rwsem_wake, the assembly stub between the fast paths and           *)
(* rwsem_wake(), gets the count from before the release: "if we come here  *)
(* from up_xxxx(), then the 'active part' of count reached 0".             *)
call_rwsem_wake(old) == Active(old - ACTIVE_BIAS) = 0

__up_read(t) ==
  /\ count' = count - ACTIVE_READ_BIAS
  /\ Goto(t, "reading", IF count' < 0 /\ call_rwsem_wake(count) THEN "rwsem_wake" ELSE "idle")
  /\ UNCHANGED <<wait_lock, wait_list, flags, granted, batch, return, tstate>>

__up_write(t) ==
  /\ count' = count - ACTIVE_WRITE_BIAS
  /\ Goto(t, "writing", IF count' # 0 /\ call_rwsem_wake(count) THEN "rwsem_wake" ELSE "idle")
  /\ UNCHANGED <<wait_lock, wait_list, flags, granted, batch, return, tstate>>

(* Variant with a bug: the writer gives up its active count as well. *)
BuggyDowngrade(t) ==
  /\ count' = count - ACTIVE_WRITE_BIAS
  /\ Goto(t, "writing", IF count' >= 0 THEN "reading" ELSE "downgrade_wake")
  /\ UNCHANGED <<wait_lock, wait_list, flags, granted, batch, return, tstate>>

__downgrade_write(t) ==
  /\ count' = count - WAITING_BIAS
  /\ Goto(t, "writing", IF count' >= 0 THEN "reading" ELSE "downgrade_wake")
  /\ UNCHANGED <<wait_lock, wait_list, flags, granted, batch, return, tstate>>

------------------------------------------------------------------------------
(* Variant with a bug: nobody looks whether the lock is free by now. *)
BuggyFailedNoWake(t, from, flag, adjustment) ==
  /\ wait_lock = Null
  /\ tstate' = [tstate EXCEPT ![t] = TASK_UNINTERRUPTIBLE]
  /\ wait_list' = list_add_tail(wait_list, t)
  /\ flags' = [flags EXCEPT ![t] = flag]
  /\ granted' = [granted EXCEPT ![t] = FALSE]
  /\ count' = count + adjustment
  /\ Goto(t, from, "wait")
  /\ UNCHANGED <<wait_lock, return, batch>>

(* Variant with a bug: the newcomer goes to the front of the queue. *)
BuggyFailedFront(t, from, flag, adjustment) ==
  /\ wait_lock = Null
  /\ tstate' = [tstate EXCEPT ![t] = TASK_UNINTERRUPTIBLE]
  /\ wait_list' = <<t>> \o wait_list
  /\ flags' = [flags EXCEPT ![t] = flag]
  /\ granted' = [granted EXCEPT ![t] = FALSE]
  /\ count' = count + adjustment
  /\ \/ /\ Active(count') = 0
        /\ wait_lock' = t
        /\ return' = [return EXCEPT ![t] = "wait"]
        /\ Goto(t, from, "try_wake")
     \/ /\ Active(count') # 0
        /\ Goto(t, from, "wait")
        /\ UNCHANGED <<wait_lock, return>>
  /\ UNCHANGED batch

(* rwsem_down_failed_common(), called by rwsem_down_read_failed() and      *)
(* rwsem_down_write_failed(): queue, correct count, and if that leaves no  *)
(* active locker wake the front of the queue.                              *)
FailedCommon(t, from, flag, adjustment) ==
  /\ wait_lock = Null
  /\ tstate' = [tstate EXCEPT ![t] = TASK_UNINTERRUPTIBLE]
  /\ wait_list' = list_add_tail(wait_list, t)
  /\ flags' = [flags EXCEPT ![t] = flag]
  /\ granted' = [granted EXCEPT ![t] = FALSE]
  /\ count' = count + adjustment
  /\ \/ /\ Active(count') = 0
        /\ wait_lock' = t
        /\ return' = [return EXCEPT ![t] = "wait"]
        /\ Goto(t, from, "try_wake")
     \/ /\ Active(count') # 0
        /\ Goto(t, from, "wait")
        /\ UNCHANGED <<wait_lock, return>>
  /\ UNCHANGED batch

rwsem_down_read_failed(t) ==
  FailedCommon(t, "read_failed", "read", WAITING_BIAS - ACTIVE_BIAS)

(* Variant with a bug: the writer corrects count as a reader has to. *)
BuggyWriteFailed(t) ==
  FailedCommon(t, "write_failed", "write", WAITING_BIAS - ACTIVE_BIAS)

rwsem_down_write_failed(t) ==
  FailedCommon(t, "write_failed", "write", -ACTIVE_BIAS)

(* The loop that waits for the lock to be granted: test waiter->task (the  *)
(* waiter, on the stack of the function that returns, is no more) ...      *)
WaitTest(t) ==
  /\ \/ /\ granted[t]
        /\ Goto(t, "wait", IF flags[t] = "read" THEN "reading" ELSE "writing")
        /\ tstate' = [tstate EXCEPT ![t] = TASK_RUNNING]
        /\ flags' = [flags EXCEPT ![t] = "read"]
        /\ granted' = [granted EXCEPT ![t] = FALSE]
     \/ /\ ~granted[t]
        /\ Goto(t, "wait", "schedule")
        /\ UNCHANGED <<flags, granted, tstate>>
  /\ UNCHANGED <<count, wait_lock, wait_list, batch, return>>

(* ... or sleep, and set the task state again. *)
Woken(t) ==
  /\ ScheduleReturns(tstate[t], "none")
  /\ Goto(t, "schedule", "wait")
  /\ tstate' = [tstate EXCEPT ![t] = TASK_UNINTERRUPTIBLE]
  /\ UNCHANGED <<count, wait_lock, wait_list, flags, granted, batch, return>>

------------------------------------------------------------------------------
(* rwsem_wake() and rwsem_downgrade_wake(): take wait_lock, and wake       *)
(* somebody if anybody is queued.                                          *)
rwsem_wake(t) ==
  /\ wait_lock = Null
  /\ \/ /\ wait_list = <<>>
        /\ Goto(t, "rwsem_wake", "idle")
        /\ UNCHANGED <<wait_lock, return>>
     \/ /\ wait_list # <<>>
        /\ Goto(t, "rwsem_wake", "try_wake")
        /\ wait_lock' = t
        /\ return' = [return EXCEPT ![t] = "idle"]
  /\ UNCHANGED <<count, wait_list, flags, granted, batch, tstate>>

FrontIs(flag) == wait_list # <<>> /\ flags[Head(wait_list)] = flag

(* Downgrading, no writer is woken. *)
rwsem_downgrade_wake(t) ==
  /\ wait_lock = Null
  /\ \/ /\ ~FrontIs("read")
        /\ Goto(t, "downgrade_wake", "reading")
        /\ UNCHANGED <<wait_lock, return>>
     \/ /\ FrontIs("read")
        /\ Goto(t, "downgrade_wake", "wake_readers")
        /\ wait_lock' = t
        /\ return' = [return EXCEPT ![t] = "reading"]
  /\ UNCHANGED <<count, wait_list, flags, granted, batch, tstate>>

(* __rwsem_do_wake(): try_again: move the active part from 0 to 1.  A      *)
(* writer at the front of the queue is taken off it.                       *)
TryWake(t) ==
  /\ pc[t] = "try_wake"
  /\ count' = count + ACTIVE_BIAS
  /\ \/ /\ Active(count) # 0
        /\ Goto(t, "try_wake", "undo")
        /\ UNCHANGED <<wait_list, batch>>
     \/ /\ Active(count) = 0
        /\ FrontIs("write")
        /\ Goto(t, "try_wake", "grant")
        /\ batch' = [batch EXCEPT ![t] = <<Head(wait_list)>>]
        /\ wait_list' = Tail(wait_list)
     \/ /\ Active(count) = 0
        /\ FrontIs("read")
        /\ Goto(t, "try_wake", "wake_readers")
        /\ UNCHANGED <<wait_list, batch>>
  /\ UNCHANGED <<wait_lock, flags, granted, return, tstate>>

(* __rwsem_do_wake() returns and its caller drops wait_lock. *)
ReturnFrom(t, from) ==
  /\ Goto(t, from, return[t])
  /\ return' = [return EXCEPT ![t] = "idle"]
  /\ wait_lock' = Null

(* undo: the active part was not 0; if it becomes 0 now, try again. *)
Undo(t) ==
  /\ count' = count - ACTIVE_BIAS
  /\ \/ /\ Active(count') # 0
        /\ ReturnFrom(t, "undo")
     \/ /\ Active(count') = 0
        /\ Goto(t, "undo", "try_wake")
        /\ UNCHANGED <<wait_lock, return>>
  /\ UNCHANGED <<wait_list, flags, granted, batch, tstate>>

(* How many readers are in a row at the front of the queue. *)
LeadingReaders ==
  CHOOSE n \in 1 .. Len(wait_list) :
    /\ \A i \in 1 .. n : flags[wait_list[i]] = "read"
    /\ n < Len(wait_list) => flags[wait_list[n + 1]] = "write"

(* Variant with a bug: the increment of TryWake is forgotten. *)
BuggyWakeReaders(t) ==
  /\ Goto(t, "wake_readers", "grant")
  /\ count' = count + LeadingReaders * (ACTIVE_BIAS - WAITING_BIAS)
  /\ batch' = [batch EXCEPT ![t] = SubSeq(wait_list, 1, LeadingReaders)]
  /\ wait_list' = SubSeq(wait_list, LeadingReaders + 1, Len(wait_list))
  /\ UNCHANGED <<wait_lock, flags, granted, return, tstate>>

(* readers_only: count them all as active before any of them is woken. *)
WakeReaders(t) ==
  /\ Goto(t, "wake_readers", "grant")
  /\ count' = count + LeadingReaders * (ACTIVE_BIAS - WAITING_BIAS)
                    - (IF return[t] = "reading" THEN 0 ELSE ACTIVE_BIAS)
  /\ batch' = [batch EXCEPT ![t] = SubSeq(wait_list, 1, LeadingReaders)]
  /\ wait_list' = SubSeq(wait_list, LeadingReaders + 1, Len(wait_list))
  /\ UNCHANGED <<wait_lock, flags, granted, return, tstate>>

(* waiter->task = NULL: from here on the waiter may return at any time ... *)
Grant(t) ==
  /\ Goto(t, "grant", "wake_up")
  /\ granted' = [granted EXCEPT ![Head(batch[t])] = TRUE]
  /\ UNCHANGED <<count, wait_lock, wait_list, flags, batch, return, tstate>>

(* Variant with a bug: the task is not woken. *)
BuggyWakeUp(t) ==
  /\ pc[t] = "wake_up"
  /\ batch' = [batch EXCEPT ![t] = Tail(@)]
  /\ \/ /\ Len(batch[t]) > 1
        /\ Goto(t, "wake_up", "grant")
        /\ UNCHANGED <<wait_lock, return>>
     \/ /\ Len(batch[t]) = 1
        /\ ReturnFrom(t, "wake_up")
  /\ UNCHANGED <<count, wait_list, flags, granted, tstate>>

(* ... and wake_up_process(), which may come after it has. *)
WakeUp(t) ==
  /\ pc[t] = "wake_up"
  /\ tstate' = wake_up_process(tstate, Head(batch[t]))
  /\ batch' = [batch EXCEPT ![t] = Tail(@)]
  /\ \/ /\ Len(batch[t]) > 1
        /\ Goto(t, "wake_up", "grant")
        /\ UNCHANGED <<wait_lock, return>>
     \/ /\ Len(batch[t]) = 1
        /\ ReturnFrom(t, "wake_up")
  /\ UNCHANGED <<count, wait_list, flags, granted>>

------------------------------------------------------------------------------
Call(t) ==
  __down_read(t) \/ __down_read_trylock(t) \/ __down_write(t) \/ __down_write_trylock(t)

Step(t) ==
  \/ WaitTest(t) \/ Woken(t)
  \/ TryWake(t) \/ Undo(t) \/ WakeReaders(t) \/ Grant(t) \/ WakeUp(t)

Release(t) == __up_read(t) \/ __up_write(t)

SpinLockStep(t) ==
  \/ rwsem_down_read_failed(t) \/ rwsem_down_write_failed(t)
  \/ rwsem_wake(t) \/ rwsem_downgrade_wake(t)

Next ==
  \E t \in Tasks :
    Call(t) \/ Step(t) \/ Release(t) \/ __downgrade_write(t) \/ SpinLockStep(t)

Spec == Init /\ [][Next]_vars

(* Tasks that can run do run, holders release the semaphore, and wait_lock *)
(* is a ticket lock.  Nobody has to call down_*() or downgrade_write().    *)
Fairness ==
  \A t \in Tasks : WF_vars(Step(t) \/ Release(t)) /\ SF_vars(SpinLockStep(t))

FairSpec == Spec /\ Fairness

------------------------------------------------------------------------------
(* In __rwsem_do_wake(). *)
DoWake(t) == pc[t] \in {"try_wake", "undo", "wake_readers", "grant", "wake_up"}

(* In rwsem_down_failed_common(), after the task was queued. *)
Waiting == {t \in Tasks : \/ pc[t] \in {"wait", "schedule"}
                          \/ DoWake(t) /\ return[t] = "wait"}

(* The tasks that hold the semaphore: from the atomic operation, or the    *)
(* grant, that gave it to them to the one that gives it back.              *)
Readers ==
  {t \in Tasks : \/ pc[t] \in {"reading", "downgrade_wake"}
                 \/ DoWake(t) /\ return[t] = "reading"
                 \/ t \in Waiting /\ granted[t] /\ flags[t] = "read"}

Writers ==
  {t \in Tasks : \/ pc[t] = "writing"
                 \/ t \in Waiting /\ granted[t] /\ flags[t] = "write"}

Label == {"idle", "reading", "writing", "read_failed", "write_failed", "wait", "schedule",
          "rwsem_wake", "downgrade_wake", "try_wake", "undo", "wake_readers", "grant", "wake_up"}

(* Every variable holds a value of its C type; each task moves count by no *)
(* more than one bias at a time, so its halves do not run into each other. *)
TypeOK ==
  /\ count \in Cardinality(Tasks) * WAITING_BIAS .. Cardinality(Tasks) * ACTIVE_BIAS
  /\ wait_lock \in Tasks \cup {Null}
  /\ wait_list \in Seq(Tasks)
  /\ flags \in [Tasks -> {"read", "write"}]
  /\ granted \in [Tasks -> BOOLEAN]
  /\ batch \in [Tasks -> Seq(Tasks)]
  /\ return \in [Tasks -> {"idle", "wait", "reading"}]
  /\ pc \in [Tasks -> Label]
  /\ tstate \in [Tasks -> TaskState]

(* A writer is alone, however the lock reached it: the low part of count   *)
(* decides this although failed lockers and wakers change it too.          *)
WriterIsAlone == \A w \in Writers : Readers = {} /\ Writers = {w}

(* Nobody is between adding its bias to count and correcting it. *)
Quiet == \A t \in Tasks : pc[t] \in {"idle", "reading", "writing", "wait", "schedule",
                                     "rwsem_wake", "downgrade_wake"}

(* The packing that asm/rwsem.h describes: the high part of count is the   *)
(* negated number of active writers and waiting lockers, the low part is   *)
(* the number of active locks; no increment is lost or applied twice.      *)
CountIsAccurate ==
  Quiet => count = Cardinality(Readers) + Cardinality(Writers)
                   + WAITING_BIAS * (Cardinality(Writers) + Len(wait_list))

(* Whoever waits can count on somebody: a holder whose release will look   *)
(* at the queue, or a task that is on its way to wake the front of it.     *)
NobodyForgotten ==
  wait_list # <<>> =>
    \/ Readers \cup Writers # {}
    \/ \E t \in Tasks : pc[t] \notin {"idle", "wait", "schedule"}

(* A task that was granted the lock does not sleep on: it is awake, or the *)
(* task that granted it is about to wake it.                               *)
GrantedIsWoken ==
  \A t \in Tasks :
    pc[t] = "schedule" /\ granted[t] =>
      \/ tstate[t] = TASK_RUNNING
      \/ \E u \in Tasks : pc[u] = "wake_up" /\ Head(batch[u]) = t

(* asm/rwsem.h: "This should be totally fair": as long as holders release  *)
(* the lock, everybody who asks for it gets it, readers and writers alike. *)
Served(t) == (pc[t] \in {"read_failed", "write_failed"}) ~> (t \in Readers \cup Writers)

EverybodyServed == \A t \in Tasks : Served(t)

(* The semaphore is a reader/writer lock. *)
Abstract == INSTANCE RWLock WITH readers <- Readers, writers <- Writers

(* Every step of the semaphore is a step of the abstract lock or leaves it *)
(* alone; downgrade_write() in particular lets no writer in.               *)
IsRWLock == Abstract!Spec
==============================================================================
