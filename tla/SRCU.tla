-------------------------------- MODULE SRCU --------------------------------
(***************************************************************************)
(* Sleepable RCU: kernel/srcu.c.                                           *)
(*                                                                         *)
(* Readers count themselves, in one of two ranks, in a counter of the CPU  *)
(* they are on; an updater turns the ranks round and waits for the old one *)
(* to drain.  The read side has no memory barrier: between two barriers a  *)
(* CPU may show its accesses to the others in any order.  Three places     *)
(* matter, and in each both orders are behaviours of the model:            *)
(*   - a reader's first access to the protected data may come before it    *)
(*     reads completed and before its counter is incremented;              *)
(*   - its last access may come after its counter is decremented;          *)
(*   - what the updater did to the data may show after its first read of   *)
(*     completed.                                                          *)
(* sync_func() waits until all of these are settled that were under way.   *)
(***************************************************************************)
EXTENDS Integers, FiniteSets

CONSTANTS Readers,   \* tasks that read the protected data
          Updaters,  \* tasks that change it and call synchronize_srcu()
          NCPU,      \* number of possible CPUs
          IntRange,  \* completed is an int and wraps: the number of its values
          CntRange,  \* the same for the counters and their sums
          Null,
          Sharings   \* sets of tasks that may share the srcu_struct

ASSUME SRCUAssumption ==
  /\ IsFiniteSet(Readers) /\ IsFiniteSet(Updaters) /\ Readers \cap Updaters = {}
  /\ Null \notin Readers \cup Updaters
  /\ Sharings \subseteq SUBSET (Readers \cup Updaters)
  /\ NCPU \in Nat \ {0}
  /\ IntRange \in Nat /\ IntRange > 4 /\ IntRange % 2 = 0
  /\ CntRange \in Nat /\ Cardinality(Readers) < CntRange

CPUs  == 1 .. NCPU
Tasks == Readers \cup Updaters
Ints  == 0 .. IntRange - 1   \* the values of completed, as unsigned numbers
Cnts  == 0 .. CntRange - 1   \* the values of a counter

VARIABLES completed,  \* sp->completed
          mutex,      \* the task that holds sp->mutex, or Null
          c,          \* c[cpu][i]: per_cpu_ptr(sp->per_cpu_ref, cpu)->c[i]
          pc,
          idx,        \* idx[t]: the local variable, Null if not set
          using,      \* using[r]: the reader has a reference to the data
          waitfor,    \* waitfor[u]: references of before the update that are still in use
          pending,    \* what sync_func(), called by the holder of the mutex, still waits for
          cpu, sum,   \* locals of srcu_readers_active_idx(): the last CPU visited, the sum
          users       \* the tasks that use the srcu_struct; no step changes it

vars == <<completed, mutex, c, pc, idx, using, waitfor, pending, cpu, sum, users>>

Init ==
  /\ completed = 0
  /\ mutex = Null
  /\ c = [n \in CPUs |-> [i \in {0, 1} |-> 0]]
  /\ pc = [t \in Tasks |-> "idle"]
  /\ idx = [t \in Tasks |-> Null]
  /\ using = [r \in Readers |-> FALSE]
  /\ waitfor = [u \in Updaters |-> {}]
  /\ pending = {}
  /\ cpu = 0
  /\ sum = 0
  /\ users \in Sharings

Goto(t, from, to) == pc[t] = from /\ pc' = [pc EXCEPT ![t] = to]

Add(n, i, d) == c' = [c EXCEPT ![n][i] = (@ + d) % CntRange]

(* The accesses of t that sync_func() waits for are in order again. *)
Settled(t) == pending' = pending \ {t}

------------------------------------------------------------------------------
(* __srcu_read_lock(): preempt_disable() ... *)
srcu_read_lock(r) ==
  /\ Goto(r, "idle", "lock")
  /\ UNCHANGED <<completed, mutex, c, idx, using, waitfor, pending, cpu, sum>>

(* ... idx = sp->completed & 0x1 ... *)
ReadIdx(r) ==
  /\ Goto(r, "lock", "count")
  /\ idx' = [idx EXCEPT ![r] = completed % 2]
  /\ UNCHANGED <<completed, mutex, c, using, waitfor, pending, cpu, sum>>

(* ... and the increment, on the CPU n the reader is on, reaches memory. *)
Count(r, n) ==
  /\ Goto(r, "count", "section")
  /\ Add(n, idx[r], 1)
  /\ Settled(r)
  /\ UNCHANGED <<completed, mutex, idx, using, waitfor, cpu, sum>>

(* An access to the protected data; it may overtake the steps above and   *)
(* outlast the decrement below, but it begins before the decrement shows.  *)
Access(r) ==
  /\ pc[r] \in {"lock", "count", "section"}
  /\ ~using[r]
  /\ using' = [using EXCEPT ![r] = TRUE]
  /\ UNCHANGED <<completed, mutex, c, pc, idx, waitfor, pending, cpu, sum>>

EndAccess(r) ==
  /\ using[r]
  /\ using' = [using EXCEPT ![r] = FALSE]
  /\ waitfor' = [u \in Updaters |-> waitfor[u] \ {r}]
  /\ \/ /\ pc[r] = "section"
        /\ UNCHANGED <<pc, pending>>
     \/ /\ Goto(r, "unlock", "idle")
        /\ Settled(r)
  /\ UNCHANGED <<completed, mutex, c, idx, cpu, sum>>

(* __srcu_read_unlock() on CPU n, maybe not the one of the lock; the       *)
(* decrement may reach memory while the last access is still under way.    *)
srcu_read_unlock(r, n) ==
  /\ Goto(r, "section", IF using[r] THEN "unlock" ELSE "idle")
  /\ Add(n, idx[r], -1)
  /\ idx' = [idx EXCEPT ![r] = Null]
  /\ UNCHANGED <<completed, mutex, using, waitfor, pending, cpu, sum>>

------------------------------------------------------------------------------
(* The updater has changed the data, so that new accesses do not find the  *)
(* old version, and calls __synchronize_srcu().                            *)
Publish(u, from, to) ==
  /\ Goto(u, from, to)
  /\ waitfor' = [waitfor EXCEPT ![u] = {r \in Readers : using[r]}]
  /\ Settled(u)
  /\ UNCHANGED <<completed, mutex, c, idx, using, cpu, sum>>

(* idx = sp->completed *)
ReadCompleted(u, from, to) ==
  /\ Goto(u, from, to)
  /\ idx' = [idx EXCEPT ![u] = completed]
  /\ UNCHANGED <<completed, mutex, c, using, waitfor, pending, cpu, sum>>

(* The difference of two ints. *)
Minus(x, y) ==
  LET d == (x - y) % IntRange IN IF 2 * d >= IntRange THEN d - IntRange ELSE d

(* Variant with a bug: one advance of the counter is enough. *)
BuggySomeoneElse(u) == Minus(completed, idx[u]) >= 1

SomeoneElseDidIt(u) == Minus(completed, idx[u]) >= 2

(* mutex_lock(); is there nothing left to do?  (Only the holder changes    *)
(* completed.)                                                             *)
MutexLock(u) ==
  /\ pc[u] = "mutex_lock"
  /\ mutex = Null
  /\ \/ /\ SomeoneElseDidIt(u)
        /\ Goto(u, "mutex_lock", "done")
        /\ UNCHANGED mutex
     \/ /\ ~SomeoneElseDidIt(u)
        /\ Goto(u, "mutex_lock", "sync1")
        /\ mutex' = u
  /\ UNCHANGED <<completed, c, idx, using, waitfor, pending, cpu, sum>>

(* What is under way and out of order: sync_func() lasts until every CPU   *)
(* has left its sections with preemption off and has executed a barrier.   *)
Unsettled ==
  {r \in Readers : pc[r] \in {"lock", "count", "unlock"}}
  \cup {u \in Updaters : pc[u] = "publish"}

(* sync_func(): synchronize_sched() or synchronize_sched_expedited(). *)
sync_func(u, from, to) ==
  /\ Goto(u, from, to)
  /\ pending' = Unsettled
  /\ UNCHANGED <<completed, mutex, c, idx, using, waitfor, cpu, sum>>

(* The first one has returned: the flip. *)
Flip(u) ==
  /\ pending = {}
  /\ Goto(u, "sync1_wait", "sync2")
  /\ idx' = [idx EXCEPT ![u] = completed % 2]
  /\ completed' = (completed + 1) % IntRange
  /\ UNCHANGED <<mutex, c, using, waitfor, pending, cpu, sum>>

(* Variant with a bug: the second sync_func() is left out. *)
BuggyStartScan(u) ==
  /\ Goto(u, "sync2_wait", "scan")
  /\ UNCHANGED <<completed, mutex, c, idx, using, waitfor, pending, cpu, sum>>

(* The second one has returned. *)
StartScan(u) ==
  /\ pending = {}
  /\ Goto(u, "sync2_wait", "scan")
  /\ UNCHANGED <<completed, mutex, c, idx, using, waitfor, pending, cpu, sum>>

(* srcu_readers_active_idx(): visit one CPU after the other ... *)
Scan(u) ==
  /\ pc[u] = "scan"
  /\ cpu < NCPU
  /\ cpu' = cpu + 1
  /\ sum' = (sum + c[cpu + 1][idx[u]]) % CntRange
  /\ UNCHANGED <<completed, mutex, c, pc, idx, using, waitfor, pending>>

(* ... until the sum is zero; schedule_timeout_interruptible() in between. *)
ScanEnds(u) ==
  /\ cpu = NCPU
  /\ Goto(u, "scan", IF sum = 0 THEN "sync3" ELSE "scan")
  /\ cpu' = 0
  /\ sum' = 0
  /\ UNCHANGED <<completed, mutex, c, idx, using, waitfor, pending>>

(* Variant with a bug: the mutex is not unlocked. *)
BuggyMutexUnlock(u) ==
  /\ pending = {}
  /\ Goto(u, "sync3_wait", "done")
  /\ UNCHANGED <<completed, mutex, c, idx, using, waitfor, pending, cpu, sum>>

(* The third one has returned: mutex_unlock(). *)
MutexUnlock(u) ==
  /\ pending = {}
  /\ Goto(u, "sync3_wait", "done")
  /\ mutex' = Null
  /\ UNCHANGED <<completed, c, idx, using, waitfor, pending, cpu, sum>>

(* synchronize_srcu() has returned; the updater may free the old data. *)
Return(u) ==
  /\ Goto(u, "done", "idle")
  /\ idx' = [idx EXCEPT ![u] = Null]
  /\ waitfor' = [waitfor EXCEPT ![u] = {}]
  /\ UNCHANGED <<completed, mutex, c, using, pending, cpu, sum>>

------------------------------------------------------------------------------
ReadSide(r) ==
  \/ ReadIdx(r)
  \/ \E n \in CPUs : Count(r, n) \/ srcu_read_unlock(r, n)

synchronize_srcu(u) == Publish(u, "idle", "read") \/ ReadCompleted(u, "idle", "publish")

UpdateSide(u) ==
  \/ ReadCompleted(u, "read", "mutex_lock") \/ Publish(u, "publish", "mutex_lock")
  \/ MutexLock(u)
  \/ sync_func(u, "sync1", "sync1_wait") \/ Flip(u)
  \/ sync_func(u, "sync2", "sync2_wait") \/ StartScan(u) \/ Scan(u) \/ ScanEnds(u)
  \/ sync_func(u, "sync3", "sync3_wait") \/ MutexUnlock(u)
  \/ Return(u)

Next ==
  /\ \/ \E r \in users \cap Readers :
          srcu_read_lock(r) \/ Access(r) \/ EndAccess(r) \/ ReadSide(r)
     \/ \E u \in users \cap Updaters : synchronize_srcu(u) \/ UpdateSide(u)
  /\ UNCHANGED users

Spec == Init /\ [][Next]_vars

(* Tasks go on with what they began; read-side sections end. *)
Fairness ==
  /\ \A r \in Readers : /\ WF_vars(ReadSide(r) /\ UNCHANGED users)
                       /\ WF_vars(EndAccess(r) /\ UNCHANGED users)
  /\ \A u \in Updaters : WF_vars(UpdateSide(u) /\ UNCHANGED users)

FairSpec == Spec /\ Fairness

------------------------------------------------------------------------------
(* Every variable holds a value of its C type; idx selects one of the two  *)
(* counters of a CPU.                                                      *)
TypeOK ==
  /\ completed \in Ints
  /\ mutex \in Updaters \cup {Null}
  /\ c \in [CPUs -> [{0, 1} -> Cnts]]
  /\ DOMAIN pc = Tasks
  /\ \A r \in Readers : pc[r] \in {"idle", "lock", "count", "section", "unlock"}
  /\ \A u \in Updaters : pc[u] \in {"idle", "read", "publish", "mutex_lock", "sync1",
       "sync1_wait", "sync2", "sync2_wait", "scan", "sync3", "sync3_wait", "done"}
  /\ DOMAIN idx = Tasks
  /\ \A r \in Readers : idx[r] \in {0, 1, Null}
  /\ \A u \in Updaters : idx[u] \in Ints \cup {Null}
  /\ using \in [Readers -> BOOLEAN]
  /\ waitfor \in [Updaters -> SUBSET Readers]
  /\ pending \subseteq Tasks
  /\ cpu \in 0 .. NCPU
  /\ sum \in Cnts
  /\ users \in Sharings

(* synchronize_srcu() waits for "prior SRCU read-side critical-section     *)
(* completion": when it returns, by the early exit too, no reader uses     *)
(* what it found before the update, whatever the CPUs reordered.           *)
GracePeriod == \A u \in Updaters : pc[u] = "done" => waitfor[u] = {}

(* "all srcu_read_lock() calls using the old counters have completed" when *)
(* the sum is taken: counters that are read one by one while they change   *)
(* give the right answer because they only go down.                        *)
OldRankOnlyDrains ==
  \A u \in Updaters, r \in Readers :
    pc[u] \in {"scan", "sync3", "sync3_wait"} /\ pc[r] = "count" => idx[r] # idx[u]

(* A counter grows or shrinks without bound when readers change CPU; the   *)
(* counters of a rank still add up to its readers.                         *)
Total(i) ==
  LET upto[n \in 0 .. NCPU] == IF n = 0 THEN 0 ELSE (upto[n - 1] + c[n][i]) % CntRange
  IN  upto[NCPU]

CountersAddUp ==
  \A i \in {0, 1} : Total(i) = Cardinality({r \in Readers : pc[r] = "section" /\ idx[r] = i})

(* The grace period of the updater that holds the mutex ends although new  *)
(* readers keep coming, as they count in the other rank.                   *)
GracePeriodEnds == \A u \in Updaters : mutex = u ~> mutex # u
==============================================================================
