--------------------------- MODULE WorkqueueProofs ---------------------------
(***************************************************************************)
(* Workqueues, for any number of CPUs, work items and tasks.  As long as   *)
(* the two reads of flush_work() and of try_to_grab_pending() have fooled  *)
(* nobody, the PENDING bit of a work item has one owner while it is set,   *)
(* no BUG_ON() fires, the synchronous cancels and the flushes wait for     *)
(* what they have to wait for, and no worker goes before its list is       *)
(* empty.  And they fool nobody unless queue_delayed_work() is called.     *)
(***************************************************************************)
EXTENDS Workqueue, KListProofs, FiniteSetTheorems, TLAPS

------------------------------------------------------------------------------
(* The inductive invariant. *)

Due == [cpu : CPUs, phase : {"queued", "running"}, work : Works, own : BOOLEAN]

Label == TaskLabel \cup WorkerLabel \cup TimerLabel \cup HotplugLabel

(* Every variable is a function of the right kind; where the actors are is *)
(* the business of Locals.                                                 *)
Types ==
  /\ pending \in [Works -> BOOLEAN]
  /\ data \in [Works -> CPUs \cup {Null}]
  /\ worklist \in [CPUs -> Seq(Works \cup Flushers)]
  /\ current_work \in [CPUs -> Works \cup Flushers \cup {Null}]
  /\ lock \in [CPUs -> Actors \cup {Null}]
  /\ pc \in [Actors -> Label]
  /\ next \in [Actors -> Label]
  /\ work \in [Actors -> Works \cup {Null}]
  /\ cpu \in [Actors -> CPUs \cup {0}]
  /\ done \in [Flushers -> BOOLEAN]
  /\ tstate \in [CPUs -> TaskState]
  /\ should_stop \in [CPUs -> BOOLEAN]
  /\ online \in SUBSET CPUs
  /\ populated \in SUBSET CPUs
  /\ program \in Programs
  /\ due \in [Tasks -> SUBSET Due]

(* What next, work and cpu are at the program point p of a task, of a      *)
(* worker, of the timer of w and of Hotplug.                               *)
TaskAt(p, n, x, k) ==
  \/ p = "idle" /\ n = "idle" /\ x = Null /\ k = 0
  \/ p \in {"queue", "insert"} /\ n \in {"idle", "flush_work"} /\ x \in Works /\ k \in CPUs
  \/ p \in {"add_timer", "flush_lock", "flush_data", "work_wait"} /\ n = "idle" /\ x \in Works /\ k \in CPUs
  \/ p = "flush_scan" /\ n = "idle" /\ x = Null /\ k \in CPUs \cup {0}
  \/ p = "flush_wait" /\ n = "idle" /\ x = Null /\ k \in CPUs
  \/ p \in {"flush_work", "clear_only"} /\ n = "idle" /\ x \in Works /\ k = 0
  \/ p \in {"del_timer", "grab"} /\ n \in {"del_timer", "grab"} /\ x \in Works /\ k = 0
  \/ p \in {"steal", "steal_data"} /\ n \in {"del_timer", "grab"} /\ x \in Works /\ k \in CPUs
  \/ /\ n \in {"del_timer", "grab", "clear_pending"} /\ x \in Works
     /\ \/ p = "wait_on_work" /\ k = 0
        \/ p = "wait_scan" /\ k \in CPUs \cup {0}
        \/ p = "wait_wait" /\ k \in CPUs
  \/ p = "clear_pending" /\ n = "clear_pending" /\ x \in Works /\ k = 0

WorkerAt(p, n, x, k) ==
  \/ p \in {"queue", "insert", "add_timer"} /\ n = "run" /\ x \in Works /\ k \in CPUs
  \/ /\ p \in {"prepare", "test", "schedule", "finish", "exited", "no thread", "created", "run",
               "clear", "func"}
     /\ n = "idle" /\ x = Null /\ k = 0

TimerAt(w, p, n, x, k) ==
  \/ p \in {"idle", "armed"} /\ n = "idle" /\ x = Null /\ k = 0
  \/ p \in {"queue", "insert"} /\ n = "idle" /\ x = w /\ k \in CPUs

HotplugAt(p, n, x, k) ==
  /\ x = Null
  /\ \/ p = "idle" /\ n = "idle" /\ k = 0
     \/ /\ p \in {"cleanup", "cleanup_wait", "kthread_stop", "wait_exited"}
        /\ n \in {"unpopulate", "destroy_scan"} /\ k \in CPUs
     \/ /\ p \in {"unpopulate", "create", "bring_up", "cpu_online"}
        /\ n = "unpopulate" /\ k \in CPUs
     \/ p = "destroy_scan" /\ n = "destroy_scan" /\ k \in CPUs \cup {0}
     \/ p = "freed" /\ n = "destroy_scan" /\ k = 0

At(a) ==
  /\ a \in Tasks => TaskAt(pc[a], next[a], work[a], cpu[a])
  /\ a \in CPUs => WorkerAt(pc[a], next[a], work[a], cpu[a])
  /\ a \in Works => TimerAt(a, pc[a], next[a], work[a], cpu[a])
  /\ a = Hotplug => HotplugAt(pc[a], next[a], work[a], cpu[a])

Locals == \A a \in Actors : At(a)

(* The work item whose PENDING bit a holds in its own hands, or Null. *)
Hand(a) ==
  IF \/ pc[a] \in {"queue", "insert", "add_timer", "clear_pending", "clear_only"}
     \/ next[a] = "clear_pending"
  THEN work[a] ELSE Null

(* What the worker of c has taken and is about to run, or Null. *)
Clearing(c) == IF pc[c] = "clear" THEN current_work[c] ELSE Null

(* The PENDING bit of w is held by a in the way kind says, and by nobody   *)
(* else and in no other way.                                               *)
Owned(w, kind, a) ==
  /\ pending[w] <=> kind # "none"
  /\ kind \in {"list", "clear"} => a \in CPUs
  /\ \A c \in CPUs : w \in ListEntries(worklist[c]) <=> kind = "list" /\ a = c
  /\ pc[w] = "armed" <=> kind = "timer"
  /\ \A c \in CPUs : Clearing(c) = w <=> kind = "clear" /\ a = c
  /\ \A b \in Actors : Hand(b) = w <=> kind = "actor" /\ a = b

PendingOwned ==
  \A w \in Works : \E kind \in {"none", "list", "timer", "clear", "actor"}, a \in Actors :
    Owned(w, kind, a)

(* The CPU on which f waits for its barrier, or 0. *)
WaitsOn(f) ==
  IF pc[f] \in {"flush_wait", "work_wait", "wait_wait", "cleanup_wait"} THEN cpu[f] ELSE 0

(* A barrier is linked once, or is what the worker is about to run, while  *)
(* its flusher waits for it on that CPU.                                   *)
BarrierOK(f) ==
  \A c \in CPUs :
    /\ f \in ListEntries(worklist[c]) => WaitsOn(f) = c /\ ~done[f]
    /\ Clearing(c) = f => WaitsOn(f) = c /\ ~done[f] /\ f \notin ListEntries(worklist[c])

Barriers ==
  /\ \A c \in CPUs : ListOK(worklist[c])
  /\ \A f \in Flushers : BarrierOK(f)

(* The worker of c is not in run_workqueue(). *)
Asleep(c) ==
  pc[c] \in {"prepare", "test", "schedule", "finish", "exited", "no thread", "created"}

(* work->data names the CPU a work item is queued on or was taken from     *)
(* last, and is never reset while its function runs.                       *)
DataIsRight ==
  /\ \A c \in CPUs : Asleep(c) => current_work[c] = Null
  /\ \A c \in CPUs : current_work[c] \in Works => data[current_work[c]] \in CPUs
  /\ \A w \in Works, c \in CPUs : w \in ListEntries(worklist[c]) => data[w] = c
  /\ \A w \in Works, c \in CPUs : Clearing(c) = w => data[w] = c
  /\ \A a \in Actors : pc[a] = "insert" => data[work[a]] = cpu[a]

(* Whether c has a worker. *)
Thread(c) == IF pc[c] \in {"exited", "no thread", "created"} THEN pc[c] ELSE "runs"

(* destroy_workqueue() is done with c. *)
Finished(c) ==
  \/ c < cpu[Hotplug]
  \/ c = cpu[Hotplug] /\ pc[Hotplug] = "destroy_scan"
  \/ pc[Hotplug] = "freed"

(* Who works for c. *)
ThreadOK(c) ==
  /\ c \in online => c \in populated
  /\ c \notin populated => Thread(c) = "no thread"
  /\ c \in populated /\ c \notin online =>
       c = cpu[Hotplug] /\ next[Hotplug] = "unpopulate" /\ pc[Hotplug] # "cpu_online"
  /\ c \in online /\ Thread(c) = "no thread" => Destroying /\ Finished(c)
  /\ c \in online /\ Destroying /\ Finished(c) => Thread(c) = "no thread"
  /\ Thread(c) = "exited" => c = cpu[Hotplug] /\ pc[Hotplug] = "wait_exited"
  /\ Thread(c) = "created" => c = cpu[Hotplug] /\ pc[Hotplug] \in {"bring_up", "cpu_online"}
  /\ should_stop[c] => \/ Thread(c) = "no thread"
                       \/ c = cpu[Hotplug] /\ pc[Hotplug] = "wait_exited"

(* What Hotplug knows about the CPU it deals with. *)
HotplugOK ==
  /\ next[Hotplug] = "unpopulate" =>
       /\ cpu[Hotplug] \in online <=> pc[Hotplug] = "cpu_online"
       /\ cpu[Hotplug] \in populated
       /\ pc[Hotplug] \in {"unpopulate", "create"} => Thread(cpu[Hotplug]) = "no thread"
       /\ pc[Hotplug] \in {"bring_up", "cpu_online"} => Thread(cpu[Hotplug]) = "created"
  /\ Destroying /\ pc[Hotplug] \notin {"destroy_scan", "freed"} => cpu[Hotplug] \in online

(* Nobody queues anything while the workqueue is destroyed, nor on a CPU   *)
(* that is going away.                                                     *)
Settled ==
  /\ Destroying => /\ \A a \in Tasks \cup Works : pc[a] = "idle"
                   /\ \A c \in CPUs : pc[c] \notin {"queue", "insert", "add_timer"}
  /\ \A a \in Actors : pc[a] \in {"queue", "insert"} => cpu[a] \in online

Threads == HotplugOK /\ Settled /\ \A c \in CPUs : ThreadOK(c)

(* The worker of the CPU that goes away was flushed: when it sleeps next   *)
(* its list is empty for good.                                             *)
Drained ==
  \/ pc[Hotplug] \in {"kthread_stop", "wait_exited"}
  \/ pc[Hotplug] = "cleanup_wait" /\ done[Hotplug]

MustBeEmpty(c) ==
  \/ Thread(c) \in {"exited", "no thread"}
  \/ Thread(c) = "created" /\ c \notin online
  \/ Drained /\ c = cpu[Hotplug] /\ Asleep(c)

EmptyOK(c) == MustBeEmpty(c) => worklist[c] = <<>>

ListsAreEmpty == \A c \in CPUs : EmptyOK(c)

(* What a task that owns the PENDING bit and waits for the work item knows *)
(* of the CPUs it visited.                                                 *)
CancelOK(t) ==
  next[t] = "clear_pending" =>
    \A c \in CPUs : current_work[c] = work[t] =>
      /\ pc[t] # "clear_pending"
      /\ c >= cpu[t]
      /\ c = cpu[t] => pc[t] = "wait_wait" /\ t \in ListEntries(worklist[c])

Cancelled == \A t \in Tasks : CancelOK(t)

(* An instance that is due is where due says it is. *)
DueThere(d) ==
  IF d.phase = "queued" THEN d.work \in ListEntries(worklist[d.cpu])
                        ELSE current_work[d.cpu] = d.work

DueIsThere == \A t \in Tasks : \A d \in due[t] : DueThere(d)

(* The barrier of t has not run, and is behind d. *)
Behind(t, d) ==
  /\ t \in ListEntries(worklist[d.cpu])
  /\ d.phase = "queued" => Ahead(worklist[d.cpu], d.work, t)

(* A work item that is on a list or about to be is on that of k. *)
AtMost(w, k) ==
  (Listed(w) \/ \E a \in Actors : pc[a] = "insert" /\ work[a] = w) => data[w] = k

(* What a task that flushes still has to wait for is ahead of its barrier, *)
(* or is on a CPU that it is going to visit.                               *)
DueOK(t) ==
  \A d \in due[t] : d.own =>
    \/ pc[t] = "flush_scan" /\ d.cpu > cpu[t]
    \/ pc[t] = "flush_wait" /\ d.cpu > cpu[t]
    \/ pc[t] \in {"flush_wait", "work_wait"} /\ d.cpu = cpu[t] /\ Behind(t, d)
    \/ /\ pc[t] \in {"flush_lock", "flush_data"} /\ d.cpu = cpu[t] /\ d.work = work[t]
       /\ AtMost(work[t], cpu[t])

DueIsAhead == \A t \in Tasks : DueOK(t)

(* Who holds cwq->lock between two steps. *)
Holds(a) == pc[a] \in {"insert", "steal_data", "flush_data"}

Locked == \A a \in Actors : Holds(a) => lock[cpu[a]] = a

(* Somebody may start a work item with a delay. *)
Delays == \E a \in Tasks \cup CPUs : May(a, "queue_delayed_work")

(* Nobody is at queue_delayed_work_on() if no such call is made. *)
Timely == ~Delays => \A a \in Actors : pc[a] # "add_timer"

(* What a task between its two reads relies on: the work item it holds the *)
(* lock for does not leave the list.  For flush_work() this is so while    *)
(* there is something to wait for, and for both if nothing is delayed.     *)
PinnedOK(t) ==
  (/\ pc[t] \in {"steal_data", "flush_data"}
   /\ \/ ~Delays /\ data[work[t]] = cpu[t]
      \/ \E d \in due[t] : d.own)
  => work[t] \in ListEntries(worklist[cpu[t]])

Pinned == \A t \in Tasks : PinnedOK(t)

(* All this is so as long as nobody has been fooled. *)
Sound ==
  /\ Types /\ Locals /\ PendingOwned /\ Barriers /\ DataIsRight /\ Threads /\ ListsAreEmpty
  /\ Cancelled /\ DueIsThere /\ DueIsAhead /\ Locked /\ Timely /\ Pinned

IInv ==
  /\ fooled \in BOOLEAN
  /\ fooled => TypeOK /\ Delays
  /\ ~fooled => Sound

(* A step that fools nobody. *)
Follows == Next /\ ~fooled /\ ~fooled'

------------------------------------------------------------------------------
(* The steps of the specification in a common form: who moves where, under *)
(* which condition, and what becomes of the shared variables.  The states  *)
(* of the workers' tasks play no role in what follows.                     *)

(* Who may queue work items or start timers. *)
Queuers == Tasks \cup CPUs \cup Works

Move(a, p, n, x, k) ==
  /\ pc' = [pc EXCEPT ![a] = p]
  /\ next' = [next EXCEPT ![a] = n]
  /\ work' = [work EXCEPT ![a] = x]
  /\ cpu' = [cpu EXCEPT ![a] = k]

(* The actor b goes to q at the same time. *)
MoveBoth(a, p, n, x, k, b, q) ==
  /\ pc' = [pc EXCEPT ![a] = p, ![b] = q]
  /\ next' = [next EXCEPT ![a] = n]
  /\ work' = [work EXCEPT ![a] = x]
  /\ cpu' = [cpu EXCEPT ![a] = k]

lists  == <<worklist, current_work, due>>
global == <<should_stop, online, populated>>

Quiet(a, p, n, x, k) ==
  Move(a, p, n, x, k) /\ UNCHANGED <<pending, data, lists, done, global, lock>>

(* Tasks. *)
FlushStarts(t) ==
  /\ pc[t] = "idle"
  /\ Move(t, "flush_scan", "idle", Null, 0)
  /\ due' = [due EXCEPT ![t] = Outstanding(Works, CPUs)]
  /\ UNCHANGED <<pending, data, worklist, current_work, done, global, lock>>

FlushVisits(t, c) ==
  /\ pc[t] = "flush_scan" /\ Visits(t, c) /\ ~Active(c)
  /\ Quiet(t, "flush_scan", "idle", Null, c)

FlushEnds(t) ==
  /\ pc[t] = "flush_scan" /\ Visited(t)
  /\ Quiet(t, "idle", "idle", Null, 0)

FlushNever(t) ==
  /\ pc[t] \in {"idle", "flush_work"}
  /\ Quiet(t, "idle", "idle", Null, 0)

FlushReads(t, w) ==
  /\ pc[t] \in {"idle", "flush_work"} /\ data[w] # Null
  /\ Move(t, "flush_lock", "idle", w, data[w])
  /\ due' = [due EXCEPT ![t] = Outstanding({w}, {data[w]})]
  /\ UNCHANGED <<pending, data, worklist, current_work, done, global, lock>>

LockLeaves(t) ==
  /\ \/ /\ pc[t] = "flush_lock" /\ ~Listed(work[t]) /\ current_work[cpu[t]] # work[t]
        /\ lock' = lock
     \/ /\ pc[t] = "flush_data" /\ data[work[t]] # cpu[t]
        /\ lock' = [lock EXCEPT ![cpu[t]] = Null]
  /\ Move(t, "idle", "idle", Null, 0)
  /\ UNCHANGED <<pending, data, lists, done, global>>

LockLooks(t) ==
  /\ pc[t] = "flush_lock" /\ Listed(work[t]) /\ lock[cpu[t]] = Null
  /\ lock' = [lock EXCEPT ![cpu[t]] = t]
  /\ Move(t, "flush_data", "idle", work[t], cpu[t])
  /\ UNCHANGED <<pending, data, lists, done, global>>

CancelStarts(t, w, loop) == pc[t] = "idle" /\ Quiet(t, loop, loop, w, 0)

TimerMissed(t) ==
  pc[t] = "del_timer" /\ Quiet(t, "grab", next[t], work[t], 0)

GrabFails(t) ==
  pc[t] = "grab" /\ Quiet(t, "wait_on_work", next[t], work[t], 0)

GrabLooks(t) ==
  /\ pc[t] = "grab" /\ data[work[t]] # Null
  /\ Quiet(t, "steal", next[t], work[t], data[work[t]])

StealFails(t) ==
  /\ \/ pc[t] = "steal" /\ lock' = lock
     \/ pc[t] = "steal_data" /\ lock' = [lock EXCEPT ![cpu[t]] = Null]
  /\ Move(t, "wait_on_work", next[t], work[t], 0)
  /\ UNCHANGED <<pending, data, lists, done, global>>

StealLooks(t) ==
  /\ pc[t] = "steal" /\ Listed(work[t]) /\ lock[cpu[t]] = Null
  /\ lock' = [lock EXCEPT ![cpu[t]] = t]
  /\ Move(t, "steal_data", next[t], work[t], cpu[t])
  /\ UNCHANGED <<pending, data, lists, done, global>>

WaitSkips(t) ==
  /\ pc[t] = "wait_on_work" /\ data[work[t]] = Null
  /\ Quiet(t, next[t], next[t], work[t], 0)

WaitStarts(t) ==
  pc[t] = "wait_on_work" /\ Quiet(t, "wait_scan", next[t], work[t], 0)

WaitVisits(t, c) ==
  /\ pc[t] = "wait_scan" /\ Visits(t, c) /\ current_work[c] # work[t]
  /\ Quiet(t, "wait_scan", next[t], work[t], c)

WaitEnds(t) ==
  /\ pc[t] = "wait_scan" /\ Visited(t)
  /\ Quiet(t, next[t], next[t], work[t], 0)

(* The completion of a barrier. *)
Waited(t) ==
  /\ done[t]
  /\ done' = [done EXCEPT ![t] = FALSE]
  /\ UNCHANGED <<pending, data, lists, global, lock>>

FlushWaited(t) ==
  pc[t] = "flush_wait" /\ Move(t, "flush_scan", "idle", Null, cpu[t]) /\ Waited(t)

WorkWaited(t) ==
  pc[t] = "work_wait" /\ Move(t, "idle", "idle", Null, 0) /\ Waited(t)

WaitWaited(t) ==
  pc[t] = "wait_wait" /\ Move(t, "wait_scan", next[t], work[t], cpu[t]) /\ Waited(t)

(* A barrier is inserted on c, whose list becomes l. *)
Barrier(f, c, l) ==
  /\ worklist' = [worklist EXCEPT ![c] = l]
  /\ done' = [done EXCEPT ![f] = FALSE]
  /\ UNCHANGED <<pending, data, current_work, due, global>>

FlushInserts(t, c) ==
  /\ pc[t] = "flush_scan" /\ Visits(t, c) /\ Active(c)
  /\ Move(t, "flush_wait", "idle", Null, c)
  /\ Barrier(t, c, list_add_tail(worklist[c], t))
  /\ lock' = lock

LockBehind(t, c) ==
  /\ pc[t] = "flush_data" /\ cpu[t] = c /\ work[t] \in ListEntries(worklist[c]) /\ data[work[t]] = c
  /\ lock' = [lock EXCEPT ![c] = Null]
  /\ Move(t, "work_wait", "idle", work[t], c)
  /\ Barrier(t, c, AddBehind(worklist[c], work[t], t))

LockFirst(t, c) ==
  /\ pc[t] = "flush_lock" /\ cpu[t] = c /\ ~Listed(work[t]) /\ current_work[c] = work[t]
  /\ Move(t, "work_wait", "idle", work[t], c)
  /\ Barrier(t, c, AddFirst(worklist[c], t))
  /\ lock' = lock

WaitInserts(t, c) ==
  /\ pc[t] = "wait_scan" /\ Visits(t, c) /\ current_work[c] = work[t]
  /\ Move(t, "wait_wait", next[t], work[t], c)
  /\ Barrier(t, c, AddFirst(worklist[c], t))
  /\ lock' = lock

(* The PENDING bit changes hands. *)
Takes(a, w, k, p, from, n) ==
  /\ ~Destroying /\ pc[a] = from /\ ~pending[w]
  /\ p = "add_timer" => May(a, "queue_delayed_work")
  /\ Move(a, p, n, w, k)
  /\ pending' = [pending EXCEPT ![w] = TRUE]
  /\ UNCHANGED <<data, lists, done, global, lock>>

Grabs(t) ==
  /\ pc[t] = "grab" /\ ~pending[work[t]]
  /\ Move(t, "wait_on_work", "clear_pending", work[t], 0)
  /\ pending' = [pending EXCEPT ![work[t]] = TRUE]
  /\ UNCHANGED <<data, lists, done, global, lock>>

Steals(t) ==
  /\ pc[t] = "steal_data" /\ work[t] \in ListEntries(worklist[cpu[t]])
  /\ lock' = [lock EXCEPT ![cpu[t]] = Null]
  /\ Move(t, "wait_on_work", "clear_pending", work[t], 0)
  /\ worklist' = [c \in CPUs |-> IF work[t] \in ListEntries(worklist[c])
                                 THEN list_del(worklist[c], work[t]) ELSE worklist[c]]
  /\ due' = [u \in Tasks |-> {d \in due[u] : ~(d.work = work[t] /\ d.phase = "queued")}]
  /\ UNCHANGED <<pending, data, current_work, done, global>>

Drops(t) ==
  /\ pc[t] \in {"clear_pending", "clear_only"}
  /\ Move(t, "idle", "idle", Null, 0)
  /\ pending' = [pending EXCEPT ![work[t]] = FALSE]
  /\ UNCHANGED <<data, lists, done, global, lock>>

FlushQueues(t, w, c) ==
  /\ ~Destroying /\ pc[t] = "idle" /\ pc[w] = "armed"
  /\ MoveBoth(t, "queue", "flush_work", w, c, w, "idle")
  /\ UNCHANGED <<pending, data, lists, done, global, lock>>

CancelsTimer(t, w) ==
  /\ pc[t] = "idle" /\ pc[w] = "armed"
  /\ MoveBoth(t, "clear_only", "idle", w, 0, w, "idle")
  /\ UNCHANGED <<pending, data, lists, done, global, lock>>

DeletesTimer(t) ==
  /\ pc[t] = "del_timer" /\ pc[work[t]] = "armed"
  /\ MoveBoth(t, "wait_on_work", "clear_pending", work[t], 0, work[t], "idle")
  /\ UNCHANGED <<pending, data, lists, done, global, lock>>

AddsTimer(a) ==
  /\ pc[a] = "add_timer"
  /\ MoveBoth(a, next[a], "idle", Null, 0, work[a], "armed")
  /\ data' = [data EXCEPT ![work[a]] = cpu[a]]
  /\ UNCHANGED <<pending, lists, done, global, lock>>

SetsData(a) ==
  /\ pc[a] = "queue" /\ lock[cpu[a]] = Null
  /\ lock' = [lock EXCEPT ![cpu[a]] = a]
  /\ Move(a, "insert", next[a], work[a], cpu[a])
  /\ data' = [data EXCEPT ![work[a]] = cpu[a]]
  /\ due' = Excused(work[a])
  /\ UNCHANGED <<pending, worklist, current_work, done, global>>

Inserts(a) ==
  /\ pc[a] = "insert"
  /\ lock' = [lock EXCEPT ![cpu[a]] = Null]
  /\ Move(a, next[a], "idle", IF next[a] = "flush_work" THEN work[a] ELSE Null, 0)
  /\ worklist' = [worklist EXCEPT ![cpu[a]] = list_add_tail(worklist[cpu[a]], work[a])]
  /\ UNCHANGED <<pending, data, current_work, due, done, global>>

TimerFires(w, c) ==
  /\ pc[w] = "armed"
  /\ Move(w, "queue", "idle", w, c)
  /\ UNCHANGED <<pending, data, lists, done, global, lock>>

(* Workers. *)
Sleeps(c, p) ==
  pc[c] \in {"prepare", "test", "schedule"} /\ Quiet(c, p, "idle", Null, 0)

Runs(c) ==
  pc[c] = "finish" /\ Quiet(c, "run", "idle", Null, 0)

Exits(c) ==
  pc[c] = "finish" /\ should_stop[c] /\ Quiet(c, "exited", "idle", Null, 0)

FuncEnds(c) ==
  pc[c] = "func" /\ Quiet(c, "run", "idle", Null, 0)

NoMoreWork(c) ==
  /\ pc[c] = "run" /\ worklist[c] = <<>>
  /\ Move(c, "prepare", "idle", Null, 0)
  /\ current_work' = [current_work EXCEPT ![c] = Null]
  /\ due' = [t \in Tasks |-> Progress(c, due[t])]
  /\ UNCHANGED <<pending, data, worklist, done, global, lock>>

TakesWork(c) ==
  /\ pc[c] = "run" /\ worklist[c] # <<>> /\ lock[c] = Null
  /\ Move(c, "clear", "idle", Null, 0)
  /\ current_work' = [current_work EXCEPT ![c] = Head(worklist[c])]
  /\ worklist' = [worklist EXCEPT ![c] = Tail(worklist[c])]
  /\ due' = [t \in Tasks |-> Progress(c, due[t])]
  /\ UNCHANGED <<pending, data, done, global, lock>>

ClearsPending(c) ==
  /\ pc[c] = "clear" /\ current_work[c] \in Works
  /\ Move(c, "func", "idle", Null, 0)
  /\ pending' = [pending EXCEPT ![current_work[c]] = FALSE]
  /\ UNCHANGED <<data, lists, done, global, lock>>

RunsBarrier(c) ==
  /\ pc[c] = "clear" /\ current_work[c] \in Flushers
  /\ Move(c, "run", "idle", Null, 0)
  /\ done' = [done EXCEPT ![current_work[c]] = TRUE]
  /\ UNCHANGED <<pending, data, lists, global, lock>>

(* Hotplug; h is the CPU it deals with. *)
GoesDown(c) ==
  /\ pc[Hotplug] = "idle" /\ c \in online
  /\ \A a \in Actors : pc[a] \in {"queue", "insert"} => cpu[a] # c
  /\ Move(Hotplug, "cleanup", "unpopulate", Null, c)
  /\ online' = online \ {c}
  /\ UNCHANGED <<pending, data, lists, done, should_stop, populated, lock>>

GoesUp(c) ==
  /\ pc[Hotplug] = "idle" /\ c \notin online
  /\ Move(Hotplug, "create", "unpopulate", Null, c)
  /\ populated' = populated \cup {c}
  /\ UNCHANGED <<pending, data, lists, done, should_stop, online, lock>>

Destroys ==
  /\ \A a \in Tasks \cup Works : pc[a] = "idle"
  /\ \A c \in CPUs : pc[c] \notin {"queue", "insert", "add_timer"}
  /\ pc[Hotplug] = "idle" /\ Quiet(Hotplug, "destroy_scan", "destroy_scan", Null, 0)

SkipsFlush(h) ==
  /\ pc[Hotplug] = "cleanup" /\ cpu[Hotplug] = h /\ ~Active(h)
  /\ Quiet(Hotplug, "kthread_stop", next[Hotplug], Null, h)

CleanupInserts(h) ==
  /\ pc[Hotplug] = "cleanup" /\ cpu[Hotplug] = h /\ Active(h)
  /\ Move(Hotplug, "cleanup_wait", next[Hotplug], Null, h)
  /\ Barrier(Hotplug, h, list_add_tail(worklist[h], Hotplug))
  /\ lock' = lock

CleanupWaited(h) ==
  /\ pc[Hotplug] = "cleanup_wait" /\ cpu[Hotplug] = h
  /\ Move(Hotplug, "kthread_stop", next[Hotplug], Null, h) /\ Waited(Hotplug)

Stops(h) ==
  /\ pc[Hotplug] = "kthread_stop" /\ cpu[Hotplug] = h
  /\ Move(Hotplug, "wait_exited", next[Hotplug], Null, h)
  /\ should_stop' = [should_stop EXCEPT ![h] = TRUE]
  /\ UNCHANGED <<pending, data, lists, done, online, populated, lock>>

SeesExit(h) ==
  /\ pc[Hotplug] = "wait_exited" /\ cpu[Hotplug] = h /\ pc[h] = "exited"
  /\ MoveBoth(Hotplug, next[Hotplug], next[Hotplug], Null, h, h, "no thread")
  /\ UNCHANGED <<pending, data, lists, done, global, lock>>

Unpopulates(h) ==
  /\ pc[Hotplug] = "unpopulate" /\ cpu[Hotplug] = h
  /\ Move(Hotplug, "idle", "idle", Null, 0)
  /\ populated' = populated \ {h}
  /\ UNCHANGED <<pending, data, lists, done, should_stop, online, lock>>

Creates(h) ==
  /\ pc[Hotplug] = "create" /\ cpu[Hotplug] = h
  /\ MoveBoth(Hotplug, "bring_up", "unpopulate", Null, h, h, "created")
  /\ should_stop' = [should_stop EXCEPT ![h] = FALSE]
  /\ UNCHANGED <<pending, data, lists, done, online, populated, lock>>

CreateFails(h) ==
  /\ pc[Hotplug] = "create" /\ cpu[Hotplug] = h
  /\ Quiet(Hotplug, "unpopulate", "unpopulate", Null, h)

ComesUp(h) ==
  /\ pc[Hotplug] = "bring_up" /\ cpu[Hotplug] = h
  /\ Move(Hotplug, "cpu_online", "unpopulate", Null, h)
  /\ online' = online \cup {h}
  /\ UNCHANGED <<pending, data, lists, done, should_stop, populated, lock>>

UpCanceled(h) ==
  /\ pc[Hotplug] = "bring_up" /\ cpu[Hotplug] = h
  /\ MoveBoth(Hotplug, "cleanup", "unpopulate", Null, h, h, "prepare")
  /\ UNCHANGED <<pending, data, lists, done, global, lock>>

StartsThread(h) ==
  /\ pc[Hotplug] = "cpu_online" /\ cpu[Hotplug] = h
  /\ MoveBoth(Hotplug, "idle", "idle", Null, 0, h, "prepare")
  /\ UNCHANGED <<pending, data, lists, done, global, lock>>

DestroyVisits(c) ==
  /\ pc[Hotplug] = "destroy_scan" /\ Visits(Hotplug, c)
  /\ Quiet(Hotplug, "cleanup", "destroy_scan", Null, c)

DestroyEnds ==
  /\ pc[Hotplug] = "destroy_scan" /\ Visited(Hotplug)
  /\ Quiet(Hotplug, "freed", "destroy_scan", Null, 0)

------------------------------------------------------------------------------
(* The CPUs, the work items, the tasks, Hotplug and Null are told apart. *)
LEMMA Actor ==
  /\ \A t \in Tasks : /\ t \in Actors /\ t \in Flushers /\ t \in Queuers
                      /\ t \notin CPUs /\ t \notin Works /\ t # Hotplug /\ t # Null
  /\ \A c \in CPUs : /\ c \in Actors /\ c \in Queuers /\ c \in Nat \ {0}
                     /\ c \notin Tasks /\ c \notin Works /\ c \notin Flushers
                     /\ c # Hotplug /\ c # Null
  /\ \A w \in Works : /\ w \in Actors /\ w \in Queuers
                      /\ w \notin CPUs /\ w \notin Tasks /\ w \notin Flushers
                      /\ w # Hotplug /\ w # Null
  /\ Hotplug \in Actors /\ Hotplug \in Flushers
  /\ Hotplug \notin CPUs /\ Hotplug \notin Works /\ Hotplug \notin Tasks /\ Hotplug # Null
  /\ Hotplug \notin Queuers
  /\ \A a \in Queuers : a \in Actors /\ a # Hotplug
  /\ Null \notin CPUs /\ Null \notin Works /\ Null \notin Flushers
BY WorkqueueAssumption DEF Actors, Flushers, Queuers

(* Storing what is there changes nothing. *)
LEMMA SameValue ==
  ASSUME NEW S, NEW T, NEW f \in [S -> T], NEW a \in S, NEW v, f[a] = v
  PROVE  [f EXCEPT ![a] = v] = f
OBVIOUS

(* What the locals of an actor are at each of its program points. *)
LEMMA LocalFacts ==
  ASSUME Locals
  PROVE  /\ \A t \in Tasks : TaskAt(pc[t], next[t], work[t], cpu[t])
         /\ \A c \in CPUs : WorkerAt(pc[c], next[c], work[c], cpu[c])
         /\ \A w \in Works : TimerAt(w, pc[w], next[w], work[w], cpu[w])
         /\ HotplugAt(pc[Hotplug], next[Hotplug], work[Hotplug], cpu[Hotplug])
BY Actor DEF Locals, At

(* Where an actor is when it has something in its hands to queue. *)
LEMMA QueuerFacts ==
  ASSUME Types, Locals, NEW a \in Queuers, pc[a] \in {"queue", "insert", "add_timer"}
  PROVE  /\ work[a] \in Works /\ cpu[a] \in CPUs /\ a # Hotplug /\ a \in Actors
         /\ next[a] \in {"idle", "flush_work", "run"}
<1>1. CASE a \in Tasks
  <2>1. TaskAt(pc[a], next[a], work[a], cpu[a])
    BY <1>1, LocalFacts
  <2> QED BY <1>1, <2>1, Actor DEF TaskAt
<1>2. CASE a \in CPUs
  <2>1. WorkerAt(pc[a], next[a], work[a], cpu[a])
    BY <1>2, LocalFacts
  <2> QED BY <1>2, <2>1, Actor DEF WorkerAt
<1>3. CASE a \in Works
  <2>1. TimerAt(a, pc[a], next[a], work[a], cpu[a])
    BY <1>3, LocalFacts
  <2> QED BY <1>3, <2>1, Actor DEF TimerAt
<1> QED BY <1>1, <1>2, <1>3 DEF Queuers

(* Every step of the specification has one of these forms. *)
LEMMA StepCases ==
  ASSUME Types, Locals, Follows
  PROVE  \/ \E t \in Tasks, w \in Works :
              \/ FlushReads(t, w)
              \/ \E loop \in {"grab", "del_timer"} : CancelStarts(t, w, loop)
              \/ CancelsTimer(t, w)
              \/ \E c \in online : FlushQueues(t, w, c)
              \/ \E k \in online, p \in {"queue", "add_timer"} : Takes(t, w, k, p, "idle", "idle")
         \/ \E t \in Tasks, c \in CPUs :
              \/ FlushVisits(t, c) \/ FlushInserts(t, c) \/ LockBehind(t, c) \/ LockFirst(t, c)
              \/ WaitVisits(t, c) \/ WaitInserts(t, c)
         \/ \E t \in Tasks :
              \/ FlushStarts(t) \/ FlushNever(t) \/ FlushEnds(t) \/ FlushWaited(t) \/ LockLeaves(t)
              \/ WorkWaited(t) \/ DeletesTimer(t) \/ TimerMissed(t)
              \/ Grabs(t) \/ GrabFails(t) \/ GrabLooks(t) \/ Steals(t) \/ StealFails(t)
              \/ LockLooks(t) \/ StealLooks(t)
              \/ WaitSkips(t) \/ WaitStarts(t) \/ WaitEnds(t) \/ WaitWaited(t) \/ Drops(t)
         \/ \E c \in CPUs, w \in Works :
              \/ \E k \in online, p \in {"queue", "add_timer"} : Takes(c, w, k, p, "func", "run")
              \/ c \in online /\ TimerFires(w, c)
         \/ \E a \in Queuers : SetsData(a) \/ Inserts(a) \/ AddsTimer(a)
         \/ \E c \in CPUs :
              \/ \E p \in {"test", "schedule", "finish"} : Sleeps(c, p)
              \/ Runs(c) \/ Exits(c) \/ FuncEnds(c) \/ NoMoreWork(c) \/ TakesWork(c)
              \/ ClearsPending(c) \/ RunsBarrier(c)
              \/ GoesDown(c) \/ GoesUp(c) \/ SkipsFlush(c) \/ CleanupInserts(c) \/ CleanupWaited(c)
              \/ Stops(c) \/ SeesExit(c) \/ Unpopulates(c) \/ Creates(c) \/ CreateFails(c)
              \/ ComesUp(c) \/ UpCanceled(c) \/ StartsThread(c) \/ DestroyVisits(c)
         \/ Destroys \/ DestroyEnds \/ create_workqueue
<1>0. /\ pc \in [Actors -> Label] /\ next \in [Actors -> Label]
      /\ work \in [Actors -> Works \cup {Null}] /\ cpu \in [Actors -> CPUs \cup {0}]
  BY DEF Types
<1>1. ASSUME NEW t \in Tasks, flush_workqueue(t)
      PROVE  FlushStarts(t)
  <2>1. pc[t] = "idle"
    BY <1>1 DEF flush_workqueue, Goto
  <2>2. TaskAt(pc[t], next[t], work[t], cpu[t])
    BY LocalFacts
  <2>3. next[t] = "idle" /\ work[t] = Null /\ cpu[t] = 0
    BY <2>1, <2>2 DEF TaskAt
  <2> QED BY <1>0, <1>1, <2>1, <2>3, Actor, SameValue DEF flush_workqueue, Goto, FlushStarts,
          Quiet, Move, lists, global, works, workers, masks
<1>2. ASSUME NEW t \in Tasks, NEW w \in Works, NEW c \in online, NEW p \in {"queue",
        "add_timer"}, ~Destroying, p = "add_timer" => May(t, "queue_delayed_work"),
             TestAndSet(t, "idle", w, c, p, "idle")
      PROVE  Takes(t, w, c, p, "idle", "idle")
  <2>1. pc[t] = "idle"
    BY <1>2 DEF TestAndSet, Goto
  <2> QED BY <1>0, <1>2, <2>1, Actor, SameValue DEF TestAndSet, Goto, Takes, Quiet, Move, lists,
          global, works, workers, masks
<1>3. ASSUME NEW c \in CPUs, NEW w \in Works, NEW x \in online, NEW p \in {"queue", "add_timer"},
             ~Destroying, p = "add_timer" => May(c, "queue_delayed_work"),
             TestAndSet(c, "func", w, x, p, "run")
      PROVE  Takes(c, w, x, p, "func", "run")
  <2>1. pc[c] = "func"
    BY <1>3 DEF TestAndSet, Goto
  <2> QED BY <1>0, <1>3, <2>1, Actor, SameValue DEF TestAndSet, Goto, Takes, Quiet, Move, lists,
          global, works, workers, masks
<1>4. ASSUME NEW t \in Tasks, NEW w \in Works, FlushWork(t, "idle", w)
      PROVE  FlushNever(t) \/ FlushReads(t, w)
  <2>1. pc[t] = "idle"
    BY <1>4 DEF FlushWork, Leave, Goto
  <2>2. TaskAt(pc[t], next[t], work[t], cpu[t])
    BY LocalFacts
  <2>3. next[t] = "idle" /\ work[t] = Null /\ cpu[t] = 0
    BY <2>1, <2>2 DEF TaskAt
  <2> QED BY <1>0, <1>4, <2>1, <2>3, Actor, SameValue DEF FlushWork, Leave, Goto, FlushNever,
          FlushReads, Quiet, Move, lists, global, works, workers, masks
<1>5. ASSUME NEW t \in Tasks, FlushWork(t, "flush_work", work[t])
      PROVE  work[t] \in Works /\ (FlushNever(t) \/ FlushReads(t, work[t]))
  <2>1. pc[t] = "flush_work"
    BY <1>5 DEF FlushWork, Leave, Goto
  <2>2. TaskAt(pc[t], next[t], work[t], cpu[t])
    BY LocalFacts
  <2>3. next[t] = "idle" /\ work[t] \in Works /\ cpu[t] = 0
    BY <2>1, <2>2 DEF TaskAt
  <2> QED BY <1>0, <1>5, <2>1, <2>3, Actor, SameValue DEF FlushWork, Leave, Goto, FlushNever,
          FlushReads, Quiet, Move, lists, global, works, workers, masks
<1>6. ASSUME NEW t \in Tasks, NEW w \in Works, pc[w] = "armed", ~Destroying,
        flush_delayed_work(t, w)
      PROVE  \E c \in online : FlushQueues(t, w, c)
  <2>1. pc[t] = "idle" /\ pc[w] = "armed"
    BY <1>6 DEF flush_delayed_work, FlushWork, Leave, Goto
  <2> QED BY <1>0, <1>6, <2>1, Actor, SameValue DEF flush_delayed_work, FlushWork, Leave, Goto,
          FlushQueues, MoveBoth, Quiet, Move, lists, global, works, workers, masks
<1>7. ASSUME NEW t \in Tasks, NEW w \in Works, NEW loop \in {"grab", "del_timer"}, Cancel(t, w,
        loop)
      PROVE  CancelStarts(t, w, loop)
  <2>1. pc[t] = "idle"
    BY <1>7 DEF Cancel, Goto
  <2>2. TaskAt(pc[t], next[t], work[t], cpu[t])
    BY LocalFacts
  <2>3. next[t] = "idle" /\ work[t] = Null /\ cpu[t] = 0
    BY <2>1, <2>2 DEF TaskAt
  <2> QED BY <1>0, <1>7, <2>1, <2>3, Actor, SameValue DEF Cancel, Goto, CancelStarts, Quiet,
          Move, lists, global, works, workers, masks
<1>8. ASSUME NEW t \in Tasks, NEW w \in Works, cancel_delayed_work(t, w)
      PROVE  CancelsTimer(t, w)
  <2>1. pc[t] = "idle" /\ pc[w] = "armed"
    BY <1>8 DEF cancel_delayed_work
  <2>2. TaskAt(pc[t], next[t], work[t], cpu[t])
    BY LocalFacts
  <2>3. next[t] = "idle" /\ work[t] = Null /\ cpu[t] = 0
    BY <2>1, <2>2 DEF TaskAt
  <2> QED BY <1>0, <1>8, <2>1, <2>3, Actor, SameValue DEF cancel_delayed_work, CancelsTimer,
          MoveBoth, Quiet, Move, lists, global, works, workers, masks
<1>9. ASSUME NEW t \in Tasks, FlushScan(t)
      PROVE  \/ \E c \in CPUs : FlushVisits(t, c) \/ FlushInserts(t, c)
             \/ FlushEnds(t)
  <2>1. pc[t] = "flush_scan"
    BY <1>9 DEF FlushScan, Leave, Goto
  <2>2. TaskAt(pc[t], next[t], work[t], cpu[t])
    BY LocalFacts
  <2>3. next[t] = "idle" /\ work[t] = Null
    BY <2>1, <2>2 DEF TaskAt
  <2> QED BY <1>0, <1>9, <2>1, <2>3, Actor, SameValue DEF FlushScan, flush_cpu_workqueue,
          insert_wq_barrier, Leave, Goto, FlushVisits, FlushInserts, FlushEnds, Barrier, Quiet,
          Move, lists, global, works, workers, masks
<1>10. ASSUME NEW t \in Tasks, WaitForCompletion(t, "flush_wait", "flush_scan")
      PROVE  FlushWaited(t)
  <2>1. pc[t] = "flush_wait"
    BY <1>10 DEF WaitForCompletion, Goto
  <2>2. TaskAt(pc[t], next[t], work[t], cpu[t])
    BY LocalFacts
  <2>3. next[t] = "idle" /\ work[t] = Null
    BY <2>1, <2>2 DEF TaskAt
  <2> QED BY <1>0, <1>10, <2>1, <2>3, Actor, SameValue DEF WaitForCompletion, Goto, FlushWaited,
          Waited, Quiet, Move, lists, global, works, workers, masks
<1>11. ASSUME NEW t \in Tasks, FlushLock(t)
      PROVE  (\E c \in CPUs : LockFirst(t, c)) \/ LockLeaves(t) \/ LockLooks(t)
  <2>1. pc[t] = "flush_lock"
    BY <1>11 DEF FlushLock, Leave, Goto
  <2>2. TaskAt(pc[t], next[t], work[t], cpu[t])
    BY LocalFacts
  <2>3. next[t] = "idle" /\ cpu[t] \in CPUs
    BY <2>1, <2>2 DEF TaskAt
  <2> QED BY <1>0, <1>11, <2>1, <2>3, Actor, SameValue DEF FlushLock, insert_wq_barrier, Leave,
          Goto, LockFirst, LockLeaves, LockLooks, Barrier, Quiet, Move, lists, global, works,
          workers, masks
<1>46. ASSUME NEW t \in Tasks, FlushBehind(t), ~fooled'
      PROVE  (\E c \in CPUs : LockBehind(t, c)) \/ LockLeaves(t)
  <2>1. pc[t] = "flush_data"
    BY <1>46 DEF FlushBehind
  <2>2. TaskAt(pc[t], next[t], work[t], cpu[t])
    BY LocalFacts
  <2>3. next[t] = "idle" /\ cpu[t] \in CPUs
    BY <2>1, <2>2 DEF TaskAt
  <2>4. PICK c \in CPUs : c = cpu[t]
    BY <2>3
  <2>5. CASE data[work[t]] = c
    <3>1. work[t] \in ListEntries(worklist[c])
      BY <1>46, <2>4, <2>5 DEF FlushBehind
    <3>2. insert_wq_barrier(t, c, "flush_data", "work_wait", AddBehind(worklist[c], work[t], t))
      BY <1>46, <2>4, <2>5, <3>1 DEF FlushBehind
    <3>3. /\ lock' = [lock EXCEPT ![c] = Null] /\ next' = next /\ work' = work /\ cpu' = cpu
          /\ UNCHANGED <<pending, data, current_work, due, global>>
      BY <1>46, <2>4, <2>5 DEF FlushBehind, works, masks, global
    <3>4. LockBehind(t, c)
      BY <1>0, <2>1, <2>3, <2>4, <2>5, <3>1, <3>2, <3>3, Actor, SameValue
      DEF insert_wq_barrier, Goto, LockBehind, Barrier, Move
    <3> QED BY <3>4
  <2>6. CASE data[work[t]] # c
    <3>1. Leave(t, "flush_data") /\ UNCHANGED <<worklist, done>>
      BY <1>46, <2>4, <2>6 DEF FlushBehind
    <3>2. /\ lock' = [lock EXCEPT ![cpu[t]] = Null]
          /\ UNCHANGED <<pending, data, current_work, due, global>>
      BY <1>46, <2>4, <2>6 DEF FlushBehind, works, masks, global
    <3> QED BY <2>1, <2>4, <2>6, <3>1, <3>2 DEF LockLeaves, Leave, Goto, Move, lists
  <2> QED BY <2>5, <2>6
<1>12. ASSUME NEW t \in Tasks, WorkWait(t)
      PROVE  WorkWaited(t)
  <2>1. pc[t] = "work_wait"
    BY <1>12 DEF WorkWait, Leave, Goto
  <2> QED BY <1>0, <1>12, <2>1, Actor, SameValue DEF WorkWait, Leave, Goto, WorkWaited, Waited,
          Quiet, Move, lists, global, works, workers, masks
<1>13. ASSUME NEW t \in Tasks, DelTimer(t)
      PROVE  DeletesTimer(t) \/ TimerMissed(t)
  <2>1. pc[t] = "del_timer"
    BY <1>13 DEF DelTimer, Goto
  <2>2. TaskAt(pc[t], next[t], work[t], cpu[t])
    BY LocalFacts
  <2>3. cpu[t] = 0 /\ work[t] \in Works
    BY <2>1, <2>2 DEF TaskAt
  <2> QED BY <1>0, <1>13, <2>1, <2>3, Actor, SameValue DEF DelTimer, Goto, DeletesTimer,
          TimerMissed, MoveBoth, Quiet, Move, lists, global, works, workers, masks
<1>14. ASSUME NEW t \in Tasks, TryToGrab(t)
      PROVE  Grabs(t) \/ GrabFails(t) \/ GrabLooks(t)
  <2>1. pc[t] = "grab"
    BY <1>14 DEF TryToGrab, Goto
  <2>2. TaskAt(pc[t], next[t], work[t], cpu[t])
    BY LocalFacts
  <2>3. cpu[t] = 0 /\ work[t] \in Works
    BY <2>1, <2>2 DEF TaskAt
  <2> QED BY <1>0, <1>14, <2>1, <2>3, Actor, SameValue DEF TryToGrab, Goto, Grabs, GrabFails,
          GrabLooks, Quiet, Move, lists, global, works, workers, masks
<1>15. ASSUME NEW t \in Tasks, StealLock(t)
      PROVE  StealLooks(t) \/ StealFails(t)
  <2>1. pc[t] = "steal" /\ lock[cpu[t]] = Null
    BY <1>15 DEF StealLock, Goto
  <2>2. TaskAt(pc[t], next[t], work[t], cpu[t])
    BY LocalFacts
  <2>3. work[t] \in Works /\ cpu[t] \in CPUs
    BY <2>1, <2>2 DEF TaskAt
  <2>4. lock \in [CPUs -> Actors \cup {Null}]
    BY DEF Types
  <2>5. next' = next /\ work' = work /\ UNCHANGED <<pending, data, lists, done, global>>
    BY <1>15 DEF StealLock, works, workers, masks, lists, global
  <2>6. CASE Listed(work[t])
    <3>1. /\ pc' = [pc EXCEPT ![t] = "steal_data"]
          /\ lock' = [lock EXCEPT ![cpu[t]] = t]
          /\ cpu' = [cpu EXCEPT ![t] = cpu[t]]
      BY <1>0, <1>15, <2>6, Actor DEF StealLock, Goto
    <3> QED BY <1>0, <2>1, <2>5, <2>6, <3>1, Actor, SameValue DEF StealLooks, Move
  <2>7. CASE ~Listed(work[t])
    <3>1. /\ pc' = [pc EXCEPT ![t] = "wait_on_work"]
          /\ lock' = [lock EXCEPT ![cpu[t]] = Null]
          /\ cpu' = [cpu EXCEPT ![t] = 0]
      BY <1>0, <1>15, <2>7, Actor DEF StealLock, Goto
    <3>2. lock' = lock
      BY <2>1, <2>3, <2>4, <3>1, SameValue
    <3> QED BY <1>0, <2>1, <2>5, <3>1, <3>2, Actor, SameValue DEF StealFails, Move
  <2> QED BY <2>6, <2>7
<1>47. ASSUME NEW t \in Tasks, Steal(t), ~fooled'
      PROVE  Steals(t) \/ StealFails(t)
  <2>1. pc[t] = "steal_data"
    BY <1>47 DEF Steal, Goto
  <2>2. TaskAt(pc[t], next[t], work[t], cpu[t])
    BY LocalFacts
  <2>3. work[t] \in Works
    BY <2>1, <2>2 DEF TaskAt
  <2>4. /\ pc' = [pc EXCEPT ![t] = "wait_on_work"] /\ cpu' = [cpu EXCEPT ![t] = 0]
        /\ lock' = [lock EXCEPT ![cpu[t]] = Null]
        /\ work' = work /\ UNCHANGED <<pending, data, current_work, done, global>>
    BY <1>47 DEF Steal, Goto, works, workers, masks, global
  <2>5. CASE data[work[t]] = cpu[t]
    <3>1. work[t] \in ListEntries(worklist[cpu[t]])
      BY <1>47, <2>5 DEF Steal
    <3>2. /\ worklist' = [x \in CPUs |-> IF work[t] \in ListEntries(worklist[x])
                                        THEN list_del(worklist[x], work[t]) ELSE worklist[x]]
          /\ next' = [next EXCEPT ![t] = "clear_pending"]
          /\ due' = [u \in Tasks |-> {d \in due[u] : ~(d.work = work[t] /\ d.phase = "queued")}]
      BY <1>47, <2>5 DEF Steal
    <3>3. work' = [work EXCEPT ![t] = work[t]]
      BY <1>0, <2>4, Actor, SameValue
    <3> QED BY <2>1, <2>4, <3>1, <3>2, <3>3 DEF Steals, Move
  <2>6. CASE data[work[t]] # cpu[t]
    <3>1. UNCHANGED <<worklist, next, due>>
      BY <1>47, <2>6 DEF Steal
    <3> QED BY <1>0, <2>1, <2>4, <3>1, Actor, SameValue DEF StealFails, Move, lists
  <2> QED BY <2>5, <2>6
<1>16. ASSUME NEW t \in Tasks, wait_on_work(t)
      PROVE  WaitSkips(t) \/ WaitStarts(t)
  <2>1. pc[t] = "wait_on_work"
    BY <1>16 DEF wait_on_work, Goto
  <2>2. TaskAt(pc[t], next[t], work[t], cpu[t])
    BY LocalFacts
  <2>3. cpu[t] = 0 /\ work[t] \in Works
    BY <2>1, <2>2 DEF TaskAt
  <2>4. CASE data[work[t]] = Null
    <3>1. pc' = [pc EXCEPT ![t] = next[t]]
      BY <1>16, <2>4 DEF wait_on_work, Goto
    <3> QED BY <1>0, <1>16, <2>1, <2>3, <2>4, <3>1, Actor, SameValue DEF wait_on_work, Goto,
            WaitSkips, WaitStarts, Quiet, Move, lists, global, works, workers, masks
  <2>5. CASE data[work[t]] # Null
    <3>1. pc' = [pc EXCEPT ![t] = "wait_scan"]
      BY <1>16, <2>5 DEF wait_on_work, Goto
    <3>2. next' = next /\ work' = work /\ cpu' = cpu /\ UNCHANGED <<pending, data, lists, done,
            global, lock>>
      BY <1>16 DEF wait_on_work, works, workers, masks, lists, global
    <3> QED BY <1>0, <2>1, <2>3, <3>1, <3>2, Actor, SameValue DEF WaitStarts, Quiet, Move
  <2> QED BY <2>4, <2>5
<1>17. ASSUME NEW t \in Tasks, WaitScan(t)
      PROVE  \/ \E c \in CPUs : WaitVisits(t, c) \/ WaitInserts(t, c)
             \/ WaitEnds(t)
  <2>1. pc[t] = "wait_scan"
    BY <1>17 DEF WaitScan, Goto
  <2>2. TaskAt(pc[t], next[t], work[t], cpu[t])
    BY LocalFacts
  <2>3. work[t] \in Works
    BY <2>1, <2>2 DEF TaskAt
  <2> QED BY <1>0, <1>17, <2>1, <2>3, Actor, SameValue DEF WaitScan, insert_wq_barrier, Goto,
          WaitVisits, WaitInserts, WaitEnds, Barrier, Quiet, Move, lists, global, works, workers,
          masks
<1>18. ASSUME NEW t \in Tasks, WaitForCompletion(t, "wait_wait", "wait_scan")
      PROVE  WaitWaited(t)
  <2>1. pc[t] = "wait_wait"
    BY <1>18 DEF WaitForCompletion, Goto
  <2> QED BY <1>0, <1>18, <2>1, Actor, SameValue DEF WaitForCompletion, Goto, WaitWaited, Waited,
          Quiet, Move, lists, global, works, workers, masks
<1>19. ASSUME NEW t \in Tasks, NEW from \in {"clear_pending", "clear_only"}, CancelClears(t, from)
      PROVE  Drops(t)
  <2>1. pc[t] = from
    BY <1>19 DEF CancelClears, Leave, Goto
  <2> QED BY <1>0, <1>19, <2>1, Actor, SameValue DEF CancelClears, Leave, Goto, Drops, Quiet,
          Move, lists, global, works, workers, masks
<1>20. ASSUME NEW a \in Queuers, SetWqData(a)
      PROVE  SetsData(a)
  <2>1. pc[a] = "queue"
    BY <1>20 DEF SetWqData, Goto
  <2>2. work[a] \in Works /\ cpu[a] \in CPUs /\ a \in Actors
    BY <2>1, QueuerFacts
  <2> QED BY <1>0, <1>20, <2>1, <2>2, Actor, SameValue DEF SetWqData, Goto, SetsData, Quiet,
          Move, lists, global, works, workers, masks
<1>21. ASSUME NEW a \in Queuers, InsertWork(a)
      PROVE  Inserts(a)
  <2>1. pc[a] = "insert"
    BY <1>21 DEF InsertWork, Return, Goto
  <2>2. work[a] \in Works /\ cpu[a] \in CPUs /\ a \in Actors
    BY <2>1, QueuerFacts
  <2> QED BY <1>0, <1>21, <2>1, <2>2, Actor, SameValue DEF InsertWork, Return, Goto, Inserts,
          Quiet, Move, lists, global, works, workers, masks
<1>22. ASSUME NEW a \in Queuers, AddTimer(a)
      PROVE  AddsTimer(a)
  <2>1. pc[a] = "add_timer"
    BY <1>22 DEF AddTimer
  <2>2. work[a] \in Works /\ cpu[a] \in CPUs /\ a \in Actors
    BY <2>1, QueuerFacts
  <2> QED BY <1>0, <1>22, <2>1, <2>2, Actor, SameValue DEF AddTimer, AddsTimer, MoveBoth, Quiet,
          Move, lists, global, works, workers, masks
<1>23. ASSUME NEW c \in CPUs, PrepareToWait(c)
      PROVE  Sleeps(c, "test")
  <2>1. pc[c] = "prepare"
    BY <1>23 DEF PrepareToWait, Goto
  <2>2. WorkerAt(pc[c], next[c], work[c], cpu[c])
    BY LocalFacts
  <2>3. next[c] = "idle" /\ work[c] = Null /\ cpu[c] = 0
    BY <2>1, <2>2 DEF WorkerAt
  <2> QED BY <1>0, <1>23, <2>1, <2>3, Actor, SameValue DEF PrepareToWait, Goto, Sleeps, Quiet,
          Move, lists, global, works, workers, masks
<1>24. ASSUME NEW c \in CPUs, TestMoreWork(c)
      PROVE  Sleeps(c, "finish") \/ Sleeps(c, "schedule")
  <2>1. pc[c] = "test"
    BY <1>24 DEF TestMoreWork, Goto
  <2>2. WorkerAt(pc[c], next[c], work[c], cpu[c])
    BY LocalFacts
  <2>3. next[c] = "idle" /\ work[c] = Null /\ cpu[c] = 0
    BY <2>1, <2>2 DEF WorkerAt
  <2>4. pc' = [pc EXCEPT ![c] = "finish"] \/ pc' = [pc EXCEPT ![c] = "schedule"]
    BY <1>24 DEF TestMoreWork, Goto
  <2> QED BY <1>0, <1>24, <2>1, <2>3, <2>4, Actor, SameValue DEF TestMoreWork, Goto, Sleeps,
          Quiet, Move, lists, global, works, workers, masks
<1>25. ASSUME NEW c \in CPUs, Schedule(c)
      PROVE  Sleeps(c, "finish")
  <2>1. pc[c] = "schedule"
    BY <1>25 DEF Schedule, Goto
  <2>2. WorkerAt(pc[c], next[c], work[c], cpu[c])
    BY LocalFacts
  <2>3. next[c] = "idle" /\ work[c] = Null /\ cpu[c] = 0
    BY <2>1, <2>2 DEF WorkerAt
  <2> QED BY <1>0, <1>25, <2>1, <2>3, Actor, SameValue DEF Schedule, Goto, Sleeps, Quiet, Move,
          lists, global, works, workers, masks
<1>26. ASSUME NEW c \in CPUs, FinishWait(c)
      PROVE  Exits(c) \/ Runs(c)
  <2>1. pc[c] = "finish"
    BY <1>26 DEF FinishWait, Goto
  <2>2. WorkerAt(pc[c], next[c], work[c], cpu[c])
    BY LocalFacts
  <2>3. next[c] = "idle" /\ work[c] = Null /\ cpu[c] = 0
    BY <2>1, <2>2 DEF WorkerAt
  <2>4. \/ should_stop[c] /\ pc' = [pc EXCEPT ![c] = "exited"]
        \/ pc' = [pc EXCEPT ![c] = "run"]
    BY <1>26 DEF FinishWait, Goto
  <2> QED BY <1>0, <1>26, <2>1, <2>3, <2>4, Actor, SameValue DEF FinishWait, Goto, Exits, Runs,
          Quiet, Move, lists, global, works, workers, masks
<1>27. ASSUME NEW c \in CPUs, NextWork(c)
      PROVE  NoMoreWork(c) \/ TakesWork(c)
  <2>1. pc[c] = "run"
    BY <1>27 DEF NextWork, Goto
  <2>2. WorkerAt(pc[c], next[c], work[c], cpu[c])
    BY LocalFacts
  <2>3. next[c] = "idle" /\ work[c] = Null /\ cpu[c] = 0
    BY <2>1, <2>2 DEF WorkerAt
  <2> QED BY <1>0, <1>27, <2>1, <2>3, Actor, SameValue DEF NextWork, Goto, NoMoreWork, TakesWork,
          Quiet, Move, lists, global, works, workers, masks
<1>28. ASSUME NEW c \in CPUs, ClearPending(c)
      PROVE  ClearsPending(c)
  <2>1. pc[c] = "clear"
    BY <1>28 DEF ClearPending, Goto
  <2>2. WorkerAt(pc[c], next[c], work[c], cpu[c])
    BY LocalFacts
  <2>3. next[c] = "idle" /\ work[c] = Null /\ cpu[c] = 0
    BY <2>1, <2>2 DEF WorkerAt
  <2> QED BY <1>0, <1>28, <2>1, <2>3, Actor, SameValue DEF ClearPending, Goto, ClearsPending,
          Quiet, Move, lists, global, works, workers, masks
<1>29. ASSUME NEW c \in CPUs, wq_barrier_func(c)
      PROVE  RunsBarrier(c)
  <2>1. pc[c] = "clear"
    BY <1>29 DEF wq_barrier_func, Goto
  <2>2. WorkerAt(pc[c], next[c], work[c], cpu[c])
    BY LocalFacts
  <2>3. next[c] = "idle" /\ work[c] = Null /\ cpu[c] = 0
    BY <2>1, <2>2 DEF WorkerAt
  <2> QED BY <1>0, <1>29, <2>1, <2>3, Actor, SameValue DEF wq_barrier_func, Goto, RunsBarrier,
          Quiet, Move, lists, global, works, workers, masks
<1>30. ASSUME NEW c \in CPUs, FuncReturns(c)
      PROVE  FuncEnds(c)
  <2>1. pc[c] = "func"
    BY <1>30 DEF FuncReturns, Goto
  <2>2. WorkerAt(pc[c], next[c], work[c], cpu[c])
    BY LocalFacts
  <2>3. next[c] = "idle" /\ work[c] = Null /\ cpu[c] = 0
    BY <2>1, <2>2 DEF WorkerAt
  <2> QED BY <1>0, <1>30, <2>1, <2>3, Actor, SameValue DEF FuncReturns, Goto, FuncEnds, Quiet,
          Move, lists, global, works, workers, masks
<1>31. ASSUME NEW w \in Works, NEW c \in CPUs, delayed_work_timer_fn(w, c)
      PROVE  c \in online /\ TimerFires(w, c)
  <2>1. pc[w] = "armed" /\ c \in online
    BY <1>31 DEF delayed_work_timer_fn, Goto
  <2>2. TimerAt(w, pc[w], next[w], work[w], cpu[w])
    BY LocalFacts
  <2>3. next[w] = "idle"
    BY <2>1, <2>2 DEF TimerAt
  <2> QED BY <1>0, <1>31, <2>1, <2>3, Actor, SameValue DEF delayed_work_timer_fn, Goto,
          TimerFires, Quiet, Move, lists, global, works, workers, masks
<1>32. ASSUME NEW c \in CPUs, cpu_down(c)
      PROVE  GoesDown(c)
  <2>1. pc[Hotplug] = "idle"
    BY <1>32 DEF cpu_down, Goto
  <2>2. HotplugAt(pc[Hotplug], next[Hotplug], work[Hotplug], cpu[Hotplug])
    BY LocalFacts
  <2>3. next[Hotplug] = "idle" /\ work[Hotplug] = Null /\ cpu[Hotplug] = 0
    BY <2>1, <2>2 DEF HotplugAt
  <2> QED BY <1>0, <1>32, <2>1, <2>3, Actor, SameValue DEF cpu_down, Goto, GoesDown, Quiet, Move,
          lists, global, works, workers, masks
<1>33. ASSUME NEW c \in CPUs, cpu_up(c)
      PROVE  GoesUp(c)
  <2>1. pc[Hotplug] = "idle"
    BY <1>33 DEF cpu_up, Goto
  <2>2. HotplugAt(pc[Hotplug], next[Hotplug], work[Hotplug], cpu[Hotplug])
    BY LocalFacts
  <2>3. next[Hotplug] = "idle" /\ work[Hotplug] = Null /\ cpu[Hotplug] = 0
    BY <2>1, <2>2 DEF HotplugAt
  <2> QED BY <1>0, <1>33, <2>1, <2>3, Actor, SameValue DEF cpu_up, Goto, GoesUp, Quiet, Move,
          lists, global, works, workers, masks
<1>34. ASSUME destroy_workqueue
      PROVE  Destroys
  <2>1. pc[Hotplug] = "idle"
    BY <1>34 DEF destroy_workqueue, Goto
  <2>2. HotplugAt(pc[Hotplug], next[Hotplug], work[Hotplug], cpu[Hotplug])
    BY LocalFacts
  <2>3. next[Hotplug] = "idle" /\ work[Hotplug] = Null /\ cpu[Hotplug] = 0
    BY <2>1, <2>2 DEF HotplugAt
  <2> QED BY <1>0, <1>34, <2>1, <2>3, Actor, SameValue DEF destroy_workqueue, Goto, Destroys,
          Quiet, Move, lists, global, works, workers, masks
<1>35. ASSUME Cleanup
      PROVE  \E h \in CPUs : SkipsFlush(h) \/ CleanupInserts(h)
  <2>1. pc[Hotplug] = "cleanup"
    BY <1>35 DEF Cleanup, Goto
  <2>2. HotplugAt(pc[Hotplug], next[Hotplug], work[Hotplug], cpu[Hotplug])
    BY LocalFacts
  <2>3. work[Hotplug] = Null /\ cpu[Hotplug] \in CPUs
    BY <2>1, <2>2 DEF HotplugAt
  <2> QED BY <1>0, <1>35, <2>1, <2>3, Actor, SameValue DEF Cleanup, flush_cpu_workqueue,
          insert_wq_barrier, Goto, SkipsFlush, CleanupInserts, Barrier, Quiet, Move, lists,
          global, works, workers, masks
<1>36. ASSUME WaitForCompletion(Hotplug, "cleanup_wait", "kthread_stop")
      PROVE  \E h \in CPUs : CleanupWaited(h)
  <2>1. pc[Hotplug] = "cleanup_wait"
    BY <1>36 DEF WaitForCompletion, Goto
  <2>2. HotplugAt(pc[Hotplug], next[Hotplug], work[Hotplug], cpu[Hotplug])
    BY LocalFacts
  <2>3. work[Hotplug] = Null /\ cpu[Hotplug] \in CPUs
    BY <2>1, <2>2 DEF HotplugAt
  <2> QED BY <1>0, <1>36, <2>1, <2>3, Actor, SameValue DEF WaitForCompletion, Goto,
          CleanupWaited, Waited, Quiet, Move, lists, global, works, workers, masks
<1>37. ASSUME kthread_stop
      PROVE  \E h \in CPUs : Stops(h)
  <2>1. pc[Hotplug] = "kthread_stop"
    BY <1>37 DEF kthread_stop, Goto
  <2>2. HotplugAt(pc[Hotplug], next[Hotplug], work[Hotplug], cpu[Hotplug])
    BY LocalFacts
  <2>3. work[Hotplug] = Null /\ cpu[Hotplug] \in CPUs
    BY <2>1, <2>2 DEF HotplugAt
  <2>4. /\ pc' = [pc EXCEPT ![Hotplug] = "wait_exited"] /\ next' = next /\ work' = work /\ cpu' = cpu
        /\ should_stop' = [should_stop EXCEPT ![cpu[Hotplug]] = TRUE]
        /\ UNCHANGED <<pending, data, lists, done, online, populated, lock>>
    BY <1>37 DEF kthread_stop, Goto, works, masks, lists
  <2>5. Stops(cpu[Hotplug])
    BY <1>0, <2>1, <2>3, <2>4, Actor, SameValue DEF Stops, Move
  <2> QED BY <2>1, <2>3, <2>5
<1>38. ASSUME ThreadGone
      PROVE  \E h \in CPUs : SeesExit(h)
  <2>1. pc[Hotplug] = "wait_exited"
    BY <1>38 DEF ThreadGone
  <2>2. HotplugAt(pc[Hotplug], next[Hotplug], work[Hotplug], cpu[Hotplug])
    BY LocalFacts
  <2>3. work[Hotplug] = Null /\ cpu[Hotplug] \in CPUs
    BY <2>1, <2>2 DEF HotplugAt
  <2>4. PICK h \in CPUs : h = cpu[Hotplug]
    BY <2>3
  <2>5. pc' = [pc EXCEPT ![Hotplug] = next[Hotplug], ![h] = "no thread"]
    BY <1>0, <1>38, <2>4, Actor DEF ThreadGone
  <2>6. /\ next' = next /\ work' = work /\ cpu' = cpu /\ UNCHANGED <<pending, data, lists, done,
          global, lock>>
        /\ pc[h] = "exited"
    BY <1>38, <2>4 DEF ThreadGone, works, workers, masks, lists, global
  <2>7. /\ next' = [next EXCEPT ![Hotplug] = next[Hotplug]]
        /\ work' = [work EXCEPT ![Hotplug] = Null] /\ cpu' = [cpu EXCEPT ![Hotplug] = h]
    BY <1>0, <2>3, <2>4, <2>6, Actor, SameValue
  <2>8. SeesExit(h)
    BY <2>1, <2>4, <2>5, <2>6, <2>7 DEF SeesExit, MoveBoth
  <2> QED BY <2>8
<1>39. ASSUME Unpopulate
      PROVE  \E h \in CPUs : Unpopulates(h)
  <2>1. pc[Hotplug] = "unpopulate"
    BY <1>39 DEF Unpopulate, HotplugEnds, Goto
  <2>2. HotplugAt(pc[Hotplug], next[Hotplug], work[Hotplug], cpu[Hotplug])
    BY LocalFacts
  <2>3. work[Hotplug] = Null /\ cpu[Hotplug] \in CPUs
    BY <2>1, <2>2 DEF HotplugAt
  <2> QED BY <1>0, <1>39, <2>1, <2>3, Actor, SameValue DEF Unpopulate, HotplugEnds, Goto,
          Unpopulates, Quiet, Move, lists, global, works, workers, masks
<1>40. ASSUME create_workqueue_thread
      PROVE  \E h \in CPUs : Creates(h) \/ CreateFails(h)
  <2>1. pc[Hotplug] = "create"
    BY <1>40 DEF create_workqueue_thread
  <2>2. HotplugAt(pc[Hotplug], next[Hotplug], work[Hotplug], cpu[Hotplug])
    BY LocalFacts
  <2>3. work[Hotplug] = Null /\ cpu[Hotplug] \in CPUs /\ next[Hotplug] = "unpopulate"
    BY <2>1, <2>2 DEF HotplugAt
  <2> QED BY <1>0, <1>40, <2>1, <2>3, Actor, SameValue DEF create_workqueue_thread, Creates,
          CreateFails, MoveBoth, Quiet, Move, lists, global, works, workers, masks
<1>41. ASSUME BringUp
      PROVE  \E h \in CPUs : ComesUp(h) \/ UpCanceled(h)
  <2>1. pc[Hotplug] = "bring_up"
    BY <1>41 DEF BringUp, Goto
  <2>2. HotplugAt(pc[Hotplug], next[Hotplug], work[Hotplug], cpu[Hotplug])
    BY LocalFacts
  <2>3. work[Hotplug] = Null /\ cpu[Hotplug] \in CPUs /\ next[Hotplug] = "unpopulate"
    BY <2>1, <2>2 DEF HotplugAt
  <2> QED BY <1>0, <1>41, <2>1, <2>3, Actor, SameValue DEF BringUp, Goto, ComesUp, UpCanceled,
          MoveBoth, Quiet, Move, lists, global, works, workers, masks
<1>42. ASSUME start_workqueue_thread
      PROVE  \E h \in CPUs : StartsThread(h)
  <2>1. pc[Hotplug] = "cpu_online"
    BY <1>42 DEF start_workqueue_thread
  <2>2. HotplugAt(pc[Hotplug], next[Hotplug], work[Hotplug], cpu[Hotplug])
    BY LocalFacts
  <2>3. work[Hotplug] = Null /\ cpu[Hotplug] \in CPUs
    BY <2>1, <2>2 DEF HotplugAt
  <2> QED BY <1>0, <1>42, <2>1, <2>3, Actor, SameValue DEF start_workqueue_thread, StartsThread,
          MoveBoth, Quiet, Move, lists, global, works, workers, masks
<1>43. ASSUME DestroyScan
      PROVE  (\E c \in CPUs : DestroyVisits(c)) \/ DestroyEnds
  <2>1. pc[Hotplug] = "destroy_scan"
    BY <1>43 DEF DestroyScan, Goto
  <2>2. HotplugAt(pc[Hotplug], next[Hotplug], work[Hotplug], cpu[Hotplug])
    BY LocalFacts
  <2>3. work[Hotplug] = Null /\ next[Hotplug] = "destroy_scan"
    BY <2>1, <2>2 DEF HotplugAt
  <2> QED BY <1>0, <1>43, <2>1, <2>3, Actor, SameValue DEF DestroyScan, Goto, DestroyVisits,
          DestroyEnds, Quiet, Move, lists, global, works, workers, masks
<1>44. ASSUME NEW t \in Tasks, Call(t)
      PROVE  \/ FlushStarts(t) \/ FlushNever(t)
             \/ \E w \in Works :
                  \/ FlushReads(t, w)
                  \/ \E loop \in {"grab", "del_timer"} : CancelStarts(t, w, loop)
                  \/ CancelsTimer(t, w)
                  \/ \E c \in online : FlushQueues(t, w, c)
                  \/ \E k \in online, p \in {"queue", "add_timer"} : Takes(t, w, k, p, "idle",
                          "idle")
  <2>1. ~Destroying
    BY <1>44 DEF Call
  <2>2. ASSUME NEW w \in Works, flush_delayed_work(t, w)
        PROVE  pc[w] = "armed" \/ FlushWork(t, "idle", w)
    BY <2>2 DEF flush_delayed_work
  <2> QED BY <1>1, <1>2, <1>4, <1>6, <1>7, <1>8, <1>44, <2>1, <2>2
          DEF Call, queue_work, queue_delayed_work, cancel_work_sync, cancel_delayed_work_sync
<1>45. ASSUME NEW c \in CPUs, NEW w \in Works, Requeue(c, w)
      PROVE  \E k \in online, p \in {"queue", "add_timer"} : Takes(c, w, k, p, "func", "run")
  BY <1>3, <1>45 DEF Requeue
<1> QED
  BY <1>4, <1>5, <1>6, <1>7, <1>8, <1>9, <1>10, <1>11, <1>12, <1>13, <1>14, <1>15, <1>16, <1>17,
     <1>18, <1>19, <1>20, <1>21, <1>22, <1>23, <1>24, <1>25, <1>26, <1>27, <1>28, <1>29, <1>30,
     <1>31, <1>32, <1>33, <1>34, <1>35, <1>36, <1>37, <1>38, <1>39, <1>40, <1>41, <1>42,
     <1>43, <1>44, <1>45, <1>46, <1>47, Actor DEF Follows, Next, Corrupted, Step, Worker, Timer, HotplugStarts,
     HotplugStep, Queueing

------------------------------------------------------------------------------
(* b stays where it is, with the same locals. *)
Same(b) ==
  pc'[b] = pc[b] /\ next'[b] = next[b] /\ work'[b] = work[b] /\ cpu'[b] = cpu[b]

(* All actors but a, or but a and b, do. *)
Others(a)        == \A e \in Actors : e # a => Same(e)
OthersBoth(a, b) == \A e \in Actors : e # a /\ e # b => Same(e)

(* a goes to p, and its locals become n, x and k. *)
Goes(a, p, n, x, k) == pc'[a] = p /\ next'[a] = n /\ work'[a] = x /\ cpu'[a] = k

(* Only those who move change. *)
LEMMA MoveFacts ==
  ASSUME Types, NEW a \in Actors, NEW p, NEW n, NEW x, NEW k, Move(a, p, n, x, k)
  PROVE  Goes(a, p, n, x, k) /\ Others(a)
BY DEF Types, Move, Same, Goes, Others

(* Only the two who move change, and the second keeps its locals. *)
LEMMA MoveBothFacts ==
  ASSUME Types, NEW a \in Actors, NEW p, NEW n, NEW x, NEW k, NEW b \in Actors, NEW q, a # b,
         MoveBoth(a, p, n, x, k, b, q)
  PROVE  Goes(a, p, n, x, k) /\ Goes(b, q, next[b], work[b], cpu[b]) /\ OthersBoth(a, b)
BY DEF Types, MoveBoth, Same, Goes, OthersBoth

(* An actor that goes to a program point with the right locals is fine. *)
LEMMA GoesAt ==
  ASSUME NEW a \in Actors, NEW p, NEW n, NEW x, NEW k, Goes(a, p, n, x, k),
         a \in Tasks => TaskAt(p, n, x, k),
         a \in CPUs => WorkerAt(p, n, x, k),
         a \in Works => TimerAt(a, p, n, x, k),
         a = Hotplug => HotplugAt(p, n, x, k)
  PROVE  At(a)'
BY Actor DEF At, Goes

(* An actor that is left alone is where it was. *)
LEMMA SameAt ==
  ASSUME NEW b, At(b), Same(b)
  PROVE  At(b)'
BY DEF At, Same

(* One actor moves, and all the others are left alone. *)
LEMMA LocalsKept ==
  ASSUME Locals, NEW a \in Actors, At(a)', Others(a)
  PROVE  Locals'
BY SameAt DEF Locals, Others

(* Two actors move, and all the others are left alone. *)
LEMMA LocalsBothKept ==
  ASSUME Locals, NEW a \in Actors, NEW b \in Actors, At(a)', At(b)', OthersBoth(a, b)
  PROVE  Locals'
BY SameAt DEF Locals, OthersBoth

(* A timer whose work item somebody is about to queue is not at work. *)
LEMMA HeldTimer ==
  ASSUME Types, Locals, PendingOwned, NEW a \in Actors, NEW w \in Works, Hand(a) = w, a # w
  PROVE  pc[w] = "idle"
<1>1. PICK kind \in {"none", "list", "timer", "clear", "actor"}, e \in Actors : Owned(w, kind, e)
  BY DEF PendingOwned
<1>2. kind = "actor" /\ e = a /\ Hand(w) # w /\ pc[w] # "armed"
  BY <1>1, Actor DEF Owned
<1>3. TimerAt(w, pc[w], next[w], work[w], cpu[w])
  BY LocalFacts
<1> QED BY <1>2, <1>3, Actor DEF TimerAt, Hand

(* The locals go with the program points. *)
LEMMA LocalsStep ==
  ASSUME Types, Locals, PendingOwned, Threads, Follows
  PROVE  Locals'
<1>1. ASSUME NEW t \in Tasks, NEW w \in Works, FlushReads(t, w)
      PROVE  Locals'
  <2>1. TaskAt(pc[t], next[t], work[t], cpu[t])
    BY LocalFacts
  <2>2. Move(t, "flush_lock", "idle", w, data[w])
    BY <1>1 DEF FlushReads
  <2>3. TaskAt("flush_lock", "idle", w, data[w])
    BY <1>1, <2>1, Actor DEF FlushReads, TaskAt, Types
  <2>4. Goes(t, "flush_lock", "idle", w, data[w]) /\ Others(t)
    BY <2>2, MoveFacts, Actor
  <2>5. At(t)'
    BY <2>3, <2>4, GoesAt, Actor
  <2> QED BY <2>4, <2>5, LocalsKept, Actor
<1>2. ASSUME NEW t \in Tasks, NEW w \in Works, NEW loop \in {"grab", "del_timer"},
        CancelStarts(t, w, loop)
      PROVE  Locals'
  <2>1. TaskAt(pc[t], next[t], work[t], cpu[t])
    BY LocalFacts
  <2>2. Move(t, loop, loop, w, 0)
    BY <1>2 DEF CancelStarts, Quiet
  <2>3. TaskAt(loop, loop, w, 0)
    BY <1>2, <2>1, Actor DEF CancelStarts, TaskAt
  <2>4. Goes(t, loop, loop, w, 0) /\ Others(t)
    BY <2>2, MoveFacts, Actor
  <2>5. At(t)'
    BY <2>3, <2>4, GoesAt, Actor
  <2> QED BY <2>4, <2>5, LocalsKept, Actor
<1>3. ASSUME NEW t \in Tasks, NEW w \in Works, CancelsTimer(t, w)
      PROVE  Locals'
  <2>1. TaskAt(pc[t], next[t], work[t], cpu[t])
    BY LocalFacts
  <2>2. MoveBoth(t, "clear_only", "idle", w, 0, w, "idle")
    BY <1>3 DEF CancelsTimer
  <2>3. TaskAt("clear_only", "idle", w, 0)
    BY <1>3, <2>1, Actor DEF CancelsTimer, TaskAt
  <2>5. MoveBoth(t, "clear_only", "idle", w, 0, w, "idle") /\ pc[w] = "armed"
    BY <1>3, <2>2 DEF CancelsTimer
  <2>6. TimerAt(w, "idle", next[w], work[w], cpu[w])
    <3>1. TimerAt(w, pc[w], next[w], work[w], cpu[w])
      BY LocalFacts
    <3> QED BY <2>5, <3>1 DEF TimerAt
  <2>7. /\ Goes(t, "clear_only", "idle", w, 0)
        /\ Goes(w, "idle", next[w], work[w], cpu[w]) /\ OthersBoth(t, w)
    BY <2>5, MoveBothFacts, Actor
  <2>8. At(t)'
    BY <2>3, <2>7, GoesAt, Actor
  <2>9. At(w)'
    BY <2>6, <2>7, GoesAt, Actor
  <2> QED BY <2>7, <2>8, <2>9, LocalsBothKept, Actor
<1>4. ASSUME NEW t \in Tasks, NEW w \in Works, NEW c \in online, FlushQueues(t, w, c)
      PROVE  Locals'
  <2>1. TaskAt(pc[t], next[t], work[t], cpu[t])
    BY LocalFacts
  <2>2. MoveBoth(t, "queue", "flush_work", w, c, w, "idle")
    BY <1>4 DEF FlushQueues
  <2>3. TaskAt("queue", "flush_work", w, c)
    BY <1>4, <2>1, Actor DEF FlushQueues, TaskAt, Types
  <2>5. MoveBoth(t, "queue", "flush_work", w, c, w, "idle") /\ pc[w] = "armed"
    BY <1>4, <2>2 DEF FlushQueues
  <2>6. TimerAt(w, "idle", next[w], work[w], cpu[w])
    <3>1. TimerAt(w, pc[w], next[w], work[w], cpu[w])
      BY LocalFacts
    <3> QED BY <2>5, <3>1 DEF TimerAt
  <2>7. /\ Goes(t, "queue", "flush_work", w, c)
        /\ Goes(w, "idle", next[w], work[w], cpu[w]) /\ OthersBoth(t, w)
    BY <2>5, MoveBothFacts, Actor
  <2>8. At(t)'
    BY <2>3, <2>7, GoesAt, Actor
  <2>9. At(w)'
    BY <2>6, <2>7, GoesAt, Actor
  <2> QED BY <2>7, <2>8, <2>9, LocalsBothKept, Actor
<1>5. ASSUME NEW t \in Tasks, NEW w \in Works, NEW k \in online, NEW p \in {"queue",
        "add_timer"}, Takes(t, w, k, p, "idle", "idle")
      PROVE  Locals'
  <2>1. TaskAt(pc[t], next[t], work[t], cpu[t])
    BY LocalFacts
  <2>2. Move(t, p, "idle", w, k)
    BY <1>5 DEF Takes
  <2>3. TaskAt(p, "idle", w, k)
    BY <1>5, <2>1, Actor DEF Takes, TaskAt, Types
  <2>4. Goes(t, p, "idle", w, k) /\ Others(t)
    BY <2>2, MoveFacts, Actor
  <2>5. At(t)'
    BY <2>3, <2>4, GoesAt, Actor
  <2> QED BY <2>4, <2>5, LocalsKept, Actor
<1>6. ASSUME NEW t \in Tasks, NEW c \in CPUs, FlushVisits(t, c)
      PROVE  Locals'
  <2>1. TaskAt(pc[t], next[t], work[t], cpu[t])
    BY LocalFacts
  <2>2. Move(t, "flush_scan", "idle", Null, c)
    BY <1>6 DEF FlushVisits, Quiet
  <2>3. TaskAt("flush_scan", "idle", Null, c)
    BY <1>6, <2>1, Actor DEF FlushVisits, TaskAt
  <2>4. Goes(t, "flush_scan", "idle", Null, c) /\ Others(t)
    BY <2>2, MoveFacts, Actor
  <2>5. At(t)'
    BY <2>3, <2>4, GoesAt, Actor
  <2> QED BY <2>4, <2>5, LocalsKept, Actor
<1>7. ASSUME NEW t \in Tasks, NEW c \in CPUs, FlushInserts(t, c)
      PROVE  Locals'
  <2>1. TaskAt(pc[t], next[t], work[t], cpu[t])
    BY LocalFacts
  <2>2. Move(t, "flush_wait", "idle", Null, c)
    BY <1>7 DEF FlushInserts, Barrier
  <2>3. TaskAt("flush_wait", "idle", Null, c)
    BY <1>7, <2>1, Actor DEF FlushInserts, TaskAt
  <2>4. Goes(t, "flush_wait", "idle", Null, c) /\ Others(t)
    BY <2>2, MoveFacts, Actor
  <2>5. At(t)'
    BY <2>3, <2>4, GoesAt, Actor
  <2> QED BY <2>4, <2>5, LocalsKept, Actor
<1>8. ASSUME NEW t \in Tasks, NEW c \in CPUs, LockBehind(t, c)
      PROVE  Locals'
  <2>1. TaskAt(pc[t], next[t], work[t], cpu[t])
    BY LocalFacts
  <2>2. Move(t, "work_wait", "idle", work[t], c)
    BY <1>8 DEF LockBehind, Barrier
  <2>3. TaskAt("work_wait", "idle", work[t], c)
    BY <1>8, <2>1, Actor DEF LockBehind, TaskAt
  <2>4. Goes(t, "work_wait", "idle", work[t], c) /\ Others(t)
    BY <2>2, MoveFacts, Actor
  <2>5. At(t)'
    BY <2>3, <2>4, GoesAt, Actor
  <2> QED BY <2>4, <2>5, LocalsKept, Actor
<1>9. ASSUME NEW t \in Tasks, NEW c \in CPUs, LockFirst(t, c)
      PROVE  Locals'
  <2>1. TaskAt(pc[t], next[t], work[t], cpu[t])
    BY LocalFacts
  <2>2. Move(t, "work_wait", "idle", work[t], c)
    BY <1>9 DEF LockFirst, Barrier
  <2>3. TaskAt("work_wait", "idle", work[t], c)
    BY <1>9, <2>1, Actor DEF LockFirst, TaskAt
  <2>4. Goes(t, "work_wait", "idle", work[t], c) /\ Others(t)
    BY <2>2, MoveFacts, Actor
  <2>5. At(t)'
    BY <2>3, <2>4, GoesAt, Actor
  <2> QED BY <2>4, <2>5, LocalsKept, Actor
<1>10. ASSUME NEW t \in Tasks, NEW c \in CPUs, WaitVisits(t, c)
      PROVE  Locals'
  <2>1. TaskAt(pc[t], next[t], work[t], cpu[t])
    BY LocalFacts
  <2>2. Move(t, "wait_scan", next[t], work[t], c)
    BY <1>10 DEF WaitVisits, Quiet
  <2>3. TaskAt("wait_scan", next[t], work[t], c)
    BY <1>10, <2>1, Actor DEF WaitVisits, TaskAt
  <2>4. Goes(t, "wait_scan", next[t], work[t], c) /\ Others(t)
    BY <2>2, MoveFacts, Actor
  <2>5. At(t)'
    BY <2>3, <2>4, GoesAt, Actor
  <2> QED BY <2>4, <2>5, LocalsKept, Actor
<1>11. ASSUME NEW t \in Tasks, NEW c \in CPUs, WaitInserts(t, c)
      PROVE  Locals'
  <2>1. TaskAt(pc[t], next[t], work[t], cpu[t])
    BY LocalFacts
  <2>2. Move(t, "wait_wait", next[t], work[t], c)
    BY <1>11 DEF WaitInserts, Barrier
  <2>3. TaskAt("wait_wait", next[t], work[t], c)
    BY <1>11, <2>1, Actor DEF WaitInserts, TaskAt
  <2>4. Goes(t, "wait_wait", next[t], work[t], c) /\ Others(t)
    BY <2>2, MoveFacts, Actor
  <2>5. At(t)'
    BY <2>3, <2>4, GoesAt, Actor
  <2> QED BY <2>4, <2>5, LocalsKept, Actor
<1>12. ASSUME NEW t \in Tasks, FlushStarts(t)
      PROVE  Locals'
  <2>1. TaskAt(pc[t], next[t], work[t], cpu[t])
    BY LocalFacts
  <2>2. Move(t, "flush_scan", "idle", Null, 0)
    BY <1>12 DEF FlushStarts
  <2>3. TaskAt("flush_scan", "idle", Null, 0)
    BY <1>12, <2>1, Actor DEF FlushStarts, TaskAt
  <2>4. Goes(t, "flush_scan", "idle", Null, 0) /\ Others(t)
    BY <2>2, MoveFacts, Actor
  <2>5. At(t)'
    BY <2>3, <2>4, GoesAt, Actor
  <2> QED BY <2>4, <2>5, LocalsKept, Actor
<1>13. ASSUME NEW t \in Tasks, FlushNever(t)
      PROVE  Locals'
  <2>1. TaskAt(pc[t], next[t], work[t], cpu[t])
    BY LocalFacts
  <2>2. Move(t, "idle", "idle", Null, 0)
    BY <1>13 DEF FlushNever, Quiet
  <2>3. TaskAt("idle", "idle", Null, 0)
    BY <1>13, <2>1, Actor DEF FlushNever, TaskAt
  <2>4. Goes(t, "idle", "idle", Null, 0) /\ Others(t)
    BY <2>2, MoveFacts, Actor
  <2>5. At(t)'
    BY <2>3, <2>4, GoesAt, Actor
  <2> QED BY <2>4, <2>5, LocalsKept, Actor
<1>14. ASSUME NEW t \in Tasks, FlushEnds(t)
      PROVE  Locals'
  <2>1. TaskAt(pc[t], next[t], work[t], cpu[t])
    BY LocalFacts
  <2>2. Move(t, "idle", "idle", Null, 0)
    BY <1>14 DEF FlushEnds, Quiet
  <2>3. TaskAt("idle", "idle", Null, 0)
    BY <1>14, <2>1, Actor DEF FlushEnds, TaskAt
  <2>4. Goes(t, "idle", "idle", Null, 0) /\ Others(t)
    BY <2>2, MoveFacts, Actor
  <2>5. At(t)'
    BY <2>3, <2>4, GoesAt, Actor
  <2> QED BY <2>4, <2>5, LocalsKept, Actor
<1>15. ASSUME NEW t \in Tasks, FlushWaited(t)
      PROVE  Locals'
  <2>1. TaskAt(pc[t], next[t], work[t], cpu[t])
    BY LocalFacts
  <2>2. Move(t, "flush_scan", "idle", Null, cpu[t])
    BY <1>15 DEF FlushWaited, Waited
  <2>3. TaskAt("flush_scan", "idle", Null, cpu[t])
    BY <1>15, <2>1, Actor DEF FlushWaited, TaskAt, Types
  <2>4. Goes(t, "flush_scan", "idle", Null, cpu[t]) /\ Others(t)
    BY <2>2, MoveFacts, Actor
  <2>5. At(t)'
    BY <2>3, <2>4, GoesAt, Actor
  <2> QED BY <2>4, <2>5, LocalsKept, Actor
<1>16. ASSUME NEW t \in Tasks, LockLeaves(t)
      PROVE  Locals'
  <2>1. TaskAt(pc[t], next[t], work[t], cpu[t])
    BY LocalFacts
  <2>2. Move(t, "idle", "idle", Null, 0)
    BY <1>16 DEF LockLeaves, Quiet
  <2>3. TaskAt("idle", "idle", Null, 0)
    BY <1>16, <2>1, Actor DEF LockLeaves, TaskAt
  <2>4. Goes(t, "idle", "idle", Null, 0) /\ Others(t)
    BY <2>2, MoveFacts, Actor
  <2>5. At(t)'
    BY <2>3, <2>4, GoesAt, Actor
  <2> QED BY <2>4, <2>5, LocalsKept, Actor
<1>17. ASSUME NEW t \in Tasks, WorkWaited(t)
      PROVE  Locals'
  <2>1. TaskAt(pc[t], next[t], work[t], cpu[t])
    BY LocalFacts
  <2>2. Move(t, "idle", "idle", Null, 0)
    BY <1>17 DEF WorkWaited, Waited
  <2>3. TaskAt("idle", "idle", Null, 0)
    BY <1>17, <2>1, Actor DEF WorkWaited, TaskAt
  <2>4. Goes(t, "idle", "idle", Null, 0) /\ Others(t)
    BY <2>2, MoveFacts, Actor
  <2>5. At(t)'
    BY <2>3, <2>4, GoesAt, Actor
  <2> QED BY <2>4, <2>5, LocalsKept, Actor
<1>18. ASSUME NEW t \in Tasks, DeletesTimer(t)
      PROVE  Locals'
  <2>1. TaskAt(pc[t], next[t], work[t], cpu[t])
    BY LocalFacts
  <2>2. MoveBoth(t, "wait_on_work", "clear_pending", work[t], 0, work[t], "idle")
    BY <1>18 DEF DeletesTimer
  <2>3. TaskAt("wait_on_work", "clear_pending", work[t], 0)
    BY <1>18, <2>1, Actor DEF DeletesTimer, TaskAt
  <2>4. PICK w \in Works : w = work[t]
    BY <1>18, <2>1, Actor DEF DeletesTimer, TaskAt
  <2>5. MoveBoth(t, "wait_on_work", "clear_pending", work[t], 0, w, "idle") /\ pc[w] = "armed"
    BY <1>18, <2>2, <2>4 DEF DeletesTimer
  <2>6. TimerAt(w, "idle", next[w], work[w], cpu[w])
    <3>1. TimerAt(w, pc[w], next[w], work[w], cpu[w])
      BY LocalFacts
    <3> QED BY <2>5, <3>1 DEF TimerAt
  <2>7. /\ Goes(t, "wait_on_work", "clear_pending", work[t], 0)
        /\ Goes(w, "idle", next[w], work[w], cpu[w]) /\ OthersBoth(t, w)
    BY <2>5, MoveBothFacts, Actor
  <2>8. At(t)'
    BY <2>3, <2>7, GoesAt, Actor
  <2>9. At(w)'
    BY <2>6, <2>7, GoesAt, Actor
  <2> QED BY <2>7, <2>8, <2>9, LocalsBothKept, Actor
<1>19. ASSUME NEW t \in Tasks, TimerMissed(t)
      PROVE  Locals'
  <2>1. TaskAt(pc[t], next[t], work[t], cpu[t])
    BY LocalFacts
  <2>2. Move(t, "grab", next[t], work[t], 0)
    BY <1>19 DEF TimerMissed, Quiet
  <2>3. TaskAt("grab", next[t], work[t], 0)
    BY <1>19, <2>1, Actor DEF TimerMissed, TaskAt
  <2>4. Goes(t, "grab", next[t], work[t], 0) /\ Others(t)
    BY <2>2, MoveFacts, Actor
  <2>5. At(t)'
    BY <2>3, <2>4, GoesAt, Actor
  <2> QED BY <2>4, <2>5, LocalsKept, Actor
<1>20. ASSUME NEW t \in Tasks, Grabs(t)
      PROVE  Locals'
  <2>1. TaskAt(pc[t], next[t], work[t], cpu[t])
    BY LocalFacts
  <2>2. Move(t, "wait_on_work", "clear_pending", work[t], 0)
    BY <1>20 DEF Grabs
  <2>3. TaskAt("wait_on_work", "clear_pending", work[t], 0)
    BY <1>20, <2>1, Actor DEF Grabs, TaskAt
  <2>4. Goes(t, "wait_on_work", "clear_pending", work[t], 0) /\ Others(t)
    BY <2>2, MoveFacts, Actor
  <2>5. At(t)'
    BY <2>3, <2>4, GoesAt, Actor
  <2> QED BY <2>4, <2>5, LocalsKept, Actor
<1>21. ASSUME NEW t \in Tasks, GrabFails(t)
      PROVE  Locals'
  <2>1. TaskAt(pc[t], next[t], work[t], cpu[t])
    BY LocalFacts
  <2>2. Move(t, "wait_on_work", next[t], work[t], 0)
    BY <1>21 DEF GrabFails, Quiet
  <2>3. TaskAt("wait_on_work", next[t], work[t], 0)
    BY <1>21, <2>1, Actor DEF GrabFails, TaskAt
  <2>4. Goes(t, "wait_on_work", next[t], work[t], 0) /\ Others(t)
    BY <2>2, MoveFacts, Actor
  <2>5. At(t)'
    BY <2>3, <2>4, GoesAt, Actor
  <2> QED BY <2>4, <2>5, LocalsKept, Actor
<1>22. ASSUME NEW t \in Tasks, GrabLooks(t)
      PROVE  Locals'
  <2>1. TaskAt(pc[t], next[t], work[t], cpu[t])
    BY LocalFacts
  <2>2. Move(t, "steal", next[t], work[t], data[work[t]])
    BY <1>22 DEF GrabLooks, Quiet
  <2>3. TaskAt("steal", next[t], work[t], data[work[t]])
    BY <1>22, <2>1, Actor DEF GrabLooks, TaskAt, Types
  <2>4. Goes(t, "steal", next[t], work[t], data[work[t]]) /\ Others(t)
    BY <2>2, MoveFacts, Actor
  <2>5. At(t)'
    BY <2>3, <2>4, GoesAt, Actor
  <2> QED BY <2>4, <2>5, LocalsKept, Actor
<1>23. ASSUME NEW t \in Tasks, Steals(t)
      PROVE  Locals'
  <2>1. TaskAt(pc[t], next[t], work[t], cpu[t])
    BY LocalFacts
  <2>2. Move(t, "wait_on_work", "clear_pending", work[t], 0)
    BY <1>23 DEF Steals
  <2>3. TaskAt("wait_on_work", "clear_pending", work[t], 0)
    BY <1>23, <2>1, Actor DEF Steals, TaskAt
  <2>4. Goes(t, "wait_on_work", "clear_pending", work[t], 0) /\ Others(t)
    BY <2>2, MoveFacts, Actor
  <2>5. At(t)'
    BY <2>3, <2>4, GoesAt, Actor
  <2> QED BY <2>4, <2>5, LocalsKept, Actor
<1>24. ASSUME NEW t \in Tasks, StealFails(t)
      PROVE  Locals'
  <2>1. TaskAt(pc[t], next[t], work[t], cpu[t])
    BY LocalFacts
  <2>2. Move(t, "wait_on_work", next[t], work[t], 0)
    BY <1>24 DEF StealFails, Quiet
  <2>3. TaskAt("wait_on_work", next[t], work[t], 0)
    BY <1>24, <2>1, Actor DEF StealFails, TaskAt
  <2>4. Goes(t, "wait_on_work", next[t], work[t], 0) /\ Others(t)
    BY <2>2, MoveFacts, Actor
  <2>5. At(t)'
    BY <2>3, <2>4, GoesAt, Actor
  <2> QED BY <2>4, <2>5, LocalsKept, Actor
<1>25. ASSUME NEW t \in Tasks, WaitSkips(t)
      PROVE  Locals'
  <2>1. TaskAt(pc[t], next[t], work[t], cpu[t])
    BY LocalFacts
  <2>2. Move(t, next[t], next[t], work[t], 0)
    BY <1>25 DEF WaitSkips, Quiet
  <2>3. TaskAt(next[t], next[t], work[t], 0)
    BY <1>25, <2>1, Actor DEF WaitSkips, TaskAt
  <2>4. Goes(t, next[t], next[t], work[t], 0) /\ Others(t)
    BY <2>2, MoveFacts, Actor
  <2>5. At(t)'
    BY <2>3, <2>4, GoesAt, Actor
  <2> QED BY <2>4, <2>5, LocalsKept, Actor
<1>26. ASSUME NEW t \in Tasks, WaitStarts(t)
      PROVE  Locals'
  <2>1. TaskAt(pc[t], next[t], work[t], cpu[t])
    BY LocalFacts
  <2>2. Move(t, "wait_scan", next[t], work[t], 0)
    BY <1>26 DEF WaitStarts, Quiet
  <2>3. TaskAt("wait_scan", next[t], work[t], 0)
    BY <1>26, <2>1, Actor DEF WaitStarts, TaskAt
  <2>4. Goes(t, "wait_scan", next[t], work[t], 0) /\ Others(t)
    BY <2>2, MoveFacts, Actor
  <2>5. At(t)'
    BY <2>3, <2>4, GoesAt, Actor
  <2> QED BY <2>4, <2>5, LocalsKept, Actor
<1>27. ASSUME NEW t \in Tasks, WaitEnds(t)
      PROVE  Locals'
  <2>1. TaskAt(pc[t], next[t], work[t], cpu[t])
    BY LocalFacts
  <2>2. Move(t, next[t], next[t], work[t], 0)
    BY <1>27 DEF WaitEnds, Quiet
  <2>3. TaskAt(next[t], next[t], work[t], 0)
    BY <1>27, <2>1, Actor DEF WaitEnds, TaskAt
  <2>4. Goes(t, next[t], next[t], work[t], 0) /\ Others(t)
    BY <2>2, MoveFacts, Actor
  <2>5. At(t)'
    BY <2>3, <2>4, GoesAt, Actor
  <2> QED BY <2>4, <2>5, LocalsKept, Actor
<1>28. ASSUME NEW t \in Tasks, WaitWaited(t)
      PROVE  Locals'
  <2>1. TaskAt(pc[t], next[t], work[t], cpu[t])
    BY LocalFacts
  <2>2. Move(t, "wait_scan", next[t], work[t], cpu[t])
    BY <1>28 DEF WaitWaited, Waited
  <2>3. TaskAt("wait_scan", next[t], work[t], cpu[t])
    BY <1>28, <2>1, Actor DEF WaitWaited, TaskAt, Types
  <2>4. Goes(t, "wait_scan", next[t], work[t], cpu[t]) /\ Others(t)
    BY <2>2, MoveFacts, Actor
  <2>5. At(t)'
    BY <2>3, <2>4, GoesAt, Actor
  <2> QED BY <2>4, <2>5, LocalsKept, Actor
<1>29. ASSUME NEW t \in Tasks, Drops(t)
      PROVE  Locals'
  <2>1. TaskAt(pc[t], next[t], work[t], cpu[t])
    BY LocalFacts
  <2>2. Move(t, "idle", "idle", Null, 0)
    BY <1>29 DEF Drops
  <2>3. TaskAt("idle", "idle", Null, 0)
    BY <1>29, <2>1, Actor DEF Drops, TaskAt
  <2>4. Goes(t, "idle", "idle", Null, 0) /\ Others(t)
    BY <2>2, MoveFacts, Actor
  <2>5. At(t)'
    BY <2>3, <2>4, GoesAt, Actor
  <2> QED BY <2>4, <2>5, LocalsKept, Actor
<1>30. ASSUME NEW c \in CPUs, NEW w \in Works, NEW k \in online, NEW p \in {"queue",
        "add_timer"}, Takes(c, w, k, p, "func", "run")
      PROVE  Locals'
  <2>1. WorkerAt(pc[c], next[c], work[c], cpu[c])
    BY LocalFacts
  <2>2. Move(c, p, "run", w, k)
    BY <1>30 DEF Takes
  <2>3. WorkerAt(p, "run", w, k)
    BY <1>30, <2>1, Actor DEF Takes, WorkerAt, Types
  <2>4. Goes(c, p, "run", w, k) /\ Others(c)
    BY <2>2, MoveFacts, Actor
  <2>5. At(c)'
    BY <2>3, <2>4, GoesAt, Actor
  <2> QED BY <2>4, <2>5, LocalsKept, Actor
<1>31. ASSUME NEW c \in CPUs, NEW w \in Works, c \in online, TimerFires(w, c)
      PROVE  Locals'
  <2>1. TimerAt(w, pc[w], next[w], work[w], cpu[w])
    BY LocalFacts
  <2>2. Move(w, "queue", "idle", w, c)
    BY <1>31 DEF TimerFires
  <2>3. TimerAt(w, "queue", "idle", w, c)
    BY <1>31, <2>1, Actor DEF TimerFires, TimerAt, Types
  <2>4. Goes(w, "queue", "idle", w, c) /\ Others(w)
    BY <2>2, MoveFacts, Actor
  <2>5. At(w)'
    BY <2>3, <2>4, GoesAt, Actor
  <2> QED BY <2>4, <2>5, LocalsKept, Actor
<1>32. ASSUME NEW a \in Queuers, SetsData(a)
      PROVE  Locals'
  <2>1. pc[a] \in {"queue", "insert", "add_timer"} /\ Move(a, "insert", next[a], work[a], cpu[a])
    BY <1>32 DEF SetsData
  <2>2. work[a] \in Works /\ cpu[a] \in CPUs /\ a \in Actors /\ a # Hotplug
    BY <2>1, QueuerFacts
  <2>3. ASSUME a \in Tasks PROVE TaskAt("insert", next[a], work[a], cpu[a])
    <3>1. TaskAt(pc[a], next[a], work[a], cpu[a])
      BY <2>3, LocalFacts
    <3> QED BY <1>32, <3>1 DEF SetsData, TaskAt
  <2>4. ASSUME a \in CPUs PROVE WorkerAt("insert", next[a], work[a], cpu[a])
    <3>1. WorkerAt(pc[a], next[a], work[a], cpu[a])
      BY <2>4, LocalFacts
    <3> QED BY <1>32, <3>1 DEF SetsData, WorkerAt
  <2>5. ASSUME a \in Works PROVE TimerAt(a, "insert", next[a], work[a], cpu[a])
    <3>1. TimerAt(a, pc[a], next[a], work[a], cpu[a])
      BY <2>5, LocalFacts
    <3> QED BY <1>32, <3>1 DEF SetsData, TimerAt
  <2>6. Goes(a, "insert", next[a], work[a], cpu[a]) /\ Others(a)
    BY <2>1, <2>2, MoveFacts
  <2>8. At(a)'
    BY <2>2, <2>3, <2>4, <2>5, <2>6, GoesAt
  <2> QED BY <2>2, <2>6, <2>8, LocalsKept
<1>33. ASSUME NEW a \in Queuers, Inserts(a)
      PROVE  Locals'
  <2>1. pc[a] \in {"queue", "insert", "add_timer"} /\ Move(a, next[a], "idle",
          IF next[a] = "flush_work" THEN work[a] ELSE Null, 0)
    BY <1>33 DEF Inserts
  <2>2. work[a] \in Works /\ cpu[a] \in CPUs /\ a \in Actors /\ a # Hotplug
    BY <2>1, QueuerFacts
  <2>0. PICK x : x = IF next[a] = "flush_work" THEN work[a] ELSE Null
    OBVIOUS
  <2>7. Move(a, next[a], "idle", x, 0)
    BY <2>0, <2>1
  <2>3. ASSUME a \in Tasks PROVE TaskAt(next[a], "idle", x, 0)
    <3>1. TaskAt(pc[a], next[a], work[a], cpu[a])
      BY <2>3, LocalFacts
    <3> QED BY <1>33, <2>0, <3>1 DEF Inserts, TaskAt
  <2>4. ASSUME a \in CPUs PROVE WorkerAt(next[a], "idle", x, 0)
    <3>1. WorkerAt(pc[a], next[a], work[a], cpu[a])
      BY <2>4, LocalFacts
    <3> QED BY <1>33, <2>0, <3>1 DEF Inserts, WorkerAt
  <2>5. ASSUME a \in Works PROVE TimerAt(a, next[a], "idle", x, 0)
    <3>1. TimerAt(a, pc[a], next[a], work[a], cpu[a])
      BY <2>5, LocalFacts
    <3> QED BY <1>33, <2>0, <3>1 DEF Inserts, TimerAt
  <2>6. Goes(a, next[a], "idle", x, 0) /\ Others(a)
    BY <2>7, <2>2, MoveFacts
  <2>8. At(a)'
    BY <2>2, <2>3, <2>4, <2>5, <2>6, GoesAt
  <2> QED BY <2>2, <2>6, <2>8, LocalsKept
<1>34. ASSUME NEW a \in Queuers, AddsTimer(a)
      PROVE  Locals'
  <2>1. pc[a] \in {"queue", "insert", "add_timer"} /\ MoveBoth(a, next[a], "idle", Null, 0,
          work[a], "armed")
    BY <1>34 DEF AddsTimer
  <2>2. work[a] \in Works /\ cpu[a] \in CPUs /\ a \in Actors /\ a # Hotplug
    BY <2>1, QueuerFacts
  <2>3. a \notin Works
    <3>1. ASSUME a \in Works PROVE FALSE
      <4>1. TimerAt(a, pc[a], next[a], work[a], cpu[a])
        BY <3>1, LocalFacts
      <4> QED BY <1>34, <4>1 DEF AddsTimer, TimerAt
    <3> QED BY <3>1
  <2>4. PICK w \in Works : w = work[a]
    BY <2>2
  <2>5. MoveBoth(a, next[a], "idle", Null, 0, w, "armed") /\ Hand(a) = w /\ a # w
    BY <1>34, <2>3, <2>4 DEF AddsTimer, Hand
  <2>6. pc[w] = "idle"
    BY <2>2, <2>5, HeldTimer
  <2>7. TimerAt(w, "armed", next[w], work[w], cpu[w])
    <3>1. TimerAt(w, pc[w], next[w], work[w], cpu[w])
      BY LocalFacts
    <3> QED BY <2>6, <3>1 DEF TimerAt
  <2>8. /\ a \in Tasks => TaskAt(next[a], "idle", Null, 0)
        /\ a \in CPUs => WorkerAt(next[a], "idle", Null, 0)
    <3>1. ASSUME a \in Tasks PROVE TaskAt(next[a], "idle", Null, 0)
      <4>1. TaskAt(pc[a], next[a], work[a], cpu[a])
        BY <3>1, LocalFacts
      <4> QED BY <1>34, <4>1 DEF AddsTimer, TaskAt
    <3>2. ASSUME a \in CPUs PROVE WorkerAt(next[a], "idle", Null, 0)
      <4>1. WorkerAt(pc[a], next[a], work[a], cpu[a])
        BY <3>2, LocalFacts
      <4> QED BY <1>34, <4>1 DEF AddsTimer, WorkerAt
    <3> QED BY <3>1, <3>2
  <2>9. /\ Goes(a, next[a], "idle", Null, 0) /\ OthersBoth(a, w)
        /\ Goes(w, "armed", next[w], work[w], cpu[w])
    BY <2>2, <2>5, MoveBothFacts, Actor
  <2>10. At(a)'
    BY <2>2, <2>3, <2>8, <2>9, GoesAt
  <2>11. At(w)'
    BY <2>7, <2>9, GoesAt, Actor
  <2> QED BY <2>2, <2>9, <2>10, <2>11, LocalsBothKept, Actor
<1>35. ASSUME NEW c \in CPUs, NEW p \in {"test", "schedule", "finish"}, Sleeps(c, p)
      PROVE  Locals'
  <2>1. WorkerAt(pc[c], next[c], work[c], cpu[c])
    BY LocalFacts
  <2>2. Move(c, p, "idle", Null, 0)
    BY <1>35 DEF Sleeps, Quiet
  <2>3. WorkerAt(p, "idle", Null, 0)
    BY <1>35, <2>1, Actor DEF Sleeps, WorkerAt
  <2>4. Goes(c, p, "idle", Null, 0) /\ Others(c)
    BY <2>2, MoveFacts, Actor
  <2>5. At(c)'
    BY <2>3, <2>4, GoesAt, Actor
  <2> QED BY <2>4, <2>5, LocalsKept, Actor
<1>36. ASSUME NEW c \in CPUs, Runs(c)
      PROVE  Locals'
  <2>1. WorkerAt(pc[c], next[c], work[c], cpu[c])
    BY LocalFacts
  <2>2. Move(c, "run", "idle", Null, 0)
    BY <1>36 DEF Runs, Quiet
  <2>3. WorkerAt("run", "idle", Null, 0)
    BY <1>36, <2>1, Actor DEF Runs, WorkerAt
  <2>4. Goes(c, "run", "idle", Null, 0) /\ Others(c)
    BY <2>2, MoveFacts, Actor
  <2>5. At(c)'
    BY <2>3, <2>4, GoesAt, Actor
  <2> QED BY <2>4, <2>5, LocalsKept, Actor
<1>37. ASSUME NEW c \in CPUs, Exits(c)
      PROVE  Locals'
  <2>1. WorkerAt(pc[c], next[c], work[c], cpu[c])
    BY LocalFacts
  <2>2. Move(c, "exited", "idle", Null, 0)
    BY <1>37 DEF Exits, Quiet
  <2>3. WorkerAt("exited", "idle", Null, 0)
    BY <1>37, <2>1, Actor DEF Exits, WorkerAt
  <2>4. Goes(c, "exited", "idle", Null, 0) /\ Others(c)
    BY <2>2, MoveFacts, Actor
  <2>5. At(c)'
    BY <2>3, <2>4, GoesAt, Actor
  <2> QED BY <2>4, <2>5, LocalsKept, Actor
<1>38. ASSUME NEW c \in CPUs, FuncEnds(c)
      PROVE  Locals'
  <2>1. WorkerAt(pc[c], next[c], work[c], cpu[c])
    BY LocalFacts
  <2>2. Move(c, "run", "idle", Null, 0)
    BY <1>38 DEF FuncEnds, Quiet
  <2>3. WorkerAt("run", "idle", Null, 0)
    BY <1>38, <2>1, Actor DEF FuncEnds, WorkerAt
  <2>4. Goes(c, "run", "idle", Null, 0) /\ Others(c)
    BY <2>2, MoveFacts, Actor
  <2>5. At(c)'
    BY <2>3, <2>4, GoesAt, Actor
  <2> QED BY <2>4, <2>5, LocalsKept, Actor
<1>39. ASSUME NEW c \in CPUs, NoMoreWork(c)
      PROVE  Locals'
  <2>1. WorkerAt(pc[c], next[c], work[c], cpu[c])
    BY LocalFacts
  <2>2. Move(c, "prepare", "idle", Null, 0)
    BY <1>39 DEF NoMoreWork
  <2>3. WorkerAt("prepare", "idle", Null, 0)
    BY <1>39, <2>1, Actor DEF NoMoreWork, WorkerAt
  <2>4. Goes(c, "prepare", "idle", Null, 0) /\ Others(c)
    BY <2>2, MoveFacts, Actor
  <2>5. At(c)'
    BY <2>3, <2>4, GoesAt, Actor
  <2> QED BY <2>4, <2>5, LocalsKept, Actor
<1>40. ASSUME NEW c \in CPUs, TakesWork(c)
      PROVE  Locals'
  <2>1. WorkerAt(pc[c], next[c], work[c], cpu[c])
    BY LocalFacts
  <2>2. Move(c, "clear", "idle", Null, 0)
    BY <1>40 DEF TakesWork
  <2>3. WorkerAt("clear", "idle", Null, 0)
    BY <1>40, <2>1, Actor DEF TakesWork, WorkerAt
  <2>4. Goes(c, "clear", "idle", Null, 0) /\ Others(c)
    BY <2>2, MoveFacts, Actor
  <2>5. At(c)'
    BY <2>3, <2>4, GoesAt, Actor
  <2> QED BY <2>4, <2>5, LocalsKept, Actor
<1>41. ASSUME NEW c \in CPUs, ClearsPending(c)
      PROVE  Locals'
  <2>1. WorkerAt(pc[c], next[c], work[c], cpu[c])
    BY LocalFacts
  <2>2. Move(c, "func", "idle", Null, 0)
    BY <1>41 DEF ClearsPending
  <2>3. WorkerAt("func", "idle", Null, 0)
    BY <1>41, <2>1, Actor DEF ClearsPending, WorkerAt
  <2>4. Goes(c, "func", "idle", Null, 0) /\ Others(c)
    BY <2>2, MoveFacts, Actor
  <2>5. At(c)'
    BY <2>3, <2>4, GoesAt, Actor
  <2> QED BY <2>4, <2>5, LocalsKept, Actor
<1>42. ASSUME NEW c \in CPUs, RunsBarrier(c)
      PROVE  Locals'
  <2>1. WorkerAt(pc[c], next[c], work[c], cpu[c])
    BY LocalFacts
  <2>2. Move(c, "run", "idle", Null, 0)
    BY <1>42 DEF RunsBarrier
  <2>3. WorkerAt("run", "idle", Null, 0)
    BY <1>42, <2>1, Actor DEF RunsBarrier, WorkerAt
  <2>4. Goes(c, "run", "idle", Null, 0) /\ Others(c)
    BY <2>2, MoveFacts, Actor
  <2>5. At(c)'
    BY <2>3, <2>4, GoesAt, Actor
  <2> QED BY <2>4, <2>5, LocalsKept, Actor
<1>43. ASSUME NEW c \in CPUs, GoesDown(c)
      PROVE  Locals'
  <2>1. HotplugAt(pc[Hotplug], next[Hotplug], work[Hotplug], cpu[Hotplug])
    BY LocalFacts
  <2>2. Move(Hotplug, "cleanup", "unpopulate", Null, c)
    BY <1>43 DEF GoesDown
  <2>3. HotplugAt("cleanup", "unpopulate", Null, c)
    BY <1>43, <2>1, Actor DEF GoesDown, HotplugAt
  <2>4. Goes(Hotplug, "cleanup", "unpopulate", Null, c) /\ Others(Hotplug)
    BY <2>2, MoveFacts, Actor
  <2>5. At(Hotplug)'
    BY <2>3, <2>4, GoesAt, Actor
  <2> QED BY <2>4, <2>5, LocalsKept, Actor
<1>44. ASSUME NEW c \in CPUs, GoesUp(c)
      PROVE  Locals'
  <2>1. HotplugAt(pc[Hotplug], next[Hotplug], work[Hotplug], cpu[Hotplug])
    BY LocalFacts
  <2>2. Move(Hotplug, "create", "unpopulate", Null, c)
    BY <1>44 DEF GoesUp
  <2>3. HotplugAt("create", "unpopulate", Null, c)
    BY <1>44, <2>1, Actor DEF GoesUp, HotplugAt
  <2>4. Goes(Hotplug, "create", "unpopulate", Null, c) /\ Others(Hotplug)
    BY <2>2, MoveFacts, Actor
  <2>5. At(Hotplug)'
    BY <2>3, <2>4, GoesAt, Actor
  <2> QED BY <2>4, <2>5, LocalsKept, Actor
<1>45. ASSUME NEW c \in CPUs, SkipsFlush(c)
      PROVE  Locals'
  <2>1. HotplugAt(pc[Hotplug], next[Hotplug], work[Hotplug], cpu[Hotplug])
    BY LocalFacts
  <2>2. Move(Hotplug, "kthread_stop", next[Hotplug], Null, c)
    BY <1>45 DEF SkipsFlush, Quiet
  <2>3. HotplugAt("kthread_stop", next[Hotplug], Null, c)
    BY <1>45, <2>1, Actor DEF SkipsFlush, HotplugAt
  <2>4. Goes(Hotplug, "kthread_stop", next[Hotplug], Null, c) /\ Others(Hotplug)
    BY <2>2, MoveFacts, Actor
  <2>5. At(Hotplug)'
    BY <2>3, <2>4, GoesAt, Actor
  <2> QED BY <2>4, <2>5, LocalsKept, Actor
<1>46. ASSUME NEW c \in CPUs, CleanupInserts(c)
      PROVE  Locals'
  <2>1. HotplugAt(pc[Hotplug], next[Hotplug], work[Hotplug], cpu[Hotplug])
    BY LocalFacts
  <2>2. Move(Hotplug, "cleanup_wait", next[Hotplug], Null, c)
    BY <1>46 DEF CleanupInserts, Barrier
  <2>3. HotplugAt("cleanup_wait", next[Hotplug], Null, c)
    BY <1>46, <2>1, Actor DEF CleanupInserts, HotplugAt
  <2>4. Goes(Hotplug, "cleanup_wait", next[Hotplug], Null, c) /\ Others(Hotplug)
    BY <2>2, MoveFacts, Actor
  <2>5. At(Hotplug)'
    BY <2>3, <2>4, GoesAt, Actor
  <2> QED BY <2>4, <2>5, LocalsKept, Actor
<1>47. ASSUME NEW c \in CPUs, CleanupWaited(c)
      PROVE  Locals'
  <2>1. HotplugAt(pc[Hotplug], next[Hotplug], work[Hotplug], cpu[Hotplug])
    BY LocalFacts
  <2>2. Move(Hotplug, "kthread_stop", next[Hotplug], Null, c)
    BY <1>47 DEF CleanupWaited, Waited
  <2>3. HotplugAt("kthread_stop", next[Hotplug], Null, c)
    BY <1>47, <2>1, Actor DEF CleanupWaited, HotplugAt
  <2>4. Goes(Hotplug, "kthread_stop", next[Hotplug], Null, c) /\ Others(Hotplug)
    BY <2>2, MoveFacts, Actor
  <2>5. At(Hotplug)'
    BY <2>3, <2>4, GoesAt, Actor
  <2> QED BY <2>4, <2>5, LocalsKept, Actor
<1>48. ASSUME NEW c \in CPUs, Stops(c)
      PROVE  Locals'
  <2>1. HotplugAt(pc[Hotplug], next[Hotplug], work[Hotplug], cpu[Hotplug])
    BY LocalFacts
  <2>2. Move(Hotplug, "wait_exited", next[Hotplug], Null, c)
    BY <1>48 DEF Stops
  <2>3. HotplugAt("wait_exited", next[Hotplug], Null, c)
    BY <1>48, <2>1, Actor DEF Stops, HotplugAt
  <2>4. Goes(Hotplug, "wait_exited", next[Hotplug], Null, c) /\ Others(Hotplug)
    BY <2>2, MoveFacts, Actor
  <2>5. At(Hotplug)'
    BY <2>3, <2>4, GoesAt, Actor
  <2> QED BY <2>4, <2>5, LocalsKept, Actor
<1>49. ASSUME NEW c \in CPUs, SeesExit(c)
      PROVE  Locals'
  <2>1. HotplugAt(pc[Hotplug], next[Hotplug], work[Hotplug], cpu[Hotplug])
    BY LocalFacts
  <2>2. MoveBoth(Hotplug, next[Hotplug], next[Hotplug], Null, c, c, "no thread")
    BY <1>49 DEF SeesExit
  <2>3. HotplugAt(next[Hotplug], next[Hotplug], Null, c)
    BY <1>49, <2>1, Actor DEF SeesExit, HotplugAt
  <2>5. pc[c] = "exited"
    BY <1>49 DEF SeesExit
  <2>6. WorkerAt("no thread", next[c], work[c], cpu[c])
    <3>1. WorkerAt(pc[c], next[c], work[c], cpu[c])
      BY LocalFacts
    <3> QED BY <2>5, <3>1 DEF WorkerAt, Thread
  <2>7. /\ Goes(Hotplug, next[Hotplug], next[Hotplug], Null, c)
        /\ Goes(c, "no thread", next[c], work[c], cpu[c]) /\ OthersBoth(Hotplug, c)
    BY <2>2, MoveBothFacts, Actor
  <2>8. At(Hotplug)'
    BY <2>3, <2>7, GoesAt, Actor
  <2>9. At(c)'
    BY <2>6, <2>7, GoesAt, Actor
  <2> QED BY <2>7, <2>8, <2>9, LocalsBothKept, Actor
<1>50. ASSUME NEW c \in CPUs, Unpopulates(c)
      PROVE  Locals'
  <2>1. HotplugAt(pc[Hotplug], next[Hotplug], work[Hotplug], cpu[Hotplug])
    BY LocalFacts
  <2>2. Move(Hotplug, "idle", "idle", Null, 0)
    BY <1>50 DEF Unpopulates
  <2>3. HotplugAt("idle", "idle", Null, 0)
    BY <1>50, <2>1, Actor DEF Unpopulates, HotplugAt
  <2>4. Goes(Hotplug, "idle", "idle", Null, 0) /\ Others(Hotplug)
    BY <2>2, MoveFacts, Actor
  <2>5. At(Hotplug)'
    BY <2>3, <2>4, GoesAt, Actor
  <2> QED BY <2>4, <2>5, LocalsKept, Actor
<1>51. ASSUME NEW c \in CPUs, Creates(c)
      PROVE  Locals'
  <2>1. HotplugAt(pc[Hotplug], next[Hotplug], work[Hotplug], cpu[Hotplug])
    BY LocalFacts
  <2>2. MoveBoth(Hotplug, "bring_up", "unpopulate", Null, c, c, "created")
    BY <1>51 DEF Creates
  <2>3. HotplugAt("bring_up", "unpopulate", Null, c)
    BY <1>51, <2>1, Actor DEF Creates, HotplugAt
  <2>5. Thread(c) = "no thread"
    BY <1>51, <2>1, Actor DEF Creates, HotplugAt, Threads, HotplugOK
  <2>6. WorkerAt("created", next[c], work[c], cpu[c])
    <3>1. WorkerAt(pc[c], next[c], work[c], cpu[c])
      BY LocalFacts
    <3> QED BY <2>5, <3>1 DEF WorkerAt, Thread
  <2>7. /\ Goes(Hotplug, "bring_up", "unpopulate", Null, c)
        /\ Goes(c, "created", next[c], work[c], cpu[c]) /\ OthersBoth(Hotplug, c)
    BY <2>2, MoveBothFacts, Actor
  <2>8. At(Hotplug)'
    BY <2>3, <2>7, GoesAt, Actor
  <2>9. At(c)'
    BY <2>6, <2>7, GoesAt, Actor
  <2> QED BY <2>7, <2>8, <2>9, LocalsBothKept, Actor
<1>52. ASSUME NEW c \in CPUs, CreateFails(c)
      PROVE  Locals'
  <2>1. HotplugAt(pc[Hotplug], next[Hotplug], work[Hotplug], cpu[Hotplug])
    BY LocalFacts
  <2>2. Move(Hotplug, "unpopulate", "unpopulate", Null, c)
    BY <1>52 DEF CreateFails, Quiet
  <2>3. HotplugAt("unpopulate", "unpopulate", Null, c)
    BY <1>52, <2>1, Actor DEF CreateFails, HotplugAt
  <2>4. Goes(Hotplug, "unpopulate", "unpopulate", Null, c) /\ Others(Hotplug)
    BY <2>2, MoveFacts, Actor
  <2>5. At(Hotplug)'
    BY <2>3, <2>4, GoesAt, Actor
  <2> QED BY <2>4, <2>5, LocalsKept, Actor
<1>53. ASSUME NEW c \in CPUs, ComesUp(c)
      PROVE  Locals'
  <2>1. HotplugAt(pc[Hotplug], next[Hotplug], work[Hotplug], cpu[Hotplug])
    BY LocalFacts
  <2>2. Move(Hotplug, "cpu_online", "unpopulate", Null, c)
    BY <1>53 DEF ComesUp
  <2>3. HotplugAt("cpu_online", "unpopulate", Null, c)
    BY <1>53, <2>1, Actor DEF ComesUp, HotplugAt
  <2>4. Goes(Hotplug, "cpu_online", "unpopulate", Null, c) /\ Others(Hotplug)
    BY <2>2, MoveFacts, Actor
  <2>5. At(Hotplug)'
    BY <2>3, <2>4, GoesAt, Actor
  <2> QED BY <2>4, <2>5, LocalsKept, Actor
<1>54. ASSUME NEW c \in CPUs, UpCanceled(c)
      PROVE  Locals'
  <2>1. HotplugAt(pc[Hotplug], next[Hotplug], work[Hotplug], cpu[Hotplug])
    BY LocalFacts
  <2>2. MoveBoth(Hotplug, "cleanup", "unpopulate", Null, c, c, "prepare")
    BY <1>54 DEF UpCanceled
  <2>3. HotplugAt("cleanup", "unpopulate", Null, c)
    BY <1>54, <2>1, Actor DEF UpCanceled, HotplugAt
  <2>5. Thread(c) = "created"
    BY <1>54, <2>1, Actor DEF UpCanceled, HotplugAt, Threads, HotplugOK
  <2>6. WorkerAt("prepare", next[c], work[c], cpu[c])
    <3>1. WorkerAt(pc[c], next[c], work[c], cpu[c])
      BY LocalFacts
    <3> QED BY <2>5, <3>1 DEF WorkerAt, Thread
  <2>7. /\ Goes(Hotplug, "cleanup", "unpopulate", Null, c)
        /\ Goes(c, "prepare", next[c], work[c], cpu[c]) /\ OthersBoth(Hotplug, c)
    BY <2>2, MoveBothFacts, Actor
  <2>8. At(Hotplug)'
    BY <2>3, <2>7, GoesAt, Actor
  <2>9. At(c)'
    BY <2>6, <2>7, GoesAt, Actor
  <2> QED BY <2>7, <2>8, <2>9, LocalsBothKept, Actor
<1>55. ASSUME NEW c \in CPUs, StartsThread(c)
      PROVE  Locals'
  <2>1. HotplugAt(pc[Hotplug], next[Hotplug], work[Hotplug], cpu[Hotplug])
    BY LocalFacts
  <2>2. MoveBoth(Hotplug, "idle", "idle", Null, 0, c, "prepare")
    BY <1>55 DEF StartsThread
  <2>3. HotplugAt("idle", "idle", Null, 0)
    BY <1>55, <2>1, Actor DEF StartsThread, HotplugAt
  <2>5. Thread(c) = "created"
    BY <1>55, <2>1, Actor DEF StartsThread, HotplugAt, Threads, HotplugOK
  <2>6. WorkerAt("prepare", next[c], work[c], cpu[c])
    <3>1. WorkerAt(pc[c], next[c], work[c], cpu[c])
      BY LocalFacts
    <3> QED BY <2>5, <3>1 DEF WorkerAt, Thread
  <2>7. /\ Goes(Hotplug, "idle", "idle", Null, 0)
        /\ Goes(c, "prepare", next[c], work[c], cpu[c]) /\ OthersBoth(Hotplug, c)
    BY <2>2, MoveBothFacts, Actor
  <2>8. At(Hotplug)'
    BY <2>3, <2>7, GoesAt, Actor
  <2>9. At(c)'
    BY <2>6, <2>7, GoesAt, Actor
  <2> QED BY <2>7, <2>8, <2>9, LocalsBothKept, Actor
<1>56. ASSUME NEW c \in CPUs, DestroyVisits(c)
      PROVE  Locals'
  <2>1. HotplugAt(pc[Hotplug], next[Hotplug], work[Hotplug], cpu[Hotplug])
    BY LocalFacts
  <2>2. Move(Hotplug, "cleanup", "destroy_scan", Null, c)
    BY <1>56 DEF DestroyVisits, Quiet
  <2>3. HotplugAt("cleanup", "destroy_scan", Null, c)
    BY <1>56, <2>1, Actor DEF DestroyVisits, HotplugAt
  <2>4. Goes(Hotplug, "cleanup", "destroy_scan", Null, c) /\ Others(Hotplug)
    BY <2>2, MoveFacts, Actor
  <2>5. At(Hotplug)'
    BY <2>3, <2>4, GoesAt, Actor
  <2> QED BY <2>4, <2>5, LocalsKept, Actor
<1>57. ASSUME Destroys
      PROVE  Locals'
  <2>1. HotplugAt(pc[Hotplug], next[Hotplug], work[Hotplug], cpu[Hotplug])
    BY LocalFacts
  <2>2. Move(Hotplug, "destroy_scan", "destroy_scan", Null, 0)
    BY <1>57 DEF Destroys, Quiet
  <2>3. HotplugAt("destroy_scan", "destroy_scan", Null, 0)
    BY <1>57, <2>1, Actor DEF Destroys, HotplugAt
  <2>4. Goes(Hotplug, "destroy_scan", "destroy_scan", Null, 0) /\ Others(Hotplug)
    BY <2>2, MoveFacts, Actor
  <2>5. At(Hotplug)'
    BY <2>3, <2>4, GoesAt, Actor
  <2> QED BY <2>4, <2>5, LocalsKept, Actor
<1>58. ASSUME DestroyEnds
      PROVE  Locals'
  <2>1. HotplugAt(pc[Hotplug], next[Hotplug], work[Hotplug], cpu[Hotplug])
    BY LocalFacts
  <2>2. Move(Hotplug, "freed", "destroy_scan", Null, 0)
    BY <1>58 DEF DestroyEnds, Quiet
  <2>3. HotplugAt("freed", "destroy_scan", Null, 0)
    BY <1>58, <2>1, Actor DEF DestroyEnds, HotplugAt
  <2>4. Goes(Hotplug, "freed", "destroy_scan", Null, 0) /\ Others(Hotplug)
    BY <2>2, MoveFacts, Actor
  <2>5. At(Hotplug)'
    BY <2>3, <2>4, GoesAt, Actor
  <2> QED BY <2>4, <2>5, LocalsKept, Actor
<1>59. ASSUME create_workqueue
      PROVE  Locals'
  <2>1. DOMAIN pc = Actors /\ online \subseteq CPUs
    BY DEF Types
  <2>2. /\ pc'[Hotplug] = "idle" /\ next'[Hotplug] = "idle" /\ work'[Hotplug] = work[Hotplug]
        /\ cpu'[Hotplug] = cpu[Hotplug]
    BY <1>59, Actor DEF create_workqueue, Types
  <2>3. At(Hotplug)'
    <3>1. HotplugAt(pc[Hotplug], next[Hotplug], work[Hotplug], cpu[Hotplug])
      BY LocalFacts
    <3>2. HotplugAt("idle", "idle", work[Hotplug], cpu[Hotplug])
      BY <1>59, <3>1 DEF create_workqueue, HotplugAt
    <3> QED BY <2>2, <3>2, Actor DEF At
  <2>4. ASSUME NEW b \in Actors, b \notin online, b # Hotplug
        PROVE  At(b)'
    <3>1. Same(b)
      BY <1>59, <2>4 DEF create_workqueue, Types, Same
    <3> QED BY <3>1, SameAt DEF Locals
  <2>5. ASSUME NEW b \in online
        PROVE  At(b)'
    <3>1. /\ pc'[b] = "prepare" /\ next'[b] = next[b] /\ work'[b] = work[b] /\ cpu'[b] = cpu[b]
          /\ b \in CPUs
      BY <1>59, <2>1, Actor DEF create_workqueue, Types
    <3>2. Thread(b) = "no thread"
      <4>1. Destroying /\ Finished(b) /\ ThreadOK(b)
        BY <1>59, <3>1 DEF create_workqueue, Destroying, Finished, Threads
      <4> QED BY <4>1 DEF ThreadOK
    <3>3. WorkerAt(pc[b], next[b], work[b], cpu[b])
      BY <3>1, LocalFacts
    <3>4. WorkerAt("prepare", next[b], work[b], cpu[b])
      BY <3>2, <3>3 DEF WorkerAt, Thread
    <3> QED BY <3>1, <3>4, Actor DEF At
  <2> QED BY <2>3, <2>4, <2>5 DEF Locals
<1>60. ASSUME NEW t \in Tasks, LockLooks(t)
      PROVE  Locals'
  <2>1. TaskAt(pc[t], next[t], work[t], cpu[t])
    BY LocalFacts
  <2>2. Move(t, "flush_data", "idle", work[t], cpu[t])
    BY <1>60 DEF LockLooks
  <2>3. TaskAt("flush_data", "idle", work[t], cpu[t])
    BY <1>60, <2>1, Actor DEF LockLooks, TaskAt
  <2>4. Goes(t, "flush_data", "idle", work[t], cpu[t]) /\ Others(t)
    BY <2>2, MoveFacts, Actor
  <2>5. At(t)'
    BY <2>3, <2>4, GoesAt, Actor
  <2> QED BY <2>4, <2>5, LocalsKept, Actor
<1>61. ASSUME NEW t \in Tasks, StealLooks(t)
      PROVE  Locals'
  <2>1. TaskAt(pc[t], next[t], work[t], cpu[t])
    BY LocalFacts
  <2>2. Move(t, "steal_data", next[t], work[t], cpu[t])
    BY <1>61 DEF StealLooks
  <2>3. TaskAt("steal_data", next[t], work[t], cpu[t])
    BY <1>61, <2>1, Actor DEF StealLooks, TaskAt
  <2>4. Goes(t, "steal_data", next[t], work[t], cpu[t]) /\ Others(t)
    BY <2>2, MoveFacts, Actor
  <2>5. At(t)'
    BY <2>3, <2>4, GoesAt, Actor
  <2> QED BY <2>4, <2>5, LocalsKept, Actor
<1> QED
  BY <1>1, <1>2, <1>3, <1>4, <1>5, <1>6, <1>7, <1>8, <1>9, <1>10, <1>11, <1>12, <1>13, <1>14,
     <1>15, <1>16, <1>17, <1>18, <1>19, <1>20, <1>21, <1>22, <1>23, <1>24, <1>25, <1>26, <1>27,
     <1>28, <1>29, <1>30, <1>31, <1>32, <1>33, <1>34, <1>35, <1>36, <1>37, <1>38, <1>39,
     <1>40, <1>41, <1>42, <1>43, <1>44, <1>45, <1>46, <1>47, <1>48, <1>49, <1>50,
     <1>51, <1>52, <1>53, <1>54, <1>55, <1>56, <1>57, <1>58, <1>59, <1>60, <1>61,
     StepCases

------------------------------------------------------------------------------
(* Types. *)
SharedTypes ==
  /\ pending \in [Works -> BOOLEAN]
  /\ data \in [Works -> CPUs \cup {Null}]
  /\ worklist \in [CPUs -> Seq(Works \cup Flushers)]
  /\ current_work \in [CPUs -> Works \cup Flushers \cup {Null}]
  /\ done \in [Flushers -> BOOLEAN]
  /\ should_stop \in [CPUs -> BOOLEAN]
  /\ online \in SUBSET CPUs
  /\ populated \in SUBSET CPUs
  /\ due \in [Tasks -> SUBSET Due]

(* No step changes what the actors may call. *)
LEMMA ProgramSame ==
  ASSUME Next, ~fooled
  PROVE  program' = program
BY DEF Next, Corrupted, Call, Step, Worker, Timer, HotplugStarts, HotplugStep

(* cwq->lock and the states of the workers. *)
LEMMA LockTypes ==
  ASSUME Types, Next, ~fooled
  PROVE  lock' \in [CPUs -> Actors \cup {Null}] /\ tstate' \in [CPUs -> TaskState]
<1> DEFINE G == lock' \in [CPUs -> Actors \cup {Null}] /\ tstate' \in [CPUs -> TaskState]
<1>1. lock \in [CPUs -> Actors \cup {Null}] /\ tstate \in [CPUs -> TaskState]
  BY DEF Types
<1>2. lock' = lock /\ tstate' = tstate => G
  BY <1>1
<1>3. \A c : lock' = lock /\ tstate' = wake_up_process(tstate, c) => G
  BY <1>1 DEF wake_up_process, TaskState
<1>4. ASSUME NEW a \in Actors, Queueing(a)
      PROVE  G
  <2>1. CASE SetWqData(a)
    BY <1>1, <1>4, <2>1 DEF SetWqData, workers
  <2>2. CASE InsertWork(a)
    <3>1. /\ lock' = [lock EXCEPT ![cpu[a]] = Null]
          /\ tstate' = wake_up_process(tstate, cpu[a])
      BY <2>2 DEF InsertWork, WakeWorker
    <3>2. lock' \in [CPUs -> Actors \cup {Null}]
      BY <1>1, <3>1
    <3>3. tstate' \in [CPUs -> TaskState]
      BY <1>1, <3>1 DEF wake_up_process, TaskState
    <3> QED BY <3>2, <3>3
  <2>3. CASE AddTimer(a)
    BY <1>2, <2>3 DEF AddTimer, workers
  <2> QED BY <1>4, <2>1, <2>2, <2>3 DEF Queueing
<1>5. ASSUME NEW a, NEW from, NEW w, NEW c, NEW to, NEW return,
             TestAndSet(a, from, w, c, to, return)
      PROVE  G
  BY <1>2, <1>5 DEF TestAndSet, workers
<1>6. ASSUME NEW t, NEW from, NEW w, FlushWork(t, from, w)
      PROVE  G
  BY <1>2, <1>6 DEF FlushWork, workers
<1>7. ASSUME NEW t \in Tasks, Call(t)
      PROVE  G
  <2>1. CASE flush_workqueue(t)
    BY <1>2, <2>1 DEF flush_workqueue, workers
  <2>2. ASSUME NEW w \in Works, queue_work(t, w) \/ queue_delayed_work(t, w)
        PROVE  G
    BY <1>5, <2>2 DEF queue_work, queue_delayed_work
  <2>3. ASSUME NEW w \in Works, flush_delayed_work(t, w)
        PROVE  G
    BY <1>2, <1>6, <2>3 DEF flush_delayed_work, workers
  <2>4. ASSUME NEW w \in Works, cancel_work_sync(t, w) \/ cancel_delayed_work_sync(t, w)
        PROVE  G
    BY <1>2, <2>4 DEF cancel_work_sync, cancel_delayed_work_sync, Cancel, workers
  <2>5. ASSUME NEW w \in Works, cancel_delayed_work(t, w)
        PROVE  G
    BY <1>2, <2>5 DEF cancel_delayed_work, workers
  <2> QED BY <1>6, <1>7, <2>1, <2>2, <2>3, <2>4, <2>5 DEF Call
<1>8. ASSUME NEW f, NEW from, NEW to, WaitForCompletion(f, from, to)
      PROVE  G
  BY <1>2, <1>8 DEF WaitForCompletion, workers
<1>9. ASSUME NEW f, NEW c, NEW from, NEW wait, NEW over, flush_cpu_workqueue(f, c, from, wait, over)
      PROVE  G
  BY <1>2, <1>3, <1>9 DEF flush_cpu_workqueue, insert_wq_barrier, WakeWorker
<1>10. ASSUME NEW t \in Tasks, Step(t)
       PROVE  G
  <2>1. CASE FlushScan(t)
    BY <1>2, <1>9, <2>1 DEF FlushScan, workers
  <2>2. CASE FlushLock(t)
    <3>1. \/ lock' = [lock EXCEPT ![cpu[t]] = t] /\ tstate' = tstate
          \/ lock' = lock /\ tstate' = wake_up_process(tstate, cpu[t])
          \/ lock' = lock /\ tstate' = tstate
      BY <2>2 DEF FlushLock, insert_wq_barrier, WakeWorker
    <3> QED BY <1>1, <1>2, <1>3, <3>1, Actor
  <2>3. CASE WorkWait(t) \/ DelTimer(t) \/ TryToGrab(t)
    BY <1>2, <2>3 DEF WorkWait, DelTimer, TryToGrab, workers
  <2>4. CASE wait_on_work(t)
    BY <1>2, <2>4 DEF wait_on_work, workers
  <2>5. CASE WaitScan(t)
    BY <1>2, <1>3, <2>5 DEF WaitScan, insert_wq_barrier, WakeWorker
  <2>6. CASE CancelClears(t, "clear_pending") \/ CancelClears(t, "clear_only")
    BY <1>2, <2>6 DEF CancelClears, workers
  <2>7. CASE FlushBehind(t)
    <3>1. /\ lock' = [lock EXCEPT ![cpu[t]] = Null]
          /\ tstate' = tstate \/ tstate' = wake_up_process(tstate, cpu[t])
      BY <2>7 DEF FlushBehind, insert_wq_barrier, WakeWorker
    <3>2. lock' \in [CPUs -> Actors \cup {Null}]
      BY <1>1, <3>1
    <3>3. tstate' \in [CPUs -> TaskState]
      BY <1>1, <3>1 DEF wake_up_process, TaskState
    <3> QED BY <3>2, <3>3
  <2>8. CASE StealLock(t) \/ Steal(t)
    <3>1. /\ \/ lock' = [lock EXCEPT ![cpu[t]] = t]
             \/ lock' = [lock EXCEPT ![cpu[t]] = Null]
          /\ tstate' = tstate
      BY <2>8 DEF StealLock, Steal, workers
    <3> QED BY <1>1, <3>1, Actor
  <2> QED BY <1>4, <1>6, <1>8, <1>10, <2>1, <2>2, <2>3, <2>4, <2>5, <2>6, <2>7, <2>8, Actor
          DEF Step
<1>11. ASSUME NEW c \in CPUs, Worker(c)
       PROVE  G
  <2>1. CASE PrepareToWait(c) \/ FinishWait(c)
    BY <1>1, <2>1 DEF PrepareToWait, FinishWait, TaskState, SleepState
  <2>2. CASE TestMoreWork(c) \/ Schedule(c) \/ NextWork(c)
    BY <1>2, <2>2 DEF TestMoreWork, Schedule, NextWork, workers
  <2>3. CASE ClearPending(c) \/ wq_barrier_func(c) \/ FuncReturns(c)
    BY <1>2, <2>3 DEF ClearPending, wq_barrier_func, FuncReturns, workers
  <2>4. ASSUME NEW w \in Works, Requeue(c, w)
        PROVE  G
    BY <1>5, <2>4 DEF Requeue
  <2> QED BY <1>4, <1>11, <2>1, <2>2, <2>3, <2>4, Actor DEF Worker
<1>12. ASSUME NEW w \in Works, Timer(w)
       PROVE  G
  <2>1. ASSUME NEW c \in CPUs, delayed_work_timer_fn(w, c)
        PROVE  G
    BY <1>2, <2>1 DEF delayed_work_timer_fn, workers
  <2> QED BY <1>4, <1>12, <2>1, Actor DEF Timer
<1>13. ASSUME HotplugStarts
       PROVE  G
  BY <1>2, <1>13 DEF HotplugStarts, cpu_down, cpu_up, destroy_workqueue, workers
<1>14. ASSUME HotplugStep
       PROVE  G
  <2>1. CASE Cleanup
    BY <1>9, <2>1 DEF Cleanup
  <2>2. CASE kthread_stop
    BY <1>3, <2>2 DEF kthread_stop, WakeWorker
  <2>3. CASE ThreadGone \/ Unpopulate \/ start_workqueue_thread
    BY <1>2, <2>3 DEF ThreadGone, Unpopulate, start_workqueue_thread, workers
  <2>4. CASE create_workqueue_thread \/ BringUp \/ DestroyScan \/ create_workqueue
    BY <1>2, <2>4 DEF create_workqueue_thread, BringUp, DestroyScan, create_workqueue, workers
  <2> QED BY <1>8, <1>14, <2>1, <2>2, <2>3, <2>4 DEF HotplugStep
<1> QED BY <1>7, <1>10, <1>11, <1>12, <1>13, <1>14 DEF Next, Corrupted

(* What is outstanding, and what is left of it, are instances of work items. *)
LEMMA OutstandingFacts ==
  ASSUME NEW W \in SUBSET Works, NEW own
  PROVE  /\ Outstanding(W, own) \in SUBSET Due
         /\ \A d \in Outstanding(W, own) : DueThere(d) /\ d.own = (d.cpu \in own) /\ d.work \in W
BY DEF Outstanding, Due, DueThere

(* What is left of it when the worker of c goes on. *)
LEMMA ProgressFacts ==
  ASSUME NEW c, NEW s \in SUBSET Due, NEW e \in Progress(c, s)
  PROVE  /\ e \in Due
         /\ \E d \in s :
              /\ ~(d.cpu = c /\ d.phase = "running" /\ d.work = current_work[c])
              /\ e.cpu = d.cpu /\ e.work = d.work /\ e.own = d.own
              /\ e.phase = IF d.cpu = c /\ worklist[c] # <<>> /\ d.work = Head(worklist[c])
                           THEN "running" ELSE d.phase
<1>1. PICK d \in s : /\ ~(d.cpu = c /\ d.phase = "running" /\ d.work = current_work[c])
                     /\ e = IF d.cpu = c /\ worklist[c] # <<>> /\ d.work = Head(worklist[c])
                            THEN [d EXCEPT !.phase = "running"] ELSE d
  BY DEF Progress
<1>2. d \in Due
  OBVIOUS
<1>3. CASE d.cpu = c /\ worklist[c] # <<>> /\ d.work = Head(worklist[c])
  <2>1. e = [d EXCEPT !.phase = "running"]
    BY <1>1, <1>3
  <2>2. /\ e \in Due
        /\ e.cpu = d.cpu /\ e.work = d.work /\ e.own = d.own /\ e.phase = "running"
    BY <1>2, <2>1 DEF Due
  <2> QED BY <1>1, <1>3, <2>2
<1>4. CASE ~(d.cpu = c /\ worklist[c] # <<>> /\ d.work = Head(worklist[c]))
  <2>1. e = d
    BY <1>1, <1>4
  <2> QED BY <1>1, <1>2, <1>4, <2>1
<1> QED BY <1>3, <1>4

(* At most program points a task deals with a work item. *)
LEMMA TaskWork ==
  ASSUME Locals, NEW t \in Tasks, pc[t] \notin {"idle", "flush_scan", "flush_wait"}
  PROVE  work[t] \in Works
<1>1. TaskAt(pc[t], next[t], work[t], cpu[t])
  BY LocalFacts
<1> QED BY <1>1 DEF TaskAt

(* A work item that is on a list is on that of the CPU in work->data. *)
LEMMA ListedWhere ==
  ASSUME DataIsRight, NEW w \in Works, NEW c, Listed(w), data[w] = c
  PROVE  w \in ListEntries(worklist[c])
BY DEF DataIsRight, Listed

(* The shared variables. *)
LEMMA SharedTypesStep ==
  ASSUME Types, Locals, Barriers, DataIsRight, Follows
  PROVE  SharedTypes'
<1>1. ASSUME NEW t \in Tasks, NEW w \in Works, FlushReads(t, w)
      PROVE  SharedTypes'
  <2>1. Outstanding({w}, {data[w]}) \in SUBSET Due
    BY OutstandingFacts
  <2> QED BY <1>1, <2>1 DEF FlushReads, Types, SharedTypes, global
<1>2. ASSUME NEW t \in Tasks, NEW w \in Works, NEW loop \in {"grab", "del_timer"},
        CancelStarts(t, w, loop)
      PROVE  SharedTypes'
  BY <1>2 DEF CancelStarts, Quiet, Types, SharedTypes, lists, global
<1>3. ASSUME NEW t \in Tasks, NEW w \in Works, CancelsTimer(t, w)
      PROVE  SharedTypes'
  BY <1>3, Actor DEF CancelsTimer, Types, SharedTypes, lists, global
<1>4. ASSUME NEW t \in Tasks, NEW w \in Works, NEW c \in online, FlushQueues(t, w, c)
      PROVE  SharedTypes'
  BY <1>4, Actor DEF FlushQueues, Types, SharedTypes, lists, global
<1>5. ASSUME NEW t \in Tasks, NEW w \in Works, NEW k \in online, NEW p \in {"queue",
        "add_timer"}, Takes(t, w, k, p, "idle", "idle")
      PROVE  SharedTypes'
  BY <1>5, Actor DEF Takes, Types, SharedTypes, lists, global
<1>6. ASSUME NEW t \in Tasks, NEW c \in CPUs, FlushVisits(t, c)
      PROVE  SharedTypes'
  BY <1>6 DEF FlushVisits, Quiet, Types, SharedTypes, lists, global
<1>7. ASSUME NEW t \in Tasks, NEW c \in CPUs, FlushInserts(t, c)
      PROVE  SharedTypes'
  <2>1. worklist[c] \in Seq(Works \cup Flushers)
    BY DEF Types
  <2>2. list_add_tail(worklist[c], t) \in Seq(Works \cup Flushers)
    BY <2>1, Actor, AddTailFacts
  <2> QED BY <1>7, <2>2, Actor DEF FlushInserts, Barrier, Types, SharedTypes, global
<1>8. ASSUME NEW t \in Tasks, NEW c \in CPUs, LockBehind(t, c)
      PROVE  SharedTypes'
  <2>1. worklist[c] \in Seq(Works \cup Flushers) /\ work[t] \in Works
    BY <1>8, TaskWork DEF LockBehind, Types
  <2>3. work[t] \in ListEntries(worklist[c])
    BY <1>8 DEF LockBehind
  <2>2. AddBehind(worklist[c], work[t], t) \in Seq(Works \cup Flushers)
    BY <2>1, <2>3, Actor, AddBehindFacts
  <2> QED BY <1>8, <2>2, Actor DEF LockBehind, Barrier, Types, SharedTypes, global
<1>9. ASSUME NEW t \in Tasks, NEW c \in CPUs, LockFirst(t, c)
      PROVE  SharedTypes'
  <2>1. worklist[c] \in Seq(Works \cup Flushers)
    BY DEF Types
  <2>2. AddFirst(worklist[c], t) \in Seq(Works \cup Flushers)
    BY <2>1, Actor, AddFirstFacts
  <2> QED BY <1>9, <2>2, Actor DEF LockFirst, Barrier, Types, SharedTypes, global
<1>10. ASSUME NEW t \in Tasks, NEW c \in CPUs, WaitVisits(t, c)
      PROVE  SharedTypes'
  BY <1>10 DEF WaitVisits, Quiet, Types, SharedTypes, lists, global
<1>11. ASSUME NEW t \in Tasks, NEW c \in CPUs, WaitInserts(t, c)
      PROVE  SharedTypes'
  <2>1. worklist[c] \in Seq(Works \cup Flushers)
    BY DEF Types
  <2>2. AddFirst(worklist[c], t) \in Seq(Works \cup Flushers)
    BY <2>1, Actor, AddFirstFacts
  <2> QED BY <1>11, <2>2, Actor DEF WaitInserts, Barrier, Types, SharedTypes, global
<1>12. ASSUME NEW t \in Tasks, FlushStarts(t)
      PROVE  SharedTypes'
  <2>1. Outstanding(Works, CPUs) \in SUBSET Due
    BY OutstandingFacts
  <2> QED BY <1>12, <2>1 DEF FlushStarts, Types, SharedTypes, global
<1>13. ASSUME NEW t \in Tasks, FlushNever(t)
      PROVE  SharedTypes'
  BY <1>13 DEF FlushNever, Quiet, Types, SharedTypes, lists, global
<1>14. ASSUME NEW t \in Tasks, FlushEnds(t)
      PROVE  SharedTypes'
  BY <1>14 DEF FlushEnds, Quiet, Types, SharedTypes, lists, global
<1>15. ASSUME NEW t \in Tasks, FlushWaited(t)
      PROVE  SharedTypes'
  BY <1>15, Actor DEF FlushWaited, Waited, Types, SharedTypes, lists, global
<1>16. ASSUME NEW t \in Tasks, LockLeaves(t)
      PROVE  SharedTypes'
  BY <1>16 DEF LockLeaves, Quiet, Types, SharedTypes, lists, global
<1>17. ASSUME NEW t \in Tasks, WorkWaited(t)
      PROVE  SharedTypes'
  BY <1>17, Actor DEF WorkWaited, Waited, Types, SharedTypes, lists, global
<1>18. ASSUME NEW t \in Tasks, DeletesTimer(t)
      PROVE  SharedTypes'
  BY <1>18, Actor DEF DeletesTimer, Types, SharedTypes, lists, global
<1>19. ASSUME NEW t \in Tasks, TimerMissed(t)
      PROVE  SharedTypes'
  BY <1>19 DEF TimerMissed, Quiet, Types, SharedTypes, lists, global
<1>20. ASSUME NEW t \in Tasks, Grabs(t)
      PROVE  SharedTypes'
  BY <1>20, Actor DEF Grabs, Types, SharedTypes, lists, global
<1>21. ASSUME NEW t \in Tasks, GrabFails(t)
      PROVE  SharedTypes'
  BY <1>21 DEF GrabFails, Quiet, Types, SharedTypes, lists, global
<1>22. ASSUME NEW t \in Tasks, GrabLooks(t)
      PROVE  SharedTypes'
  BY <1>22 DEF GrabLooks, Quiet, Types, SharedTypes, lists, global
<1>23. ASSUME NEW t \in Tasks, Steals(t)
      PROVE  SharedTypes'
  <2>1. ASSUME NEW c \in CPUs, work[t] \in ListEntries(worklist[c])
        PROVE  list_del(worklist[c], work[t]) \in Seq(Works \cup Flushers)
    BY <2>1, DelFacts DEF Types, Barriers
  <2>2. worklist' \in [CPUs -> Seq(Works \cup Flushers)]
    BY <1>23, <2>1 DEF Steals, Types
  <2>3. due' \in [Tasks -> SUBSET Due]
    BY <1>23 DEF Steals, Types
  <2> QED BY <1>23, <2>2, <2>3 DEF Steals, Types, SharedTypes, global
<1>24. ASSUME NEW t \in Tasks, StealFails(t)
      PROVE  SharedTypes'
  BY <1>24 DEF StealFails, Quiet, Types, SharedTypes, lists, global
<1>25. ASSUME NEW t \in Tasks, WaitSkips(t)
      PROVE  SharedTypes'
  BY <1>25 DEF WaitSkips, Quiet, Types, SharedTypes, lists, global
<1>26. ASSUME NEW t \in Tasks, WaitStarts(t)
      PROVE  SharedTypes'
  BY <1>26 DEF WaitStarts, Quiet, Types, SharedTypes, lists, global
<1>27. ASSUME NEW t \in Tasks, WaitEnds(t)
      PROVE  SharedTypes'
  BY <1>27 DEF WaitEnds, Quiet, Types, SharedTypes, lists, global
<1>28. ASSUME NEW t \in Tasks, WaitWaited(t)
      PROVE  SharedTypes'
  BY <1>28, Actor DEF WaitWaited, Waited, Types, SharedTypes, lists, global
<1>29. ASSUME NEW t \in Tasks, Drops(t)
      PROVE  SharedTypes'
  BY <1>29, Actor DEF Drops, Types, SharedTypes, lists, global
<1>30. ASSUME NEW c \in CPUs, NEW w \in Works, NEW k \in online, NEW p \in {"queue",
        "add_timer"}, Takes(c, w, k, p, "func", "run")
      PROVE  SharedTypes'
  BY <1>30, Actor DEF Takes, Types, SharedTypes, lists, global
<1>31. ASSUME NEW c \in CPUs, NEW w \in Works, c \in online, TimerFires(w, c)
      PROVE  SharedTypes'
  BY <1>31, Actor DEF TimerFires, Types, SharedTypes, lists, global
<1>32. ASSUME NEW a \in Queuers, SetsData(a)
      PROVE  SharedTypes'
  <2>1. Excused(work[a]) \in [Tasks -> SUBSET Due]
    BY DEF Excused, Types
  <2>2. cpu[a] \in CPUs
    BY <1>32, QueuerFacts DEF SetsData
  <2> QED BY <1>32, <2>1, <2>2 DEF SetsData, Types, SharedTypes, global
<1>33. ASSUME NEW a \in Queuers, Inserts(a)
      PROVE  SharedTypes'
  <2>1. work[a] \in Works /\ cpu[a] \in CPUs
    BY <1>33, QueuerFacts DEF Inserts
  <2>2. worklist[cpu[a]] \in Seq(Works \cup Flushers)
    BY <2>1 DEF Types
  <2>3. list_add_tail(worklist[cpu[a]], work[a]) \in Seq(Works \cup Flushers)
    BY <2>1, <2>2, AddTailFacts
  <2> QED BY <1>33, <2>1, <2>3 DEF Inserts, Types, SharedTypes, global
<1>34. ASSUME NEW a \in Queuers, AddsTimer(a)
      PROVE  SharedTypes'
  <2>1. cpu[a] \in CPUs
    BY <1>34, QueuerFacts DEF AddsTimer
  <2> QED BY <1>34, <2>1 DEF AddsTimer, Types, SharedTypes, lists, global
<1>35. ASSUME NEW c \in CPUs, NEW p \in {"test", "schedule", "finish"}, Sleeps(c, p)
      PROVE  SharedTypes'
  BY <1>35 DEF Sleeps, Quiet, Types, SharedTypes, lists, global
<1>36. ASSUME NEW c \in CPUs, Runs(c)
      PROVE  SharedTypes'
  BY <1>36 DEF Runs, Quiet, Types, SharedTypes, lists, global
<1>37. ASSUME NEW c \in CPUs, Exits(c)
      PROVE  SharedTypes'
  BY <1>37 DEF Exits, Quiet, Types, SharedTypes, lists, global
<1>38. ASSUME NEW c \in CPUs, FuncEnds(c)
      PROVE  SharedTypes'
  BY <1>38 DEF FuncEnds, Quiet, Types, SharedTypes, lists, global
<1>39. ASSUME NEW c \in CPUs, NoMoreWork(c)
      PROVE  SharedTypes'
  <2>1. due' \in [Tasks -> SUBSET Due]
    <3>1. \A t \in Tasks : Progress(c, due[t]) \in SUBSET Due
      BY ProgressFacts DEF Types
    <3> QED BY <1>39, <3>1 DEF NoMoreWork
  <2> QED BY <1>39, <2>1 DEF NoMoreWork, Types, SharedTypes, global
<1>40. ASSUME NEW c \in CPUs, TakesWork(c)
      PROVE  SharedTypes'
  <2>1. due' \in [Tasks -> SUBSET Due]
    <3>1. \A t \in Tasks : Progress(c, due[t]) \in SUBSET Due
      BY ProgressFacts DEF Types
    <3> QED BY <1>40, <3>1 DEF TakesWork
  <2>2. worklist[c] \in Seq(Works \cup Flushers) /\ worklist[c] # <<>>
    BY <1>40 DEF TakesWork, Types
  <2>3. Head(worklist[c]) \in Works \cup Flushers /\ Tail(worklist[c]) \in Seq(Works \cup Flushers)
    BY <2>2, FirstFacts
  <2> QED BY <1>40, <2>1, <2>3 DEF TakesWork, Types, SharedTypes, global
<1>41. ASSUME NEW c \in CPUs, ClearsPending(c)
      PROVE  SharedTypes'
  BY <1>41, Actor DEF ClearsPending, Types, SharedTypes, lists, global
<1>42. ASSUME NEW c \in CPUs, RunsBarrier(c)
      PROVE  SharedTypes'
  BY <1>42, Actor DEF RunsBarrier, Types, SharedTypes, lists, global
<1>43. ASSUME NEW c \in CPUs, GoesDown(c)
      PROVE  SharedTypes'
  BY <1>43, Actor DEF GoesDown, Types, SharedTypes, lists, global
<1>44. ASSUME NEW c \in CPUs, GoesUp(c)
      PROVE  SharedTypes'
  BY <1>44, Actor DEF GoesUp, Types, SharedTypes, lists, global
<1>45. ASSUME NEW c \in CPUs, SkipsFlush(c)
      PROVE  SharedTypes'
  BY <1>45 DEF SkipsFlush, Quiet, Types, SharedTypes, lists, global
<1>46. ASSUME NEW c \in CPUs, CleanupInserts(c)
      PROVE  SharedTypes'
  <2>1. worklist[c] \in Seq(Works \cup Flushers)
    BY DEF Types
  <2>2. list_add_tail(worklist[c], Hotplug) \in Seq(Works \cup Flushers)
    BY <2>1, Actor, AddTailFacts
  <2> QED BY <1>46, <2>2, Actor DEF CleanupInserts, Barrier, Types, SharedTypes, global
<1>47. ASSUME NEW c \in CPUs, CleanupWaited(c)
      PROVE  SharedTypes'
  BY <1>47, Actor DEF CleanupWaited, Waited, Types, SharedTypes, lists, global
<1>48. ASSUME NEW c \in CPUs, Stops(c)
      PROVE  SharedTypes'
  BY <1>48, Actor DEF Stops, Types, SharedTypes, lists, global
<1>49. ASSUME NEW c \in CPUs, SeesExit(c)
      PROVE  SharedTypes'
  BY <1>49, Actor DEF SeesExit, Types, SharedTypes, lists, global
<1>50. ASSUME NEW c \in CPUs, Unpopulates(c)
      PROVE  SharedTypes'
  BY <1>50, Actor DEF Unpopulates, Types, SharedTypes, lists, global
<1>51. ASSUME NEW c \in CPUs, Creates(c)
      PROVE  SharedTypes'
  BY <1>51, Actor DEF Creates, Types, SharedTypes, lists, global
<1>52. ASSUME NEW c \in CPUs, CreateFails(c)
      PROVE  SharedTypes'
  BY <1>52 DEF CreateFails, Quiet, Types, SharedTypes, lists, global
<1>53. ASSUME NEW c \in CPUs, ComesUp(c)
      PROVE  SharedTypes'
  BY <1>53, Actor DEF ComesUp, Types, SharedTypes, lists, global
<1>54. ASSUME NEW c \in CPUs, UpCanceled(c)
      PROVE  SharedTypes'
  BY <1>54, Actor DEF UpCanceled, Types, SharedTypes, lists, global
<1>55. ASSUME NEW c \in CPUs, StartsThread(c)
      PROVE  SharedTypes'
  BY <1>55, Actor DEF StartsThread, Types, SharedTypes, lists, global
<1>56. ASSUME NEW c \in CPUs, DestroyVisits(c)
      PROVE  SharedTypes'
  BY <1>56 DEF DestroyVisits, Quiet, Types, SharedTypes, lists, global
<1>57. ASSUME Destroys
      PROVE  SharedTypes'
  BY <1>57 DEF Destroys, Quiet, Types, SharedTypes, lists, global
<1>58. ASSUME DestroyEnds
      PROVE  SharedTypes'
  BY <1>58 DEF DestroyEnds, Quiet, Types, SharedTypes, lists, global
<1>59. ASSUME create_workqueue
      PROVE  SharedTypes'
  BY <1>59 DEF create_workqueue, Types, SharedTypes, masks
<1>60. ASSUME NEW t \in Tasks, LockLooks(t)
      PROVE  SharedTypes'
  BY <1>60 DEF LockLooks, Types, SharedTypes, lists, global
<1>61. ASSUME NEW t \in Tasks, StealLooks(t)
      PROVE  SharedTypes'
  BY <1>61 DEF StealLooks, Types, SharedTypes, lists, global
<1> QED
  BY <1>1, <1>2, <1>3, <1>4, <1>5, <1>6, <1>7, <1>8, <1>9, <1>10, <1>11, <1>12, <1>13, <1>14,
     <1>15, <1>16, <1>17, <1>18, <1>19, <1>20, <1>21, <1>22, <1>23, <1>24, <1>25, <1>26, <1>27,
     <1>28, <1>29, <1>30, <1>31, <1>32, <1>33, <1>34, <1>35, <1>36, <1>37, <1>38, <1>39,
     <1>40, <1>41, <1>42, <1>43, <1>44, <1>45, <1>46, <1>47, <1>48, <1>49, <1>50,
     <1>51, <1>52, <1>53, <1>54, <1>55, <1>56, <1>57, <1>58, <1>59, <1>60, <1>61,
     StepCases

(* The locals. *)
LEMMA AtTypes ==
  ASSUME NEW a \in Actors, At(a)'
  PROVE  /\ pc'[a] \in Label /\ next'[a] \in Label
         /\ work'[a] \in Works \cup {Null} /\ cpu'[a] \in CPUs \cup {0}
<1> DEFINE G(p, n, x, k) == /\ p \in Label /\ n \in Label
                            /\ x \in Works \cup {Null} /\ k \in CPUs \cup {0}
<1>1. ASSUME NEW p, NEW n, NEW x, NEW k, a \in Tasks, TaskAt(p, n, x, k)
      PROVE  G(p, n, x, k)
  <2>1. p \in Label
    BY <1>1 DEF TaskAt, Label, TaskLabel
  <2>2. n \in Label
    BY <1>1 DEF TaskAt, Label, TaskLabel
  <2>3. x \in Works \cup {Null}
    BY <1>1 DEF TaskAt
  <2>4. k \in CPUs \cup {0}
    BY <1>1 DEF TaskAt
  <2> QED BY <2>1, <2>2, <2>3, <2>4
<1>2. ASSUME NEW p, NEW n, NEW x, NEW k, a \in CPUs, WorkerAt(p, n, x, k)
      PROVE  G(p, n, x, k)
  <2>1. p \in Label
    BY <1>2 DEF WorkerAt, Label, WorkerLabel, TimerLabel
  <2>2. n \in Label
    BY <1>2 DEF WorkerAt, Label, WorkerLabel, TimerLabel
  <2>3. x \in Works \cup {Null}
    BY <1>2 DEF WorkerAt
  <2>4. k \in CPUs \cup {0}
    BY <1>2 DEF WorkerAt
  <2> QED BY <2>1, <2>2, <2>3, <2>4
<1>3. ASSUME NEW p, NEW n, NEW x, NEW k, a \in Works, TimerAt(a, p, n, x, k)
      PROVE  G(p, n, x, k)
  <2>1. p \in Label
    BY <1>3 DEF TimerAt, Label, TimerLabel
  <2>2. n \in Label
    BY <1>3 DEF TimerAt, Label, TimerLabel
  <2>3. x \in Works \cup {Null}
    BY <1>3 DEF TimerAt
  <2>4. k \in CPUs \cup {0}
    BY <1>3 DEF TimerAt
  <2> QED BY <2>1, <2>2, <2>3, <2>4
<1>4. ASSUME NEW p, NEW n, NEW x, NEW k, a = Hotplug, HotplugAt(p, n, x, k)
      PROVE  G(p, n, x, k)
  <2>1. p \in Label
    BY <1>4 DEF HotplugAt, Label, HotplugLabel
  <2>2. n \in Label
    BY <1>4 DEF HotplugAt, Label, HotplugLabel
  <2>3. x \in Works \cup {Null}
    BY <1>4 DEF HotplugAt
  <2>4. k \in CPUs \cup {0}
    BY <1>4 DEF HotplugAt
  <2> QED BY <2>1, <2>2, <2>3, <2>4
<1> HIDE DEF G
<1>5. a \in Tasks => TaskAt(pc[a], next[a], work[a], cpu[a])'
  BY DEF At
<1>6. a \in CPUs => WorkerAt(pc[a], next[a], work[a], cpu[a])'
  BY DEF At
<1>7. a \in Works => TimerAt(a, pc[a], next[a], work[a], cpu[a])'
  BY DEF At
<1>8. a = Hotplug => HotplugAt(pc[a], next[a], work[a], cpu[a])'
  BY DEF At
<1>9. a \in Tasks \/ a \in CPUs \/ a \in Works \/ a = Hotplug
  BY DEF Actors
<1>10. G(pc'[a], next'[a], work'[a], cpu'[a])
  BY <1>1, <1>2, <1>3, <1>4, <1>5, <1>6, <1>7, <1>8, <1>9
<1> QED BY <1>10 DEF G

(* The locals stay functions of the actors. *)
AreLocals ==
  /\ pc' = [a \in Actors |-> pc'[a]] /\ next' = [a \in Actors |-> next'[a]]
  /\ work' = [a \in Actors |-> work'[a]] /\ cpu' = [a \in Actors |-> cpu'[a]]

(* A move keeps the domains of the locals. *)
LEMMA MoveDomains ==
  ASSUME Types, NEW a, NEW p, NEW n, NEW x, NEW k, NEW b, NEW q,
         Move(a, p, n, x, k) \/ MoveBoth(a, p, n, x, k, b, q)
  PROVE  AreLocals
BY DEF Types, Move, MoveBoth, AreLocals

(* Every step keeps the domains of the locals. *)
LEMMA DomainsStep ==
  ASSUME Types, Locals, Follows
  PROVE  AreLocals
<1>1. ASSUME NEW t \in Tasks, NEW w \in Works, FlushReads(t, w)
      PROVE  AreLocals
  BY <1>1, MoveDomains DEF FlushReads
<1>2. ASSUME NEW t \in Tasks, NEW w \in Works, NEW loop \in {"grab", "del_timer"},
        CancelStarts(t, w, loop)
      PROVE  AreLocals
  BY <1>2, MoveDomains DEF CancelStarts, Quiet
<1>3. ASSUME NEW t \in Tasks, NEW w \in Works, CancelsTimer(t, w)
      PROVE  AreLocals
  BY <1>3, MoveDomains DEF CancelsTimer
<1>4. ASSUME NEW t \in Tasks, NEW w \in Works, NEW c \in online, FlushQueues(t, w, c)
      PROVE  AreLocals
  BY <1>4, MoveDomains DEF FlushQueues
<1>5. ASSUME NEW t \in Tasks, NEW w \in Works, NEW k \in online, NEW p \in {"queue",
        "add_timer"}, Takes(t, w, k, p, "idle", "idle")
      PROVE  AreLocals
  BY <1>5, MoveDomains DEF Takes
<1>6. ASSUME NEW t \in Tasks, NEW c \in CPUs, FlushVisits(t, c)
      PROVE  AreLocals
  BY <1>6, MoveDomains DEF FlushVisits, Quiet
<1>7. ASSUME NEW t \in Tasks, NEW c \in CPUs, FlushInserts(t, c)
      PROVE  AreLocals
  BY <1>7, MoveDomains DEF FlushInserts, Barrier
<1>8. ASSUME NEW t \in Tasks, NEW c \in CPUs, LockBehind(t, c)
      PROVE  AreLocals
  BY <1>8, MoveDomains DEF LockBehind, Barrier
<1>9. ASSUME NEW t \in Tasks, NEW c \in CPUs, LockFirst(t, c)
      PROVE  AreLocals
  BY <1>9, MoveDomains DEF LockFirst, Barrier
<1>10. ASSUME NEW t \in Tasks, NEW c \in CPUs, WaitVisits(t, c)
      PROVE  AreLocals
  BY <1>10, MoveDomains DEF WaitVisits, Quiet
<1>11. ASSUME NEW t \in Tasks, NEW c \in CPUs, WaitInserts(t, c)
      PROVE  AreLocals
  BY <1>11, MoveDomains DEF WaitInserts, Barrier
<1>12. ASSUME NEW t \in Tasks, FlushStarts(t)
      PROVE  AreLocals
  BY <1>12, MoveDomains DEF FlushStarts
<1>13. ASSUME NEW t \in Tasks, FlushNever(t)
      PROVE  AreLocals
  BY <1>13, MoveDomains DEF FlushNever, Quiet
<1>14. ASSUME NEW t \in Tasks, FlushEnds(t)
      PROVE  AreLocals
  BY <1>14, MoveDomains DEF FlushEnds, Quiet
<1>15. ASSUME NEW t \in Tasks, FlushWaited(t)
      PROVE  AreLocals
  BY <1>15, MoveDomains DEF FlushWaited, Waited
<1>16. ASSUME NEW t \in Tasks, LockLeaves(t)
      PROVE  AreLocals
  BY <1>16, MoveDomains DEF LockLeaves, Quiet
<1>17. ASSUME NEW t \in Tasks, WorkWaited(t)
      PROVE  AreLocals
  BY <1>17, MoveDomains DEF WorkWaited, Waited
<1>18. ASSUME NEW t \in Tasks, DeletesTimer(t)
      PROVE  AreLocals
  BY <1>18, MoveDomains DEF DeletesTimer
<1>19. ASSUME NEW t \in Tasks, TimerMissed(t)
      PROVE  AreLocals
  BY <1>19, MoveDomains DEF TimerMissed, Quiet
<1>20. ASSUME NEW t \in Tasks, Grabs(t)
      PROVE  AreLocals
  BY <1>20, MoveDomains DEF Grabs
<1>21. ASSUME NEW t \in Tasks, GrabFails(t)
      PROVE  AreLocals
  BY <1>21, MoveDomains DEF GrabFails, Quiet
<1>22. ASSUME NEW t \in Tasks, GrabLooks(t)
      PROVE  AreLocals
  BY <1>22, MoveDomains DEF GrabLooks, Quiet
<1>23. ASSUME NEW t \in Tasks, Steals(t)
      PROVE  AreLocals
  BY <1>23, MoveDomains DEF Steals
<1>24. ASSUME NEW t \in Tasks, StealFails(t)
      PROVE  AreLocals
  BY <1>24, MoveDomains DEF StealFails, Quiet
<1>25. ASSUME NEW t \in Tasks, WaitSkips(t)
      PROVE  AreLocals
  BY <1>25, MoveDomains DEF WaitSkips, Quiet
<1>26. ASSUME NEW t \in Tasks, WaitStarts(t)
      PROVE  AreLocals
  BY <1>26, MoveDomains DEF WaitStarts, Quiet
<1>27. ASSUME NEW t \in Tasks, WaitEnds(t)
      PROVE  AreLocals
  BY <1>27, MoveDomains DEF WaitEnds, Quiet
<1>28. ASSUME NEW t \in Tasks, WaitWaited(t)
      PROVE  AreLocals
  BY <1>28, MoveDomains DEF WaitWaited, Waited
<1>29. ASSUME NEW t \in Tasks, Drops(t)
      PROVE  AreLocals
  BY <1>29, MoveDomains DEF Drops
<1>30. ASSUME NEW c \in CPUs, NEW w \in Works, NEW k \in online, NEW p \in {"queue",
        "add_timer"}, Takes(c, w, k, p, "func", "run")
      PROVE  AreLocals
  BY <1>30, MoveDomains DEF Takes
<1>31. ASSUME NEW c \in CPUs, NEW w \in Works, c \in online, TimerFires(w, c)
      PROVE  AreLocals
  BY <1>31, MoveDomains DEF TimerFires
<1>32. ASSUME NEW a \in Queuers, SetsData(a)
      PROVE  AreLocals
  BY <1>32, MoveDomains DEF SetsData
<1>33. ASSUME NEW a \in Queuers, Inserts(a)
      PROVE  AreLocals
  BY <1>33, MoveDomains DEF Inserts
<1>34. ASSUME NEW a \in Queuers, AddsTimer(a)
      PROVE  AreLocals
  BY <1>34, MoveDomains DEF AddsTimer
<1>35. ASSUME NEW c \in CPUs, NEW p \in {"test", "schedule", "finish"}, Sleeps(c, p)
      PROVE  AreLocals
  BY <1>35, MoveDomains DEF Sleeps, Quiet
<1>36. ASSUME NEW c \in CPUs, Runs(c)
      PROVE  AreLocals
  BY <1>36, MoveDomains DEF Runs, Quiet
<1>37. ASSUME NEW c \in CPUs, Exits(c)
      PROVE  AreLocals
  BY <1>37, MoveDomains DEF Exits, Quiet
<1>38. ASSUME NEW c \in CPUs, FuncEnds(c)
      PROVE  AreLocals
  BY <1>38, MoveDomains DEF FuncEnds, Quiet
<1>39. ASSUME NEW c \in CPUs, NoMoreWork(c)
      PROVE  AreLocals
  BY <1>39, MoveDomains DEF NoMoreWork
<1>40. ASSUME NEW c \in CPUs, TakesWork(c)
      PROVE  AreLocals
  BY <1>40, MoveDomains DEF TakesWork
<1>41. ASSUME NEW c \in CPUs, ClearsPending(c)
      PROVE  AreLocals
  BY <1>41, MoveDomains DEF ClearsPending
<1>42. ASSUME NEW c \in CPUs, RunsBarrier(c)
      PROVE  AreLocals
  BY <1>42, MoveDomains DEF RunsBarrier
<1>43. ASSUME NEW c \in CPUs, GoesDown(c)
      PROVE  AreLocals
  BY <1>43, MoveDomains DEF GoesDown
<1>44. ASSUME NEW c \in CPUs, GoesUp(c)
      PROVE  AreLocals
  BY <1>44, MoveDomains DEF GoesUp
<1>45. ASSUME NEW c \in CPUs, SkipsFlush(c)
      PROVE  AreLocals
  BY <1>45, MoveDomains DEF SkipsFlush, Quiet
<1>46. ASSUME NEW c \in CPUs, CleanupInserts(c)
      PROVE  AreLocals
  BY <1>46, MoveDomains DEF CleanupInserts, Barrier
<1>47. ASSUME NEW c \in CPUs, CleanupWaited(c)
      PROVE  AreLocals
  BY <1>47, MoveDomains DEF CleanupWaited, Waited
<1>48. ASSUME NEW c \in CPUs, Stops(c)
      PROVE  AreLocals
  BY <1>48, MoveDomains DEF Stops
<1>49. ASSUME NEW c \in CPUs, SeesExit(c)
      PROVE  AreLocals
  BY <1>49, MoveDomains DEF SeesExit
<1>50. ASSUME NEW c \in CPUs, Unpopulates(c)
      PROVE  AreLocals
  BY <1>50, MoveDomains DEF Unpopulates
<1>51. ASSUME NEW c \in CPUs, Creates(c)
      PROVE  AreLocals
  BY <1>51, MoveDomains DEF Creates
<1>52. ASSUME NEW c \in CPUs, CreateFails(c)
      PROVE  AreLocals
  BY <1>52, MoveDomains DEF CreateFails, Quiet
<1>53. ASSUME NEW c \in CPUs, ComesUp(c)
      PROVE  AreLocals
  BY <1>53, MoveDomains DEF ComesUp
<1>54. ASSUME NEW c \in CPUs, UpCanceled(c)
      PROVE  AreLocals
  BY <1>54, MoveDomains DEF UpCanceled
<1>55. ASSUME NEW c \in CPUs, StartsThread(c)
      PROVE  AreLocals
  BY <1>55, MoveDomains DEF StartsThread
<1>56. ASSUME NEW c \in CPUs, DestroyVisits(c)
      PROVE  AreLocals
  BY <1>56, MoveDomains DEF DestroyVisits, Quiet
<1>57. ASSUME Destroys
      PROVE  AreLocals
  BY <1>57, MoveDomains DEF Destroys, Quiet
<1>58. ASSUME DestroyEnds
      PROVE  AreLocals
  BY <1>58, MoveDomains DEF DestroyEnds, Quiet
<1>59. ASSUME create_workqueue
      PROVE  AreLocals
  BY <1>59 DEF create_workqueue, Types, AreLocals
<1>60. ASSUME NEW t \in Tasks, LockLooks(t)
      PROVE  AreLocals
  BY <1>60, MoveDomains DEF LockLooks
<1>61. ASSUME NEW t \in Tasks, StealLooks(t)
      PROVE  AreLocals
  BY <1>61, MoveDomains DEF StealLooks
<1> QED
  BY <1>1, <1>2, <1>3, <1>4, <1>5, <1>6, <1>7, <1>8, <1>9, <1>10, <1>11, <1>12, <1>13, <1>14,
     <1>15, <1>16, <1>17, <1>18, <1>19, <1>20, <1>21, <1>22, <1>23, <1>24, <1>25, <1>26, <1>27,
     <1>28, <1>29, <1>30, <1>31, <1>32, <1>33, <1>34, <1>35, <1>36, <1>37, <1>38, <1>39,
     <1>40, <1>41, <1>42, <1>43, <1>44, <1>45, <1>46, <1>47, <1>48, <1>49, <1>50,
     <1>51, <1>52, <1>53, <1>54, <1>55, <1>56, <1>57, <1>58, <1>59, <1>60, <1>61,
     StepCases

(* Types stay right. *)
LEMMA TypesStep ==
  ASSUME Types, Locals, Barriers, DataIsRight, Locals', Follows
  PROVE  Types'
<1>1. SharedTypes' /\ AreLocals /\ program' = program
  BY SharedTypesStep, DomainsStep, ProgramSame DEF Follows
<1>2. lock' \in [CPUs -> Actors \cup {Null}] /\ tstate' \in [CPUs -> TaskState]
  BY LockTypes DEF Follows
<1>3. \A a \in Actors : pc'[a] \in Label /\ next'[a] \in Label
  BY AtTypes DEF Locals
<1>4. \A a \in Actors : work'[a] \in Works \cup {Null} /\ cpu'[a] \in CPUs \cup {0}
  BY AtTypes DEF Locals
<1>5. pc' \in [Actors -> Label] /\ next' \in [Actors -> Label]
  BY <1>1, <1>3 DEF AreLocals
<1>6. work' \in [Actors -> Works \cup {Null}] /\ cpu' \in [Actors -> CPUs \cup {0}]
  BY <1>1, <1>4 DEF AreLocals
<1> QED BY <1>1, <1>2, <1>5, <1>6 DEF Types, SharedTypes

------------------------------------------------------------------------------
(* What holds of those that a step leaves alone. *)

(* Its hands, its wait, its thread and its sleep are what they were. *)
LEMMA SameViews ==
  ASSUME NEW b, Same(b)
  PROVE  /\ Hand(b)' = Hand(b) /\ WaitsOn(b)' = WaitsOn(b) /\ Thread(b)' = Thread(b)
         /\ Asleep(b)' <=> Asleep(b)
BY DEF Same, Hand, WaitsOn, Thread, Asleep

(* If Hotplug is left alone, what is known of its progress stays. *)
LEMMA SameHotplug ==
  ASSUME Same(Hotplug)
  PROVE  /\ Destroying' <=> Destroying
         /\ \A c : Finished(c)' <=> Finished(c)
         /\ done'[Hotplug] = done[Hotplug] => (Drained' <=> Drained)
BY DEF Same, Destroying, Finished, Drained

(* A worker that is left alone goes on with what it has taken. *)
LEMMA SameClearing ==
  ASSUME NEW c, Same(c), current_work'[c] = current_work[c]
  PROVE  Clearing(c)' = Clearing(c)
BY DEF Same, Clearing

(* Nobody but the workers and Hotplug does anything while the workqueue is *)
(* destroyed, and the workers queue nothing.                               *)
LEMMA SettledStays ==
  ASSUME Types, Locals, Settled, Follows, Destroying
  PROVE  /\ \A a \in Tasks \cup Works : pc'[a] = "idle"
         /\ \A c \in CPUs : pc'[c] \notin {"queue", "insert", "add_timer"}
<1>1. /\ \A a \in Tasks \cup Works : pc[a] = "idle"
      /\ \A c \in CPUs : pc[c] \notin {"queue", "insert", "add_timer"}
      /\ pc \in [Actors -> Label]
  BY DEF Settled, Types
<1>2. ASSUME NEW a \in Actors, Queueing(a)
      PROVE  pc[a] \in {"queue", "insert", "add_timer"}
  BY <1>2 DEF Queueing, SetWqData, InsertWork, AddTimer, Return, Goto
<1>3. ASSUME NEW t \in Tasks, Step(t)
      PROVE  FALSE
  <2>1. pc[t] = "idle"
    BY <1>1
  <2>2. ~(FlushScan(t) \/ FlushLock(t) \/ WorkWait(t) \/ DelTimer(t) \/ TryToGrab(t))
    BY <2>1 DEF FlushScan, FlushLock, WorkWait, Leave, Goto, DelTimer, TryToGrab
  <2>3. ~(Steal(t) \/ wait_on_work(t) \/ WaitScan(t) \/ FlushWork(t, "flush_work", work[t]))
    BY <2>1 DEF Steal, wait_on_work, WaitScan, FlushWork, Goto
  <2>4. ~(\/ WaitForCompletion(t, "flush_wait", "flush_scan")
          \/ WaitForCompletion(t, "wait_wait", "wait_scan")
          \/ CancelClears(t, "clear_pending") \/ CancelClears(t, "clear_only"))
    BY <2>1 DEF WaitForCompletion, CancelClears, Leave, Goto
  <2>5. ~Queueing(t)
    BY <1>2, <2>1, Actor
  <2>6. ~(FlushBehind(t) \/ StealLock(t))
    BY <2>1 DEF FlushBehind, StealLock, Goto
  <2> QED BY <1>3, <2>2, <2>3, <2>4, <2>5, <2>6 DEF Step
<1>4. ASSUME NEW w \in Works, Timer(w)
      PROVE  FALSE
  BY <1>1, <1>2, <1>4, Actor DEF Timer, delayed_work_timer_fn, Goto
<1>5. ASSUME NEW c \in CPUs, Worker(c)
      PROVE  \E p : pc' = [pc EXCEPT ![c] = p] /\ p \notin {"queue", "insert", "add_timer"}
  <2>1. ~Queueing(c) /\ \A w \in Works : ~Requeue(c, w)
    BY <1>1, <1>2, Actor DEF Requeue
  <2>2. CASE PrepareToWait(c) \/ TestMoreWork(c)
    BY <2>2 DEF PrepareToWait, TestMoreWork, Goto
  <2>4. CASE Schedule(c) \/ FinishWait(c)
    BY <2>4 DEF Schedule, FinishWait, Goto
  <2>3. CASE NextWork(c) \/ ClearPending(c) \/ wq_barrier_func(c) \/ FuncReturns(c)
    BY <2>3 DEF NextWork, ClearPending, wq_barrier_func, FuncReturns, Goto
  <2> QED BY <1>5, <2>1, <2>2, <2>3, <2>4 DEF Worker
<1>6. ASSUME HotplugStarts
      PROVE  \E p : pc' = [pc EXCEPT ![Hotplug] = p]
  BY <1>6 DEF HotplugStarts, cpu_down, cpu_up, destroy_workqueue, Goto
<1>7. ASSUME HotplugStep
      PROVE  \A a \in Actors \ {Hotplug} :
               pc'[a] = pc[a] \/ (a \in CPUs /\ pc'[a] \in {"no thread", "created", "prepare"})
  <2>1. HotplugAt(pc[Hotplug], next[Hotplug], work[Hotplug], cpu[Hotplug])
    BY LocalFacts
  <2>2. pc[Hotplug] \in {"wait_exited", "create", "bring_up", "cpu_online"} => cpu[Hotplug] \in CPUs
    BY <2>1 DEF HotplugAt
  <2>3. CASE Cleanup
    BY <1>1, <2>3 DEF Cleanup, flush_cpu_workqueue, insert_wq_barrier, Goto
  <2>4. CASE WaitForCompletion(Hotplug, "cleanup_wait", "kthread_stop") \/ kthread_stop \/ Unpopulate
    BY <1>1, <2>4 DEF WaitForCompletion, kthread_stop, Unpopulate, HotplugEnds, Goto
  <2>5. CASE ThreadGone \/ create_workqueue_thread
    BY <1>1, <2>2, <2>5, Actor DEF ThreadGone, create_workqueue_thread
  <2>6. CASE BringUp \/ start_workqueue_thread
    BY <1>1, <2>2, <2>6, Actor DEF BringUp, start_workqueue_thread, Goto
  <2>7. CASE DestroyScan
    BY <1>1, <2>7 DEF DestroyScan, Goto
  <2>8. CASE create_workqueue
    BY <1>1, <2>8 DEF create_workqueue, Types
  <2> QED BY <1>7, <2>3, <2>4, <2>5, <2>6, <2>7, <2>8 DEF HotplugStep
<1>8. ASSUME NEW c \in CPUs, Worker(c)
      PROVE  \A a \in Actors : pc'[a] = pc[a] \/ (a \in CPUs /\ pc'[a] \notin {"queue", "insert", "add_timer"})
  <2>1. PICK p : pc' = [pc EXCEPT ![c] = p] /\ p \notin {"queue", "insert", "add_timer"}
    BY <1>5, <1>8
  <2>2. \A a \in Actors : pc'[a] = IF a = c THEN p ELSE pc[a]
    BY <1>1, <2>1
  <2> QED BY <2>1, <2>2
<1>9. ASSUME HotplugStarts
      PROVE  \A a \in Actors \ {Hotplug} : pc'[a] = pc[a]
  BY <1>1, <1>6, <1>9
<1>10. \/ \E c \in CPUs : Worker(c)
       \/ HotplugStarts \/ HotplugStep
  BY <1>3, <1>4 DEF Follows, Next, Corrupted, Call
<1>11. \A a \in Actors \ {Hotplug} :
         pc'[a] = pc[a] \/ (a \in CPUs /\ pc'[a] \notin {"queue", "insert", "add_timer"})
  BY <1>7, <1>8, <1>9, <1>10
<1> QED BY <1>1, <1>11, Actor

(* Those who queue something do it on a CPU that stays online. *)
LEMMA SettledKept ==
  ASSUME Types, Locals, Settled, Follows, Destroying' => Destroying,
         \A a \in Actors : pc'[a] \in {"queue", "insert"} => cpu'[a] \in online'
  PROVE  Settled'
<1>1. Destroying' => /\ \A a \in Tasks \cup Works : pc'[a] = "idle"
                     /\ \A c \in CPUs : pc'[c] \notin {"queue", "insert", "add_timer"}
  BY SettledStays
<1> QED BY <1>1 DEF Settled

(* If Hotplug, the masks and the threads stay as they are. *)
LEMMA ThreadsKept ==
  ASSUME Types, Locals, Threads, Follows, Same(Hotplug), UNCHANGED global,
         \A c \in CPUs : Thread(c)' = Thread(c),
         \A a \in Actors : pc'[a] \in {"queue", "insert"} => cpu'[a] \in online'
  PROVE  Threads'
<1>1. (Destroying' <=> Destroying) /\ \A c : Finished(c)' <=> Finished(c)
  BY SameHotplug
<1>2. Settled'
  BY <1>1, SettledKept DEF Threads
<1>3. /\ pc'[Hotplug] = pc[Hotplug] /\ next'[Hotplug] = next[Hotplug] /\ cpu'[Hotplug] = cpu[Hotplug]
      /\ should_stop' = should_stop /\ online' = online /\ populated' = populated
  BY DEF Same, global
<1>4. HotplugOK'
  <2>1. HotplugAt(pc[Hotplug], next[Hotplug], work[Hotplug], cpu[Hotplug])
    BY LocalFacts
  <2>2. next[Hotplug] = "unpopulate" => cpu[Hotplug] \in CPUs
    BY <2>1 DEF HotplugAt
  <2>3. next[Hotplug] = "unpopulate" => Thread(cpu[Hotplug])' = Thread(cpu[Hotplug])
    BY <1>3, <2>2
  <2> QED BY <1>1, <1>3, <2>3 DEF Threads, HotplugOK
<1>5. ASSUME NEW c \in CPUs
      PROVE  ThreadOK(c)'
  <2>1. ThreadOK(c) /\ Thread(c)' = Thread(c)
    BY DEF Threads
  <2> QED BY <1>1, <1>3, <2>1 DEF ThreadOK
<1> QED BY <1>2, <1>4, <1>5 DEF Threads

(* A CPU on which nobody goes to sleep and nothing is put on the list. *)
LEMMA EmptyKept ==
  ASSUME NEW c \in CPUs, EmptyOK(c), Thread(c)' = Thread(c), Asleep(c)' => Asleep(c),
         online' = online, Drained' => Drained /\ cpu'[Hotplug] = cpu[Hotplug],
         worklist[c] = <<>> => worklist'[c] = <<>>
  PROVE  EmptyOK(c)'
BY DEF EmptyOK, MustBeEmpty

(* A work item whose PENDING bit stays with its owner. *)
SameOwner(w) ==
  /\ pending'[w] = pending[w]
  /\ \A c \in CPUs : w \in ListEntries(worklist'[c]) <=> w \in ListEntries(worklist[c])
  /\ pc'[w] = "armed" <=> pc[w] = "armed"
  /\ \A c \in CPUs : Clearing(c)' = w <=> Clearing(c) = w
  /\ \A b \in Actors : Hand(b)' = w <=> Hand(b) = w

(* Its owner stays the only one. *)
LEMMA OwnedKept ==
  ASSUME NEW w \in Works, NEW kind, NEW a, Owned(w, kind, a), SameOwner(w)
  PROVE  Owned(w, kind, a)'
BY DEF Owned, SameOwner

(* The PENDING bit of w0 may go to a in the way kind says. *)
LEMMA PendingOwnedKept ==
  ASSUME PendingOwned, NEW w0, \A w \in Works : w # w0 => SameOwner(w),
         NEW kind \in {"none", "list", "timer", "clear", "actor"}, NEW a \in Actors,
         w0 \in Works => Owned(w0, kind, a)'
  PROVE  PendingOwned'
<1>1. ASSUME NEW w \in Works
      PROVE  \E k \in {"none", "list", "timer", "clear", "actor"}, e \in Actors : Owned(w, k, e)'
  <2>1. CASE w = w0
    BY <2>1
  <2>2. CASE w # w0
    <3>1. PICK k \in {"none", "list", "timer", "clear", "actor"}, e \in Actors : Owned(w, k, e)
      BY DEF PendingOwned
    <3> QED BY <2>2, <3>1, OwnedKept
  <2> QED BY <2>1, <2>2
<1> QED BY <1>1 DEF PendingOwned

(* If no PENDING bit changes hands, each still has one owner. *)
LEMMA OwnersKept ==
  ASSUME PendingOwned, \A w \in Works : SameOwner(w)
  PROVE  PendingOwned'
<1>1. ASSUME NEW w \in Works
      PROVE  \E k \in {"none", "list", "timer", "clear", "actor"}, e \in Actors : Owned(w, k, e)'
  <2>1. PICK k \in {"none", "list", "timer", "clear", "actor"}, e \in Actors : Owned(w, k, e)
    BY DEF PendingOwned
  <2> QED BY <2>1, OwnedKept
<1> QED BY <1>1 DEF PendingOwned

(* A barrier that is not touched, and one that is linked nowhere. *)
LEMMA BarrierKept ==
  ASSUME NEW f, BarrierOK(f), WaitsOn(f)' = WaitsOn(f), done'[f] = done[f],
         \A c \in CPUs : f \in ListEntries(worklist'[c]) => f \in ListEntries(worklist[c]),
         \A c \in CPUs : Clearing(c)' = f => Clearing(c) = f
  PROVE  BarrierOK(f)'
BY DEF BarrierOK

(* The barrier of one that does not wait, or is done, is linked nowhere. *)
LEMMA BarrierFree ==
  ASSUME NEW f, BarrierOK(f), WaitsOn(f) = 0 \/ done[f]
  PROVE  \A c \in CPUs : f \notin ListEntries(worklist[c]) /\ Clearing(c) # f
BY Actor DEF BarrierOK

(* A barrier that a step leaves linked nowhere is right. *)
LEMMA BarrierGone ==
  ASSUME NEW f, \A c \in CPUs : f \notin ListEntries(worklist'[c]) /\ Clearing(c)' # f
  PROVE  BarrierOK(f)'
BY DEF BarrierOK

(* A task that cancels and one that flushes, while others make a step. *)
LEMMA CancelKept ==
  ASSUME NEW t, CancelOK(t), Same(t),
         \A c \in CPUs : current_work'[c] = work[t] => current_work[c] = work[t],
         \A c \in CPUs : current_work'[c] = work[t] /\ t \in ListEntries(worklist[c]) =>
                           t \in ListEntries(worklist'[c])
  PROVE  CancelOK(t)'
BY DEF CancelOK, Same

(* What is due to a flusher that is left alone stays ahead of its barrier. *)
LEMMA DueKept ==
  ASSUME NEW t, DueOK(t), Same(t),
         \A d \in due'[t] : d \in due[t],
         \A d \in due'[t] : Behind(t, d) => Behind(t, d)',
         due'[t] # {} /\ AtMost(work[t], cpu[t]) => AtMost(work[t], cpu[t])'
  PROVE  DueOK(t)'
<1>1. ASSUME NEW d \in due'[t], d.own
      PROVE  \/ pc'[t] = "flush_scan" /\ d.cpu > cpu'[t]
             \/ pc'[t] = "flush_wait" /\ d.cpu > cpu'[t]
             \/ pc'[t] \in {"flush_wait", "work_wait"} /\ d.cpu = cpu'[t] /\ Behind(t, d)'
             \/ /\ pc'[t] \in {"flush_lock", "flush_data"} /\ d.cpu = cpu'[t] /\ d.work = work'[t]
                /\ AtMost(work[t], cpu[t])'
  <2>1. d \in due[t] /\ (Behind(t, d) => Behind(t, d)')
    BY <1>1
  <2>2. AtMost(work[t], cpu[t]) => AtMost(work[t], cpu[t])'
    BY <1>1
  <2> QED BY <1>1, <2>1, <2>2 DEF DueOK, Same
<1>2. work'[t] = work[t] /\ cpu'[t] = cpu[t]
  BY DEF Same
<1> QED BY <1>1, <1>2 DEF DueOK

(* A CPU whose list must be empty, and one without a worker, run nothing. *)
LEMMA NotActive ==
  ASSUME Sound, NEW c \in CPUs, MustBeEmpty(c) \/ c \notin populated
  PROVE  ~Active(c) /\ Asleep(c)
<1>1. MustBeEmpty(c)
  BY DEF Sound, Threads, ThreadOK, MustBeEmpty
<1>2. Asleep(c)
  BY <1>1 DEF MustBeEmpty, Thread, Asleep
<1>3. worklist[c] = <<>>
  BY <1>1 DEF Sound, ListsAreEmpty, EmptyOK
<1> QED BY <1>2, <1>3 DEF Active, Sound, DataIsRight

(* What is due is on a populated CPU. *)
LEMMA DueActive ==
  ASSUME Sound, NEW d \in Due, DueThere(d)
  PROVE  Active(d.cpu) /\ d.cpu \in populated /\ d.cpu \in CPUs /\ d.work \in Works
<1>1. d.cpu \in CPUs /\ d.work \in Works
  BY DEF Due
<1>2. Active(d.cpu)
  BY <1>1, Actor DEF DueThere, Active, ListEntries
<1> QED BY <1>1, <1>2, NotActive

------------------------------------------------------------------------------
(* Steps that leave the lists alone. *)
Calm ==
  /\ UNCHANGED <<data, worklist, current_work>>
  /\ \A f \in Flushers :
       \/ WaitsOn(f)' = WaitsOn(f) /\ done'[f] = done[f]
       \/ \A c \in CPUs : f \notin ListEntries(worklist[c]) /\ Clearing(c)' # f
  /\ \A c \in CPUs : /\ Asleep(c)' => Asleep(c)
                     /\ Clearing(c)' = Clearing(c) \/ Clearing(c)' = Null
  /\ \A e \in Actors : pc'[e] = "insert" => Same(e)
  /\ \A t \in Tasks : \/ Same(t) /\ due'[t] = due[t]
                      \/ /\ CancelOK(t)' /\ DueOK(t)'
                         /\ \A d \in due'[t] : DueThere(d)

(* They keep what the invariant says of the lists. *)
LEMMA CalmKeeps ==
  ASSUME Sound, Calm
  PROVE  Barriers' /\ DataIsRight' /\ Cancelled' /\ DueIsThere' /\ DueIsAhead'
<1>1. data' = data /\ worklist' = worklist /\ current_work' = current_work
  BY DEF Calm
<1>2. \A c \in CPUs : \A x : Clearing(c)' = x /\ x # Null => Clearing(c) = x
  BY DEF Calm
<1>3. Barriers'
  <2>1. ASSUME NEW f \in Flushers
        PROVE  BarrierOK(f)'
    <3>1. BarrierOK(f) /\ f # Null
      BY Actor DEF Sound, Barriers, Flushers
    <3>2. \A c \in CPUs : Clearing(c)' = f => Clearing(c) = f
      BY <1>2, <3>1
    <3>3. CASE WaitsOn(f)' = WaitsOn(f) /\ done'[f] = done[f]
      BY <1>1, <3>1, <3>2, <3>3, BarrierKept
    <3>4. CASE \A c \in CPUs : f \notin ListEntries(worklist[c]) /\ Clearing(c)' # f
      BY <1>1, <3>4, BarrierGone
    <3> QED BY <3>3, <3>4 DEF Calm
  <2> QED BY <1>1, <2>1 DEF Sound, Barriers
<1>4. DataIsRight'
  <2>1. \A c \in CPUs : Asleep(c)' => current_work'[c] = Null
    BY <1>1 DEF Sound, DataIsRight, Calm
  <2>2. ASSUME NEW w \in Works, NEW c \in CPUs, Clearing(c)' = w
        PROVE  data'[w] = c
    <3>1. Clearing(c) = w
      BY <1>2, <2>2, Actor
    <3> QED BY <1>1, <3>1 DEF Sound, DataIsRight
  <2>3. ASSUME NEW e \in Actors, pc'[e] = "insert"
        PROVE  data'[work'[e]] = cpu'[e]
    <3>1. Same(e)
      BY <2>3 DEF Calm
    <3> QED BY <1>1, <2>3, <3>1 DEF Sound, DataIsRight, Same
  <2> QED BY <1>1, <2>1, <2>2, <2>3 DEF Sound, DataIsRight
<1>5. Cancelled'
  <2>1. ASSUME NEW t \in Tasks
        PROVE  CancelOK(t)'
    <3>1. CASE Same(t)
      BY <1>1, <3>1, CancelKept DEF Sound, Cancelled
    <3>2. CASE ~Same(t)
      BY <3>2 DEF Calm
    <3> QED BY <3>1, <3>2
  <2> QED BY <2>1 DEF Cancelled
<1>6. DueIsThere'
  <2>1. ASSUME NEW t \in Tasks, NEW d \in due'[t]
        PROVE  DueThere(d)
    BY <2>1 DEF Calm, Sound, DueIsThere
  <2>2. \A d : DueThere(d) => DueThere(d)'
    BY <1>1 DEF DueThere
  <2> QED BY <2>1, <2>2 DEF DueIsThere
<1>7. DueIsAhead'
  <2>1. ASSUME NEW t \in Tasks, Same(t), due'[t] = due[t]
        PROVE  DueOK(t)'
    <3>1. \A d : Behind(t, d) => Behind(t, d)'
      BY <1>1 DEF Behind
    <3>2. ASSUME NEW e \in Actors, pc'[e] = "insert"
          PROVE  pc[e] = "insert" /\ work'[e] = work[e]
      BY <3>2 DEF Calm, Same
    <3>3. \A w, k : AtMost(w, k) => AtMost(w, k)'
      BY <1>1, <3>2 DEF AtMost, Listed
    <3>4. AtMost(work[t], cpu[t]) => AtMost(work[t], cpu[t])'
      <4>1. PICK w, k : w = work[t] /\ k = cpu[t]
        OBVIOUS
      <4>2. work'[t] = w /\ cpu'[t] = k
        BY <2>1, <4>1 DEF Same
      <4> QED BY <3>3, <4>1, <4>2
    <3>5. DueOK(t)
      BY DEF Sound, DueIsAhead
    <3> QED BY <2>1, <3>1, <3>4, <3>5, DueKept
  <2>2. ASSUME NEW t \in Tasks
        PROVE  DueOK(t)'
    BY <2>1 DEF Calm
  <2> QED BY <2>2 DEF DueIsAhead
<1> QED BY <1>3, <1>4, <1>5, <1>6, <1>7

------------------------------------------------------------------------------
(* The invariant without what it says of the locals and the PENDING bit. *)
Rest ==
  /\ Barriers /\ DataIsRight /\ Threads /\ ListsAreEmpty
  /\ Cancelled /\ DueIsThere /\ DueIsAhead

(* Steps that leave the lists and Hotplug alone: a queues nothing and      *)
(* deletes at most one timer.                                              *)
SameOrDeleted(e) == Same(e) \/ (e \in Works /\ pc[e] = "armed" /\ pc'[e] = "idle")

TaskAlone(t) ==
  /\ WaitsOn(t) = 0 \/ done[t]
  /\ CancelOK(t)' /\ DueOK(t)'
  /\ \A d \in due'[t] : DueThere(d)

WorkerAlone(c) ==
  /\ Thread(c)' = Thread(c)
  /\ Asleep(c)' => Asleep(c)
  /\ Clearing(c)' = Clearing(c) \/ Clearing(c)' = Null

Alone(a) ==
  /\ UNCHANGED <<data, worklist, current_work, global>>
  /\ \A e \in Actors : e # a => SameOrDeleted(e)
  /\ \A f \in Flushers : f # a => done'[f] = done[f]
  /\ \A t \in Tasks : t # a => due'[t] = due[t]
  /\ a \in Tasks => TaskAlone(a)
  /\ a \in CPUs => WorkerAlone(a)
  /\ pc'[a] # "insert"
  /\ pc'[a] = "queue" => cpu'[a] \in online

(* They keep the invariant. *)
LEMMA AloneKeeps ==
  ASSUME Sound, Follows, NEW a \in Queuers, Alone(a)
  PROVE  Rest'
<1>1. /\ data' = data /\ worklist' = worklist /\ current_work' = current_work
      /\ UNCHANGED global /\ online' = online
  BY DEF Alone, global
<1>2. a \in Actors /\ a # Hotplug
  BY Actor
<1>3. /\ \A t \in Tasks : t # a => Same(t)
      /\ \A c \in CPUs : c # a => Same(c)
      /\ Same(Hotplug)
  BY <1>2, Actor DEF Alone, SameOrDeleted
<1>4. /\ \A c \in CPUs : Thread(c)' = Thread(c)
      /\ \A c \in CPUs : Asleep(c)' => Asleep(c)
  <2>1. ASSUME NEW c \in CPUs
        PROVE  Thread(c)' = Thread(c) /\ (Asleep(c)' => Asleep(c))
    <3>1. CASE c = a
      BY <3>1 DEF Alone, WorkerAlone
    <3>2. CASE c # a
      BY <1>3, <3>2, SameViews
    <3> QED BY <3>1, <3>2
  <2> QED BY <2>1
<1>5. ASSUME NEW e \in Actors, pc'[e] \in {"queue", "insert"}, e # a
      PROVE  Same(e)
  BY <1>5 DEF Alone, SameOrDeleted
<1>6. Calm
  <2>1. ASSUME NEW c \in CPUs
        PROVE  Clearing(c)' = Clearing(c) \/ Clearing(c)' = Null
    <3>1. CASE c = a
      BY <3>1 DEF Alone, WorkerAlone
    <3>2. CASE c # a
      BY <1>1, <1>3, <3>2, SameClearing
    <3> QED BY <3>1, <3>2
  <2>2. ASSUME NEW f \in Flushers
        PROVE  \/ WaitsOn(f)' = WaitsOn(f) /\ done'[f] = done[f]
               \/ \A c \in CPUs : f \notin ListEntries(worklist[c]) /\ Clearing(c)' # f
    <3>1. CASE f = a
      <4>1. f \in Tasks /\ f # Null
        BY <1>2, <3>1, Actor DEF Flushers
      <4>2. WaitsOn(f) = 0 \/ done[f]
        BY <3>1, <4>1 DEF Alone, TaskAlone
      <4>3. BarrierOK(f)
        BY DEF Sound, Barriers
      <4>4. \A c \in CPUs : f \notin ListEntries(worklist[c]) /\ Clearing(c) # f
        BY <4>2, <4>3, BarrierFree
      <4> QED BY <2>1, <4>1, <4>4
    <3>2. CASE f # a
      <4>1. Same(f) /\ done'[f] = done[f]
        BY <1>3, <3>2 DEF Alone, Flushers
      <4> QED BY <4>1, SameViews
    <3> QED BY <3>1, <3>2
  <2>3. ASSUME NEW e \in Actors, pc'[e] = "insert"
        PROVE  Same(e)
    BY <1>5, <2>3 DEF Alone
  <2>4. ASSUME NEW t \in Tasks
        PROVE  \/ Same(t) /\ due'[t] = due[t]
               \/ /\ CancelOK(t)' /\ DueOK(t)'
                  /\ \A d \in due'[t] : DueThere(d)
    <3>1. CASE t = a
      BY <3>1 DEF Alone, TaskAlone
    <3>2. CASE t # a
      BY <1>3, <3>2 DEF Alone
    <3> QED BY <3>1, <3>2
  <2> QED BY <1>1, <1>4, <2>1, <2>2, <2>3, <2>4 DEF Calm
<1>7. Barriers' /\ DataIsRight' /\ Cancelled' /\ DueIsThere' /\ DueIsAhead'
  BY <1>6, CalmKeeps
<1>8. Threads'
  <2>1. ASSUME NEW e \in Actors, pc'[e] \in {"queue", "insert"}
        PROVE  cpu'[e] \in online'
    <3>1. CASE e = a
      BY <1>1, <2>1, <3>1 DEF Alone
    <3>2. CASE e # a
      <4>1. Same(e)
        BY <1>5, <2>1, <3>2
      <4> QED BY <1>1, <2>1, <4>1 DEF Sound, Threads, Settled, Same
    <3> QED BY <3>1, <3>2
  <2> QED BY <1>1, <1>3, <1>4, <2>1, ThreadsKept DEF Sound
<1>9. ListsAreEmpty'
  <2>1. Drained' => Drained /\ cpu'[Hotplug] = cpu[Hotplug]
    BY <1>2, <1>3, SameHotplug, Actor DEF Alone, Same
  <2>2. ASSUME NEW c \in CPUs
        PROVE  EmptyOK(c)'
    BY <1>1, <1>4, <2>1, EmptyKept DEF Sound, ListsAreEmpty
  <2> QED BY <2>2 DEF ListsAreEmpty
<1> QED BY <1>7, <1>8, <1>9 DEF Rest

------------------------------------------------------------------------------
(* The PENDING bit. *)

(* Whoever is seen to hold the PENDING bit is the only one. *)
LEMMA OwnerFacts ==
  ASSUME PendingOwned, NEW w \in Works
  PROVE  /\ ~pending[w] => Owned(w, "none", w)
         /\ \A c \in CPUs : w \in ListEntries(worklist[c]) => Owned(w, "list", c)
         /\ pc[w] = "armed" => Owned(w, "timer", w)
         /\ \A c \in CPUs : Clearing(c) = w => Owned(w, "clear", c)
         /\ \A b \in Actors : Hand(b) = w => Owned(w, "actor", b)
<1>1. PICK k \in {"none", "list", "timer", "clear", "actor"}, e \in Actors : Owned(w, k, e)
  BY DEF PendingOwned
<1>2. \A x : k \in {"none", "timer"} => Owned(w, k, x)
  BY <1>1 DEF Owned
<1> QED BY <1>1, <1>2 DEF Owned

(* What a and b do does not concern v. *)
LEMMA OwnerStays ==
  ASSUME NEW a \in Actors, NEW b \in Actors, OthersBoth(a, b), NEW v \in Works,
         pending'[v] = pending[v],
         \A c \in CPUs : v \in ListEntries(worklist'[c]) <=> v \in ListEntries(worklist[c]),
         \A c \in CPUs : c # a /\ c # b => current_work'[c] = current_work[c],
         v = a \/ v = b => (pc'[v] = "armed" <=> pc[v] = "armed"),
         a \in CPUs => (Clearing(a)' = v <=> Clearing(a) = v),
         b \in CPUs => (Clearing(b)' = v <=> Clearing(b) = v),
         Hand(a)' = v <=> Hand(a) = v, Hand(b)' = v <=> Hand(b) = v
  PROVE  SameOwner(v)
<1>1. \A e \in Actors : e # a /\ e # b => Hand(e)' = Hand(e)
  BY SameViews DEF OthersBoth
<1>2. \A c \in CPUs : c # a /\ c # b => Clearing(c)' = Clearing(c)
  BY SameClearing, Actor DEF OthersBoth
<1>3. pc'[v] = "armed" <=> pc[v] = "armed"
  BY Actor DEF OthersBoth, Same
<1>4. \A e \in Actors : Hand(e)' = v <=> Hand(e) = v
  BY <1>1
<1>5. \A c \in CPUs : Clearing(c)' = v <=> Clearing(c) = v
  BY <1>2
<1> QED BY <1>3, <1>4, <1>5 DEF SameOwner

(* a holds nothing, or goes on to hold what it holds. *)
LEMMA OwnersStay ==
  ASSUME PendingOwned, NEW a \in Actors, Others(a), pending' = pending,
         \A w \in Works, c \in CPUs : w \in ListEntries(worklist'[c]) <=> w \in ListEntries(worklist[c]),
         \A c \in CPUs : c # a => current_work'[c] = current_work[c],
         a \in Works => (pc'[a] = "armed" <=> pc[a] = "armed"),
         a \in CPUs => \A w \in Works : Clearing(a)' = w <=> Clearing(a) = w,
         Hand(a)' = Hand(a)
  PROVE  PendingOwned'
<1>1. OthersBoth(a, a)
  BY DEF Others, OthersBoth
<1>2. ASSUME NEW v \in Works
      PROVE  SameOwner(v)
  BY <1>1, OwnerStays
<1> QED BY <1>2, OwnersKept

(* The PENDING bit of w goes from one of the actors that move to another   *)
(* one, from or to a list, a timer or a worker.                            *)
LEMMA OwnerPasses ==
  ASSUME PendingOwned, NEW a \in Actors, NEW b \in Actors, OthersBoth(a, b), NEW w \in Works,
         NEW k, NEW x, Owned(w, k, x), k = "actor" => x = a \/ x = b,
         NEW k2 \in {"none", "list", "timer", "clear", "actor"}, NEW x2 \in Actors,
         k2 = "actor" => x2 = a \/ x2 = b, k2 \in {"list", "clear"} => x2 \in CPUs,
         pending'[w] <=> k2 # "none",
         \A c \in CPUs : w \in ListEntries(worklist'[c]) <=> k2 = "list" /\ x2 = c,
         pc'[w] = "armed" <=> k2 = "timer",
         \A c \in CPUs : Clearing(c)' = w <=> k2 = "clear" /\ x2 = c,
         Hand(a)' = w <=> k2 = "actor" /\ x2 = a, Hand(b)' = w <=> k2 = "actor" /\ x2 = b,
         \A v \in Works : v # w => SameOwner(v)
  PROVE  PendingOwned'
<1>1. \A e \in Actors : e # a /\ e # b => Hand(e)' = Hand(e)
  BY SameViews DEF OthersBoth
<1>2. \A e \in Actors : e # a /\ e # b => Hand(e) # w
  BY DEF Owned
<1>3. \A e \in Actors : Hand(e)' = w <=> k2 = "actor" /\ x2 = e
  BY <1>1, <1>2
<1>4. Owned(w, k2, x2)'
  BY <1>3 DEF Owned
<1> QED BY <1>4, PendingOwnedKept

(* ... where the lists and what the workers run stay as they are.          *)
PassesHands(a, b, w, k, x, k2, x2) ==
  /\ OthersBoth(a, b)
  /\ Owned(w, k, x) /\ (k = "actor" => x = a \/ x = b) /\ k # "list" /\ (k = "clear" => x = a)
  /\ k2 \in {"none", "timer", "actor"} /\ (k2 = "actor" => x2 = a \/ x2 = b)
  /\ pending'[w] <=> k2 # "none"
  /\ \A v \in Works : v # w => pending'[v] = pending[v]
  /\ worklist' = worklist /\ current_work' = current_work
  /\ pc'[w] = "armed" <=> k2 = "timer"
  /\ (a \in Works => a = w) /\ (b \in Works => b = w)
  /\ a \in CPUs => Clearing(a)' = Null /\ (Clearing(a) = Null \/ Clearing(a) = w)
  /\ b \in CPUs => Clearing(b)' = Null /\ (Clearing(b) = Null \/ Clearing(b) = w)
  /\ (Hand(a) = Null \/ Hand(a) = w) /\ (Hand(b) = Null \/ Hand(b) = w)
  /\ Hand(a)' = IF k2 = "actor" /\ x2 = a THEN w ELSE Null
  /\ Hand(b)' = IF k2 = "actor" /\ x2 = b THEN w ELSE Null

(* Then it still has one owner. *)
LEMMA OwnerPassesHands ==
  ASSUME PendingOwned, NEW a \in Actors, NEW b \in Actors, NEW w \in Works, NEW k, NEW x, NEW k2,
         NEW x2 \in Actors, PassesHands(a, b, w, k, x, k2, x2)
  PROVE  PendingOwned'
<1> USE DEF PassesHands
<1>1. ASSUME NEW v \in Works, v # w
      PROVE  SameOwner(v)
  <2>1. v # Null /\ v # a /\ v # b
    BY <1>1, Actor
  <2>2. (Hand(a)' = v <=> Hand(a) = v) /\ (Hand(b)' = v <=> Hand(b) = v)
    BY <1>1, <2>1
  <2>3. /\ a \in CPUs => (Clearing(a)' = v <=> Clearing(a) = v)
        /\ b \in CPUs => (Clearing(b)' = v <=> Clearing(b) = v)
    BY <1>1, <2>1
  <2> QED BY <1>1, <2>1, <2>2, <2>3, OwnerStays
<1>2. w # Null
  BY Actor
<1>3. \A c \in CPUs : w \in ListEntries(worklist'[c]) <=> k2 = "list" /\ x2 = c
  BY DEF Owned
<1>4. \A c \in CPUs : Clearing(c)' = w <=> k2 = "clear" /\ x2 = c
  <2>1. ASSUME NEW c \in CPUs
        PROVE  Clearing(c)' # w
    <3>1. CASE c = a \/ c = b
      BY <1>2, <3>1
    <3>2. CASE c # a /\ c # b
      <4>1. Clearing(c)' = Clearing(c)
        BY <3>2, SameClearing, Actor DEF OthersBoth
      <4>2. Clearing(c) # w
        BY <3>2 DEF Owned
      <4> QED BY <4>1, <4>2
    <3> QED BY <3>1, <3>2
  <2> QED BY <2>1
<1>5. (Hand(a)' = w <=> k2 = "actor" /\ x2 = a) /\ (Hand(b)' = w <=> k2 = "actor" /\ x2 = b)
  BY <1>2
<1> QED BY <1>1, <1>3, <1>4, <1>5, OwnerPasses

------------------------------------------------------------------------------
(* Barriers. *)

(* f puts its barrier on the list of c, which becomes l. *)
Links(f, c, l) ==
  /\ Barrier(f, c, l) /\ Others(f) /\ Active(c)
  /\ WaitsOn(f) = 0 /\ WaitsOn(f)' = c /\ Hand(f)' = Hand(f)
  /\ ListEntries(l) = ListEntries(worklist[c]) \cup {f}
  /\ f \notin ListEntries(worklist[c]) => ListOK(l)
  /\ \A x, y : Ahead(worklist[c], x, y) => Ahead(l, x, y)
  /\ cpu'[Hotplug] = cpu[Hotplug]

(* The other conjuncts are kept. *)
LEMMA LinksKeeps ==
  ASSUME Sound, Follows, NEW f \in Flushers, NEW c \in CPUs, NEW l, Links(f, c, l),
         f \in Tasks => CancelOK(f)' /\ DueOK(f)',
         f = Hotplug => Threads'
  PROVE  PendingOwned' /\ Rest'
<1>1. /\ pending' = pending /\ data' = data /\ current_work' = current_work /\ due' = due
      /\ UNCHANGED global /\ online' = online
      /\ worklist' = [worklist EXCEPT ![c] = l]
      /\ done' = [done EXCEPT ![f] = FALSE]
  BY DEF Links, Barrier, global
<1>2. /\ worklist'[c] = l /\ \A e \in CPUs : e # c => worklist'[e] = worklist[e]
      /\ ~done'[f] /\ \A e \in Flushers : e # f => done'[e] = done[e]
  BY <1>1 DEF Sound, Types
<1>3. /\ f \in Actors /\ f \notin CPUs /\ f \notin Works /\ f # Null
      /\ \A e \in Actors : e # f => Same(e)
  BY Actor DEF Links, Others, Flushers
<1>4. ASSUME NEW e \in CPUs
      PROVE  /\ Same(e) /\ Thread(e)' = Thread(e) /\ (Asleep(e)' <=> Asleep(e))
             /\ Clearing(e)' = Clearing(e)
  <2>1. Same(e)
    BY <1>3, Actor
  <2> QED BY <1>1, <2>1, SameViews, SameClearing
<1>5. ASSUME NEW e \in CPUs, NEW x
      PROVE  /\ x \in ListEntries(worklist[e]) => x \in ListEntries(worklist'[e])
             /\ x # f /\ x \in ListEntries(worklist'[e]) => x \in ListEntries(worklist[e])
  BY <1>2 DEF Links
<1>6. \A e \in CPUs : f \notin ListEntries(worklist[e]) /\ Clearing(e) # f
  BY BarrierFree DEF Sound, Barriers, Links
<1>7. PendingOwned'
  <2>1. \A w \in Works, e \in CPUs : w \in ListEntries(worklist'[e]) <=> w \in ListEntries(worklist[e])
    BY <1>3, <1>5
  <2>2. Others(f) /\ Hand(f)' = Hand(f)
    BY DEF Links
  <2> QED BY <1>1, <1>3, <2>1, <2>2, OwnersStay DEF Sound
<1>8. Barriers'
  <2>1. ASSUME NEW e \in CPUs
        PROVE  ListOK(worklist'[e])
    BY <1>2, <1>6 DEF Sound, Barriers, Links
  <2>2. BarrierOK(f)'
    <3>1. WaitsOn(f)' = c /\ ~done'[f]
      BY <1>2 DEF Links
    <3>2. \A e \in CPUs : f \in ListEntries(worklist'[e]) => e = c
      BY <1>2, <1>6
    <3>3. \A e \in CPUs : Clearing(e)' # f
      BY <1>4, <1>6
    <3> QED BY <3>1, <3>2, <3>3 DEF BarrierOK
  <2>3. ASSUME NEW e \in Flushers, e # f
        PROVE  BarrierOK(e)'
    <3>1. BarrierOK(e) /\ Same(e) /\ done'[e] = done[e]
      BY <1>2, <1>3, <2>3 DEF Sound, Barriers, Flushers, Actors
    <3>2. WaitsOn(e)' = WaitsOn(e)
      BY <3>1, SameViews
    <3>3. \A h \in CPUs : e \in ListEntries(worklist'[h]) => e \in ListEntries(worklist[h])
      BY <1>5, <2>3
    <3>4. \A h \in CPUs : Clearing(h)' = e => Clearing(h) = e
      BY <1>4
    <3> QED BY <3>1, <3>2, <3>3, <3>4, BarrierKept
  <2> QED BY <2>1, <2>2, <2>3 DEF Barriers
<1>9. pc'[f] \notin {"queue", "insert"}
  BY Actor DEF Links, WaitsOn
<1>10. DataIsRight'
  <2>1. \A e \in CPUs : Asleep(e)' => current_work'[e] = Null
    BY <1>1, <1>4 DEF Sound, DataIsRight
  <2>2. \A w \in Works, e \in CPUs : Clearing(e)' = w => data'[w] = e
    BY <1>1, <1>4 DEF Sound, DataIsRight
  <2>3. \A w \in Works, e \in CPUs : w \in ListEntries(worklist'[e]) => data'[w] = e
    BY <1>1, <1>3, <1>5 DEF Sound, DataIsRight
  <2>4. ASSUME NEW e \in Actors, pc'[e] = "insert"
        PROVE  data'[work'[e]] = cpu'[e]
    <3>1. Same(e)
      BY <1>3, <1>9, <2>4
    <3> QED BY <1>1, <2>4, <3>1 DEF Sound, DataIsRight, Same
  <2>5. \A e \in CPUs : current_work'[e] \in Works => data'[current_work'[e]] \in CPUs
    BY <1>1 DEF Sound, DataIsRight
  <2> QED BY <2>1, <2>2, <2>3, <2>4, <2>5 DEF DataIsRight
<1>11. Threads'
  <2>1. CASE f = Hotplug
    BY <2>1
  <2>2. CASE f # Hotplug
    <3>1. ASSUME NEW e \in Actors, pc'[e] \in {"queue", "insert"}
          PROVE  cpu'[e] \in online'
      <4>1. Same(e)
        BY <1>3, <1>9, <3>1
      <4> QED BY <1>1, <3>1, <4>1 DEF Sound, Threads, Settled, Same
    <3> QED BY <1>1, <1>3, <1>4, <2>2, <3>1, ThreadsKept, Actor DEF Sound
  <2> QED BY <2>1, <2>2
<1>12. ListsAreEmpty'
  <2>1. Drained' => Drained /\ cpu'[Hotplug] = cpu[Hotplug]
    <3>1. CASE f = Hotplug
      BY <1>2, <3>1, Actor DEF Links, WaitsOn, Drained
    <3>2. CASE f # Hotplug
      <4>1. Same(Hotplug) /\ done'[Hotplug] = done[Hotplug]
        BY <1>2, <1>3, <3>2, Actor
      <4> QED BY <4>1, SameHotplug DEF Links
    <3> QED BY <3>1, <3>2
  <2>2. ASSUME NEW e \in CPUs, e # c
        PROVE  EmptyOK(e)'
    BY <1>1, <1>2, <1>4, <2>1, <2>2, EmptyKept DEF Sound, ListsAreEmpty
  <2>3. EmptyOK(c)'
    <3>1. ~MustBeEmpty(c)
      BY NotActive DEF Links
    <3>2. ~MustBeEmpty(c)'
      BY <1>1, <1>4, <2>1, <3>1 DEF MustBeEmpty
    <3> QED BY <3>2 DEF EmptyOK
  <2> QED BY <2>2, <2>3 DEF ListsAreEmpty
<1>13. Cancelled'
  <2>1. ASSUME NEW t \in Tasks, t # f
        PROVE  CancelOK(t)'
    BY <1>1, <1>3, <1>5, <2>1, CancelKept, Actor DEF Sound, Cancelled
  <2> QED BY <2>1 DEF Cancelled
<1>14. DueIsThere'
  <2>1. ASSUME NEW t \in Tasks, NEW d \in due[t]
        PROVE  DueThere(d)'
    <3>1. d.cpu \in CPUs /\ DueThere(d)
      BY DEF Sound, Types, Due, DueIsThere
    <3> QED BY <1>1, <1>5, <3>1 DEF DueThere
  <2> QED BY <1>1, <2>1 DEF DueIsThere
<1>15. DueIsAhead'
  <2>1. ASSUME NEW t \in Tasks, t # f
        PROVE  DueOK(t)'
    <3>1. Same(t) /\ DueOK(t)
      BY <1>3, <2>1, Actor DEF Sound, DueIsAhead
    <3>2. ASSUME NEW d \in due[t], Behind(t, d)
          PROVE  Behind(t, d)'
      <4>1. d.cpu \in CPUs
        BY DEF Sound, Types, Due
      <4>2. t \in ListEntries(worklist'[d.cpu])
        BY <1>5, <3>2, <4>1 DEF Behind
      <4>3. \A x : Ahead(worklist[d.cpu], x, t) => Ahead(worklist'[d.cpu], x, t)
        BY <1>2, <4>1 DEF Links
      <4> QED BY <3>2, <4>2, <4>3 DEF Behind
    <3>3. AtMost(work[t], cpu[t]) => AtMost(work[t], cpu[t])'
      <4>1. PICK w, k : w = work[t] /\ k = cpu[t]
        OBVIOUS
      <4>2. work'[t] = w /\ cpu'[t] = k /\ w # f
        BY <1>3, <3>1, <4>1, Actor DEF Same, Sound, Types
      <4>3. Listed(w)' => Listed(w)
        BY <1>5, <4>2 DEF Listed
      <4>4. ASSUME NEW e \in Actors, pc'[e] = "insert"
            PROVE  pc[e] = "insert" /\ work'[e] = work[e]
        BY <1>3, <1>9, <4>4 DEF Same
      <4>5. AtMost(w, k) => AtMost(w, k)'
        BY <1>1, <4>3, <4>4 DEF AtMost
      <4> QED BY <4>1, <4>2, <4>5
    <3> QED BY <1>1, <3>1, <3>2, <3>3, DueKept
  <2> QED BY <2>1 DEF DueIsAhead
<1> QED BY <1>7, <1>8, <1>10, <1>11, <1>12, <1>13, <1>14, <1>15 DEF Rest

------------------------------------------------------------------------------
(* The steps of the tasks. *)

(* What a task has to wait for when it is at one of these points. *)
LEMMA NothingDue ==
  ASSUME Sound, NEW t \in Tasks,
         pc[t] \notin {"flush_scan", "flush_wait", "work_wait", "flush_lock", "flush_data"}
  PROVE  \A d \in due[t] : ~d.own
BY DEF Sound, DueIsAhead, DueOK

(* Nothing is due to t any more. *)
LEMMA DueNothing ==
  ASSUME NEW t, \A d \in due'[t] : ~d.own
  PROVE  DueOK(t)'
BY DEF DueOK

(* t does not own a PENDING bit that it cancels. *)
LEMMA CancelNothing ==
  ASSUME NEW t, next'[t] # "clear_pending"
  PROVE  CancelOK(t)'
BY DEF CancelOK

(* Everything that is due to t, or that it still has to see finished, is   *)
(* on a populated CPU.                                                     *)
LEMMA DueFacts ==
  ASSUME Sound, NEW t \in Tasks, NEW d \in due[t]
  PROVE  /\ d \in Due /\ DueThere(d) /\ d.cpu \in CPUs /\ d.cpu \in Nat /\ d.work \in Works
         /\ Active(d.cpu) /\ d.cpu \in populated
<1>1. d \in Due /\ DueThere(d)
  BY DEF Sound, Types, DueIsThere
<1> QED BY <1>1, DueActive, Actor

(* A CPU that runs what a task cancels is one that it will visit. *)
LEMMA CancelFacts ==
  ASSUME Sound, NEW t \in Tasks, work[t] \in Works, NEW c \in CPUs, current_work[c] = work[t]
  PROVE  /\ Active(c) /\ c \in populated /\ c \in Nat \ {0} /\ data[work[t]] \in CPUs
         /\ next[t] = "clear_pending" =>
              /\ c >= cpu[t]
              /\ c = cpu[t] => pc[t] = "wait_wait" /\ t \in ListEntries(worklist[c])
<1>1. Active(c)
  BY Actor DEF Active
<1>2. c \in populated
  BY <1>1, NotActive
<1> QED BY <1>1, <1>2, Actor DEF Sound, DataIsRight, Cancelled, CancelOK

(* The barrier of t has run. *)
LEMMA DoneFacts ==
  ASSUME Sound, NEW f \in Flushers, done[f]
  PROVE  \A c \in CPUs : f \notin ListEntries(worklist[c])
BY BarrierFree DEF Sound, Barriers

(* A task goes somewhere, and changes nothing but its completion and what  *)
(* is due to it.                                                           *)
LEMMA TaskMoves ==
  ASSUME Sound, Follows, NEW t \in Tasks, Others(t),
         UNCHANGED <<pending, data, worklist, current_work, global>>,
         \A f \in Flushers : f # t => done'[f] = done[f],
         \A u \in Tasks : u # t => due'[u] = due[u],
         TaskAlone(t), Hand(t)' = Hand(t), pc'[t] # "insert", pc'[t] # "queue"
  PROVE  PendingOwned' /\ Rest'
<1>1. Alone(t)
  BY Actor DEF Alone, SameOrDeleted, Others
<1>2. PendingOwned'
  BY OwnersStay, Actor DEF Sound
<1> QED BY <1>1, <1>2, AloneKeeps, Actor

(* Tasks that look, wait and go on. *)
LEMMA QuietTasks ==
  ASSUME Sound, Follows
  PROVE  /\ \A t \in Tasks, w \in Works : FlushReads(t, w) => PendingOwned' /\ Rest'
         /\ \A t \in Tasks, w \in Works, loop \in {"grab", "del_timer"} :
              CancelStarts(t, w, loop) => PendingOwned' /\ Rest'
         /\ \A t \in Tasks, c \in CPUs : FlushVisits(t, c) => PendingOwned' /\ Rest'
         /\ \A t \in Tasks, c \in CPUs : WaitVisits(t, c) => PendingOwned' /\ Rest'
         /\ \A t \in Tasks : FlushStarts(t) => PendingOwned' /\ Rest'
         /\ \A t \in Tasks : FlushNever(t) => PendingOwned' /\ Rest'
         /\ \A t \in Tasks : FlushEnds(t) => PendingOwned' /\ Rest'
         /\ \A t \in Tasks : FlushWaited(t) => PendingOwned' /\ Rest'
         /\ \A t \in Tasks : LockLeaves(t) => PendingOwned' /\ Rest'
         /\ \A t \in Tasks : WorkWaited(t) => PendingOwned' /\ Rest'
         /\ \A t \in Tasks : TimerMissed(t) => PendingOwned' /\ Rest'
         /\ \A t \in Tasks : GrabFails(t) => PendingOwned' /\ Rest'
         /\ \A t \in Tasks : GrabLooks(t) => PendingOwned' /\ Rest'
         /\ \A t \in Tasks : StealFails(t) => PendingOwned' /\ Rest'
         /\ \A t \in Tasks : LockLooks(t) => PendingOwned' /\ Rest'
         /\ \A t \in Tasks : StealLooks(t) => PendingOwned' /\ Rest'
         /\ \A t \in Tasks : WaitSkips(t) => PendingOwned' /\ Rest'
         /\ \A t \in Tasks : WaitStarts(t) => PendingOwned' /\ Rest'
         /\ \A t \in Tasks : WaitEnds(t) => PendingOwned' /\ Rest'
         /\ \A t \in Tasks : WaitWaited(t) => PendingOwned' /\ Rest'
<1>1. ASSUME NEW t \in Tasks, NEW w \in Works, FlushReads(t, w)
      PROVE  PendingOwned' /\ Rest'
  <2>1. TaskAt(pc[t], next[t], work[t], cpu[t])
    BY LocalFacts DEF Sound
  <2>2. Goes(t, "flush_lock", "idle", w, data[w]) /\ Others(t)
    BY <1>1, MoveFacts, Actor DEF FlushReads, Sound
  <2>3. Hand(t)' = Hand(t) /\ pc'[t] # "insert" /\ pc'[t] # "queue"
    BY <1>1, <2>1, <2>2 DEF FlushReads, TaskAt, Goes, Hand
  <2>4. WaitsOn(t) = 0 \/ done[t]
    BY <1>1 DEF FlushReads, WaitsOn
  <2>5. UNCHANGED <<pending, data, worklist, current_work, global>>
    BY <1>1 DEF FlushReads, lists
  <2>6. done' = done /\ \A u \in Tasks : u # t => due'[u] = due[u]
    BY <1>1 DEF FlushReads, Sound, Types
  <2>7. CancelOK(t)'
    BY <2>2, CancelNothing DEF Goes
  <2>8. DueOK(t)'
    <3>1. due'[t] = Outstanding({w}, {data[w]}) /\ data' = data
      BY <1>1 DEF FlushReads, Sound, Types
    <3>2. ASSUME NEW d \in due'[t], d.own
          PROVE  d.cpu = cpu'[t] /\ d.work = work'[t]
      <4>1. PICK W, own : W \in SUBSET Works /\ W = {w} /\ own = {data[w]}
        OBVIOUS
      <4>2. d \in Outstanding(W, own)
        BY <3>1, <3>2, <4>1
      <4>3. d.work \in W /\ d.own = (d.cpu \in own)
        BY <4>1, <4>2, OutstandingFacts
      <4> QED BY <2>2, <3>2, <4>1, <4>3 DEF Goes
    <3>3. AtMost(work[t], cpu[t])'
      BY <2>2, <3>1 DEF AtMost, Goes
    <3> QED BY <2>2, <3>2, <3>3 DEF DueOK, Goes
  <2>9. \A d \in due'[t] : DueThere(d)
    <3>1. due'[t] = Outstanding({w}, {data[w]})
      BY <1>1 DEF FlushReads, Sound, Types
    <3> QED BY <3>1, OutstandingFacts
  <2> QED BY <2>2, <2>3, <2>4, <2>5, <2>6, <2>7, <2>8, <2>9, TaskMoves DEF TaskAlone
<1>2. ASSUME NEW t \in Tasks, NEW w \in Works, NEW loop \in {"grab", "del_timer"},
        CancelStarts(t, w, loop)
      PROVE  PendingOwned' /\ Rest'
  <2>1. TaskAt(pc[t], next[t], work[t], cpu[t])
    BY LocalFacts DEF Sound
  <2>2. Goes(t, loop, loop, w, 0) /\ Others(t)
    BY <1>2, MoveFacts, Actor DEF CancelStarts, Quiet, Sound
  <2>3. Hand(t)' = Hand(t) /\ pc'[t] # "insert" /\ pc'[t] # "queue"
    BY <1>2, <2>1, <2>2 DEF CancelStarts, TaskAt, Goes, Hand
  <2>4. WaitsOn(t) = 0 \/ done[t]
    BY <1>2 DEF CancelStarts, Quiet, WaitsOn
  <2>5. UNCHANGED <<pending, data, worklist, current_work, global>>
    BY <1>2 DEF CancelStarts, Quiet, lists
  <2>6. due' = due /\ \A f \in Flushers : f # t => done'[f] = done[f]
    BY <1>2 DEF CancelStarts, Quiet, lists, Sound, Types
  <2>7. CancelOK(t)'
    BY <1>2, <2>1, <2>2, CancelNothing DEF CancelStarts, TaskAt, Goes
  <2>8. DueOK(t)'
    <3>1. \A d \in due[t] : ~d.own
      BY <1>2, NothingDue DEF CancelStarts
    <3> QED BY <2>6, <3>1, DueNothing
  <2>9. \A d \in due'[t] : DueThere(d)
    BY <2>6, DueFacts
  <2> QED BY <2>2, <2>3, <2>4, <2>5, <2>6, <2>7, <2>8, <2>9, TaskMoves DEF TaskAlone
<1>3. ASSUME NEW t \in Tasks, NEW c \in CPUs, FlushVisits(t, c)
      PROVE  PendingOwned' /\ Rest'
  <2>1. TaskAt(pc[t], next[t], work[t], cpu[t])
    BY LocalFacts DEF Sound
  <2>2. Goes(t, "flush_scan", "idle", Null, c) /\ Others(t)
    BY <1>3, MoveFacts, Actor DEF FlushVisits, Quiet, Sound
  <2>3. Hand(t)' = Hand(t) /\ pc'[t] # "insert" /\ pc'[t] # "queue"
    BY <1>3, <2>1, <2>2 DEF FlushVisits, TaskAt, Goes, Hand
  <2>4. WaitsOn(t) = 0 \/ done[t]
    BY <1>3 DEF FlushVisits, Quiet, WaitsOn
  <2>5. UNCHANGED <<pending, data, worklist, current_work, global>>
    BY <1>3 DEF FlushVisits, Quiet, lists
  <2>6. due' = due /\ \A f \in Flushers : f # t => done'[f] = done[f]
    BY <1>3 DEF FlushVisits, Quiet, lists, Sound, Types
  <2>7. CancelOK(t)'
    BY <2>2, CancelNothing DEF Goes
  <2>8. DueOK(t)'
    <3>1. ASSUME NEW d \in due[t], d.own
          PROVE  d.cpu > cpu'[t]
      <4>1. d.cpu \in populated /\ Active(d.cpu) /\ d.cpu \in Nat
        BY <3>1, DueFacts
      <4>2. d.cpu > cpu[t]
        BY <1>3, <3>1 DEF FlushVisits, Sound, DueIsAhead, DueOK
      <4>3. d.cpu # c /\ d.cpu >= c
        BY <1>3, <4>1, <4>2 DEF FlushVisits, Visits, wq_cpu_map
      <4> QED BY <2>2, <4>1, <4>3, Actor DEF Goes
    <3> QED BY <2>2, <2>6, <3>1 DEF DueOK, Goes
  <2>9. \A d \in due'[t] : DueThere(d)
    BY <2>6, DueFacts
  <2> QED BY <2>2, <2>3, <2>4, <2>5, <2>6, <2>7, <2>8, <2>9, TaskMoves DEF TaskAlone
<1>4. ASSUME NEW t \in Tasks, NEW c \in CPUs, WaitVisits(t, c)
      PROVE  PendingOwned' /\ Rest'
  <2>1. TaskAt(pc[t], next[t], work[t], cpu[t])
    BY LocalFacts DEF Sound
  <2>2. Goes(t, "wait_scan", next[t], work[t], c) /\ Others(t)
    BY <1>4, MoveFacts, Actor DEF WaitVisits, Quiet, Sound
  <2>3. Hand(t)' = Hand(t) /\ pc'[t] # "insert" /\ pc'[t] # "queue"
    BY <1>4, <2>1, <2>2 DEF WaitVisits, TaskAt, Goes, Hand
  <2>4. WaitsOn(t) = 0 \/ done[t]
    BY <1>4 DEF WaitVisits, Quiet, WaitsOn
  <2>5. UNCHANGED <<pending, data, worklist, current_work, global>>
    BY <1>4 DEF WaitVisits, Quiet, lists
  <2>6. due' = due /\ \A f \in Flushers : f # t => done'[f] = done[f]
    BY <1>4 DEF WaitVisits, Quiet, lists, Sound, Types
  <2>7. CancelOK(t)'
    <3>1. work[t] \in Works
      BY <1>4, TaskWork DEF WaitVisits, Sound
    <3>2. ASSUME NEW e \in CPUs, current_work'[e] = work'[t], next'[t] = "clear_pending"
          PROVE  pc'[t] # "clear_pending" /\ e > cpu'[t]
      <4>1. current_work[e] = work[t] /\ next[t] = "clear_pending"
        BY <1>4, <2>2, <3>2 DEF WaitVisits, Quiet, Goes, lists
      <4>2. /\ e \in populated /\ e \in Nat \ {0} /\ data[work[t]] \in CPUs /\ e >= cpu[t]
            /\ e = cpu[t] => pc[t] = "wait_wait" /\ t \in ListEntries(worklist[e])
        BY <3>1, <4>1, CancelFacts
      <4>4. cpu[t] \in Nat /\ pc[t] # "wait_wait"
        BY <1>4, <2>1, Actor DEF WaitVisits, TaskAt
      <4>5. e > cpu[t]
        BY <4>2, <4>4
      <4>3. e # c /\ e >= c
        BY <1>4, <4>1, <4>2, <4>5 DEF WaitVisits, Visits, wq_cpu_map
      <4> QED BY <2>2, <4>2, <4>3, Actor DEF Goes
    <3>3. cpu'[t] \in Nat
      BY <1>4, <2>1, <2>2, Actor DEF WaitVisits, TaskAt, Goes
    <3>4. ASSUME NEW e \in CPUs, current_work'[e] = work'[t], next'[t] = "clear_pending"
          PROVE  pc'[t] # "clear_pending" /\ e >= cpu'[t] /\ e # cpu'[t]
      BY <3>2, <3>3, <3>4, Actor
    <3> QED BY <3>4 DEF CancelOK
  <2>8. DueOK(t)'
    <3>1. \A d \in due[t] : ~d.own
      BY <1>4, NothingDue DEF WaitVisits
    <3> QED BY <2>6, <3>1, DueNothing
  <2>9. \A d \in due'[t] : DueThere(d)
    BY <2>6, DueFacts
  <2> QED BY <2>2, <2>3, <2>4, <2>5, <2>6, <2>7, <2>8, <2>9, TaskMoves DEF TaskAlone
<1>5. ASSUME NEW t \in Tasks, FlushStarts(t)
      PROVE  PendingOwned' /\ Rest'
  <2>1. TaskAt(pc[t], next[t], work[t], cpu[t])
    BY LocalFacts DEF Sound
  <2>2. Goes(t, "flush_scan", "idle", Null, 0) /\ Others(t)
    BY <1>5, MoveFacts, Actor DEF FlushStarts, Sound
  <2>3. Hand(t)' = Hand(t) /\ pc'[t] # "insert" /\ pc'[t] # "queue"
    BY <1>5, <2>1, <2>2 DEF FlushStarts, TaskAt, Goes, Hand
  <2>4. WaitsOn(t) = 0 \/ done[t]
    BY <1>5 DEF FlushStarts, WaitsOn
  <2>5. UNCHANGED <<pending, data, worklist, current_work, global>>
    BY <1>5 DEF FlushStarts, lists
  <2>6. done' = done /\ \A u \in Tasks : u # t => due'[u] = due[u]
    BY <1>5 DEF FlushStarts, Sound, Types
  <2>7. CancelOK(t)'
    BY <2>2, CancelNothing DEF Goes
  <2>8. DueOK(t)'
    <3>1. ASSUME NEW d \in due'[t]
          PROVE  d.cpu > cpu'[t]
      <4>1. due'[t] = Outstanding(Works, CPUs)
        BY <1>5 DEF FlushStarts, Sound, Types
      <4>2. d \in Due
        BY <3>1, <4>1, OutstandingFacts
      <4>3. d.cpu \in Nat \ {0}
        BY <4>2, Actor DEF Due
      <4> QED BY <2>2, <4>3 DEF Goes
    <3> QED BY <2>2, <3>1 DEF DueOK, Goes
  <2>9. \A d \in due'[t] : DueThere(d)
    <3>1. due'[t] = Outstanding(Works, CPUs)
      BY <1>5 DEF FlushStarts, Sound, Types
    <3> QED BY <3>1, OutstandingFacts
  <2> QED BY <2>2, <2>3, <2>4, <2>5, <2>6, <2>7, <2>8, <2>9, TaskMoves DEF TaskAlone
<1>6. ASSUME NEW t \in Tasks, FlushNever(t)
      PROVE  PendingOwned' /\ Rest'
  <2>1. TaskAt(pc[t], next[t], work[t], cpu[t])
    BY LocalFacts DEF Sound
  <2>2. Goes(t, "idle", "idle", Null, 0) /\ Others(t)
    BY <1>6, MoveFacts, Actor DEF FlushNever, Quiet, Sound
  <2>3. Hand(t)' = Hand(t) /\ pc'[t] # "insert" /\ pc'[t] # "queue"
    BY <1>6, <2>1, <2>2 DEF FlushNever, TaskAt, Goes, Hand
  <2>4. WaitsOn(t) = 0 \/ done[t]
    BY <1>6 DEF FlushNever, Quiet, WaitsOn
  <2>5. UNCHANGED <<pending, data, worklist, current_work, global>>
    BY <1>6 DEF FlushNever, Quiet, lists
  <2>6. due' = due /\ \A f \in Flushers : f # t => done'[f] = done[f]
    BY <1>6 DEF FlushNever, Quiet, lists, Sound, Types
  <2>7. CancelOK(t)'
    BY <2>2, CancelNothing DEF Goes
  <2>8. DueOK(t)'
    <3>1. \A d \in due[t] : ~d.own
      BY <1>6, NothingDue DEF FlushNever
    <3> QED BY <2>6, <3>1, DueNothing
  <2>9. \A d \in due'[t] : DueThere(d)
    BY <2>6, DueFacts
  <2> QED BY <2>2, <2>3, <2>4, <2>5, <2>6, <2>7, <2>8, <2>9, TaskMoves DEF TaskAlone
<1>7. ASSUME NEW t \in Tasks, FlushEnds(t)
      PROVE  PendingOwned' /\ Rest'
  <2>1. TaskAt(pc[t], next[t], work[t], cpu[t])
    BY LocalFacts DEF Sound
  <2>2. Goes(t, "idle", "idle", Null, 0) /\ Others(t)
    BY <1>7, MoveFacts, Actor DEF FlushEnds, Quiet, Sound
  <2>3. Hand(t)' = Hand(t) /\ pc'[t] # "insert" /\ pc'[t] # "queue"
    BY <1>7, <2>1, <2>2 DEF FlushEnds, TaskAt, Goes, Hand
  <2>4. WaitsOn(t) = 0 \/ done[t]
    BY <1>7 DEF FlushEnds, Quiet, WaitsOn
  <2>5. UNCHANGED <<pending, data, worklist, current_work, global>>
    BY <1>7 DEF FlushEnds, Quiet, lists
  <2>6. due' = due /\ \A f \in Flushers : f # t => done'[f] = done[f]
    BY <1>7 DEF FlushEnds, Quiet, lists, Sound, Types
  <2>7. CancelOK(t)'
    BY <2>2, CancelNothing DEF Goes
  <2>8. DueOK(t)'
    <3>1. ASSUME NEW d \in due[t], d.own
          PROVE  FALSE
      <4>1. d.cpu > cpu[t] /\ d.cpu <= cpu[t]
        BY <1>7, <3>1, DueFacts DEF FlushEnds, Visited, wq_cpu_map, Sound, DueIsAhead, DueOK
      <4>2. d.cpu \in Nat /\ cpu[t] \in Nat
        BY <1>7, <2>1, <3>1, DueFacts, Actor DEF FlushEnds, TaskAt
      <4> QED BY <4>1, <4>2
    <3> QED BY <2>6, <3>1, DueNothing
  <2>9. \A d \in due'[t] : DueThere(d)
    BY <2>6, DueFacts
  <2> QED BY <2>2, <2>3, <2>4, <2>5, <2>6, <2>7, <2>8, <2>9, TaskMoves DEF TaskAlone
<1>8. ASSUME NEW t \in Tasks, FlushWaited(t)
      PROVE  PendingOwned' /\ Rest'
  <2>1. TaskAt(pc[t], next[t], work[t], cpu[t])
    BY LocalFacts DEF Sound
  <2>2. Goes(t, "flush_scan", "idle", Null, cpu[t]) /\ Others(t)
    BY <1>8, MoveFacts, Actor DEF FlushWaited, Waited, Sound
  <2>3. Hand(t)' = Hand(t) /\ pc'[t] # "insert" /\ pc'[t] # "queue"
    BY <1>8, <2>1, <2>2 DEF FlushWaited, TaskAt, Goes, Hand
  <2>4. WaitsOn(t) = 0 \/ done[t]
    BY <1>8 DEF FlushWaited, Waited, WaitsOn
  <2>5. UNCHANGED <<pending, data, worklist, current_work, global>>
    BY <1>8 DEF FlushWaited, Waited, lists
  <2>6. due' = due /\ \A f \in Flushers : f # t => done'[f] = done[f]
    BY <1>8 DEF FlushWaited, Waited, lists, Sound, Types
  <2>7. CancelOK(t)'
    BY <2>2, CancelNothing DEF Goes
  <2>8. DueOK(t)'
    <3>1. ASSUME NEW d \in due[t], d.own
          PROVE  d.cpu > cpu'[t]
      <4>1. d.cpu \in CPUs
        BY <3>1, DueFacts
      <4>2. t \notin ListEntries(worklist[d.cpu])
        BY <1>8, <4>1, DoneFacts, Actor DEF FlushWaited, Waited
      <4>3. d.cpu > cpu[t]
        BY <1>8, <3>1, <4>2 DEF FlushWaited, Sound, DueIsAhead, DueOK, Behind
      <4> QED BY <2>2, <4>3 DEF Goes
    <3> QED BY <2>2, <2>6, <3>1 DEF DueOK, Goes
  <2>9. \A d \in due'[t] : DueThere(d)
    BY <2>6, DueFacts
  <2> QED BY <2>2, <2>3, <2>4, <2>5, <2>6, <2>7, <2>8, <2>9, TaskMoves DEF TaskAlone
<1>9. ASSUME NEW t \in Tasks, LockLeaves(t)
      PROVE  PendingOwned' /\ Rest'
  <2>1. TaskAt(pc[t], next[t], work[t], cpu[t])
    BY LocalFacts DEF Sound
  <2>2. Goes(t, "idle", "idle", Null, 0) /\ Others(t)
    BY <1>9, MoveFacts, Actor DEF LockLeaves, Quiet, Sound
  <2>3. Hand(t)' = Hand(t) /\ pc'[t] # "insert" /\ pc'[t] # "queue"
    BY <1>9, <2>1, <2>2 DEF LockLeaves, TaskAt, Goes, Hand
  <2>4. WaitsOn(t) = 0 \/ done[t]
    BY <1>9 DEF LockLeaves, Quiet, WaitsOn
  <2>5. UNCHANGED <<pending, data, worklist, current_work, global>>
    BY <1>9 DEF LockLeaves, Quiet, lists
  <2>6. due' = due /\ \A f \in Flushers : f # t => done'[f] = done[f]
    BY <1>9 DEF LockLeaves, Quiet, lists, Sound, Types
  <2>7. CancelOK(t)'
    BY <2>2, CancelNothing DEF Goes
  <2>8. DueOK(t)'
    <3>1. ASSUME NEW d \in due[t], d.own
          PROVE  FALSE
      <4>1. d.cpu = cpu[t] /\ d.work = work[t] /\ AtMost(work[t], cpu[t])
        BY <1>9, <3>1 DEF LockLeaves, Sound, DueIsAhead, DueOK
      <4>2. DueThere(d) /\ d.cpu \in CPUs /\ d.work \in Works
        BY <3>1, DueFacts
      <4>6. pc[t] = "flush_data" => d.work \in ListEntries(worklist[d.cpu])
        BY <3>1, <4>1 DEF Sound, Pinned, PinnedOK
      <4>7. pc[t] = "flush_data" => Listed(d.work)
        BY <4>2, <4>6 DEF Listed
      <4>3. IF Listed(d.work) THEN data[d.work] # d.cpu ELSE current_work[d.cpu] # d.work
        BY <1>9, <4>1, <4>7 DEF LockLeaves
      <4>4. CASE d.phase = "queued"
        <5>1. d.work \in ListEntries(worklist[d.cpu])
          BY <4>2, <4>4 DEF DueThere
        <5>2. Listed(d.work) /\ data[d.work] = d.cpu
          BY <4>2, <5>1 DEF Listed, Sound, DataIsRight
        <5> QED BY <4>3, <5>2
      <4>5. CASE d.phase # "queued"
        <5>1. current_work[d.cpu] = d.work
          BY <4>2, <4>5 DEF DueThere
        <5>2. Listed(d.work) => data[d.work] = d.cpu
          BY <4>1 DEF AtMost
        <5> QED BY <4>3, <5>1, <5>2
      <4> QED BY <4>4, <4>5
    <3> QED BY <2>6, <3>1, DueNothing
  <2>9. \A d \in due'[t] : DueThere(d)
    BY <2>6, DueFacts
  <2> QED BY <2>2, <2>3, <2>4, <2>5, <2>6, <2>7, <2>8, <2>9, TaskMoves DEF TaskAlone
<1>10. ASSUME NEW t \in Tasks, WorkWaited(t)
      PROVE  PendingOwned' /\ Rest'
  <2>1. TaskAt(pc[t], next[t], work[t], cpu[t])
    BY LocalFacts DEF Sound
  <2>2. Goes(t, "idle", "idle", Null, 0) /\ Others(t)
    BY <1>10, MoveFacts, Actor DEF WorkWaited, Waited, Sound
  <2>3. Hand(t)' = Hand(t) /\ pc'[t] # "insert" /\ pc'[t] # "queue"
    BY <1>10, <2>1, <2>2 DEF WorkWaited, TaskAt, Goes, Hand
  <2>4. WaitsOn(t) = 0 \/ done[t]
    BY <1>10 DEF WorkWaited, Waited, WaitsOn
  <2>5. UNCHANGED <<pending, data, worklist, current_work, global>>
    BY <1>10 DEF WorkWaited, Waited, lists
  <2>6. due' = due /\ \A f \in Flushers : f # t => done'[f] = done[f]
    BY <1>10 DEF WorkWaited, Waited, lists, Sound, Types
  <2>7. CancelOK(t)'
    BY <2>2, CancelNothing DEF Goes
  <2>8. DueOK(t)'
    <3>1. ASSUME NEW d \in due[t], d.own
          PROVE  FALSE
      <4>1. d.cpu = cpu[t] /\ t \in ListEntries(worklist[d.cpu])
        BY <1>10, <3>1 DEF WorkWaited, Sound, DueIsAhead, DueOK, Behind
      <4>2. d.cpu \in CPUs
        BY <3>1, DueFacts
      <4> QED BY <1>10, <4>1, <4>2, DoneFacts, Actor DEF WorkWaited, Waited
    <3> QED BY <2>6, <3>1, DueNothing
  <2>9. \A d \in due'[t] : DueThere(d)
    BY <2>6, DueFacts
  <2> QED BY <2>2, <2>3, <2>4, <2>5, <2>6, <2>7, <2>8, <2>9, TaskMoves DEF TaskAlone
<1>11. ASSUME NEW t \in Tasks, TimerMissed(t)
      PROVE  PendingOwned' /\ Rest'
  <2>1. TaskAt(pc[t], next[t], work[t], cpu[t])
    BY LocalFacts DEF Sound
  <2>2. Goes(t, "grab", next[t], work[t], 0) /\ Others(t)
    BY <1>11, MoveFacts, Actor DEF TimerMissed, Quiet, Sound
  <2>3. Hand(t)' = Hand(t) /\ pc'[t] # "insert" /\ pc'[t] # "queue"
    BY <1>11, <2>1, <2>2 DEF TimerMissed, TaskAt, Goes, Hand
  <2>4. WaitsOn(t) = 0 \/ done[t]
    BY <1>11 DEF TimerMissed, Quiet, WaitsOn
  <2>5. UNCHANGED <<pending, data, worklist, current_work, global>>
    BY <1>11 DEF TimerMissed, Quiet, lists
  <2>6. due' = due /\ \A f \in Flushers : f # t => done'[f] = done[f]
    BY <1>11 DEF TimerMissed, Quiet, lists, Sound, Types
  <2>7. CancelOK(t)'
    BY <1>11, <2>1, <2>2, CancelNothing DEF TimerMissed, TaskAt, Goes
  <2>8. DueOK(t)'
    <3>1. \A d \in due[t] : ~d.own
      BY <1>11, NothingDue DEF TimerMissed
    <3> QED BY <2>6, <3>1, DueNothing
  <2>9. \A d \in due'[t] : DueThere(d)
    BY <2>6, DueFacts
  <2> QED BY <2>2, <2>3, <2>4, <2>5, <2>6, <2>7, <2>8, <2>9, TaskMoves DEF TaskAlone
<1>12. ASSUME NEW t \in Tasks, GrabFails(t)
      PROVE  PendingOwned' /\ Rest'
  <2>1. TaskAt(pc[t], next[t], work[t], cpu[t])
    BY LocalFacts DEF Sound
  <2>2. Goes(t, "wait_on_work", next[t], work[t], 0) /\ Others(t)
    BY <1>12, MoveFacts, Actor DEF GrabFails, Quiet, Sound
  <2>3. Hand(t)' = Hand(t) /\ pc'[t] # "insert" /\ pc'[t] # "queue"
    BY <1>12, <2>1, <2>2 DEF GrabFails, TaskAt, Goes, Hand
  <2>4. WaitsOn(t) = 0 \/ done[t]
    BY <1>12 DEF GrabFails, Quiet, WaitsOn
  <2>5. UNCHANGED <<pending, data, worklist, current_work, global>>
    BY <1>12 DEF GrabFails, Quiet, lists
  <2>6. due' = due /\ \A f \in Flushers : f # t => done'[f] = done[f]
    BY <1>12 DEF GrabFails, Quiet, lists, Sound, Types
  <2>7. CancelOK(t)'
    BY <1>12, <2>1, <2>2, CancelNothing DEF GrabFails, TaskAt, Goes
  <2>8. DueOK(t)'
    <3>1. \A d \in due[t] : ~d.own
      BY <1>12, NothingDue DEF GrabFails
    <3> QED BY <2>6, <3>1, DueNothing
  <2>9. \A d \in due'[t] : DueThere(d)
    BY <2>6, DueFacts
  <2> QED BY <2>2, <2>3, <2>4, <2>5, <2>6, <2>7, <2>8, <2>9, TaskMoves DEF TaskAlone
<1>13. ASSUME NEW t \in Tasks, GrabLooks(t)
      PROVE  PendingOwned' /\ Rest'
  <2>1. TaskAt(pc[t], next[t], work[t], cpu[t])
    BY LocalFacts DEF Sound
  <2>2. Goes(t, "steal", next[t], work[t], data[work[t]]) /\ Others(t)
    BY <1>13, MoveFacts, Actor DEF GrabLooks, Quiet, Sound
  <2>3. Hand(t)' = Hand(t) /\ pc'[t] # "insert" /\ pc'[t] # "queue"
    BY <1>13, <2>1, <2>2 DEF GrabLooks, TaskAt, Goes, Hand
  <2>4. WaitsOn(t) = 0 \/ done[t]
    BY <1>13 DEF GrabLooks, Quiet, WaitsOn
  <2>5. UNCHANGED <<pending, data, worklist, current_work, global>>
    BY <1>13 DEF GrabLooks, Quiet, lists
  <2>6. due' = due /\ \A f \in Flushers : f # t => done'[f] = done[f]
    BY <1>13 DEF GrabLooks, Quiet, lists, Sound, Types
  <2>7. CancelOK(t)'
    BY <1>13, <2>1, <2>2, CancelNothing DEF GrabLooks, TaskAt, Goes
  <2>8. DueOK(t)'
    <3>1. \A d \in due[t] : ~d.own
      BY <1>13, NothingDue DEF GrabLooks
    <3> QED BY <2>6, <3>1, DueNothing
  <2>9. \A d \in due'[t] : DueThere(d)
    BY <2>6, DueFacts
  <2> QED BY <2>2, <2>3, <2>4, <2>5, <2>6, <2>7, <2>8, <2>9, TaskMoves DEF TaskAlone
<1>14. ASSUME NEW t \in Tasks, StealFails(t)
      PROVE  PendingOwned' /\ Rest'
  <2>1. TaskAt(pc[t], next[t], work[t], cpu[t])
    BY LocalFacts DEF Sound
  <2>2. Goes(t, "wait_on_work", next[t], work[t], 0) /\ Others(t)
    BY <1>14, MoveFacts, Actor DEF StealFails, Quiet, Sound
  <2>3. Hand(t)' = Hand(t) /\ pc'[t] # "insert" /\ pc'[t] # "queue"
    BY <1>14, <2>1, <2>2 DEF StealFails, TaskAt, Goes, Hand
  <2>4. WaitsOn(t) = 0 \/ done[t]
    BY <1>14 DEF StealFails, Quiet, WaitsOn
  <2>5. UNCHANGED <<pending, data, worklist, current_work, global>>
    BY <1>14 DEF StealFails, Quiet, lists
  <2>6. due' = due /\ \A f \in Flushers : f # t => done'[f] = done[f]
    BY <1>14 DEF StealFails, Quiet, lists, Sound, Types
  <2>7. CancelOK(t)'
    BY <1>14, <2>1, <2>2, CancelNothing DEF StealFails, TaskAt, Goes
  <2>8. DueOK(t)'
    <3>1. \A d \in due[t] : ~d.own
      BY <1>14, NothingDue DEF StealFails
    <3> QED BY <2>6, <3>1, DueNothing
  <2>9. \A d \in due'[t] : DueThere(d)
    BY <2>6, DueFacts
  <2> QED BY <2>2, <2>3, <2>4, <2>5, <2>6, <2>7, <2>8, <2>9, TaskMoves DEF TaskAlone
<1>15. ASSUME NEW t \in Tasks, WaitSkips(t)
      PROVE  PendingOwned' /\ Rest'
  <2>1. TaskAt(pc[t], next[t], work[t], cpu[t])
    BY LocalFacts DEF Sound
  <2>2. Goes(t, next[t], next[t], work[t], 0) /\ Others(t)
    BY <1>15, MoveFacts, Actor DEF WaitSkips, Quiet, Sound
  <2>3. Hand(t)' = Hand(t) /\ pc'[t] # "insert" /\ pc'[t] # "queue"
    BY <1>15, <2>1, <2>2 DEF WaitSkips, TaskAt, Goes, Hand
  <2>4. WaitsOn(t) = 0 \/ done[t]
    BY <1>15 DEF WaitSkips, Quiet, WaitsOn
  <2>5. UNCHANGED <<pending, data, worklist, current_work, global>>
    BY <1>15 DEF WaitSkips, Quiet, lists
  <2>6. due' = due /\ \A f \in Flushers : f # t => done'[f] = done[f]
    BY <1>15 DEF WaitSkips, Quiet, lists, Sound, Types
  <2>7. CancelOK(t)'
    <3>1. work[t] \in Works
      BY <1>15, TaskWork DEF WaitSkips, Sound
    <3>2. ASSUME NEW e \in CPUs, current_work'[e] = work'[t], next'[t] = "clear_pending"
          PROVE  pc'[t] # "clear_pending" /\ e > cpu'[t]
      <4>1. current_work[e] = work[t] /\ next[t] = "clear_pending"
        BY <1>15, <2>2, <3>2 DEF WaitSkips, Quiet, Goes, lists
      <4>2. /\ e \in populated /\ e \in Nat \ {0} /\ data[work[t]] \in CPUs /\ e >= cpu[t]
            /\ e = cpu[t] => pc[t] = "wait_wait" /\ t \in ListEntries(worklist[e])
        BY <3>1, <4>1, CancelFacts
      <4> QED BY <1>15, <4>2, Actor DEF WaitSkips
    <3>3. cpu'[t] \in Nat
      BY <1>15, <2>1, <2>2, Actor DEF WaitSkips, TaskAt, Goes
    <3>4. ASSUME NEW e \in CPUs, current_work'[e] = work'[t], next'[t] = "clear_pending"
          PROVE  pc'[t] # "clear_pending" /\ e >= cpu'[t] /\ e # cpu'[t]
      BY <3>2, <3>3, <3>4, Actor
    <3> QED BY <3>4 DEF CancelOK
  <2>8. DueOK(t)'
    <3>1. \A d \in due[t] : ~d.own
      BY <1>15, NothingDue DEF WaitSkips
    <3> QED BY <2>6, <3>1, DueNothing
  <2>9. \A d \in due'[t] : DueThere(d)
    BY <2>6, DueFacts
  <2> QED BY <2>2, <2>3, <2>4, <2>5, <2>6, <2>7, <2>8, <2>9, TaskMoves DEF TaskAlone
<1>16. ASSUME NEW t \in Tasks, WaitStarts(t)
      PROVE  PendingOwned' /\ Rest'
  <2>1. TaskAt(pc[t], next[t], work[t], cpu[t])
    BY LocalFacts DEF Sound
  <2>2. Goes(t, "wait_scan", next[t], work[t], 0) /\ Others(t)
    BY <1>16, MoveFacts, Actor DEF WaitStarts, Quiet, Sound
  <2>3. Hand(t)' = Hand(t) /\ pc'[t] # "insert" /\ pc'[t] # "queue"
    BY <1>16, <2>1, <2>2 DEF WaitStarts, TaskAt, Goes, Hand
  <2>4. WaitsOn(t) = 0 \/ done[t]
    BY <1>16 DEF WaitStarts, Quiet, WaitsOn
  <2>5. UNCHANGED <<pending, data, worklist, current_work, global>>
    BY <1>16 DEF WaitStarts, Quiet, lists
  <2>6. due' = due /\ \A f \in Flushers : f # t => done'[f] = done[f]
    BY <1>16 DEF WaitStarts, Quiet, lists, Sound, Types
  <2>7. CancelOK(t)'
    <3>1. work[t] \in Works
      BY <1>16, TaskWork DEF WaitStarts, Sound
    <3>2. ASSUME NEW e \in CPUs, current_work'[e] = work'[t], next'[t] = "clear_pending"
          PROVE  pc'[t] # "clear_pending" /\ e > cpu'[t]
      <4>1. current_work[e] = work[t] /\ next[t] = "clear_pending"
        BY <1>16, <2>2, <3>2 DEF WaitStarts, Quiet, Goes, lists
      <4>2. /\ e \in populated /\ e \in Nat \ {0} /\ data[work[t]] \in CPUs /\ e >= cpu[t]
            /\ e = cpu[t] => pc[t] = "wait_wait" /\ t \in ListEntries(worklist[e])
        BY <3>1, <4>1, CancelFacts
      <4> QED BY <2>2, <4>2 DEF Goes
    <3>3. cpu'[t] \in Nat
      BY <1>16, <2>1, <2>2, Actor DEF WaitStarts, TaskAt, Goes
    <3>4. ASSUME NEW e \in CPUs, current_work'[e] = work'[t], next'[t] = "clear_pending"
          PROVE  pc'[t] # "clear_pending" /\ e >= cpu'[t] /\ e # cpu'[t]
      BY <3>2, <3>3, <3>4, Actor
    <3> QED BY <3>4 DEF CancelOK
  <2>8. DueOK(t)'
    <3>1. \A d \in due[t] : ~d.own
      BY <1>16, NothingDue DEF WaitStarts
    <3> QED BY <2>6, <3>1, DueNothing
  <2>9. \A d \in due'[t] : DueThere(d)
    BY <2>6, DueFacts
  <2> QED BY <2>2, <2>3, <2>4, <2>5, <2>6, <2>7, <2>8, <2>9, TaskMoves DEF TaskAlone
<1>17. ASSUME NEW t \in Tasks, WaitEnds(t)
      PROVE  PendingOwned' /\ Rest'
  <2>1. TaskAt(pc[t], next[t], work[t], cpu[t])
    BY LocalFacts DEF Sound
  <2>2. Goes(t, next[t], next[t], work[t], 0) /\ Others(t)
    BY <1>17, MoveFacts, Actor DEF WaitEnds, Quiet, Sound
  <2>3. Hand(t)' = Hand(t) /\ pc'[t] # "insert" /\ pc'[t] # "queue"
    BY <1>17, <2>1, <2>2 DEF WaitEnds, TaskAt, Goes, Hand
  <2>4. WaitsOn(t) = 0 \/ done[t]
    BY <1>17 DEF WaitEnds, Quiet, WaitsOn
  <2>5. UNCHANGED <<pending, data, worklist, current_work, global>>
    BY <1>17 DEF WaitEnds, Quiet, lists
  <2>6. due' = due /\ \A f \in Flushers : f # t => done'[f] = done[f]
    BY <1>17 DEF WaitEnds, Quiet, lists, Sound, Types
  <2>7. CancelOK(t)'
    <3>1. work[t] \in Works
      BY <1>17, TaskWork DEF WaitEnds, Sound
    <3>2. ASSUME NEW e \in CPUs, current_work'[e] = work'[t], next'[t] = "clear_pending"
          PROVE  pc'[t] # "clear_pending" /\ e > cpu'[t]
      <4>1. current_work[e] = work[t] /\ next[t] = "clear_pending"
        BY <1>17, <2>2, <3>2 DEF WaitEnds, Quiet, Goes, lists
      <4>2. /\ e \in populated /\ e \in Nat \ {0} /\ data[work[t]] \in CPUs /\ e >= cpu[t]
            /\ e = cpu[t] => pc[t] = "wait_wait" /\ t \in ListEntries(worklist[e])
        BY <3>1, <4>1, CancelFacts
      <4>3. e <= cpu[t]
        BY <1>17, <4>2 DEF WaitEnds, Visited, wq_cpu_map
      <4>4. cpu[t] \in Nat /\ pc[t] # "wait_wait"
        BY <1>17, <2>1, Actor DEF WaitEnds, TaskAt
      <4> QED BY <4>2, <4>3, <4>4
    <3>3. cpu'[t] \in Nat
      BY <1>17, <2>1, <2>2, Actor DEF WaitEnds, TaskAt, Goes
    <3>4. ASSUME NEW e \in CPUs, current_work'[e] = work'[t], next'[t] = "clear_pending"
          PROVE  pc'[t] # "clear_pending" /\ e >= cpu'[t] /\ e # cpu'[t]
      BY <3>2, <3>3, <3>4, Actor
    <3> QED BY <3>4 DEF CancelOK
  <2>8. DueOK(t)'
    <3>1. \A d \in due[t] : ~d.own
      BY <1>17, NothingDue DEF WaitEnds
    <3> QED BY <2>6, <3>1, DueNothing
  <2>9. \A d \in due'[t] : DueThere(d)
    BY <2>6, DueFacts
  <2> QED BY <2>2, <2>3, <2>4, <2>5, <2>6, <2>7, <2>8, <2>9, TaskMoves DEF TaskAlone
<1>18. ASSUME NEW t \in Tasks, WaitWaited(t)
      PROVE  PendingOwned' /\ Rest'
  <2>1. TaskAt(pc[t], next[t], work[t], cpu[t])
    BY LocalFacts DEF Sound
  <2>2. Goes(t, "wait_scan", next[t], work[t], cpu[t]) /\ Others(t)
    BY <1>18, MoveFacts, Actor DEF WaitWaited, Waited, Sound
  <2>3. Hand(t)' = Hand(t) /\ pc'[t] # "insert" /\ pc'[t] # "queue"
    BY <1>18, <2>1, <2>2 DEF WaitWaited, TaskAt, Goes, Hand
  <2>4. WaitsOn(t) = 0 \/ done[t]
    BY <1>18 DEF WaitWaited, Waited, WaitsOn
  <2>5. UNCHANGED <<pending, data, worklist, current_work, global>>
    BY <1>18 DEF WaitWaited, Waited, lists
  <2>6. due' = due /\ \A f \in Flushers : f # t => done'[f] = done[f]
    BY <1>18 DEF WaitWaited, Waited, lists, Sound, Types
  <2>7. CancelOK(t)'
    <3>1. work[t] \in Works
      BY <1>18, TaskWork DEF WaitWaited, Sound
    <3>2. ASSUME NEW e \in CPUs, current_work'[e] = work'[t], next'[t] = "clear_pending"
          PROVE  pc'[t] # "clear_pending" /\ e > cpu'[t]
      <4>1. current_work[e] = work[t] /\ next[t] = "clear_pending"
        BY <1>18, <2>2, <3>2 DEF WaitWaited, Waited, Goes, lists
      <4>2. /\ e \in populated /\ e \in Nat \ {0} /\ data[work[t]] \in CPUs /\ e >= cpu[t]
            /\ e = cpu[t] => pc[t] = "wait_wait" /\ t \in ListEntries(worklist[e])
        BY <3>1, <4>1, CancelFacts
      <4>3. t \notin ListEntries(worklist[e])
        BY <1>18, DoneFacts, Actor DEF WaitWaited, Waited
      <4>4. cpu[t] \in Nat
        BY <1>18, <2>1, Actor DEF WaitWaited, TaskAt
      <4> QED BY <2>2, <4>2, <4>3, <4>4 DEF Goes
    <3>3. cpu'[t] \in Nat
      BY <1>18, <2>1, <2>2, Actor DEF WaitWaited, TaskAt, Goes
    <3>4. ASSUME NEW e \in CPUs, current_work'[e] = work'[t], next'[t] = "clear_pending"
          PROVE  pc'[t] # "clear_pending" /\ e >= cpu'[t] /\ e # cpu'[t]
      BY <3>2, <3>3, <3>4, Actor
    <3> QED BY <3>4 DEF CancelOK
  <2>8. DueOK(t)'
    <3>1. \A d \in due[t] : ~d.own
      BY <1>18, NothingDue DEF WaitWaited
    <3> QED BY <2>6, <3>1, DueNothing
  <2>9. \A d \in due'[t] : DueThere(d)
    BY <2>6, DueFacts
  <2> QED BY <2>2, <2>3, <2>4, <2>5, <2>6, <2>7, <2>8, <2>9, TaskMoves DEF TaskAlone
<1>19. ASSUME NEW t \in Tasks, LockLooks(t)
      PROVE  PendingOwned' /\ Rest'
  <2>1. TaskAt(pc[t], next[t], work[t], cpu[t])
    BY LocalFacts DEF Sound
  <2>2. Goes(t, "flush_data", "idle", work[t], cpu[t]) /\ Others(t)
    BY <1>19, MoveFacts, Actor DEF LockLooks, Sound
  <2>3. Hand(t)' = Hand(t) /\ pc'[t] # "insert" /\ pc'[t] # "queue"
    BY <1>19, <2>1, <2>2 DEF LockLooks, TaskAt, Goes, Hand
  <2>4. WaitsOn(t) = 0 \/ done[t]
    BY <1>19 DEF LockLooks, WaitsOn
  <2>5. UNCHANGED <<pending, data, worklist, current_work, global>>
    BY <1>19 DEF LockLooks, lists
  <2>6. due' = due /\ \A f \in Flushers : f # t => done'[f] = done[f]
    BY <1>19 DEF LockLooks, lists, Sound, Types
  <2>7. CancelOK(t)'
    BY <1>19, <2>1, <2>2, CancelNothing DEF LockLooks, TaskAt, Goes
  <2>8. DueOK(t)'
    <3>1. ASSUME NEW d \in due[t], d.own
          PROVE  d.cpu = cpu[t] /\ d.work = work[t] /\ AtMost(work[t], cpu[t])
      BY <1>19, <3>1 DEF LockLooks, Sound, DueIsAhead, DueOK
    <3>2. AtMost(work[t], cpu[t]) => AtMost(work[t], cpu[t])'
      BY <2>2, <2>3, <2>5 DEF AtMost, Goes, Others, Same, Listed
    <3> QED BY <2>2, <2>6, <3>1, <3>2 DEF DueOK, Goes
  <2>9. \A d \in due'[t] : DueThere(d)
    BY <2>6, DueFacts
  <2> QED BY <2>2, <2>3, <2>4, <2>5, <2>6, <2>7, <2>8, <2>9, TaskMoves DEF TaskAlone
<1>20. ASSUME NEW t \in Tasks, StealLooks(t)
      PROVE  PendingOwned' /\ Rest'
  <2>1. TaskAt(pc[t], next[t], work[t], cpu[t])
    BY LocalFacts DEF Sound
  <2>2. Goes(t, "steal_data", next[t], work[t], cpu[t]) /\ Others(t)
    BY <1>20, MoveFacts, Actor DEF StealLooks, Sound
  <2>3. Hand(t)' = Hand(t) /\ pc'[t] # "insert" /\ pc'[t] # "queue"
    BY <1>20, <2>1, <2>2 DEF StealLooks, TaskAt, Goes, Hand
  <2>4. WaitsOn(t) = 0 \/ done[t]
    BY <1>20 DEF StealLooks, WaitsOn
  <2>5. UNCHANGED <<pending, data, worklist, current_work, global>>
    BY <1>20 DEF StealLooks, lists
  <2>6. due' = due /\ \A f \in Flushers : f # t => done'[f] = done[f]
    BY <1>20 DEF StealLooks, lists, Sound, Types
  <2>7. CancelOK(t)'
    BY <1>20, <2>1, <2>2, CancelNothing DEF StealLooks, TaskAt, Goes
  <2>8. DueOK(t)'
    <3>1. \A d \in due[t] : ~d.own
      BY <1>20, NothingDue DEF StealLooks
    <3> QED BY <2>6, <3>1, DueNothing
  <2>9. \A d \in due'[t] : DueThere(d)
    BY <2>6, DueFacts
  <2> QED BY <2>2, <2>3, <2>4, <2>5, <2>6, <2>7, <2>8, <2>9, TaskMoves DEF TaskAlone
<1> QED BY <1>1, <1>2, <1>3, <1>4, <1>5, <1>6, <1>7, <1>8, <1>9, <1>10, <1>11, <1>12, <1>13,
        <1>14, <1>15, <1>16, <1>17, <1>18, <1>19, <1>20

(* The PENDING bit, which was free or a timer's, goes to a. *)
LEMMA ToHand ==
  ASSUME PendingOwned, NEW a \in Actors, NEW b \in Actors, OthersBoth(a, b), NEW w \in Works,
         ~pending[w] \/ pc[w] = "armed",
         pending'[w], \A v \in Works : v # w => pending'[v] = pending[v],
         worklist' = worklist, current_work' = current_work, pc'[w] # "armed",
         a \in Works => a = w, b = a \/ b = w,
         a \in CPUs => Clearing(a)' = Null /\ Clearing(a) = Null,
         Hand(a) = Null, Hand(b) = Null, Hand(a)' = w, b # a => Hand(b)' = Null
  PROVE  PendingOwned'
<1>1. PICK k : k \in {"none", "timer"} /\ Owned(w, k, w)
  BY OwnerFacts
<1>2. b \in Works => b = w
  OBVIOUS
<1>3. b \in CPUs => Clearing(b)' = Null /\ Clearing(b) = Null
  BY Actor
<1>4. Hand(a)' = w /\ Hand(b)' = IF b = a THEN w ELSE Null
  OBVIOUS
<1>5. PassesHands(a, b, w, k, w, "actor", a)
  BY <1>1, <1>2, <1>3, <1>4 DEF PassesHands
<1> QED BY <1>5, OwnerPassesHands

(* A timer that is or was pending holds nothing itself. *)
LEMMA TimerHand ==
  ASSUME Sound, NEW w \in Works, pc[w] \in {"idle", "armed"}
  PROVE  work[w] = Null /\ Hand(w) = Null
<1>1. TimerAt(w, pc[w], next[w], work[w], cpu[w])
  BY LocalFacts DEF Sound
<1> QED BY <1>1 DEF TimerAt, Hand

(* Tasks that get the PENDING bit, or give it up. *)
LEMMA TasksTake ==
  ASSUME Sound, Follows
  PROVE  /\ \A t \in Tasks, w \in Works, k \in online, p \in {"queue", "add_timer"} :
              Takes(t, w, k, p, "idle", "idle") => PendingOwned' /\ Rest'
         /\ \A t \in Tasks : Grabs(t) => PendingOwned' /\ Rest'
         /\ \A t \in Tasks : Drops(t) => PendingOwned' /\ Rest'
         /\ \A t \in Tasks, w \in Works : CancelsTimer(t, w) => PendingOwned' /\ Rest'
         /\ \A t \in Tasks, w \in Works, c \in online :
              FlushQueues(t, w, c) => PendingOwned' /\ Rest'
         /\ \A t \in Tasks : DeletesTimer(t) => PendingOwned' /\ Rest'
<1>1. ASSUME NEW t \in Tasks, NEW w \in Works, NEW k \in online, NEW p \in {"queue",
        "add_timer"}, Takes(t, w, k, p, "idle", "idle")
      PROVE  PendingOwned' /\ Rest'
  <2>1. TaskAt(pc[t], next[t], work[t], cpu[t])
    BY LocalFacts DEF Sound
  <2>3. Goes(t, p, "idle", w, k) /\ Others(t) /\ OthersBoth(t, t)
    BY <1>1, MoveFacts, Actor DEF Takes, Sound, Others, OthersBoth
  <2>4. \A e \in Actors : e # t => SameOrDeleted(e)
    BY <2>3 DEF Others, SameOrDeleted
  <2>5. UNCHANGED <<data, worklist, current_work, due, done, global>>
    BY <1>1 DEF Takes, lists
  <2>6. Hand(t) = Null /\ Hand(t)' = w
    BY <1>1, <2>1, <2>3 DEF Takes, TaskAt, Goes, Hand
  <2>7. ~pending[w] /\ pending'[w] /\ \A v \in Works : v # w => pending'[v] = pending[v]
    BY <1>1 DEF Takes, Sound, Types
  <2>8. PendingOwned'
    <3>1. pc'[w] # "armed"
      BY <2>3, <2>7, OwnerFacts, Actor DEF Others, Same, Owned, Sound
    <3> QED BY <2>3, <2>5, <2>6, <2>7, <3>1, ToHand, Actor DEF Sound
  <2>9. WaitsOn(t) = 0
    BY <1>1 DEF Takes, WaitsOn
  <2>10. CancelOK(t)'
    BY <2>3, CancelNothing DEF Goes
  <2>11. DueOK(t)'
    <3>1. \A d \in due[t] : ~d.own
      BY <1>1, NothingDue DEF Takes
    <3> QED BY <2>5, <3>1, DueNothing
  <2>12. \A d \in due'[t] : DueThere(d)
    BY <2>5, DueFacts
  <2>13. pc'[t] # "insert" /\ (pc'[t] = "queue" => cpu'[t] \in online)
    BY <1>1, <2>3 DEF Goes
  <2>14. Alone(t)
    BY <2>4, <2>5, <2>9, <2>10, <2>11, <2>12, <2>13, Actor DEF Alone, TaskAlone
  <2> QED BY <2>8, <2>14, AloneKeeps, Actor
<1>2. ASSUME NEW t \in Tasks, Grabs(t)
      PROVE  PendingOwned' /\ Rest'
  <2>1. TaskAt(pc[t], next[t], work[t], cpu[t])
    BY LocalFacts DEF Sound
  <2>2. PICK w \in Works : w = work[t]
    BY <1>2, <2>1 DEF Grabs, TaskAt
  <2>3. Goes(t, "wait_on_work", "clear_pending", w, 0) /\ Others(t) /\ OthersBoth(t, t)
    BY <1>2, <2>2, MoveFacts, Actor DEF Grabs, Sound, Others, OthersBoth
  <2>4. \A e \in Actors : e # t => SameOrDeleted(e)
    BY <2>3 DEF Others, SameOrDeleted
  <2>5. UNCHANGED <<data, worklist, current_work, due, done, global>>
    BY <1>2 DEF Grabs, lists
  <2>6. Hand(t) = Null /\ Hand(t)' = w
    BY <1>2, <2>1, <2>3 DEF Grabs, TaskAt, Goes, Hand
  <2>7. ~pending[w] /\ pending'[w] /\ \A v \in Works : v # w => pending'[v] = pending[v]
    BY <1>2, <2>2 DEF Grabs, Sound, Types
  <2>8. PendingOwned'
    <3>1. pc'[w] # "armed"
      BY <2>3, <2>7, OwnerFacts, Actor DEF Others, Same, Owned, Sound
    <3> QED BY <2>3, <2>5, <2>6, <2>7, <3>1, ToHand, Actor DEF Sound
  <2>9. WaitsOn(t) = 0
    BY <1>2 DEF Grabs, WaitsOn
  <2>10. CancelOK(t)'
    BY <2>3, Actor DEF CancelOK, Goes
  <2>11. DueOK(t)'
    <3>1. \A d \in due[t] : ~d.own
      BY <1>2, NothingDue DEF Grabs
    <3> QED BY <2>5, <3>1, DueNothing
  <2>12. \A d \in due'[t] : DueThere(d)
    BY <2>5, DueFacts
  <2>13. pc'[t] # "insert" /\ (pc'[t] = "queue" => cpu'[t] \in online)
    BY <1>2, <2>3 DEF Goes
  <2>14. Alone(t)
    BY <2>4, <2>5, <2>9, <2>10, <2>11, <2>12, <2>13, Actor DEF Alone, TaskAlone
  <2> QED BY <2>8, <2>14, AloneKeeps, Actor
<1>3. ASSUME NEW t \in Tasks, Drops(t)
      PROVE  PendingOwned' /\ Rest'
  <2>1. TaskAt(pc[t], next[t], work[t], cpu[t])
    BY LocalFacts DEF Sound
  <2>2. PICK w \in Works : w = work[t]
    BY <1>3, <2>1 DEF Drops, TaskAt
  <2>3. Goes(t, "idle", "idle", Null, 0) /\ Others(t) /\ OthersBoth(t, t)
    BY <1>3, <2>2, MoveFacts, Actor DEF Drops, Sound, Others, OthersBoth
  <2>4. \A e \in Actors : e # t => SameOrDeleted(e)
    BY <2>3 DEF Others, SameOrDeleted
  <2>5. UNCHANGED <<data, worklist, current_work, due, done, global>>
    BY <1>3 DEF Drops, lists
  <2>6. Hand(t) = w /\ Hand(t)' = Null
    BY <1>3, <2>1, <2>2, <2>3 DEF Drops, TaskAt, Goes, Hand
  <2>7. /\ ~pending'[w] /\ \A v \in Works : v # w => pending'[v] = pending[v]
        /\ Owned(w, "actor", t)
    BY <1>3, <2>2, <2>6, OwnerFacts, Actor DEF Drops, Sound, Types
  <2>8. PendingOwned'
    <3>1. pc'[w] = pc[w] /\ pc[w] # "armed" /\ t \notin CPUs /\ t \notin Works
      BY <2>3, <2>7, Actor DEF Others, Same, Owned
    <3>2. PassesHands(t, t, w, "actor", t, "none", t)
      BY <2>3, <2>5, <2>6, <2>7, <3>1 DEF PassesHands
    <3> QED BY <3>2, OwnerPassesHands, Actor DEF Sound
  <2>9. WaitsOn(t) = 0
    BY <1>3 DEF Drops, WaitsOn
  <2>10. CancelOK(t)'
    BY <2>3, CancelNothing DEF Goes
  <2>11. DueOK(t)'
    <3>1. \A d \in due[t] : ~d.own
      BY <1>3, NothingDue DEF Drops
    <3> QED BY <2>5, <3>1, DueNothing
  <2>12. \A d \in due'[t] : DueThere(d)
    BY <2>5, DueFacts
  <2>13. pc'[t] # "insert" /\ (pc'[t] = "queue" => cpu'[t] \in online)
    BY <1>3, <2>3 DEF Goes
  <2>14. Alone(t)
    BY <2>4, <2>5, <2>9, <2>10, <2>11, <2>12, <2>13, Actor DEF Alone, TaskAlone
  <2> QED BY <2>8, <2>14, AloneKeeps, Actor
<1>4. ASSUME NEW t \in Tasks, NEW w \in Works, CancelsTimer(t, w)
      PROVE  PendingOwned' /\ Rest'
  <2>1. TaskAt(pc[t], next[t], work[t], cpu[t])
    BY LocalFacts DEF Sound
  <2>3. /\ Goes(t, "clear_only", "idle", w, 0) /\ OthersBoth(t, w)
        /\ Goes(w, "idle", next[w], work[w], cpu[w]) /\ pc[w] = "armed"
    BY <1>4, MoveBothFacts, Actor DEF CancelsTimer, Sound
  <2>4. \A e \in Actors : e # t => SameOrDeleted(e)
    BY <2>3 DEF OthersBoth, SameOrDeleted, Goes
  <2>5. UNCHANGED <<data, worklist, current_work, due, done, global>>
    BY <1>4 DEF CancelsTimer, lists
  <2>6. Hand(t) = Null /\ Hand(t)' = w
    BY <1>4, <2>1, <2>3 DEF CancelsTimer, TaskAt, Goes, Hand
  <2>7. Hand(w) = Null /\ Hand(w)' = Null /\ pc'[w] # "armed" /\ t # w
    BY <2>3, TimerHand, Actor DEF Goes, Hand
  <2>8. PendingOwned'
    <3>1. pending' = pending /\ pending[w]
      BY <1>4, <2>3, OwnerFacts DEF CancelsTimer, Sound, Owned
    <3> QED BY <2>3, <2>5, <2>6, <2>7, <3>1, ToHand, Actor DEF Sound
  <2>9. WaitsOn(t) = 0
    BY <1>4 DEF CancelsTimer, WaitsOn
  <2>10. CancelOK(t)'
    BY <2>3, CancelNothing DEF Goes
  <2>11. DueOK(t)'
    <3>1. \A d \in due[t] : ~d.own
      BY <1>4, NothingDue DEF CancelsTimer
    <3> QED BY <2>5, <3>1, DueNothing
  <2>12. \A d \in due'[t] : DueThere(d)
    BY <2>5, DueFacts
  <2>13. pc'[t] # "insert" /\ (pc'[t] = "queue" => cpu'[t] \in online)
    BY <1>4, <2>3 DEF Goes
  <2>14. Alone(t)
    BY <2>4, <2>5, <2>9, <2>10, <2>11, <2>12, <2>13, Actor DEF Alone, TaskAlone
  <2> QED BY <2>8, <2>14, AloneKeeps, Actor
<1>5. ASSUME NEW t \in Tasks, NEW w \in Works, NEW c \in online, FlushQueues(t, w, c)
      PROVE  PendingOwned' /\ Rest'
  <2>1. TaskAt(pc[t], next[t], work[t], cpu[t])
    BY LocalFacts DEF Sound
  <2>3. /\ Goes(t, "queue", "flush_work", w, c) /\ OthersBoth(t, w)
        /\ Goes(w, "idle", next[w], work[w], cpu[w]) /\ pc[w] = "armed"
    BY <1>5, MoveBothFacts, Actor DEF FlushQueues, Sound
  <2>4. \A e \in Actors : e # t => SameOrDeleted(e)
    BY <2>3 DEF OthersBoth, SameOrDeleted, Goes
  <2>5. UNCHANGED <<data, worklist, current_work, due, done, global>>
    BY <1>5 DEF FlushQueues, lists
  <2>6. Hand(t) = Null /\ Hand(t)' = w
    BY <1>5, <2>1, <2>3 DEF FlushQueues, TaskAt, Goes, Hand
  <2>7. Hand(w) = Null /\ Hand(w)' = Null /\ pc'[w] # "armed" /\ t # w
    BY <2>3, TimerHand, Actor DEF Goes, Hand
  <2>8. PendingOwned'
    <3>1. pending' = pending /\ pending[w]
      BY <1>5, <2>3, OwnerFacts DEF FlushQueues, Sound, Owned
    <3> QED BY <2>3, <2>5, <2>6, <2>7, <3>1, ToHand, Actor DEF Sound
  <2>9. WaitsOn(t) = 0
    BY <1>5 DEF FlushQueues, WaitsOn
  <2>10. CancelOK(t)'
    BY <2>3, CancelNothing DEF Goes
  <2>11. DueOK(t)'
    <3>1. \A d \in due[t] : ~d.own
      BY <1>5, NothingDue DEF FlushQueues
    <3> QED BY <2>5, <3>1, DueNothing
  <2>12. \A d \in due'[t] : DueThere(d)
    BY <2>5, DueFacts
  <2>13. pc'[t] # "insert" /\ (pc'[t] = "queue" => cpu'[t] \in online)
    BY <1>5, <2>3 DEF Goes
  <2>14. Alone(t)
    BY <2>4, <2>5, <2>9, <2>10, <2>11, <2>12, <2>13, Actor DEF Alone, TaskAlone
  <2> QED BY <2>8, <2>14, AloneKeeps, Actor
<1>6. ASSUME NEW t \in Tasks, DeletesTimer(t)
      PROVE  PendingOwned' /\ Rest'
  <2>1. TaskAt(pc[t], next[t], work[t], cpu[t])
    BY LocalFacts DEF Sound
  <2>2. PICK w \in Works : w = work[t]
    BY <1>6, <2>1 DEF DeletesTimer, TaskAt
  <2>3. /\ Goes(t, "wait_on_work", "clear_pending", w, 0) /\ OthersBoth(t, w)
        /\ Goes(w, "idle", next[w], work[w], cpu[w]) /\ pc[w] = "armed"
    BY <1>6, <2>2, MoveBothFacts, Actor DEF DeletesTimer, Sound
  <2>4. \A e \in Actors : e # t => SameOrDeleted(e)
    BY <2>3 DEF OthersBoth, SameOrDeleted, Goes
  <2>5. UNCHANGED <<data, worklist, current_work, due, done, global>>
    BY <1>6 DEF DeletesTimer, lists
  <2>6. Hand(t) = Null /\ Hand(t)' = w
    BY <1>6, <2>1, <2>3 DEF DeletesTimer, TaskAt, Goes, Hand
  <2>7. Hand(w) = Null /\ Hand(w)' = Null /\ pc'[w] # "armed" /\ t # w
    BY <2>3, TimerHand, Actor DEF Goes, Hand
  <2>8. PendingOwned'
    <3>1. pending' = pending /\ pending[w]
      BY <1>6, <2>3, OwnerFacts DEF DeletesTimer, Sound, Owned
    <3> QED BY <2>3, <2>5, <2>6, <2>7, <3>1, ToHand, Actor DEF Sound
  <2>9. WaitsOn(t) = 0
    BY <1>6 DEF DeletesTimer, WaitsOn
  <2>10. CancelOK(t)'
    BY <2>3, Actor DEF CancelOK, Goes
  <2>11. DueOK(t)'
    <3>1. \A d \in due[t] : ~d.own
      BY <1>6, NothingDue DEF DeletesTimer
    <3> QED BY <2>5, <3>1, DueNothing
  <2>12. \A d \in due'[t] : DueThere(d)
    BY <2>5, DueFacts
  <2>13. pc'[t] # "insert" /\ (pc'[t] = "queue" => cpu'[t] \in online)
    BY <1>6, <2>3 DEF Goes
  <2>14. Alone(t)
    BY <2>4, <2>5, <2>9, <2>10, <2>11, <2>12, <2>13, Actor DEF Alone, TaskAlone
  <2> QED BY <2>8, <2>14, AloneKeeps, Actor
<1> QED BY <1>1, <1>2, <1>3, <1>4, <1>5, <1>6

(* Tasks that insert a barrier. *)
LEMMA TasksLink ==
  ASSUME Sound, Follows
  PROVE  /\ \A t \in Tasks, c \in CPUs : FlushInserts(t, c) => PendingOwned' /\ Rest'
         /\ \A t \in Tasks, c \in CPUs : LockBehind(t, c) => PendingOwned' /\ Rest'
         /\ \A t \in Tasks, c \in CPUs : LockFirst(t, c) => PendingOwned' /\ Rest'
         /\ \A t \in Tasks, c \in CPUs : WaitInserts(t, c) => PendingOwned' /\ Rest'
<1>1. ASSUME NEW t \in Tasks, NEW c \in CPUs, FlushInserts(t, c)
      PROVE  PendingOwned' /\ Rest'
  <2>1. TaskAt(pc[t], next[t], work[t], cpu[t])
    BY LocalFacts DEF Sound
  <2>2. Goes(t, "flush_wait", "idle", Null, c) /\ Others(t)
    BY <1>1, MoveFacts, Actor DEF FlushInserts, Sound
  <2>3. PICK l : l = list_add_tail(worklist[c], t)
    OBVIOUS
  <2>4. /\ worklist[c] \in Seq(Works \cup Flushers) /\ ListOK(worklist[c])
        /\ t \in Works \cup Flushers
    BY Actor DEF Sound, Types, Barriers
  <2>6. /\ ListEntries(l) = ListEntries(worklist[c]) \cup {t}
        /\ t \notin ListEntries(worklist[c]) => ListOK(l)
        /\ \A x, y : Ahead(worklist[c], x, y) => Ahead(l, x, y)
        /\ \A x \in ListEntries(worklist[c]) : Ahead(l, x, t)
    <3>1. PICK S, s, u : S = Works \cup Flushers /\ s = worklist[c] /\ u = work[t]
      OBVIOUS
    <3>2. s \in Seq(S) /\ ListOK(s) /\ t \in S
      BY <3>1, <2>4
    <3>3. l = list_add_tail(s, t)
      BY <2>3, <3>1
    <3>4. /\ ListEntries(l) = ListEntries(s) \cup {t}
          /\ t \notin ListEntries(s) => ListOK(l)
      <4>1. ListEntries(list_add_tail(s, t)) = ListEntries(s) \cup {t}
        <5>1. s \in Seq(S)
          BY <3>2
        <5>2. t \in S
          BY <3>2
        <5> QED BY ONLY <5>1, <5>2, <3>2, AddTailFacts
      <4>2. t \notin ListEntries(s) => ListOK(l)
        BY <3>2, <3>3, AddTailFacts
      <4> QED BY <3>3, <4>1, <4>2
    <3>5. \A x, y : Ahead(s, x, y) => Ahead(l, x, y)
      BY <3>2, <3>3, AddTailOrder
    <3>6. \A x \in ListEntries(s) : Ahead(l, x, t)
      BY <3>2, <3>3, AddTailOrder
    <3> QED BY <3>1, <3>4, <3>5, <3>6
  <2>7. Active(c)
    BY <1>1 DEF FlushInserts
  <2>8. WaitsOn(t) = 0 /\ WaitsOn(t)' = c
    BY <1>1, <2>2 DEF FlushInserts, WaitsOn, Goes
  <2>9. Hand(t)' = Hand(t) /\ cpu'[Hotplug] = cpu[Hotplug]
    BY <1>1, <2>1, <2>2, Actor DEF FlushInserts, TaskAt, Hand, Goes, Others, Same
  <2>10. Links(t, c, l)
    BY <1>1, <2>2, <2>3, <2>6, <2>7, <2>8, <2>9 DEF Links, FlushInserts
  <2>11. due' = due /\ current_work' = current_work /\ worklist'[c] = l
    BY <1>1, <2>3 DEF FlushInserts, Barrier, Sound, Types
  <2>12. CancelOK(t)'
    BY <2>2, CancelNothing DEF Goes
  <2>13. DueOK(t)'
    <3>1. ASSUME NEW d \in due[t], d.own
          PROVE  d.cpu > c \/ (d.cpu = c /\ Behind(t, d)')
      <4>1. d \in Due /\ DueThere(d) /\ d.cpu \in populated /\ d.cpu \in Nat
        BY <3>1, DueFacts
      <4>2. d.cpu > cpu[t]
        BY <1>1, <3>1 DEF FlushInserts, Sound, DueIsAhead, DueOK
      <4>3. d.cpu >= c
        BY <1>1, <4>1, <4>2 DEF FlushInserts, Visits, wq_cpu_map
      <4>4. ASSUME d.cpu = c
            PROVE  Behind(t, d)'
        <5>1. t \in ListEntries(worklist'[c])
          BY <2>6, <2>11
        <5>2. d.phase = "queued" => d.work \in ListEntries(worklist[c])
          BY <4>1, <4>4 DEF DueThere
        <5>3. d.phase = "queued" => Ahead(worklist'[c], d.work, t)
          BY <2>6, <2>11, <5>2
        <5> QED BY <4>4, <5>1, <5>3 DEF Behind
      <4> QED BY <4>1, <4>3, <4>4, Actor
    <3> QED BY <2>2, <2>11, <3>1 DEF DueOK, Goes
  <2> QED BY <2>10, <2>12, <2>13, LinksKeeps, Actor
<1>2. ASSUME NEW t \in Tasks, NEW c \in CPUs, LockBehind(t, c)
      PROVE  PendingOwned' /\ Rest'
  <2>1. TaskAt(pc[t], next[t], work[t], cpu[t])
    BY LocalFacts DEF Sound
  <2>2. Goes(t, "work_wait", "idle", work[t], c) /\ Others(t)
    BY <1>2, MoveFacts, Actor DEF LockBehind, Sound
  <2>3. PICK l : l = AddBehind(worklist[c], work[t], t)
    OBVIOUS
  <2>4. /\ worklist[c] \in Seq(Works \cup Flushers) /\ ListOK(worklist[c])
        /\ t \in Works \cup Flushers
    BY Actor DEF Sound, Types, Barriers
  <2>5. work[t] \in ListEntries(worklist[c]) /\ work[t] \in Works
    <3>1. work[t] \in Works
      BY <1>2, TaskWork DEF LockBehind, Sound
    <3> QED BY <1>2, <3>1, ListedWhere DEF LockBehind, Sound
  <2>6. /\ ListEntries(l) = ListEntries(worklist[c]) \cup {t}
        /\ t \notin ListEntries(worklist[c]) => ListOK(l)
        /\ \A x, y : Ahead(worklist[c], x, y) => Ahead(l, x, y)
        /\ Ahead(l, work[t], t)
    <3>1. PICK S, s, u : S = Works \cup Flushers /\ s = worklist[c] /\ u = work[t]
      OBVIOUS
    <3>2. s \in Seq(S) /\ ListOK(s) /\ t \in S /\ u \in ListEntries(s)
      BY <3>1, <2>4, <2>5
    <3>3. l = AddBehind(s, u, t)
      BY <2>3, <3>1
    <3>4. /\ ListEntries(l) = ListEntries(s) \cup {t}
          /\ t \notin ListEntries(s) => ListOK(l)
      <4>1. ListEntries(AddBehind(s, u, t)) = ListEntries(s) \cup {t}
        <5>1. s \in Seq(S)
          BY <3>2
        <5>2. t \in S
          BY <3>2
        <5> QED BY ONLY <5>1, <5>2, <3>2, AddBehindFacts
      <4>2. t \notin ListEntries(s) => ListOK(l)
        BY <3>2, <3>3, AddBehindFacts
      <4> QED BY <3>3, <4>1, <4>2
    <3>5. \A x, y : Ahead(s, x, y) => Ahead(l, x, y)
      BY <3>2, <3>3, AddBehindFacts
    <3>6. Ahead(l, u, t)
      BY <3>2, <3>3, AddBehindFacts
    <3> QED BY <3>1, <3>4, <3>5, <3>6
  <2>7. Active(c)
    BY <2>5 DEF Active, ListEntries
  <2>8. WaitsOn(t) = 0 /\ WaitsOn(t)' = c
    BY <1>2, <2>2 DEF LockBehind, WaitsOn, Goes
  <2>9. Hand(t)' = Hand(t) /\ cpu'[Hotplug] = cpu[Hotplug]
    BY <1>2, <2>1, <2>2, Actor DEF LockBehind, TaskAt, Hand, Goes, Others, Same
  <2>10. Links(t, c, l)
    BY <1>2, <2>2, <2>3, <2>6, <2>7, <2>8, <2>9 DEF Links, LockBehind
  <2>11. due' = due /\ current_work' = current_work /\ worklist'[c] = l
    BY <1>2, <2>3 DEF LockBehind, Barrier, Sound, Types
  <2>12. CancelOK(t)'
    BY <2>2, CancelNothing DEF Goes
  <2>13. DueOK(t)'
    <3>1. ASSUME NEW d \in due[t], d.own
          PROVE  d.cpu = c /\ Behind(t, d)'
      <4>1. d.cpu = c /\ d.work = work[t]
        BY <1>2, <3>1 DEF LockBehind, Sound, DueIsAhead, DueOK
      <4>2. t \in ListEntries(worklist'[c])
        BY <2>6, <2>11
      <4>3. d.phase = "queued" => Ahead(worklist'[c], d.work, t)
        BY <2>6, <2>11, <4>1
      <4> QED BY <4>1, <4>2, <4>3 DEF Behind
    <3> QED BY <2>2, <2>11, <3>1 DEF DueOK, Goes
  <2> QED BY <2>10, <2>12, <2>13, LinksKeeps, Actor
<1>3. ASSUME NEW t \in Tasks, NEW c \in CPUs, LockFirst(t, c)
      PROVE  PendingOwned' /\ Rest'
  <2>1. TaskAt(pc[t], next[t], work[t], cpu[t])
    BY LocalFacts DEF Sound
  <2>2. Goes(t, "work_wait", "idle", work[t], c) /\ Others(t)
    BY <1>3, MoveFacts, Actor DEF LockFirst, Sound
  <2>3. PICK l : l = AddFirst(worklist[c], t)
    OBVIOUS
  <2>4. /\ worklist[c] \in Seq(Works \cup Flushers) /\ ListOK(worklist[c])
        /\ t \in Works \cup Flushers
    BY Actor DEF Sound, Types, Barriers
  <2>6. /\ ListEntries(l) = ListEntries(worklist[c]) \cup {t}
        /\ t \notin ListEntries(worklist[c]) => ListOK(l)
        /\ \A x, y : Ahead(worklist[c], x, y) => Ahead(l, x, y)
    <3>1. PICK S, s, u : S = Works \cup Flushers /\ s = worklist[c] /\ u = work[t]
      OBVIOUS
    <3>2. s \in Seq(S) /\ ListOK(s) /\ t \in S
      BY <3>1, <2>4
    <3>3. l = AddFirst(s, t)
      BY <2>3, <3>1
    <3>4. /\ ListEntries(l) = ListEntries(s) \cup {t}
          /\ t \notin ListEntries(s) => ListOK(l)
      <4>1. ListEntries(AddFirst(s, t)) = ListEntries(s) \cup {t}
        <5>1. s \in Seq(S)
          BY <3>2
        <5>2. t \in S
          BY <3>2
        <5> QED BY ONLY <5>1, <5>2, <3>2, AddFirstFacts
      <4>2. t \notin ListEntries(s) => ListOK(l)
        BY <3>2, <3>3, AddFirstFacts
      <4> QED BY <3>3, <4>1, <4>2
    <3>5. \A x, y : Ahead(s, x, y) => Ahead(l, x, y)
      BY <3>2, <3>3, AddFirstFacts
    <3> QED BY <3>1, <3>4, <3>5
  <2>7. Active(c)
    <3>1. work[t] \in Works
      BY <1>3, TaskWork DEF LockFirst, Sound
    <3> QED BY <1>3, <3>1, Actor DEF LockFirst, Active
  <2>8. WaitsOn(t) = 0 /\ WaitsOn(t)' = c
    BY <1>3, <2>2 DEF LockFirst, WaitsOn, Goes
  <2>9. Hand(t)' = Hand(t) /\ cpu'[Hotplug] = cpu[Hotplug]
    BY <1>3, <2>1, <2>2, Actor DEF LockFirst, TaskAt, Hand, Goes, Others, Same
  <2>10. Links(t, c, l)
    BY <1>3, <2>2, <2>3, <2>6, <2>7, <2>8, <2>9 DEF Links, LockFirst
  <2>11. due' = due /\ current_work' = current_work /\ worklist'[c] = l
    BY <1>3, <2>3 DEF LockFirst, Barrier, Sound, Types
  <2>12. CancelOK(t)'
    BY <2>2, CancelNothing DEF Goes
  <2>13. DueOK(t)'
    <3>1. ASSUME NEW d \in due[t], d.own
          PROVE  d.cpu = c /\ Behind(t, d)'
      <4>1. d.cpu = c /\ d.work = work[t]
        BY <1>3, <3>1 DEF LockFirst, Sound, DueIsAhead, DueOK
      <4>2. t \in ListEntries(worklist'[c])
        BY <2>6, <2>11
      <4>3. d.phase = "queued" => Ahead(worklist'[c], d.work, t)
        <5>1. ASSUME d.phase = "queued"
              PROVE  FALSE
          <6>1. d.work \in ListEntries(worklist[d.cpu]) /\ d.cpu \in CPUs
            BY <3>1, <5>1, DueFacts DEF DueThere
          <6> QED BY <1>3, <4>1, <6>1 DEF LockFirst, Listed
        <5> QED BY <5>1
      <4> QED BY <4>1, <4>2, <4>3 DEF Behind
    <3> QED BY <2>2, <2>11, <3>1 DEF DueOK, Goes
  <2> QED BY <2>10, <2>12, <2>13, LinksKeeps, Actor
<1>4. ASSUME NEW t \in Tasks, NEW c \in CPUs, WaitInserts(t, c)
      PROVE  PendingOwned' /\ Rest'
  <2>1. TaskAt(pc[t], next[t], work[t], cpu[t])
    BY LocalFacts DEF Sound
  <2>2. Goes(t, "wait_wait", next[t], work[t], c) /\ Others(t)
    BY <1>4, MoveFacts, Actor DEF WaitInserts, Sound
  <2>3. PICK l : l = AddFirst(worklist[c], t)
    OBVIOUS
  <2>4. /\ worklist[c] \in Seq(Works \cup Flushers) /\ ListOK(worklist[c])
        /\ t \in Works \cup Flushers
    BY Actor DEF Sound, Types, Barriers
  <2>6. /\ ListEntries(l) = ListEntries(worklist[c]) \cup {t}
        /\ t \notin ListEntries(worklist[c]) => ListOK(l)
        /\ \A x, y : Ahead(worklist[c], x, y) => Ahead(l, x, y)
    <3>1. PICK S, s, u : S = Works \cup Flushers /\ s = worklist[c] /\ u = work[t]
      OBVIOUS
    <3>2. s \in Seq(S) /\ ListOK(s) /\ t \in S
      BY <3>1, <2>4
    <3>3. l = AddFirst(s, t)
      BY <2>3, <3>1
    <3>4. /\ ListEntries(l) = ListEntries(s) \cup {t}
          /\ t \notin ListEntries(s) => ListOK(l)
      <4>1. ListEntries(AddFirst(s, t)) = ListEntries(s) \cup {t}
        <5>1. s \in Seq(S)
          BY <3>2
        <5>2. t \in S
          BY <3>2
        <5> QED BY ONLY <5>1, <5>2, <3>2, AddFirstFacts
      <4>2. t \notin ListEntries(s) => ListOK(l)
        BY <3>2, <3>3, AddFirstFacts
      <4> QED BY <3>3, <4>1, <4>2
    <3>5. \A x, y : Ahead(s, x, y) => Ahead(l, x, y)
      BY <3>2, <3>3, AddFirstFacts
    <3> QED BY <3>1, <3>4, <3>5
  <2>7. Active(c)
    <3>1. work[t] \in Works
      BY <1>4, TaskWork DEF WaitInserts, Sound
    <3> QED BY <1>4, <3>1, Actor DEF WaitInserts, Active
  <2>8. WaitsOn(t) = 0 /\ WaitsOn(t)' = c
    BY <1>4, <2>2 DEF WaitInserts, WaitsOn, Goes
  <2>9. Hand(t)' = Hand(t) /\ cpu'[Hotplug] = cpu[Hotplug]
    BY <1>4, <2>1, <2>2, Actor DEF WaitInserts, TaskAt, Hand, Goes, Others, Same
  <2>10. Links(t, c, l)
    BY <1>4, <2>2, <2>3, <2>6, <2>7, <2>8, <2>9 DEF Links, WaitInserts
  <2>11. due' = due /\ current_work' = current_work /\ worklist'[c] = l
    BY <1>4, <2>3 DEF WaitInserts, Barrier, Sound, Types
  <2>12. CancelOK(t)'
    <3>1. work[t] \in Works
      BY <1>4, TaskWork DEF WaitInserts, Sound
    <3>2. ASSUME NEW e \in CPUs, current_work'[e] = work'[t], next'[t] = "clear_pending"
          PROVE  e >= c
      <4>1. current_work[e] = work[t] /\ next[t] = "clear_pending"
        BY <2>2, <2>11, <3>2 DEF Goes
      <4>2. /\ e \in populated /\ e \in Nat \ {0} /\ e >= cpu[t]
            /\ e = cpu[t] => pc[t] = "wait_wait"
        BY <3>1, <4>1, CancelFacts
      <4>3. cpu[t] \in Nat /\ pc[t] # "wait_wait"
        BY <1>4, <2>1, Actor DEF WaitInserts, TaskAt
      <4>4. e > cpu[t]
        BY <4>2, <4>3
      <4> QED BY <1>4, <4>2, <4>4 DEF WaitInserts, Visits, wq_cpu_map
    <3>3. t \in ListEntries(worklist'[c])
      BY <2>6, <2>11
    <3> QED BY <2>2, <3>2, <3>3 DEF CancelOK, Goes
  <2>13. DueOK(t)'
    <3>1. \A d \in due[t] : ~d.own
      BY <1>4, NothingDue DEF WaitInserts
    <3> QED BY <2>11, <3>1, DueNothing
  <2> QED BY <2>10, <2>12, <2>13, LinksKeeps, Actor
<1> QED BY <1>1, <1>2, <1>3, <1>4

(* A task steals the work item from the list it is on. *)
LEMMA TasksSteal ==
  ASSUME Sound, Follows, NEW t \in Tasks, Steals(t)
  PROVE  PendingOwned' /\ Rest'
<1>1. PICK w \in Works : w = work[t]
  BY TaskWork DEF Steals, Sound
<1>2. Goes(t, "wait_on_work", "clear_pending", w, 0) /\ Others(t)
  BY <1>1, MoveFacts, Actor DEF Steals, Sound
<1>3. /\ pending' = pending /\ data' = data /\ current_work' = current_work /\ done' = done
      /\ UNCHANGED global /\ online' = online
  BY DEF Steals, global
<1>4. /\ \A e \in Actors : e # t => Same(e)
      /\ \A e \in CPUs : Same(e)
      /\ Same(Hotplug) /\ t \in Actors
  BY <1>2, Actor DEF Others
<1>5. ASSUME NEW e \in CPUs
      PROVE  /\ Thread(e)' = Thread(e) /\ (Asleep(e)' <=> Asleep(e)) /\ Clearing(e)' = Clearing(e)
  BY <1>3, <1>4, SameViews, SameClearing
<1>6. ASSUME NEW e \in CPUs
      PROVE  /\ ListEntries(worklist'[e]) = ListEntries(worklist[e]) \ {w}
             /\ ListOK(worklist'[e])
             /\ \A x, y : Ahead(worklist[e], x, y) /\ x # w /\ y # w => Ahead(worklist'[e], x, y)
             /\ worklist[e] = <<>> => worklist'[e] = <<>>
  <2>1. PICK S, s : S = Works \cup Flushers /\ s = worklist[e]
    OBVIOUS
  <2>2. s \in Seq(S)
    BY <2>1 DEF Sound, Types
  <2>3. ListOK(s)
    BY <2>1 DEF Sound, Barriers
  <2>4. worklist'[e] = IF w \in ListEntries(s) THEN list_del(s, w) ELSE s
    BY <1>1, <2>1 DEF Steals
  <2>5. CASE w \in ListEntries(s)
    <3>1. ListEntries(list_del(s, w)) = ListEntries(s) \ {w}
      BY ONLY <2>2, <2>3, <2>5, DelFacts
    <3>2. ListOK(list_del(s, w))
      BY ONLY <2>2, <2>3, <2>5, DelFacts
    <3>3. ASSUME NEW x, NEW y, Ahead(s, x, y), x # w, y # w
          PROVE  Ahead(list_del(s, w), x, y)
      BY ONLY <2>2, <2>5, <3>3, DelOrder
    <3>4. s # <<>>
      BY <2>5 DEF ListEntries
    <3>5. worklist'[e] = list_del(s, w)
      BY <2>4, <2>5
    <3> QED BY <2>1, <3>1, <3>2, <3>3, <3>4, <3>5
  <2>6. CASE w \notin ListEntries(s)
    <3>1. worklist'[e] = s
      BY <2>4, <2>6
    <3> QED BY <2>1, <2>3, <2>6, <3>1
  <2> QED BY <2>5, <2>6
<1>7. ASSUME NEW e \in CPUs, NEW x, x # w
      PROVE  x \in ListEntries(worklist'[e]) <=> x \in ListEntries(worklist[e])
  BY <1>6, <1>7
<1>8. PICK c0 \in CPUs : w \in ListEntries(worklist[c0])
  <2>1. TaskAt(pc[t], next[t], work[t], cpu[t])
    BY LocalFacts DEF Sound
  <2>2. cpu[t] \in CPUs
    BY <2>1 DEF Steals, TaskAt
  <2> QED BY <1>1, <2>2 DEF Steals
<1>9. Owned(w, "list", c0)
  BY <1>8, OwnerFacts DEF Sound
<1>10. Hand(t) = Null /\ Hand(t)' = w
  <2>1. TaskAt(pc[t], next[t], work[t], cpu[t])
    BY LocalFacts DEF Sound
  <2> QED BY <1>2, <2>1 DEF Steals, TaskAt, Goes, Hand
<1>11. PendingOwned'
  <2>1. ASSUME NEW v \in Works, v # w
        PROVE  SameOwner(v)
    <3>1. /\ Hand(t)' = v <=> Hand(t) = v
          /\ v # t /\ t \notin CPUs
      BY <1>10, <2>1, Actor
    <3>2. OthersBoth(t, t)
      BY <1>2 DEF Others, OthersBoth
    <3>3. \A e \in CPUs : v \in ListEntries(worklist'[e]) <=> v \in ListEntries(worklist[e])
      BY <1>7, <2>1
    <3> QED BY <1>3, <1>4, <3>1, <3>2, <3>3, OwnerStays
  <2>2. Owned(w, "actor", t)'
    <3>1. \A b \in Actors : Hand(b)' = w <=> t = b
      <4>1. ASSUME NEW b \in Actors, b # t
            PROVE  Hand(b)' # w
        BY <1>4, <1>9, <4>1, SameViews DEF Owned
      <4> QED BY <1>10, <4>1
    <3>2. pc'[w] # "armed" /\ pending'[w]
      BY <1>3, <1>4, <1>9, Actor DEF Owned, Same
    <3>3. \A c \in CPUs : Clearing(c)' # w
      BY <1>5, <1>9 DEF Owned
    <3>4. \A c \in CPUs : w \notin ListEntries(worklist'[c])
      BY <1>6
    <3> QED BY <3>1, <3>2, <3>3, <3>4 DEF Owned
  <2> QED BY <1>4, <2>1, <2>2, PendingOwnedKept DEF Sound
<1>12. Barriers'
  <2>1. ASSUME NEW f \in Flushers
        PROVE  BarrierOK(f)'
    <3>1. BarrierOK(f) /\ f # w
      BY Actor DEF Sound, Barriers
    <3>2. WaitsOn(f)' = WaitsOn(f)
      <4>1. CASE f = t
        BY <1>2, <4>1 DEF Steals, WaitsOn, Goes
      <4>2. CASE f # t
        BY <1>4, <4>2, SameViews DEF Flushers, Actors
      <4> QED BY <4>1, <4>2
    <3> QED BY <1>3, <1>5, <1>7, <3>1, <3>2, BarrierKept
  <2> QED BY <1>6, <2>1 DEF Barriers
<1>13. pc'[t] \notin {"queue", "insert"}
  BY <1>2 DEF Goes
<1>14. DataIsRight'
  <2>1. \A e \in CPUs : Asleep(e)' => current_work'[e] = Null
    BY <1>3, <1>5 DEF Sound, DataIsRight
  <2>2. \A v \in Works, e \in CPUs : Clearing(e)' = v => data'[v] = e
    BY <1>3, <1>5 DEF Sound, DataIsRight
  <2>3. \A v \in Works, e \in CPUs : v \in ListEntries(worklist'[e]) => data'[v] = e
    BY <1>3, <1>6 DEF Sound, DataIsRight
  <2>4. ASSUME NEW e \in Actors, pc'[e] = "insert"
        PROVE  data'[work'[e]] = cpu'[e]
    <3>1. Same(e)
      BY <1>4, <1>13, <2>4
    <3> QED BY <1>3, <2>4, <3>1 DEF Sound, DataIsRight, Same
  <2>5. \A e \in CPUs : current_work'[e] \in Works => data'[current_work'[e]] \in CPUs
    BY <1>3 DEF Sound, DataIsRight
  <2> QED BY <2>1, <2>2, <2>3, <2>4, <2>5 DEF DataIsRight
<1>15. Threads'
  <2>1. ASSUME NEW e \in Actors, pc'[e] \in {"queue", "insert"}
        PROVE  cpu'[e] \in online'
    <3>1. Same(e)
      BY <1>4, <1>13, <2>1
    <3> QED BY <1>3, <2>1, <3>1 DEF Sound, Threads, Settled, Same
  <2> QED BY <1>3, <1>4, <1>5, <2>1, ThreadsKept DEF Sound
<1>16. ListsAreEmpty'
  <2>1. Drained' => Drained /\ cpu'[Hotplug] = cpu[Hotplug]
    BY <1>3, <1>4, SameHotplug DEF Same
  <2>2. ASSUME NEW e \in CPUs
        PROVE  EmptyOK(e)'
    BY <1>3, <1>5, <1>6, <2>1, EmptyKept DEF Sound, ListsAreEmpty
  <2> QED BY <2>2 DEF ListsAreEmpty
<1>17. Cancelled'
  <2>1. ASSUME NEW u \in Tasks, u # t
        PROVE  CancelOK(u)'
    <3>1. CancelOK(u) /\ Same(u) /\ u # w
      BY <1>4, <2>1, Actor DEF Sound, Cancelled
    <3> QED BY <1>3, <1>7, <3>1, CancelKept
  <2>2. CancelOK(t)'
    <3>1. \A e \in CPUs : e > 0 /\ e # 0 /\ e >= 0
      BY Actor
    <3> QED BY <1>2, <3>1 DEF CancelOK, Goes
  <2> QED BY <2>1, <2>2 DEF Cancelled
<1>18. ASSUME NEW u \in Tasks, NEW d \in due'[u]
       PROVE  d \in due[u] /\ ~(d.work = w /\ d.phase = "queued")
  BY <1>1, <1>18 DEF Steals
<1>19. DueIsThere'
  <2>1. ASSUME NEW u \in Tasks, NEW d \in due'[u]
        PROVE  DueThere(d)'
    <3>1. d \in due[u] /\ ~(d.work = w /\ d.phase = "queued")
      BY <1>18
    <3>2. d.cpu \in CPUs /\ DueThere(d)
      BY <3>1, DueFacts
    <3> QED BY <1>3, <1>7, <3>1, <3>2 DEF DueThere
  <2> QED BY <2>1 DEF DueIsThere
<1>20. DueIsAhead'
  <2>1. ASSUME NEW u \in Tasks, u # t
        PROVE  DueOK(u)'
    <3>1. Same(u) /\ DueOK(u) /\ u # w
      BY <1>4, <2>1, Actor DEF Sound, DueIsAhead
    <3>2. ASSUME NEW d \in due'[u], Behind(u, d)
          PROVE  Behind(u, d)'
      <4>1. d \in due[u] /\ ~(d.work = w /\ d.phase = "queued")
        BY <1>18, <3>2
      <4>2. d.cpu \in CPUs
        BY <4>1, DueFacts
      <4>3. u \in ListEntries(worklist'[d.cpu])
        BY <1>7, <3>1, <3>2, <4>2 DEF Behind
      <4>4. d.phase = "queued" => Ahead(worklist'[d.cpu], d.work, u)
        BY <1>6, <3>1, <3>2, <4>1, <4>2 DEF Behind
      <4> QED BY <4>3, <4>4 DEF Behind
    <3>3. AtMost(work[u], cpu[u]) => AtMost(work[u], cpu[u])'
      <4>1. PICK x, k : x = work[u] /\ k = cpu[u]
        OBVIOUS
      <4>2. work'[u] = x /\ cpu'[u] = k
        BY <3>1, <4>1 DEF Same
      <4>3. Listed(x)' => Listed(x)
        BY <1>6 DEF Listed
      <4>4. ASSUME NEW e \in Actors, pc'[e] = "insert"
            PROVE  pc[e] = "insert" /\ work'[e] = work[e]
        BY <1>4, <1>13, <4>4 DEF Same
      <4>5. AtMost(x, k) => AtMost(x, k)'
        BY <1>3, <4>3, <4>4 DEF AtMost
      <4> QED BY <4>1, <4>2, <4>5
    <3>4. \A d \in due'[u] : d \in due[u]
      BY <1>18
    <3> QED BY <3>1, <3>2, <3>3, <3>4, DueKept
  <2>2. DueOK(t)'
    <3>1. \A d \in due[t] : ~d.own
      BY NothingDue DEF Steals
    <3> QED BY <1>18, <3>1, DueNothing
  <2> QED BY <2>1, <2>2 DEF DueIsAhead
<1> QED BY <1>11, <1>12, <1>14, <1>15, <1>16, <1>17, <1>19, <1>20 DEF Rest

------------------------------------------------------------------------------
(* The steps of the workers and of the timers. *)

(* Workers that wait, run a work item or take the PENDING bit, and timers  *)
(* that expire.                                                            *)
LEMMA WorkersQuiet ==
  ASSUME Sound, Follows
  PROVE  /\ \A c \in CPUs, w \in Works, k \in online, p \in {"queue", "add_timer"} :
              Takes(c, w, k, p, "func", "run") => PendingOwned' /\ Rest'
         /\ \A c \in CPUs, w \in Works : TimerFires(w, c) /\ c \in online => PendingOwned' /\ Rest'
         /\ \A c \in CPUs, p \in {"test", "schedule", "finish"} :
              Sleeps(c, p) => PendingOwned' /\ Rest'
         /\ \A c \in CPUs : Runs(c) => PendingOwned' /\ Rest'
         /\ \A c \in CPUs : FuncEnds(c) => PendingOwned' /\ Rest'
         /\ \A c \in CPUs : ClearsPending(c) => PendingOwned' /\ Rest'
<1>1. ASSUME NEW c \in CPUs, NEW w \in Works, NEW k \in online, NEW p \in {"queue", "add_timer"},
        Takes(c, w, k, p, "func", "run")
      PROVE  PendingOwned' /\ Rest'
  <2>1. WorkerAt(pc[c], next[c], work[c], cpu[c])
    BY LocalFacts DEF Sound
  <2>3. Goes(c, p, "run", w, k) /\ Others(c) /\ OthersBoth(c, c)
    BY <1>1, MoveFacts, Actor DEF Takes, Sound, Others, OthersBoth
  <2>4. \A e \in Actors : e # c => SameOrDeleted(e)
    BY <2>3 DEF Others, SameOrDeleted
  <2>5. UNCHANGED <<data, worklist, current_work, due, done, global>>
    BY <1>1 DEF Takes, lists
  <2>6. Hand(c) = Null /\ Hand(c)' = w /\ Clearing(c) = Null /\ Clearing(c)' = Null
    BY <1>1, <2>1, <2>3 DEF Takes, WorkerAt, Goes, Hand, Clearing
  <2>7. ~pending[w] /\ pending'[w] /\ \A v \in Works : v # w => pending'[v] = pending[v]
    BY <1>1 DEF Takes, Sound, Types
  <2>8. PendingOwned'
    <3>1. pc'[w] # "armed"
      BY <2>3, <2>7, OwnerFacts, Actor DEF Others, Same, Owned, Sound
    <3> QED BY <2>3, <2>5, <2>6, <2>7, <3>1, ToHand, Actor DEF Sound
  <2>9. WorkerAlone(c)
    BY <1>1, <2>3, <2>6 DEF WorkerAlone, Takes, Goes, Thread, Asleep
  <2>13. pc'[c] # "insert" /\ (pc'[c] = "queue" => cpu'[c] \in online)
    BY <1>1, <2>3 DEF Goes
  <2>14. Alone(c)
    BY <2>4, <2>5, <2>9, <2>13, Actor DEF Alone
  <2> QED BY <2>8, <2>14, AloneKeeps, Actor
<1>2. ASSUME NEW c \in CPUs, NEW w \in Works, c \in online, TimerFires(w, c)
      PROVE  PendingOwned' /\ Rest'
  <2>1. TimerAt(w, pc[w], next[w], work[w], cpu[w])
    BY LocalFacts DEF Sound
  <2>3. Goes(w, "queue", "idle", w, c) /\ Others(w) /\ OthersBoth(w, w)
    BY <1>2, MoveFacts, Actor DEF TimerFires, Sound, Others, OthersBoth
  <2>4. \A e \in Actors : e # w => SameOrDeleted(e)
    BY <2>3 DEF Others, SameOrDeleted
  <2>5. UNCHANGED <<data, worklist, current_work, due, done, global>>
    BY <1>2 DEF TimerFires, lists
  <2>6. Hand(w) = Null /\ Hand(w)' = w /\ pc'[w] # "armed" /\ pc[w] = "armed"
    BY <1>2, <2>1, <2>3 DEF TimerFires, TimerAt, Goes, Hand
  <2>7. pending' = pending /\ pending[w]
    BY <1>2, <2>6, OwnerFacts DEF TimerFires, Sound, Owned
  <2>8. PendingOwned'
    BY <2>3, <2>5, <2>6, <2>7, ToHand, Actor DEF Sound
  <2>13. pc'[w] # "insert" /\ (pc'[w] = "queue" => cpu'[w] \in online)
    BY <1>2, <2>3 DEF Goes
  <2>14. Alone(w)
    BY <2>4, <2>5, <2>13, Actor DEF Alone
  <2> QED BY <2>8, <2>14, AloneKeeps, Actor
<1>3. ASSUME NEW c \in CPUs, NEW p \in {"test", "schedule", "finish"}, Sleeps(c, p)
      PROVE  PendingOwned' /\ Rest'
  <2>1. WorkerAt(pc[c], next[c], work[c], cpu[c])
    BY LocalFacts DEF Sound
  <2>3. Goes(c, p, "idle", Null, 0) /\ Others(c) /\ OthersBoth(c, c)
    BY <1>3, MoveFacts, Actor DEF Sleeps, Quiet, Sound, Others, OthersBoth
  <2>4. \A e \in Actors : e # c => SameOrDeleted(e)
    BY <2>3 DEF Others, SameOrDeleted
  <2>5. UNCHANGED <<data, worklist, current_work, due, done, global>>
    BY <1>3 DEF Sleeps, Quiet, lists
  <2>6. Hand(c)' = Hand(c) /\ Clearing(c)' = Clearing(c) /\ pending' = pending
    BY <1>3, <2>1, <2>3 DEF Sleeps, Quiet, WorkerAt, Goes, Hand, Clearing
  <2>8. PendingOwned'
    BY <2>3, <2>5, <2>6, OwnersStay, Actor DEF Sound
  <2>9. WorkerAlone(c)
    BY <1>3, <2>3, <2>6 DEF WorkerAlone, Sleeps, Goes, Thread, Asleep
  <2>13. pc'[c] # "insert" /\ (pc'[c] = "queue" => cpu'[c] \in online)
    BY <1>3, <2>3 DEF Goes
  <2>14. Alone(c)
    BY <2>4, <2>5, <2>9, <2>13, Actor DEF Alone
  <2> QED BY <2>8, <2>14, AloneKeeps, Actor
<1>4. ASSUME NEW c \in CPUs, Runs(c)
      PROVE  PendingOwned' /\ Rest'
  <2>1. WorkerAt(pc[c], next[c], work[c], cpu[c])
    BY LocalFacts DEF Sound
  <2>3. Goes(c, "run", "idle", Null, 0) /\ Others(c) /\ OthersBoth(c, c)
    BY <1>4, MoveFacts, Actor DEF Runs, Quiet, Sound, Others, OthersBoth
  <2>4. \A e \in Actors : e # c => SameOrDeleted(e)
    BY <2>3 DEF Others, SameOrDeleted
  <2>5. UNCHANGED <<data, worklist, current_work, due, done, global>>
    BY <1>4 DEF Runs, Quiet, lists
  <2>6. Hand(c)' = Hand(c) /\ Clearing(c)' = Clearing(c) /\ pending' = pending
    BY <1>4, <2>1, <2>3 DEF Runs, Quiet, WorkerAt, Goes, Hand, Clearing
  <2>8. PendingOwned'
    BY <2>3, <2>5, <2>6, OwnersStay, Actor DEF Sound
  <2>9. WorkerAlone(c)
    BY <1>4, <2>3, <2>6 DEF WorkerAlone, Runs, Goes, Thread, Asleep
  <2>13. pc'[c] # "insert" /\ (pc'[c] = "queue" => cpu'[c] \in online)
    BY <1>4, <2>3 DEF Goes
  <2>14. Alone(c)
    BY <2>4, <2>5, <2>9, <2>13, Actor DEF Alone
  <2> QED BY <2>8, <2>14, AloneKeeps, Actor
<1>5. ASSUME NEW c \in CPUs, FuncEnds(c)
      PROVE  PendingOwned' /\ Rest'
  <2>1. WorkerAt(pc[c], next[c], work[c], cpu[c])
    BY LocalFacts DEF Sound
  <2>3. Goes(c, "run", "idle", Null, 0) /\ Others(c) /\ OthersBoth(c, c)
    BY <1>5, MoveFacts, Actor DEF FuncEnds, Quiet, Sound, Others, OthersBoth
  <2>4. \A e \in Actors : e # c => SameOrDeleted(e)
    BY <2>3 DEF Others, SameOrDeleted
  <2>5. UNCHANGED <<data, worklist, current_work, due, done, global>>
    BY <1>5 DEF FuncEnds, Quiet, lists
  <2>6. Hand(c)' = Hand(c) /\ Clearing(c)' = Clearing(c) /\ pending' = pending
    BY <1>5, <2>1, <2>3 DEF FuncEnds, Quiet, WorkerAt, Goes, Hand, Clearing
  <2>8. PendingOwned'
    BY <2>3, <2>5, <2>6, OwnersStay, Actor DEF Sound
  <2>9. WorkerAlone(c)
    BY <1>5, <2>3, <2>6 DEF WorkerAlone, FuncEnds, Goes, Thread, Asleep
  <2>13. pc'[c] # "insert" /\ (pc'[c] = "queue" => cpu'[c] \in online)
    BY <1>5, <2>3 DEF Goes
  <2>14. Alone(c)
    BY <2>4, <2>5, <2>9, <2>13, Actor DEF Alone
  <2> QED BY <2>8, <2>14, AloneKeeps, Actor
<1>6. ASSUME NEW c \in CPUs, ClearsPending(c)
      PROVE  PendingOwned' /\ Rest'
  <2>1. WorkerAt(pc[c], next[c], work[c], cpu[c])
    BY LocalFacts DEF Sound
  <2>2. PICK w \in Works : w = current_work[c] /\ Clearing(c) = w
    BY <1>6 DEF ClearsPending, Clearing
  <2>3. Goes(c, "func", "idle", Null, 0) /\ Others(c) /\ OthersBoth(c, c)
    BY <1>6, MoveFacts, Actor DEF ClearsPending, Sound, Others, OthersBoth
  <2>4. \A e \in Actors : e # c => SameOrDeleted(e)
    BY <2>3 DEF Others, SameOrDeleted
  <2>5. UNCHANGED <<data, worklist, current_work, due, done, global>>
    BY <1>6 DEF ClearsPending, lists
  <2>6. Hand(c) = Null /\ Hand(c)' = Null /\ Clearing(c)' = Null
    BY <1>6, <2>1, <2>3 DEF ClearsPending, WorkerAt, Goes, Hand, Clearing
  <2>7. /\ ~pending'[w] /\ \A v \in Works : v # w => pending'[v] = pending[v]
        /\ Owned(w, "clear", c)
    BY <1>6, <2>2, OwnerFacts DEF ClearsPending, Sound, Types
  <2>8. PendingOwned'
    <3>1. pc'[w] # "armed" /\ c \notin Works
      BY <2>3, <2>7, Actor DEF Others, Same, Owned
    <3>2. PassesHands(c, c, w, "clear", c, "none", c)
      BY <2>2, <2>3, <2>5, <2>6, <2>7, <3>1 DEF PassesHands
    <3> QED BY <3>2, OwnerPassesHands, Actor DEF Sound
  <2>9. WorkerAlone(c)
    BY <1>6, <2>3, <2>6 DEF WorkerAlone, ClearsPending, Goes, Thread, Asleep
  <2>13. pc'[c] # "insert" /\ (pc'[c] = "queue" => cpu'[c] \in online)
    BY <1>6, <2>3 DEF Goes
  <2>14. Alone(c)
    BY <2>4, <2>5, <2>9, <2>13, Actor DEF Alone
  <2> QED BY <2>8, <2>14, AloneKeeps, Actor
<1> QED BY <1>1, <1>2, <1>3, <1>4, <1>5, <1>6

(* Who is in insert_work() has a work item in its hands. *)
LEMMA InsertFacts ==
  ASSUME Sound, NEW e \in Actors, pc[e] \in {"queue", "insert", "add_timer"}
  PROVE  /\ e \in Queuers /\ work[e] \in Works /\ Hand(e) = work[e] /\ cpu[e] \in CPUs
         /\ next[e] \in {"idle", "flush_work", "run"} /\ WaitsOn(e) = 0
         /\ Owned(work[e], "actor", e)
         /\ pc[e] # "add_timer" => cpu[e] \in online
<1>1. e # Hotplug
  <2>1. HotplugAt(pc[Hotplug], next[Hotplug], work[Hotplug], cpu[Hotplug])
    BY LocalFacts DEF Sound
  <2> QED BY <2>1 DEF HotplugAt
<1>2. e \in Queuers
  BY <1>1 DEF Actors, Queuers
<1>3. work[e] \in Works /\ cpu[e] \in CPUs /\ next[e] \in {"idle", "flush_work", "run"}
  BY <1>2, QueuerFacts DEF Sound
<1>4. Hand(e) = work[e] /\ WaitsOn(e) = 0
  BY DEF Hand, WaitsOn
<1>5. Owned(work[e], "actor", e)
  BY <1>3, <1>4, OwnerFacts DEF Sound
<1> QED BY <1>2, <1>3, <1>4, <1>5 DEF Sound, Threads, Settled

(* A CPU that is up and on which something may be queued. *)
LEMMA MayQueue ==
  ASSUME Sound, NEW e \in Actors, pc[e] \in {"queue", "insert"}
  PROVE  ~MustBeEmpty(cpu[e])
<1>1. PICK c \in CPUs : c = cpu[e] /\ c \in online
  BY InsertFacts
<1>2. ~Destroying
  BY InsertFacts DEF Queuers, Sound, Threads, Settled
<1>3. ThreadOK(c) /\ HotplugOK
  BY DEF Sound, Threads
<1>4. HotplugAt(pc[Hotplug], next[Hotplug], work[Hotplug], cpu[Hotplug])
  BY LocalFacts DEF Sound
<1>5. ~(c = cpu[Hotplug] /\ pc[Hotplug] \in {"kthread_stop", "wait_exited", "cleanup_wait"})
  <2>1. ASSUME c = cpu[Hotplug], pc[Hotplug] \in {"kthread_stop", "wait_exited", "cleanup_wait"}
        PROVE  FALSE
    <3>1. next[Hotplug] = "unpopulate"
      BY <1>2, <1>4, <2>1 DEF HotplugAt, Destroying
    <3> QED BY <1>1, <1>3, <2>1, <3>1 DEF HotplugOK
  <2> QED BY <2>1
<1>6. Thread(c) \notin {"exited", "no thread"}
  BY <1>1, <1>2, <1>3, <1>5 DEF ThreadOK
<1>7. ~(Drained /\ c = cpu[Hotplug])
  BY <1>5 DEF Drained
<1> QED BY <1>1, <1>6, <1>7 DEF MustBeEmpty

(* a, which has w in its hands, makes a step towards queueing it. *)
Queues(a, w) ==
  /\ pc[a] \in {"queue", "insert", "add_timer"} /\ work[a] = w
  /\ UNCHANGED <<current_work, done, global>>
  /\ \A e \in Actors : e # a => Same(e) \/ (e \in Works /\ pc'[e] \in {"idle", "armed"})
  /\ \A v \in Works : v # w => data'[v] = data[v]
  /\ data'[w] \in CPUs
  /\ \A e \in CPUs :
       /\ ListOK(worklist'[e])
       /\ \A x : x \in ListEntries(worklist[e]) => x \in ListEntries(worklist'[e])
       /\ \A x : x \in ListEntries(worklist'[e]) /\ x # w => x \in ListEntries(worklist[e])
       /\ \A x, y : Ahead(worklist[e], x, y) => Ahead(worklist'[e], x, y)
       /\ w \in ListEntries(worklist'[e]) => data'[w] = e
       /\ worklist'[e] = worklist[e] \/ ~MustBeEmpty(e)
  /\ pc'[a] \in {"insert", "idle", "flush_work", "run"} /\ next'[a] # "clear_pending"
  /\ pc'[a] = "insert" => work'[a] = w /\ data'[w] = cpu'[a] /\ cpu'[a] \in online
  /\ \A u \in Tasks : \A d \in due'[u] : d \in due[u]
  /\ \A u \in Tasks : u # a /\ due'[u] # {} /\ work[u] = w =>
       \A k : AtMost(w, k) => AtMost(w, k)'

(* Queueing keeps the invariant. *)
LEMMA QueuesKeeps ==
  ASSUME Sound, Follows, NEW a \in Queuers, NEW w \in Works, Queues(a, w)
  PROVE  Rest'
<1>1. /\ current_work' = current_work /\ done' = done /\ UNCHANGED global /\ online' = online
  BY DEF Queues, global
<1>2. /\ a \in Actors /\ a # Hotplug /\ pc[a] \in {"queue", "insert", "add_timer"} /\ work[a] = w
      /\ pc'[a] \in {"insert", "idle", "flush_work", "run"}
  BY Actor DEF Queues
<1>3. /\ \A u \in Tasks : u # a => Same(u)
      /\ \A e \in CPUs : e # a => Same(e)
      /\ Same(Hotplug)
      /\ \A e \in Actors : e # a /\ pc'[e] \in {"queue", "insert"} => Same(e)
  BY <1>2, Actor DEF Queues
<1>4. Hand(a) = w /\ Owned(w, "actor", a) /\ WaitsOn(a) = 0
  BY <1>2, InsertFacts
<1>5. ASSUME NEW e \in CPUs
      PROVE  /\ Thread(e)' = Thread(e) /\ (Asleep(e)' <=> Asleep(e)) /\ Clearing(e)' = Clearing(e)
             /\ Clearing(e) # w
  <2>1. CASE e = a
    BY <1>2, <1>4, <2>1, Actor DEF Thread, Asleep, Clearing, Owned
  <2>2. CASE e # a
    <3>1. Same(e)
      BY <1>3, <2>2
    <3> QED BY <1>1, <1>4, <3>1, SameViews, SameClearing DEF Owned
  <2> QED BY <2>1, <2>2
<1>6. ASSUME NEW e \in Actors, e # a, pc'[e] \in {"queue", "insert"}
      PROVE  /\ Same(e) /\ work[e] \in Works /\ work[e] # w /\ cpu[e] \in online
             /\ data'[work[e]] = data[work[e]]
  <2>1. Same(e)
    BY <1>3, <1>6
  <2>2. pc[e] \in {"queue", "insert"}
    BY <1>6, <2>1 DEF Same
  <2>3. work[e] \in Works /\ Hand(e) = work[e] /\ cpu[e] \in online
    BY <2>2, InsertFacts
  <2>4. Hand(e) # w
    BY <1>4, <1>6 DEF Owned
  <2> QED BY <2>1, <2>3, <2>4 DEF Queues
<1>7. Barriers'
  <2>1. ASSUME NEW f \in Flushers
        PROVE  BarrierOK(f)'
    <3>1. BarrierOK(f) /\ f # w
      BY Actor DEF Sound, Barriers
    <3>2. WaitsOn(f)' = WaitsOn(f)
      <4>1. CASE f = a
        BY <1>2, <1>4, <4>1 DEF WaitsOn
      <4>2. CASE f # a
        <5>1. Same(f)
          BY <1>3, <4>2 DEF Flushers
        <5> QED BY <5>1, SameViews
      <4> QED BY <4>1, <4>2
    <3>3. \A e \in CPUs : f \in ListEntries(worklist'[e]) => f \in ListEntries(worklist[e])
      BY <3>1 DEF Queues
    <3> QED BY <1>1, <1>5, <3>1, <3>2, <3>3, BarrierKept
  <2> QED BY <2>1 DEF Barriers, Queues
<1>8. DataIsRight'
  <2>1. \A e \in CPUs : Asleep(e)' => current_work'[e] = Null
    BY <1>1, <1>5 DEF Sound, DataIsRight
  <2>2. \A v \in Works, e \in CPUs : Clearing(e)' = v => data'[v] = e
    BY <1>5 DEF Sound, DataIsRight, Queues
  <2>3. ASSUME NEW v \in Works, NEW e \in CPUs, v \in ListEntries(worklist'[e])
        PROVE  data'[v] = e
    <3>1. CASE v = w
      BY <2>3, <3>1 DEF Queues
    <3>2. CASE v # w
      BY <2>3, <3>2 DEF Queues, Sound, DataIsRight
    <3> QED BY <3>1, <3>2
  <2>4. ASSUME NEW e \in Actors, pc'[e] = "insert"
        PROVE  data'[work'[e]] = cpu'[e]
    <3>1. CASE e = a
      BY <2>4, <3>1 DEF Queues
    <3>2. CASE e # a
      <4>1. Same(e) /\ data'[work[e]] = data[work[e]]
        BY <1>6, <2>4, <3>2
      <4> QED BY <2>4, <4>1 DEF Sound, DataIsRight, Same
    <3> QED BY <3>1, <3>2
  <2>5. ASSUME NEW e \in CPUs, current_work'[e] \in Works
        PROVE  data'[current_work'[e]] \in CPUs
    BY <1>1, <2>5 DEF Sound, DataIsRight, Queues
  <2> QED BY <2>1, <2>2, <2>3, <2>4, <2>5 DEF DataIsRight
<1>9. Threads'
  <2>1. ASSUME NEW e \in Actors, pc'[e] \in {"queue", "insert"}
        PROVE  cpu'[e] \in online'
    <3>1. CASE e = a
      BY <1>1, <1>2, <2>1, <3>1 DEF Queues
    <3>2. CASE e # a
      BY <1>1, <1>6, <2>1, <3>2 DEF Same
    <3> QED BY <3>1, <3>2
  <2> QED BY <1>1, <1>3, <1>5, <2>1, ThreadsKept DEF Sound
<1>10. ListsAreEmpty'
  <2>1. Drained' => Drained /\ cpu'[Hotplug] = cpu[Hotplug]
    BY <1>1, <1>3, SameHotplug DEF Same
  <2>2. ASSUME NEW e \in CPUs
        PROVE  EmptyOK(e)'
    <3>1. CASE worklist'[e] = worklist[e]
      BY <1>1, <1>5, <2>1, <3>1, EmptyKept DEF Sound, ListsAreEmpty
    <3>2. CASE ~MustBeEmpty(e)
      <4>1. ~MustBeEmpty(e)'
        BY <1>1, <1>5, <2>1, <3>2 DEF MustBeEmpty
      <4> QED BY <4>1 DEF EmptyOK
    <3> QED BY <3>1, <3>2 DEF Queues
  <2> QED BY <2>2 DEF ListsAreEmpty
<1>11. Cancelled'
  <2>1. ASSUME NEW u \in Tasks, u # a
        PROVE  CancelOK(u)'
    <3>1. CancelOK(u) /\ Same(u)
      BY <1>3, <2>1 DEF Sound, Cancelled
    <3> QED BY <1>1, <3>1, CancelKept DEF Queues
  <2>2. CancelOK(a)'
    BY CancelNothing DEF Queues
  <2> QED BY <2>1, <2>2 DEF Cancelled
<1>12. DueIsThere'
  <2>1. ASSUME NEW u \in Tasks, NEW d \in due'[u]
        PROVE  DueThere(d)'
    <3>1. d \in due[u]
      BY DEF Queues
    <3>2. d.cpu \in CPUs /\ DueThere(d)
      BY <3>1, DueFacts
    <3> QED BY <1>1, <3>2 DEF DueThere, Queues
  <2> QED BY <2>1 DEF DueIsThere
<1>13. DueIsAhead'
  <2>1. ASSUME NEW u \in Tasks, u # a
        PROVE  DueOK(u)'
    <3>1. Same(u) /\ DueOK(u)
      BY <1>3, <2>1 DEF Sound, DueIsAhead
    <3>2. ASSUME NEW d \in due'[u], Behind(u, d)
          PROVE  Behind(u, d)'
      <4>1. d \in due[u]
        BY <3>2 DEF Queues
      <4>2. d.cpu \in CPUs
        BY <4>1, DueFacts
      <4> QED BY <3>2, <4>2 DEF Behind, Queues
    <3>3. ASSUME due'[u] # {}, AtMost(work[u], cpu[u])
          PROVE  AtMost(work[u], cpu[u])'
      <4>1. PICK x, k : x = work[u] /\ k = cpu[u]
        OBVIOUS
      <4>2. work'[u] = x /\ cpu'[u] = k
        BY <3>1, <4>1 DEF Same
      <4>3. CASE x = w
        <5>1. AtMost(x, k)'
          BY <2>1, <3>3, <4>1, <4>3 DEF Queues
        <5> QED BY <4>2, <5>1
      <4>4. CASE x # w
        <5>1. Listed(x)' => Listed(x)
          BY <4>4 DEF Listed, Queues
        <5>2. ASSUME NEW e \in Actors, pc'[e] = "insert", work'[e] = x
              PROVE  pc[e] = "insert" /\ work[e] = x /\ x \in Works
          <6>1. e # a
            BY <4>4, <5>2 DEF Queues
          <6> QED BY <1>6, <5>2, <6>1 DEF Same
        <5>3. Listed(x) => x \in Works
          <6>1. x \in Works \cup {Null}
            BY <4>1, Actor DEF Sound, Types
          <6>2. ~Listed(Null)
            <7>1. ASSUME NEW e \in CPUs
                  PROVE  Null \notin ListEntries(worklist[e])
              <8>1. worklist[e] \in Seq(Works \cup Flushers) /\ Null \notin Works \cup Flushers
                BY Actor DEF Sound, Types, Flushers
              <8> QED BY <8>1 DEF ListEntries
            <7> QED BY <7>1 DEF Listed
          <6> QED BY <6>1, <6>2
        <5>4. AtMost(x, k)'
          BY <3>3, <4>1, <4>4, <5>1, <5>2, <5>3 DEF AtMost, Queues
        <5> QED BY <4>2, <5>4
      <4> QED BY <4>3, <4>4
    <3>4. \A d \in due'[u] : d \in due[u]
      BY DEF Queues
    <3> QED BY <3>1, <3>2, <3>3, <3>4, DueKept
  <2>2. ASSUME a \in Tasks
        PROVE  DueOK(a)'
    <3>1. \A d \in due[a] : ~d.own
      BY <1>2, <2>2, NothingDue
    <3>2. \A d \in due'[a] : ~d.own
      BY <2>2, <3>1 DEF Queues
    <3> QED BY <3>2, DueNothing
  <2> QED BY <2>1, <2>2 DEF DueIsAhead
<1> QED BY <1>7, <1>8, <1>9, <1>10, <1>11, <1>12, <1>13 DEF Rest

(* set_wq_data() *)
LEMMA SetsKeeps ==
  ASSUME Sound, Follows, NEW a \in Queuers, SetsData(a)
  PROVE  PendingOwned' /\ Rest'
<1>1. a \in Actors /\ pc[a] = "queue"
  BY Actor DEF SetsData
<1>2. PICK w \in Works : w = work[a]
  BY <1>1, InsertFacts
<1>3. /\ Owned(w, "actor", a) /\ cpu[a] \in CPUs /\ cpu[a] \in online
      /\ next[a] \in {"idle", "flush_work", "run"}
  BY <1>1, <1>2, InsertFacts
<1>4. Goes(a, "insert", next[a], w, cpu[a]) /\ Others(a)
  BY <1>1, <1>2, MoveFacts DEF SetsData, Sound
<1>5. /\ pending' = pending /\ worklist' = worklist /\ current_work' = current_work
      /\ UNCHANGED <<current_work, done, global>>
  BY DEF SetsData
<1>6. data'[w] = cpu[a] /\ \A v \in Works : v # w => data'[v] = data[v]
  BY <1>2 DEF SetsData, Sound, Types
<1>7. PendingOwned'
  <2>1. Hand(a)' = Hand(a)
    BY <1>1, <1>2, <1>4 DEF Hand, Goes
  <2>2. a \in CPUs => \A v \in Works : Clearing(a)' = v <=> Clearing(a) = v
    BY <1>1, <1>4 DEF Clearing, Goes
  <2>3. pc'[a] = "armed" <=> pc[a] = "armed"
    BY <1>1, <1>4 DEF Goes
  <2> QED BY <1>1, <1>4, <1>5, <2>1, <2>2, <2>3, OwnersStay DEF Sound
<1>8. ASSUME NEW u \in Tasks
      PROVE  due'[u] = IF work[u] = w THEN {} ELSE due[u]
  BY <1>2 DEF SetsData, Excused
<1>9. Queues(a, w)
  <2>1. \A e \in Actors : e # a => Same(e)
    BY <1>4 DEF Others
  <2>2. \A e \in CPUs : w \notin ListEntries(worklist[e]) /\ ListOK(worklist[e])
    BY <1>3 DEF Owned, Sound, Barriers
  <2>3. /\ pc'[a] = "insert" /\ next'[a] # "clear_pending" /\ work'[a] = w
        /\ data'[w] = cpu'[a] /\ cpu'[a] \in online
    BY <1>3, <1>4, <1>6 DEF Goes
  <2>4. /\ \A u \in Tasks : \A d \in due'[u] : d \in due[u]
        /\ \A u \in Tasks : due'[u] # {} => work[u] # w
    BY <1>8
  <2> QED BY <1>1, <1>2, <1>3, <1>5, <1>6, <2>1, <2>2, <2>3, <2>4 DEF Queues
<1> QED BY <1>7, <1>9, QueuesKeeps

(* list_add_tail() in insert_work() *)
LEMMA InsertsKeeps ==
  ASSUME Sound, Follows, NEW a \in Queuers, Inserts(a)
  PROVE  PendingOwned' /\ Rest'
<1>1. a \in Actors /\ pc[a] = "insert"
  BY Actor DEF Inserts
<1>2. PICK w \in Works : w = work[a]
  BY <1>1, InsertFacts
<1>3. PICK k \in CPUs : k = cpu[a]
  BY <1>1, InsertFacts
<1>4. /\ Owned(w, "actor", a) /\ Hand(a) = w /\ next[a] \in {"idle", "flush_work", "run"}
      /\ ~MustBeEmpty(k) /\ data[w] = k
  BY <1>1, <1>2, <1>3, InsertFacts, MayQueue DEF Sound, DataIsRight
<1>5. pc'[a] = next[a] /\ next'[a] = "idle" /\ Others(a)
  BY <1>1, MoveFacts DEF Inserts, Sound, Goes
<1>6. /\ pending' = pending /\ data' = data /\ current_work' = current_work /\ due' = due
      /\ UNCHANGED <<current_work, done, global>>
  BY DEF Inserts
<1>7. PICK l : /\ l = list_add_tail(worklist[k], w) /\ worklist'[k] = l
               /\ \A e \in CPUs : e # k => worklist'[e] = worklist[e]
  BY <1>2, <1>3 DEF Inserts, Sound, Types
<1>8. /\ ListEntries(l) = ListEntries(worklist[k]) \cup {w} /\ ListOK(l)
      /\ \A x, y : Ahead(worklist[k], x, y) => Ahead(l, x, y)
  <2>1. PICK S, s : S = Works \cup Flushers /\ s = worklist[k]
    OBVIOUS
  <2>2. s \in Seq(S)
    BY <2>1 DEF Sound, Types
  <2>3. w \in S
    BY <2>1
  <2>4. ListOK(s)
    BY <2>1 DEF Sound, Barriers
  <2>5. w \notin ListEntries(s)
    BY <1>4, <2>1 DEF Owned
  <2>6. ListEntries(list_add_tail(s, w)) = ListEntries(s) \cup {w}
    BY ONLY <2>2, <2>3, AddTailFacts
  <2>7. ListOK(list_add_tail(s, w))
    BY ONLY <2>2, <2>3, <2>4, <2>5, AddTailFacts
  <2>8. \A x, y : Ahead(s, x, y) => Ahead(list_add_tail(s, w), x, y)
    BY ONLY <2>2, <2>3, AddTailOrder
  <2> QED BY <1>7, <2>1, <2>6, <2>7, <2>8
<1>9. ASSUME NEW e \in CPUs
      PROVE  /\ ListOK(worklist'[e])
             /\ \A x : x \in ListEntries(worklist[e]) => x \in ListEntries(worklist'[e])
             /\ \A x : x \in ListEntries(worklist'[e]) /\ x # w => x \in ListEntries(worklist[e])
             /\ \A x, y : Ahead(worklist[e], x, y) => Ahead(worklist'[e], x, y)
             /\ w \in ListEntries(worklist'[e]) <=> e = k
             /\ worklist'[e] = worklist[e] \/ ~MustBeEmpty(e)
  <2>1. CASE e = k
    BY <1>4, <1>7, <1>8, <2>1
  <2>2. CASE e # k
    BY <1>4, <1>7, <2>2 DEF Sound, Barriers, Owned
  <2> QED BY <2>1, <2>2
<1>10. Hand(a)' = Null
  BY <1>4, <1>5 DEF Hand
<1>11. ASSUME NEW e \in CPUs
       PROVE  Clearing(e)' = Clearing(e)
  <2>1. CASE e = a
    BY <1>1, <1>4, <1>5, <2>1 DEF Clearing
  <2>2. CASE e # a
    BY <1>5, <1>6, <2>2, SameClearing, Actor DEF Others
  <2> QED BY <2>1, <2>2
<1>12. PendingOwned'
  <2>1. ASSUME NEW v \in Works, v # w
        PROVE  SameOwner(v)
    <3>1. OthersBoth(a, a)
      BY <1>5 DEF Others, OthersBoth
    <3>2. Hand(a)' = v <=> Hand(a) = v
      BY <1>4, <1>10, <2>1, Actor
    <3>3. \A e \in CPUs : v \in ListEntries(worklist'[e]) <=> v \in ListEntries(worklist[e])
      BY <1>9, <2>1
    <3>4. v = a => (pc'[v] = "armed" <=> pc[v] = "armed")
      BY <1>1, <1>4, <1>5
    <3> QED BY <1>1, <1>6, <1>11, <3>1, <3>2, <3>3, <3>4, OwnerStays
  <2>2. Owned(w, "list", k)'
    <3>1. ASSUME NEW b \in Actors
          PROVE  Hand(b)' # w
      <4>1. CASE b = a
        BY <1>10, <4>1, Actor
      <4>2. CASE b # a
        BY <1>4, <1>5, <4>2, SameViews DEF Owned, Others
      <4> QED BY <4>1, <4>2
    <3>2. pc'[w] # "armed" /\ pending'[w]
      <4>1. CASE w = a
        BY <1>4, <1>5, <1>6, <4>1 DEF Owned
      <4>2. CASE w # a
        BY <1>4, <1>5, <1>6, <4>2, Actor DEF Owned, Others, Same
      <4> QED BY <4>1, <4>2
    <3>3. \A c \in CPUs : Clearing(c)' # w
      BY <1>4, <1>11 DEF Owned
    <3> QED BY <1>9, <3>1, <3>2, <3>3 DEF Owned
  <2>3. k \in Actors
    BY Actor
  <2> QED BY <2>1, <2>2, <2>3, PendingOwnedKept DEF Sound
<1>13. Queues(a, w)
  <2>1. \A e \in Actors : e # a => Same(e)
    BY <1>5 DEF Others
  <2>2. pc'[a] \in {"idle", "flush_work", "run"} /\ next'[a] # "clear_pending"
    BY <1>4, <1>5
  <2>3. ASSUME NEW u \in Tasks, u # a, work[u] = w, NEW m, AtMost(w, m)
        PROVE  AtMost(w, m)'
    <3>1. data[w] = m
      BY <1>1, <1>2, <2>3 DEF AtMost
    <3> QED BY <1>6, <3>1 DEF AtMost
  <2> QED BY <1>1, <1>2, <1>4, <1>6, <1>9, <2>1, <2>2, <2>3 DEF Queues
<1> QED BY <1>12, <1>13, QueuesKeeps

(* add_timer_on() or add_timer() in queue_delayed_work_on() *)
LEMMA AddsTimerKeeps ==
  ASSUME Sound, Follows, NEW a \in Queuers, AddsTimer(a)
  PROVE  PendingOwned' /\ Rest'
<1>1. a \in Actors /\ pc[a] = "add_timer"
  BY Actor DEF AddsTimer
<1>2. PICK w \in Works : w = work[a]
  BY <1>1, InsertFacts
<1>3. /\ Owned(w, "actor", a) /\ Hand(a) = w /\ cpu[a] \in CPUs
      /\ next[a] \in {"idle", "flush_work", "run"}
  BY <1>1, <1>2, InsertFacts
<1>4. a \notin Works
  <2>1. ASSUME a \in Works
        PROVE  FALSE
    <3>1. TimerAt(a, pc[a], next[a], work[a], cpu[a])
      BY <2>1, LocalFacts DEF Sound
    <3> QED BY <1>1, <3>1 DEF TimerAt
  <2> QED BY <2>1
<1>5. pc[w] = "idle" /\ work[w] = Null /\ Hand(w) = Null
  <2>1. pc[w] = "idle"
    BY <1>1, <1>3, <1>4, HeldTimer DEF Sound
  <2> QED BY <2>1, TimerHand
<1>6. /\ Goes(a, next[a], "idle", Null, 0) /\ Goes(w, "armed", next[w], work[w], cpu[w])
      /\ OthersBoth(a, w)
  BY <1>1, <1>2, <1>4, MoveBothFacts, Actor DEF AddsTimer, Sound
<1>7. /\ pending' = pending /\ worklist' = worklist /\ current_work' = current_work /\ due' = due
      /\ UNCHANGED <<current_work, done, global>>
  BY DEF AddsTimer, lists
<1>8. data'[w] = cpu[a] /\ \A v \in Works : v # w => data'[v] = data[v]
  BY <1>2 DEF AddsTimer, Sound, Types
<1>9. Hand(a)' = Null /\ Hand(w)' = Null /\ (a \in CPUs => Clearing(a) = Null /\ Clearing(a)' = Null)
  <2>1. next[w] # "clear_pending"
    <3>1. TimerAt(w, pc[w], next[w], work[w], cpu[w])
      BY LocalFacts DEF Sound
    <3> QED BY <3>1 DEF TimerAt
  <2> QED BY <1>1, <1>3, <1>5, <1>6, <2>1 DEF Goes, Hand, Clearing
<1>10. PendingOwned'
  <2>1. pending'[w] /\ pc'[w] = "armed" /\ w \notin CPUs
    BY <1>3, <1>6, <1>7, Actor DEF Owned, Goes
  <2>2. PassesHands(a, w, w, "actor", a, "timer", w)
    BY <1>3, <1>4, <1>5, <1>6, <1>7, <1>9, <2>1 DEF PassesHands
  <2> QED BY <1>1, <2>2, OwnerPassesHands, Actor DEF Sound
<1>11. Queues(a, w)
  <2>1. \A e \in Actors : e # a => Same(e) \/ (e \in Works /\ pc'[e] \in {"idle", "armed"})
    BY <1>6 DEF OthersBoth, Goes
  <2>2. pc'[a] \in {"idle", "flush_work", "run"} /\ next'[a] # "clear_pending"
    BY <1>3, <1>6 DEF Goes
  <2>3. \A e \in CPUs : w \notin ListEntries(worklist[e]) /\ ListOK(worklist[e])
    BY <1>3 DEF Owned, Sound, Barriers
  <2>4. ASSUME NEW m
        PROVE  AtMost(w, m)'
    <3>1. ~Listed(w)'
      BY <1>7, <2>3 DEF Listed
    <3>2. ASSUME NEW e \in Actors, pc'[e] = "insert", work'[e] = w
          PROVE  FALSE
      <4>1. e # a /\ e # w
        BY <1>6, <2>2, <3>2 DEF Goes
      <4>2. pc[e] = "insert" /\ work[e] = w
        BY <1>6, <3>2, <4>1 DEF OthersBoth, Same
      <4>3. Hand(e) = w
        BY <4>2 DEF Hand
      <4> QED BY <1>3, <4>1, <4>3 DEF Owned
    <3> QED BY <3>1, <3>2 DEF AtMost
  <2> QED BY <1>1, <1>2, <1>3, <1>7, <1>8, <2>1, <2>2, <2>3, <2>4 DEF Queues
<1> QED BY <1>10, <1>11, QueuesKeeps

(* The worker of a CPU moves; what that means for the others. *)
LEMMA WorkerMoves ==
  ASSUME Sound, Follows, NEW c \in CPUs, Others(c), UNCHANGED <<data, global>>,
         pc'[c] \notin {"queue", "insert"}
  PROVE  /\ \A e \in Actors : e # c => Same(e)
         /\ \A t \in Tasks : Same(t)
         /\ Same(Hotplug) /\ online' = online
         /\ \A e \in Actors : pc'[e] \in {"queue", "insert"} => Same(e) /\ cpu'[e] \in online'
         /\ Thread(c)' = Thread(c) => Threads'
         /\ \A w, k : AtMost(w, k) /\ (Listed(w)' => Listed(w)) => AtMost(w, k)'
<1>1. /\ \A e \in Actors : e # c => Same(e)
      /\ \A t \in Tasks : Same(t)
      /\ Same(Hotplug) /\ online' = online /\ data' = data
  BY Actor DEF Others, global
<1>2. ASSUME NEW e \in Actors, pc'[e] \in {"queue", "insert"}
      PROVE  Same(e) /\ cpu'[e] \in online'
  <2>1. Same(e)
    BY <1>1, <1>2
  <2> QED BY <1>1, <1>2, <2>1 DEF Sound, Threads, Settled, Same
<1>3. ASSUME Thread(c)' = Thread(c)
      PROVE  Threads'
  <2>1. \A e \in CPUs : Thread(e)' = Thread(e)
    BY <1>1, <1>3, SameViews, Actor
  <2> QED BY <1>1, <1>2, <2>1, ThreadsKept DEF Sound
<1>4. ASSUME NEW w, NEW k, AtMost(w, k), Listed(w)' => Listed(w)
      PROVE  AtMost(w, k)'
  BY <1>1, <1>2, <1>4 DEF AtMost, Same
<1> QED BY <1>1, <1>2, <1>3, <1>4

(* A worker that was told to stop exits. *)
LEMMA ExitsKeeps ==
  ASSUME Sound, Follows, NEW c \in CPUs, Exits(c)
  PROVE  PendingOwned' /\ Rest'
<1>1. WorkerAt(pc[c], next[c], work[c], cpu[c]) /\ c \in Actors /\ pc[c] = "finish"
  BY LocalFacts, Actor DEF Sound, Exits
<1>2. Goes(c, "exited", "idle", Null, 0) /\ Others(c)
  BY MoveFacts, Actor DEF Exits, Quiet, Sound
<1>3. /\ UNCHANGED <<pending, data, worklist, current_work, due, done, global>>
      /\ should_stop' = should_stop /\ online' = online /\ populated' = populated
  BY DEF Exits, Quiet, lists, global
<1>4. /\ \A e \in Actors : e # c => Same(e)
      /\ \A t \in Tasks : Same(t)
      /\ Same(Hotplug)
      /\ \A e \in Actors : pc'[e] \in {"queue", "insert"} => Same(e) /\ cpu'[e] \in online'
  BY <1>2, <1>3, WorkerMoves DEF Goes
<1>5. /\ Thread(c) = "runs" /\ Thread(c)' = "exited" /\ Asleep(c) /\ Asleep(c)'
      /\ Clearing(c) = Null /\ Clearing(c)' = Null /\ Hand(c)' = Hand(c)
  BY <1>1, <1>2 DEF WorkerAt, Goes, Thread, Asleep, Clearing, Hand
<1>6. c = cpu[Hotplug] /\ pc[Hotplug] = "wait_exited"
  BY <1>5 DEF Sound, Threads, ThreadOK, Exits
<1>7. ASSUME NEW e \in CPUs, e # c
      PROVE  /\ Thread(e)' = Thread(e) /\ (Asleep(e)' <=> Asleep(e)) /\ Clearing(e)' = Clearing(e)
  BY <1>3, <1>4, <1>7, SameViews, SameClearing, Actor
<1>8. PendingOwned'
  BY <1>1, <1>2, <1>3, <1>5, OwnersStay, Actor DEF Sound
<1>9. Calm
  <2>1. ASSUME NEW f \in Flushers
        PROVE  WaitsOn(f)' = WaitsOn(f) /\ done'[f] = done[f]
    BY <1>3, <1>4, SameViews DEF Flushers
  <2>2. \A e \in CPUs : (Asleep(e)' => Asleep(e)) /\ Clearing(e)' = Clearing(e)
    BY <1>5, <1>7
  <2> QED BY <1>3, <1>4, <2>1, <2>2 DEF Calm
<1>10. (Destroying' <=> Destroying) /\ (\A e : Finished(e)' <=> Finished(e)) /\ (Drained' <=> Drained)
  BY <1>3, <1>4, SameHotplug
<1>11. pc'[Hotplug] = "wait_exited" /\ cpu'[Hotplug] = c /\ next'[Hotplug] = next[Hotplug]
  BY <1>4, <1>6 DEF Same
<1>12. Threads'
  <2>1. Settled'
    BY <1>4, <1>10, SettledKept DEF Sound, Threads
  <2>2. HotplugOK'
    BY <1>3, <1>6, <1>10, <1>11 DEF Sound, Threads, HotplugOK
  <2>3. ASSUME NEW e \in CPUs
        PROVE  ThreadOK(e)'
    <3>1. ThreadOK(e)
      BY DEF Sound, Threads
    <3>2. CASE e = c
      BY <1>3, <1>5, <1>6, <1>10, <1>11, <3>1, <3>2 DEF ThreadOK
    <3>3. CASE e # c
      BY <1>3, <1>6, <1>7, <1>10, <1>11, <3>1, <3>3 DEF ThreadOK
    <3> QED BY <3>2, <3>3
  <2> QED BY <2>1, <2>2, <2>3 DEF Threads
<1>13. ListsAreEmpty'
  <2>1. ASSUME NEW e \in CPUs, e # c
        PROVE  EmptyOK(e)'
    BY <1>3, <1>6, <1>7, <1>10, <1>11, <2>1, EmptyKept DEF Sound, ListsAreEmpty
  <2>2. EmptyOK(c)'
    <3>1. MustBeEmpty(c)
      BY <1>5, <1>6 DEF MustBeEmpty, Drained
    <3> QED BY <1>3, <3>1 DEF Sound, ListsAreEmpty, EmptyOK
  <2> QED BY <2>1, <2>2 DEF ListsAreEmpty
<1> QED BY <1>8, <1>9, <1>12, <1>13, CalmKeeps DEF Rest

(* wq_barrier_func() completes what a flusher waits for. *)
LEMMA BarrierRunsKeeps ==
  ASSUME Sound, Follows, NEW c \in CPUs, RunsBarrier(c)
  PROVE  PendingOwned' /\ Rest'
<1>1. WorkerAt(pc[c], next[c], work[c], cpu[c]) /\ c \in Actors /\ pc[c] = "clear"
  BY LocalFacts, Actor DEF Sound, RunsBarrier
<1>2. Goes(c, "run", "idle", Null, 0) /\ Others(c)
  BY MoveFacts, Actor DEF RunsBarrier, Sound
<1>3. PICK f \in Flushers : f = current_work[c]
  BY DEF RunsBarrier
<1>4. /\ UNCHANGED <<pending, data, worklist, current_work, due, global>> /\ online' = online
      /\ \A e \in Flushers : e # f => done'[e] = done[e]
  BY <1>3 DEF RunsBarrier, lists, global, Sound, Types
<1>5. /\ Thread(c)' = Thread(c) /\ ~Asleep(c) /\ ~Asleep(c)'
      /\ Clearing(c) = f /\ Clearing(c)' = Null /\ Hand(c)' = Hand(c)
  BY <1>1, <1>2, <1>3 DEF WorkerAt, Goes, Thread, Asleep, Clearing, Hand
<1>6. /\ \A e \in Actors : e # c => Same(e)
      /\ \A t \in Tasks : Same(t)
      /\ Same(Hotplug)
      /\ \A e \in Actors : pc'[e] \in {"queue", "insert"} => Same(e)
      /\ Threads'
  BY <1>2, <1>4, <1>5, WorkerMoves DEF Goes
<1>7. ASSUME NEW e \in CPUs, e # c
      PROVE  /\ Thread(e)' = Thread(e) /\ (Asleep(e)' <=> Asleep(e)) /\ Clearing(e)' = Clearing(e)
  BY <1>4, <1>6, <1>7, SameViews, SameClearing, Actor
<1>8. f \notin Works /\ f # Null
  BY Actor DEF Flushers
<1>9. PendingOwned'
  <2>1. \A w \in Works : Clearing(c)' = w <=> Clearing(c) = w
    BY <1>5, <1>8, Actor
  <2>2. c \notin Works
    BY Actor
  <2> QED BY <1>1, <1>2, <1>4, <1>5, <2>1, <2>2, OwnersStay DEF Sound
<1>10. /\ WaitsOn(f) = c
       /\ \A e \in CPUs : f \notin ListEntries(worklist[e]) /\ Clearing(e)' # f
  <2>1. BarrierOK(f)
    BY DEF Sound, Barriers
  <2>2. WaitsOn(f) = c /\ f \notin ListEntries(worklist[c])
    BY <1>5, <2>1 DEF BarrierOK
  <2>3. ASSUME NEW e \in CPUs, e # c
        PROVE  f \notin ListEntries(worklist[e]) /\ Clearing(e) # f
    BY <2>1, <2>2, <2>3 DEF BarrierOK
  <2> QED BY <1>5, <1>7, <1>8, <2>2, <2>3
<1>11. Calm
  <2>1. ASSUME NEW e \in Flushers, e # f
        PROVE  WaitsOn(e)' = WaitsOn(e) /\ done'[e] = done[e]
    BY <1>4, <1>6, <2>1, SameViews DEF Flushers
  <2>2. \A e \in CPUs : /\ Asleep(e)' => Asleep(e)
                        /\ Clearing(e)' = Clearing(e) \/ Clearing(e)' = Null
    BY <1>5, <1>7
  <2> QED BY <1>4, <1>6, <1>10, <2>1, <2>2 DEF Calm
<1>12. ListsAreEmpty'
  <2>1. EmptyOK(c)'
    <3>1. MustBeEmpty(c)' => MustBeEmpty(c)
      BY <1>4, <1>5 DEF MustBeEmpty
    <3> QED BY <1>4, <3>1 DEF Sound, ListsAreEmpty, EmptyOK
  <2>2. ASSUME NEW e \in CPUs, e # c
        PROVE  EmptyOK(e)'
    <3>1. cpu'[Hotplug] = cpu[Hotplug] /\ pc'[Hotplug] = pc[Hotplug]
      BY <1>6 DEF Same
    <3>2. Drained' /\ e = cpu[Hotplug] => Drained
      <4>1. CASE f = Hotplug
        <5>1. pc[Hotplug] = "cleanup_wait" => cpu[Hotplug] = c
          BY <1>10, <4>1 DEF WaitsOn
        <5> QED BY <2>2, <3>1, <5>1 DEF Drained
      <4>2. CASE f # Hotplug
        <5>1. done'[Hotplug] = done[Hotplug]
          BY <1>4, <4>2, Actor
        <5> QED BY <3>1, <5>1 DEF Drained
      <4> QED BY <4>1, <4>2
    <3>3. MustBeEmpty(e)' => MustBeEmpty(e)
      BY <1>4, <1>7, <2>2, <3>1, <3>2 DEF MustBeEmpty
    <3> QED BY <1>4, <3>3 DEF Sound, ListsAreEmpty, EmptyOK
  <2> QED BY <2>1, <2>2 DEF ListsAreEmpty
<1> QED BY <1>6, <1>9, <1>11, <1>12, CalmKeeps DEF Rest

(* What is due to a task moves on with the worker. *)
LEMMA DueMoves ==
  ASSUME NEW t, DueOK(t), Same(t),
         \A e \in due'[t] : \E d \in due[t] :
           /\ e.cpu = d.cpu /\ e.work = d.work /\ e.own = d.own
           /\ Behind(t, d) => Behind(t, e)',
         AtMost(work[t], cpu[t]) => AtMost(work[t], cpu[t])'
  PROVE  DueOK(t)'
<1>1. ASSUME NEW e \in due'[t], e.own
      PROVE  \/ pc'[t] = "flush_scan" /\ e.cpu > cpu'[t]
             \/ pc'[t] = "flush_wait" /\ e.cpu > cpu'[t]
             \/ pc'[t] \in {"flush_wait", "work_wait"} /\ e.cpu = cpu'[t] /\ Behind(t, e)'
             \/ /\ pc'[t] \in {"flush_lock", "flush_data"} /\ e.cpu = cpu'[t] /\ e.work = work'[t]
                /\ AtMost(work[t], cpu[t])'
  <2>1. PICK d \in due[t] : /\ e.cpu = d.cpu /\ e.work = d.work /\ e.own = d.own
                            /\ Behind(t, d) => Behind(t, e)'
    BY <1>1
  <2> QED BY <1>1, <2>1 DEF DueOK, Same
<1>2. work'[t] = work[t] /\ cpu'[t] = cpu[t]
  BY DEF Same
<1> QED BY <1>1, <1>2 DEF DueOK

(* A task that cancels holds the PENDING bit. *)
LEMMA CancelHolds ==
  ASSUME Sound, NEW t \in Tasks, next[t] = "clear_pending"
  PROVE  work[t] \in Works /\ Owned(work[t], "actor", t)
<1>1. TaskAt(pc[t], next[t], work[t], cpu[t])
  BY LocalFacts DEF Sound
<1>2. work[t] \in Works /\ Hand(t) = work[t]
  BY <1>1 DEF TaskAt, Hand
<1> QED BY <1>2, OwnerFacts, Actor DEF Sound

(* run_workqueue() finds its list empty. *)
LEMMA NoMoreKeeps ==
  ASSUME Sound, Follows, NEW c \in CPUs, NoMoreWork(c)
  PROVE  PendingOwned' /\ Rest'
<1>1. /\ WorkerAt(pc[c], next[c], work[c], cpu[c]) /\ c \in Actors /\ pc[c] = "run"
      /\ worklist[c] = <<>>
  BY LocalFacts, Actor DEF Sound, NoMoreWork
<1>2. Goes(c, "prepare", "idle", Null, 0) /\ Others(c)
  BY MoveFacts, Actor DEF NoMoreWork, Sound
<1>3. /\ UNCHANGED <<pending, data, worklist, done, global>> /\ online' = online
      /\ current_work'[c] = Null /\ \A e \in CPUs : e # c => current_work'[e] = current_work[e]
  BY DEF NoMoreWork, global, Sound, Types
<1>4. /\ Thread(c)' = Thread(c) /\ Clearing(c) = Null /\ Clearing(c)' = Null /\ Hand(c)' = Hand(c)
  BY <1>1, <1>2 DEF WorkerAt, Goes, Thread, Clearing, Hand
<1>5. /\ \A e \in Actors : e # c => Same(e)
      /\ \A t \in Tasks : Same(t)
      /\ Same(Hotplug)
      /\ \A e \in Actors : pc'[e] \in {"queue", "insert"} => Same(e)
      /\ Threads'
      /\ \A w, k : AtMost(w, k) /\ (Listed(w)' => Listed(w)) => AtMost(w, k)'
  BY <1>2, <1>3, <1>4, WorkerMoves DEF Goes
<1>6. ASSUME NEW e \in CPUs, e # c
      PROVE  /\ Thread(e)' = Thread(e) /\ (Asleep(e)' <=> Asleep(e)) /\ Clearing(e)' = Clearing(e)
  BY <1>3, <1>5, <1>6, SameViews, SameClearing, Actor
<1>7. PendingOwned'
  <2>1. c \notin Works /\ \A e \in CPUs : e # c => current_work'[e] = current_work[e]
    BY <1>3, Actor
  <2> QED BY <1>1, <1>2, <1>3, <1>4, <2>1, OwnersStay DEF Sound
<1>8. Barriers'
  <2>1. ASSUME NEW f \in Flushers
        PROVE  BarrierOK(f)'
    <3>1. BarrierOK(f) /\ WaitsOn(f)' = WaitsOn(f) /\ f # Null
      BY <1>5, SameViews, Actor DEF Sound, Barriers, Flushers
    <3>2. \A e \in CPUs : Clearing(e)' = f => Clearing(e) = f
      BY <1>4, <1>6
    <3> QED BY <1>3, <3>1, <3>2, BarrierKept
  <2> QED BY <1>3, <2>1 DEF Sound, Barriers
<1>9. DataIsRight'
  <2>1. ASSUME NEW e \in CPUs, Asleep(e)'
        PROVE  current_work'[e] = Null
    <3>1. CASE e = c
      BY <1>3, <3>1
    <3>2. CASE e # c
      BY <1>3, <1>6, <2>1, <3>2 DEF Sound, DataIsRight
    <3> QED BY <3>1, <3>2
  <2>2. \A w \in Works, e \in CPUs : Clearing(e)' = w => data'[w] = e
    BY <1>3, <1>4, <1>6 DEF Sound, DataIsRight
  <2>3. \A w \in Works, e \in CPUs : w \in ListEntries(worklist'[e]) => data'[w] = e
    BY <1>3 DEF Sound, DataIsRight
  <2>4. ASSUME NEW e \in Actors, pc'[e] = "insert"
        PROVE  data'[work'[e]] = cpu'[e]
    <3>1. Same(e)
      BY <1>5, <2>4
    <3> QED BY <1>3, <2>4, <3>1 DEF Sound, DataIsRight, Same
  <2>5. ASSUME NEW e \in CPUs, current_work'[e] \in Works
        PROVE  data'[current_work'[e]] \in CPUs
    <3>1. e # c
      BY <1>3, <2>5, Actor
    <3> QED BY <1>3, <2>5, <3>1 DEF Sound, DataIsRight
  <2> QED BY <2>1, <2>2, <2>3, <2>4, <2>5 DEF DataIsRight
<1>10. ListsAreEmpty'
  <2>1. Drained' => Drained /\ cpu'[Hotplug] = cpu[Hotplug]
    BY <1>3, <1>5, SameHotplug DEF Same
  <2>2. ASSUME NEW e \in CPUs, e # c
        PROVE  EmptyOK(e)'
    BY <1>3, <1>6, <2>1, <2>2, EmptyKept DEF Sound, ListsAreEmpty
  <2>3. EmptyOK(c)'
    BY <1>1, <1>3 DEF EmptyOK
  <2> QED BY <2>2, <2>3 DEF ListsAreEmpty
<1>11. Cancelled'
  <2>1. ASSUME NEW t \in Tasks
        PROVE  CancelOK(t)'
    <3>1. CASE next[t] = "clear_pending"
      <4>1. work[t] # Null
        BY <3>1, CancelHolds, Actor
      <4>2. \A e \in CPUs : current_work'[e] = work[t] => current_work[e] = work[t]
        BY <1>3, <4>1
      <4>3. CancelOK(t) /\ Same(t)
        BY <1>5 DEF Sound, Cancelled
      <4> QED BY <1>3, <4>2, <4>3, CancelKept
    <3>2. CASE next[t] # "clear_pending"
      BY <1>5, <3>2, CancelNothing DEF Same
    <3> QED BY <3>1, <3>2
  <2> QED BY <2>1 DEF Cancelled
<1>12. ASSUME NEW t \in Tasks, NEW e \in due'[t]
       PROVE  \E d \in due[t] : /\ e.cpu = d.cpu /\ e.work = d.work /\ e.own = d.own
                                /\ e.phase = d.phase /\ d.cpu # c
  <2>1. due[t] \in SUBSET Due /\ e \in Progress(c, due[t])
    BY DEF Sound, Types, NoMoreWork
  <2>2. PICK d \in due[t] :
              /\ ~(d.cpu = c /\ d.phase = "running" /\ d.work = current_work[c])
              /\ e.cpu = d.cpu /\ e.work = d.work /\ e.own = d.own
              /\ e.phase = IF d.cpu = c /\ worklist[c] # <<>> /\ d.work = Head(worklist[c])
                           THEN "running" ELSE d.phase
    BY <2>1, ProgressFacts
  <2>3. d \in Due /\ DueThere(d)
    BY DueFacts
  <2>4. d.cpu # c
    <3>1. ASSUME d.cpu = c
          PROVE  FALSE
      <4>1. ListEntries(worklist[c]) = {}
        BY <1>1 DEF ListEntries
      <4>2. d.phase = "running" \/ d.phase = "queued"
        BY <2>3 DEF Due
      <4> QED BY <2>2, <2>3, <3>1, <4>1, <4>2 DEF DueThere
    <3> QED BY <3>1
  <2> QED BY <1>1, <2>2, <2>4
<1>13. DueIsThere'
  <2>1. ASSUME NEW t \in Tasks, NEW e \in due'[t]
        PROVE  DueThere(e)'
    <3>1. PICK d \in due[t] : e.cpu = d.cpu /\ e.work = d.work /\ e.phase = d.phase /\ d.cpu # c
      BY <1>12
    <3>2. DueThere(d) /\ d.cpu \in CPUs
      BY DueFacts
    <3> QED BY <1>3, <3>1, <3>2 DEF DueThere
  <2> QED BY <2>1 DEF DueIsThere
<1>14. DueIsAhead'
  <2>1. ASSUME NEW t \in Tasks
        PROVE  DueOK(t)'
    <3>1. Same(t) /\ DueOK(t)
      BY <1>5 DEF Sound, DueIsAhead
    <3>2. ASSUME NEW e \in due'[t]
          PROVE  \E d \in due[t] : /\ e.cpu = d.cpu /\ e.work = d.work /\ e.own = d.own
                                   /\ Behind(t, d) => Behind(t, e)'
      <4>1. PICK d \in due[t] : /\ e.cpu = d.cpu /\ e.work = d.work /\ e.own = d.own
                                /\ e.phase = d.phase /\ d.cpu # c
        BY <1>12, <3>2
      <4>2. Behind(t, d) => Behind(t, e)'
        BY <1>3, <4>1 DEF Behind
      <4> QED BY <4>1, <4>2
    <3>3. AtMost(work[t], cpu[t]) => AtMost(work[t], cpu[t])'
      <4>1. PICK w, k : w = work[t] /\ k = cpu[t]
        OBVIOUS
      <4>2. work'[t] = w /\ cpu'[t] = k
        BY <3>1, <4>1 DEF Same
      <4>3. Listed(w)' => Listed(w)
        BY <1>3 DEF Listed
      <4>4. AtMost(w, k) => AtMost(w, k)'
        BY <1>5, <4>3
      <4> QED BY <4>1, <4>2, <4>4
    <3> QED BY <3>1, <3>2, <3>3, DueMoves
  <2> QED BY <2>1 DEF DueIsAhead
<1> QED BY <1>5, <1>7, <1>8, <1>9, <1>10, <1>11, <1>13, <1>14 DEF Rest

(* run_workqueue() takes the first entry off its list. *)
LEMMA TakesWorkKeeps ==
  ASSUME Sound, Follows, NEW c \in CPUs, TakesWork(c)
  PROVE  PendingOwned' /\ Rest'
<1>1. /\ WorkerAt(pc[c], next[c], work[c], cpu[c]) /\ c \in Actors /\ pc[c] = "run"
      /\ worklist[c] # <<>>
  BY LocalFacts, Actor DEF Sound, TakesWork
<1>2. Goes(c, "clear", "idle", Null, 0) /\ Others(c)
  BY MoveFacts, Actor DEF TakesWork, Sound
<1>3. PICK x, l : x = Head(worklist[c]) /\ l = Tail(worklist[c])
  OBVIOUS
<1>4. /\ UNCHANGED <<pending, data, done, global>> /\ online' = online
      /\ current_work'[c] = x /\ worklist'[c] = l
      /\ \A e \in CPUs : e # c => current_work'[e] = current_work[e] /\ worklist'[e] = worklist[e]
  BY <1>3 DEF TakesWork, global, Sound, Types
<1>5. /\ x \in ListEntries(worklist[c]) /\ x \in Works \cup Flushers
      /\ ListEntries(l) = ListEntries(worklist[c]) \ {x} /\ ListOK(l)
      /\ \A y, z : Ahead(worklist[c], y, z) => z # x /\ (y # x => Ahead(l, y, z))
  <2>1. PICK S, s : S = Works \cup Flushers /\ s = worklist[c]
    OBVIOUS
  <2>2. s \in Seq(S)
    BY <2>1 DEF Sound, Types
  <2>3. s # <<>>
    BY <1>1, <2>1
  <2>4. ListOK(s)
    BY <2>1 DEF Sound, Barriers
  <2>5. x = Head(s) /\ l = Tail(s)
    BY <1>3, <2>1
  <2>6. Head(s) \in ListEntries(s) /\ Head(s) \in S
    BY ONLY <2>2, <2>3, FirstFacts
  <2>7. ListEntries(Tail(s)) = ListEntries(s) \ {Head(s)} /\ ListOK(Tail(s))
    BY ONLY <2>2, <2>3, <2>4, FirstFacts
  <2>8. ASSUME NEW y, NEW z, Ahead(s, y, z)
        PROVE  z # Head(s) /\ (y # Head(s) => Ahead(Tail(s), y, z))
    BY ONLY <2>2, <2>3, <2>4, <2>8, TailOrder
  <2> QED BY <2>1, <2>5, <2>6, <2>7, <2>8
<1>6. /\ Thread(c)' = Thread(c) /\ ~Asleep(c)' /\ Clearing(c) = Null /\ Clearing(c)' = x
      /\ Hand(c)' = Hand(c)
  BY <1>1, <1>2, <1>4 DEF WorkerAt, Goes, Thread, Asleep, Clearing, Hand
<1>7. /\ \A e \in Actors : e # c => Same(e)
      /\ \A t \in Tasks : Same(t)
      /\ Same(Hotplug)
      /\ \A e \in Actors : pc'[e] \in {"queue", "insert"} => Same(e)
      /\ Threads'
      /\ \A w, k : AtMost(w, k) /\ (Listed(w)' => Listed(w)) => AtMost(w, k)'
  BY <1>2, <1>4, <1>6, WorkerMoves DEF Goes
<1>8. ASSUME NEW e \in CPUs, e # c
      PROVE  /\ Thread(e)' = Thread(e) /\ (Asleep(e)' <=> Asleep(e)) /\ Clearing(e)' = Clearing(e)
  BY <1>4, <1>7, <1>8, SameViews, SameClearing, Actor
<1>9. ASSUME NEW e \in CPUs, NEW y
      PROVE  /\ y \in ListEntries(worklist'[e]) => y \in ListEntries(worklist[e])
             /\ y # x /\ y \in ListEntries(worklist[e]) => y \in ListEntries(worklist'[e])
  BY <1>4, <1>5
<1>10. PendingOwned'
  <2>1. ASSUME NEW v \in Works, v # x
        PROVE  SameOwner(v)
    <3>1. OthersBoth(c, c) /\ v # c /\ v # Null
      BY <1>2, Actor DEF Others, OthersBoth
    <3>2. \A e \in CPUs : v \in ListEntries(worklist'[e]) <=> v \in ListEntries(worklist[e])
      BY <1>9, <2>1
    <3>3. Clearing(c)' = v <=> Clearing(c) = v
      BY <1>6, <2>1, <3>1
    <3> QED BY <1>1, <1>4, <1>6, <3>1, <3>2, <3>3, OwnerStays
  <2>2. ASSUME x \in Works
        PROVE  Owned(x, "clear", c)'
    <3>1. Owned(x, "list", c)
      BY <1>5, <2>2, OwnerFacts DEF Sound
    <3>2. pending'[x] /\ pc'[x] # "armed" /\ \A b \in Actors : Hand(b)' # x
      <4>1. pending'[x] /\ pc'[x] # "armed"
        BY <1>4, <1>7, <2>2, <3>1, Actor DEF Owned, Same
      <4>2. ASSUME NEW b \in Actors
            PROVE  Hand(b)' # x
        BY <1>6, <1>7, <3>1, SameViews DEF Owned
      <4> QED BY <4>1, <4>2
    <3>3. \A e \in CPUs : x \notin ListEntries(worklist'[e])
      BY <1>4, <1>5, <3>1 DEF Owned
    <3>4. \A e \in CPUs : Clearing(e)' = x <=> c = e
      BY <1>6, <1>8, <3>1 DEF Owned
    <3> QED BY <3>2, <3>3, <3>4 DEF Owned
  <2> QED BY <1>1, <2>1, <2>2, PendingOwnedKept DEF Sound
<1>11. Barriers'
  <2>1. ASSUME NEW f \in Flushers, f # x
        PROVE  BarrierOK(f)'
    <3>1. BarrierOK(f) /\ WaitsOn(f)' = WaitsOn(f)
      BY <1>7, SameViews DEF Sound, Barriers, Flushers
    <3>2. \A e \in CPUs : Clearing(e)' = f => Clearing(e) = f
      BY <1>6, <1>8, <2>1
    <3>3. \A e \in CPUs : f \in ListEntries(worklist'[e]) => f \in ListEntries(worklist[e])
      BY <1>9
    <3> QED BY <1>4, <3>1, <3>2, <3>3, BarrierKept
  <2>2. ASSUME x \in Flushers
        PROVE  BarrierOK(x)'
    <3>1. BarrierOK(x) /\ WaitsOn(x)' = WaitsOn(x) /\ done'[x] = done[x]
      BY <1>4, <1>7, <2>2, SameViews DEF Sound, Barriers, Flushers
    <3>2. WaitsOn(x) = c /\ ~done[x]
      BY <1>5, <3>1 DEF BarrierOK
    <3>3. \A e \in CPUs : x \notin ListEntries(worklist'[e])
      <4>1. ASSUME NEW e \in CPUs, e # c
            PROVE  x \notin ListEntries(worklist[e])
        BY <3>1, <3>2, <4>1 DEF BarrierOK
      <4> QED BY <1>4, <1>5, <4>1
    <3>4. \A e \in CPUs : Clearing(e)' = x => e = c
      <4>1. ASSUME NEW e \in CPUs, e # c
            PROVE  Clearing(e) # x
        BY <3>1, <3>2, <4>1 DEF BarrierOK
      <4> QED BY <1>8, <4>1
    <3> QED BY <3>1, <3>2, <3>3, <3>4 DEF BarrierOK
  <2>3. ASSUME NEW e \in CPUs
        PROVE  ListOK(worklist'[e])
    BY <1>4, <1>5 DEF Sound, Barriers
  <2> QED BY <2>1, <2>2, <2>3 DEF Barriers
<1>12. ASSUME x \in Works
       PROVE  data'[x] = c
  BY <1>4, <1>5, <1>12 DEF Sound, DataIsRight
<1>13. DataIsRight'
  <2>1. ASSUME NEW e \in CPUs, Asleep(e)'
        PROVE  current_work'[e] = Null
    <3>1. e # c
      BY <1>6, <2>1
    <3> QED BY <1>4, <1>8, <2>1, <3>1 DEF Sound, DataIsRight
  <2>2. ASSUME NEW w \in Works, NEW e \in CPUs, Clearing(e)' = w
        PROVE  data'[w] = e
    <3>1. CASE e = c
      BY <1>6, <1>12, <2>2, <3>1
    <3>2. CASE e # c
      BY <1>4, <1>8, <2>2, <3>2 DEF Sound, DataIsRight
    <3> QED BY <3>1, <3>2
  <2>3. \A w \in Works, e \in CPUs : w \in ListEntries(worklist'[e]) => data'[w] = e
    BY <1>4, <1>9 DEF Sound, DataIsRight
  <2>4. ASSUME NEW e \in Actors, pc'[e] = "insert"
        PROVE  data'[work'[e]] = cpu'[e]
    <3>1. Same(e)
      BY <1>7, <2>4
    <3> QED BY <1>4, <2>4, <3>1 DEF Sound, DataIsRight, Same
  <2>5. ASSUME NEW e \in CPUs, current_work'[e] \in Works
        PROVE  data'[current_work'[e]] \in CPUs
    <3>1. CASE e = c
      BY <1>4, <1>12, <2>5, <3>1
    <3>2. CASE e # c
      BY <1>4, <2>5, <3>2 DEF Sound, DataIsRight
    <3> QED BY <3>1, <3>2
  <2> QED BY <2>1, <2>2, <2>3, <2>4, <2>5 DEF DataIsRight
<1>14. ListsAreEmpty'
  <2>1. Drained' => Drained /\ cpu'[Hotplug] = cpu[Hotplug]
    BY <1>4, <1>7, SameHotplug DEF Same
  <2>2. ASSUME NEW e \in CPUs, e # c
        PROVE  EmptyOK(e)'
    BY <1>4, <1>8, <2>1, <2>2, EmptyKept DEF Sound, ListsAreEmpty
  <2>3. EmptyOK(c)'
    BY <1>1, <1>4, <1>6, <2>1, EmptyKept DEF Sound, ListsAreEmpty
  <2> QED BY <2>2, <2>3 DEF ListsAreEmpty
<1>15. Cancelled'
  <2>1. ASSUME NEW t \in Tasks
        PROVE  CancelOK(t)'
    <3>1. CASE next[t] = "clear_pending"
      <4>1. work[t] # x
        BY <1>5, <3>1, CancelHolds DEF Owned
      <4>2. \A e \in CPUs : current_work'[e] = work[t] => current_work[e] = work[t] /\ e # c
        BY <1>4, <4>1
      <4>3. CancelOK(t) /\ Same(t)
        BY <1>7 DEF Sound, Cancelled
      <4> QED BY <1>4, <4>2, <4>3, CancelKept
    <3>2. CASE next[t] # "clear_pending"
      BY <1>7, <3>2, CancelNothing DEF Same
    <3> QED BY <3>1, <3>2
  <2> QED BY <2>1 DEF Cancelled
<1>16. ASSUME NEW t \in Tasks, NEW e \in due'[t]
       PROVE  \E d \in due[t] :
                /\ e.cpu = d.cpu /\ e.work = d.work /\ e.own = d.own
                /\ d.cpu # c => e.phase = d.phase
                /\ d.cpu = c => /\ d.phase = "queued" /\ d.work \in ListEntries(worklist[c])
                                /\ e.phase = IF d.work = x THEN "running" ELSE "queued"
  <2>1. due[t] \in SUBSET Due /\ e \in Progress(c, due[t])
    BY DEF Sound, Types, TakesWork
  <2>2. PICK d \in due[t] :
              /\ ~(d.cpu = c /\ d.phase = "running" /\ d.work = current_work[c])
              /\ e.cpu = d.cpu /\ e.work = d.work /\ e.own = d.own
              /\ e.phase = IF d.cpu = c /\ worklist[c] # <<>> /\ d.work = Head(worklist[c])
                           THEN "running" ELSE d.phase
    BY <2>1, ProgressFacts
  <2>3. d \in Due /\ DueThere(d)
    BY DueFacts
  <2>4. ASSUME d.cpu = c
        PROVE  d.phase = "queued" /\ d.work \in ListEntries(worklist[c])
    <3>1. d.phase = "running" \/ d.phase = "queued"
      BY <2>3 DEF Due
    <3> QED BY <2>2, <2>3, <2>4, <3>1 DEF DueThere
  <2> QED BY <1>1, <1>3, <2>2, <2>4
<1>17. DueIsThere'
  <2>1. ASSUME NEW t \in Tasks, NEW e \in due'[t]
        PROVE  DueThere(e)'
    <3>1. PICK d \in due[t] :
                /\ e.cpu = d.cpu /\ e.work = d.work
                /\ d.cpu # c => e.phase = d.phase
                /\ d.cpu = c => /\ d.phase = "queued" /\ d.work \in ListEntries(worklist[c])
                                /\ e.phase = IF d.work = x THEN "running" ELSE "queued"
      BY <1>16
    <3>2. DueThere(d) /\ d.cpu \in CPUs
      BY DueFacts
    <3>3. CASE d.cpu = c
      BY <1>4, <1>9, <3>1, <3>3 DEF DueThere
    <3>4. CASE d.cpu # c
      BY <1>4, <3>1, <3>2, <3>4 DEF DueThere
    <3> QED BY <3>3, <3>4
  <2> QED BY <2>1 DEF DueIsThere
<1>18. DueIsAhead'
  <2>1. ASSUME NEW t \in Tasks
        PROVE  DueOK(t)'
    <3>1. Same(t) /\ DueOK(t)
      BY <1>7 DEF Sound, DueIsAhead
    <3>2. ASSUME NEW e \in due'[t]
          PROVE  \E d \in due[t] : /\ e.cpu = d.cpu /\ e.work = d.work /\ e.own = d.own
                                   /\ Behind(t, d) => Behind(t, e)'
      <4>1. PICK d \in due[t] :
                /\ e.cpu = d.cpu /\ e.work = d.work /\ e.own = d.own
                /\ d.cpu # c => e.phase = d.phase
                /\ d.cpu = c => /\ d.phase = "queued" /\ d.work \in ListEntries(worklist[c])
                                /\ e.phase = IF d.work = x THEN "running" ELSE "queued"
        BY <1>16, <3>2
      <4>2. ASSUME Behind(t, d)
            PROVE  Behind(t, e)'
        <5>1. CASE d.cpu = c
          <6>1. t \in ListEntries(worklist[c]) /\ Ahead(worklist[c], d.work, t)
            BY <4>1, <4>2, <5>1 DEF Behind
          <6>2. t # x /\ (d.work # x => Ahead(worklist'[c], d.work, t))
            BY <1>4, <1>5, <6>1
          <6>3. t \in ListEntries(worklist'[c])
            BY <1>9, <6>1, <6>2
          <6>4. e.phase = "queued" => d.work # x
            BY <4>1, <5>1
          <6> QED BY <4>1, <5>1, <6>2, <6>3, <6>4 DEF Behind
        <5>2. CASE d.cpu # c
          <6>1. d.cpu \in CPUs
            BY DueFacts
          <6>2. worklist'[d.cpu] = worklist[d.cpu]
            BY <1>4, <5>2, <6>1
          <6> QED BY <4>1, <4>2, <5>2, <6>2 DEF Behind
        <5> QED BY <5>1, <5>2
      <4> QED BY <4>1, <4>2
    <3>3. AtMost(work[t], cpu[t]) => AtMost(work[t], cpu[t])'
      <4>1. PICK w, k : w = work[t] /\ k = cpu[t]
        OBVIOUS
      <4>2. work'[t] = w /\ cpu'[t] = k
        BY <3>1, <4>1 DEF Same
      <4>3. Listed(w)' => Listed(w)
        BY <1>9 DEF Listed
      <4>4. AtMost(w, k) => AtMost(w, k)'
        BY <1>7, <4>3
      <4> QED BY <4>1, <4>2, <4>4
    <3> QED BY <3>1, <3>2, <3>3, DueMoves
  <2> QED BY <2>1 DEF DueIsAhead
<1> QED BY <1>7, <1>10, <1>11, <1>13, <1>14, <1>15, <1>17, <1>18 DEF Rest

------------------------------------------------------------------------------
(* The steps of Hotplug. *)

(* Hotplug moves, and perhaps a worker that sleeps or is not there: the    *)
(* lists and the PENDING bits are none of their business.                  *)
LEMMA HotplugCalm ==
  ASSUME Sound, Follows, NEW h \in CPUs, OthersBoth(Hotplug, h), work'[Hotplug] = Null,
         Same(h) \/ (Asleep(h) /\ Asleep(h)' /\ next'[h] = next[h] /\ work'[h] = work[h]),
         pc'[Hotplug] \notin {"queue", "insert"},
         UNCHANGED <<pending, data, worklist, current_work, due>>,
         \A t \in Tasks : done'[t] = done[t],
         WaitsOn(Hotplug) = 0 \/ done[Hotplug]
  PROVE  /\ PendingOwned' /\ Barriers' /\ DataIsRight' /\ Cancelled' /\ DueIsThere' /\ DueIsAhead'
         /\ \A e \in CPUs : e # h => Thread(e)' = Thread(e) /\ (Asleep(e)' <=> Asleep(e))
         /\ \A a \in Actors : pc'[a] \in {"queue", "insert"} => Same(a) /\ cpu[a] \in online
<1>1. /\ \A a \in Actors : a # Hotplug /\ a # h => Same(a)
      /\ \A t \in Tasks : Same(t)
      /\ \A w \in Works : Same(w)
  BY Actor DEF OthersBoth
<1>2. WorkerAt(pc[h], next[h], work[h], cpu[h]) /\ work[Hotplug] = Null
  BY LocalFacts DEF Sound, HotplugAt
<1>3. Hand(Hotplug) = Null /\ Hand(Hotplug)' = Null
  BY <1>2 DEF Hand
<1>4. /\ Clearing(h)' = Clearing(h) /\ Hand(h)' = Hand(h) /\ (Asleep(h)' <=> Asleep(h))
      /\ pc'[h] \in {"queue", "insert"} => Same(h)
  <2>1. CASE Same(h)
    BY <2>1, SameViews, SameClearing
  <2>2. CASE ~Same(h)
    <3>1. Asleep(h) /\ Asleep(h)' /\ next'[h] = next[h] /\ work'[h] = work[h]
      BY <2>2
    <3>2. next[h] = "idle" /\ work[h] = Null
      BY <1>2, <3>1 DEF WorkerAt, Asleep
    <3> QED BY <3>1, <3>2 DEF Asleep, Clearing, Hand
  <2> QED BY <2>1, <2>2
<1>5. ASSUME NEW e \in CPUs, e # h
      PROVE  /\ Thread(e)' = Thread(e) /\ (Asleep(e)' <=> Asleep(e)) /\ Clearing(e)' = Clearing(e)
  <2>1. Same(e)
    BY <1>1, <1>5, Actor
  <2> QED BY <2>1, SameViews, SameClearing
<1>6. PendingOwned'
  <2>1. ASSUME NEW v \in Works
        PROVE  SameOwner(v)
    <3>1. v # Hotplug /\ v # h /\ Hotplug \in Actors /\ h \in Actors /\ Hotplug \notin CPUs
      BY Actor
    <3>2. /\ Hand(Hotplug)' = v <=> Hand(Hotplug) = v
          /\ Hand(h)' = v <=> Hand(h) = v
          /\ Clearing(h)' = v <=> Clearing(h) = v
      BY <1>3, <1>4
    <3> QED BY <3>1, <3>2, OwnerStays
  <2> QED BY <2>1, OwnersKept DEF Sound
<1>7. \A a \in Actors : pc'[a] \in {"queue", "insert"} => Same(a) /\ cpu[a] \in online
  <2>1. ASSUME NEW a \in Actors, pc'[a] \in {"queue", "insert"}
        PROVE  Same(a)
    BY <1>1, <1>4, <2>1
  <2>2. ASSUME NEW a \in Actors, pc'[a] \in {"queue", "insert"}
        PROVE  cpu[a] \in online
    <3>1. pc[a] \in {"queue", "insert"}
      BY <2>1, <2>2 DEF Same
    <3> QED BY <3>1 DEF Sound, Threads, Settled
  <2> QED BY <2>1, <2>2
<1>8. Calm
  <2>1. ASSUME NEW t \in Tasks
        PROVE  WaitsOn(t)' = WaitsOn(t) /\ done'[t] = done[t]
    BY <1>1, SameViews
  <2>2. \A c \in CPUs : (Asleep(c)' => Asleep(c)) /\ Clearing(c)' = Clearing(c)
    BY <1>4, <1>5
  <2>3. \A c \in CPUs : Hotplug \notin ListEntries(worklist[c]) /\ Clearing(c)' # Hotplug
    BY <2>2, BarrierFree, Actor DEF Sound, Barriers
  <2> QED BY <1>1, <1>7, <2>1, <2>2, <2>3 DEF Calm, Flushers
<1> QED BY <1>5, <1>6, <1>7, <1>8, CalmKeeps

(* The steps of cpu_down(), cpu_up() and destroy_workqueue() that leave the *)
(* lists alone.                                                            *)
LEMMA HotplugSteps ==
  ASSUME Sound, Follows
  PROVE  /\ \A c \in CPUs : GoesDown(c) => PendingOwned' /\ Rest'
         /\ \A c \in CPUs : GoesUp(c) => PendingOwned' /\ Rest'
         /\ \A c \in CPUs : SkipsFlush(c) => PendingOwned' /\ Rest'
         /\ \A c \in CPUs : CleanupWaited(c) => PendingOwned' /\ Rest'
         /\ \A c \in CPUs : Stops(c) => PendingOwned' /\ Rest'
         /\ \A c \in CPUs : SeesExit(c) => PendingOwned' /\ Rest'
         /\ \A c \in CPUs : Unpopulates(c) => PendingOwned' /\ Rest'
         /\ \A c \in CPUs : Creates(c) => PendingOwned' /\ Rest'
         /\ \A c \in CPUs : CreateFails(c) => PendingOwned' /\ Rest'
         /\ \A c \in CPUs : ComesUp(c) => PendingOwned' /\ Rest'
         /\ \A c \in CPUs : UpCanceled(c) => PendingOwned' /\ Rest'
         /\ \A c \in CPUs : StartsThread(c) => PendingOwned' /\ Rest'
         /\ \A c \in CPUs : DestroyVisits(c) => PendingOwned' /\ Rest'
         /\ Destroys => PendingOwned' /\ Rest'
         /\ DestroyEnds => PendingOwned' /\ Rest'
<1>1. ASSUME NEW c \in CPUs, GoesDown(c)
      PROVE  PendingOwned' /\ Rest'
  <2>1. HotplugAt(pc[Hotplug], next[Hotplug], work[Hotplug],
          cpu[Hotplug]) /\ c \in Actors /\ c # Hotplug
    BY LocalFacts, Actor DEF Sound
  <2>2. pc[Hotplug] = "idle" /\ next[Hotplug] = "idle" /\ cpu[Hotplug] = 0
    BY <1>1, <2>1, Actor DEF GoesDown, HotplugAt
  <2>3. /\ pc'[Hotplug] = "cleanup" /\ next'[Hotplug] = "unpopulate"
        /\ work'[Hotplug] = Null /\ cpu'[Hotplug] = c
        /\ OthersBoth(Hotplug, c) /\ Same(c)
    BY <1>1, <2>1, MoveFacts, Actor DEF GoesDown, Sound, Goes, Others, OthersBoth
  <2>4. /\ UNCHANGED <<pending, data, worklist, current_work, due>>
        /\ \A t \in Tasks : done'[t] = done[t]
        /\ online' = online \ {c} /\ populated' = populated
        /\ should_stop' = should_stop
    BY <1>1, Actor DEF GoesDown, lists, global, Sound, Types
  <2>5. HotplugOK /\ ThreadOK(c) /\ EmptyOK(c) /\ \A e \in CPUs : ThreadOK(e) /\ EmptyOK(e)
    BY DEF Sound, Threads, ListsAreEmpty
  <2>6. Thread(c)' = Thread(c) /\ (Asleep(c)' <=> Asleep(c))
    BY <2>3, SameViews
  <2>7. WaitsOn(Hotplug) = 0 \/ done[Hotplug]
    BY <1>1, <2>2 DEF GoesDown, WaitsOn
  <2>8. /\ PendingOwned' /\ Barriers' /\ DataIsRight' /\ Cancelled' /\ DueIsThere' /\ DueIsAhead'
        /\ \A e \in CPUs : e # c => Thread(e)' = Thread(e) /\ (Asleep(e)' <=> Asleep(e))
        /\ \A a \in Actors : pc'[a] \in {"queue", "insert"} => Same(a) /\ cpu[a] \in online
    <3>1. pc'[Hotplug] \notin {"queue", "insert"}
      BY <2>2, <2>3
    <3>2. Same(c) \/ (Asleep(c) /\ Asleep(c)' /\ next'[c] = next[c] /\ work'[c] = work[c])
      BY <2>3, <2>6
    <3> QED BY <2>3, <2>4, <2>7, <3>1, <3>2, HotplugCalm
  <2>9. c \in online /\ c \in populated
    BY <1>1, <2>5 DEF GoesDown, ThreadOK
  <2>10. HotplugOK'
    BY <2>2, <2>3, <2>4, <2>5, <2>6, <2>9 DEF HotplugOK, Destroying
  <2>11. ASSUME NEW e \in CPUs
         PROVE  ThreadOK(e)'
    <3>1. CASE e = c
      BY <2>2, <2>3, <2>4, <2>5, <2>6, <2>8, <2>9, <3>1, Actor DEF ThreadOK, HotplugOK, Destroying
    <3>2. CASE e # c
      <4>1. ThreadOK(e) /\ Thread(e)' = Thread(e) /\ e # 0
        BY <2>5, <2>8, <3>2, Actor
      <4> QED BY <2>2, <2>3, <2>4, <2>5, <2>9, <3>2, <4>1 DEF ThreadOK, HotplugOK, Destroying
    <3> QED BY <3>1, <3>2
  <2>12. Settled'
    <3>1. \A a \in Actors : pc'[a] \in {"queue", "insert"} => cpu'[a] \in online'
      BY <1>1, <2>4, <2>8 DEF Same, GoesDown
    <3>2. Destroying' => Destroying
      BY <2>2, <2>3 DEF Destroying
    <3> QED BY <3>1, <3>2, SettledKept DEF Sound, Threads
  <2>13. ASSUME NEW e \in CPUs
         PROVE  EmptyOK(e)'
    <3>1. Drained' => Drained /\ cpu'[Hotplug] = cpu[Hotplug]
      BY <1>1, <2>2, <2>3 DEF Drained, GoesDown
    <3>2. CASE e = c
      <4>1. MustBeEmpty(c)' => MustBeEmpty(c)
        BY <2>2, <2>3, <2>4, <2>5, <2>6, <3>1, <2>9 DEF MustBeEmpty, Drained, ThreadOK, HotplugOK
      <4> QED BY <2>4, <2>5, <3>2, <4>1 DEF EmptyOK
    <3>3. CASE e # c
      <4>1. MustBeEmpty(e)' => MustBeEmpty(e)
        BY <2>2, <2>3, <2>4, <2>8, <3>1, <3>3 DEF MustBeEmpty
      <4> QED BY <2>4, <2>5, <4>1 DEF EmptyOK
    <3> QED BY <3>2, <3>3
  <2> QED BY <2>8, <2>10, <2>11, <2>12, <2>13 DEF Rest, Threads, ListsAreEmpty
<1>2. ASSUME NEW c \in CPUs, GoesUp(c)
      PROVE  PendingOwned' /\ Rest'
  <2>1. HotplugAt(pc[Hotplug], next[Hotplug], work[Hotplug],
          cpu[Hotplug]) /\ c \in Actors /\ c # Hotplug
    BY LocalFacts, Actor DEF Sound
  <2>2. pc[Hotplug] = "idle" /\ next[Hotplug] = "idle" /\ cpu[Hotplug] = 0
    BY <1>2, <2>1, Actor DEF GoesUp, HotplugAt
  <2>3. /\ pc'[Hotplug] = "create" /\ next'[Hotplug] = "unpopulate"
        /\ work'[Hotplug] = Null /\ cpu'[Hotplug] = c
        /\ OthersBoth(Hotplug, c) /\ Same(c)
    BY <1>2, <2>1, MoveFacts, Actor DEF GoesUp, Sound, Goes, Others, OthersBoth
  <2>4. /\ UNCHANGED <<pending, data, worklist, current_work, due>>
        /\ \A t \in Tasks : done'[t] = done[t]
        /\ online' = online /\ populated' = populated \cup {c}
        /\ should_stop' = should_stop
    BY <1>2, Actor DEF GoesUp, lists, global, Sound, Types
  <2>5. HotplugOK /\ ThreadOK(c) /\ EmptyOK(c) /\ \A e \in CPUs : ThreadOK(e) /\ EmptyOK(e)
    BY DEF Sound, Threads, ListsAreEmpty
  <2>6. Thread(c)' = Thread(c) /\ (Asleep(c)' <=> Asleep(c))
    BY <2>3, SameViews
  <2>7. WaitsOn(Hotplug) = 0 \/ done[Hotplug]
    BY <1>2, <2>2 DEF GoesUp, WaitsOn
  <2>8. /\ PendingOwned' /\ Barriers' /\ DataIsRight' /\ Cancelled' /\ DueIsThere' /\ DueIsAhead'
        /\ \A e \in CPUs : e # c => Thread(e)' = Thread(e) /\ (Asleep(e)' <=> Asleep(e))
        /\ \A a \in Actors : pc'[a] \in {"queue", "insert"} => Same(a) /\ cpu[a] \in online
    <3>1. pc'[Hotplug] \notin {"queue", "insert"}
      BY <2>2, <2>3
    <3>2. Same(c) \/ (Asleep(c) /\ Asleep(c)' /\ next'[c] = next[c] /\ work'[c] = work[c])
      BY <2>3, <2>6
    <3> QED BY <2>3, <2>4, <2>7, <3>1, <3>2, HotplugCalm
  <2>9. c \notin populated /\ Thread(c) = "no thread" /\ c \notin online
    BY <1>2, <2>2, <2>5 DEF GoesUp, ThreadOK
  <2>10. HotplugOK'
    BY <2>2, <2>3, <2>4, <2>5, <2>6, <2>9 DEF HotplugOK, Destroying
  <2>11. ASSUME NEW e \in CPUs
         PROVE  ThreadOK(e)'
    <3>1. CASE e = c
      BY <2>2, <2>3, <2>4, <2>5, <2>6, <2>8, <2>9, <3>1, Actor DEF ThreadOK, HotplugOK, Destroying
    <3>2. CASE e # c
      <4>1. ThreadOK(e) /\ Thread(e)' = Thread(e) /\ e # 0
        BY <2>5, <2>8, <3>2, Actor
      <4> QED BY <2>2, <2>3, <2>4, <2>5, <2>9, <3>2, <4>1 DEF ThreadOK, HotplugOK, Destroying
    <3> QED BY <3>1, <3>2
  <2>12. Settled'
    <3>1. \A a \in Actors : pc'[a] \in {"queue", "insert"} => cpu'[a] \in online'
      BY <2>4, <2>8 DEF Same
    <3>2. Destroying' => Destroying
      BY <2>2, <2>3 DEF Destroying
    <3> QED BY <3>1, <3>2, SettledKept DEF Sound, Threads
  <2>13. ASSUME NEW e \in CPUs
         PROVE  EmptyOK(e)'
    <3>1. Drained' => Drained /\ cpu'[Hotplug] = cpu[Hotplug]
      BY <1>2, <2>2, <2>3 DEF Drained, GoesUp
    <3>2. CASE e = c
      <4>1. MustBeEmpty(c)' => MustBeEmpty(c)
        BY <2>2, <2>3, <2>4, <2>5, <2>6, <3>1, <2>9 DEF MustBeEmpty, Drained, ThreadOK, HotplugOK
      <4> QED BY <2>4, <2>5, <3>2, <4>1 DEF EmptyOK
    <3>3. CASE e # c
      <4>1. MustBeEmpty(e)' => MustBeEmpty(e)
        BY <2>2, <2>3, <2>4, <2>8, <3>1, <3>3 DEF MustBeEmpty
      <4> QED BY <2>4, <2>5, <4>1 DEF EmptyOK
    <3> QED BY <3>2, <3>3
  <2> QED BY <2>8, <2>10, <2>11, <2>12, <2>13 DEF Rest, Threads, ListsAreEmpty
<1>3. ASSUME NEW c \in CPUs, SkipsFlush(c)
      PROVE  PendingOwned' /\ Rest'
  <2>1. HotplugAt(pc[Hotplug], next[Hotplug], work[Hotplug],
          cpu[Hotplug]) /\ c \in Actors /\ c # Hotplug
    BY LocalFacts, Actor DEF Sound
  <2>2. pc[Hotplug] = "cleanup" /\ next[Hotplug] \in {"unpopulate",
          "destroy_scan"} /\ cpu[Hotplug] = c
    BY <1>3, <2>1, Actor DEF SkipsFlush, HotplugAt
  <2>3. /\ pc'[Hotplug] = "kthread_stop" /\ next'[Hotplug] = next[Hotplug]
        /\ work'[Hotplug] = Null /\ cpu'[Hotplug] = c
        /\ OthersBoth(Hotplug, c) /\ Same(c)
    BY <1>3, <2>1, MoveFacts, Actor DEF SkipsFlush, Quiet, Sound, Goes, Others, OthersBoth
  <2>4. /\ UNCHANGED <<pending, data, worklist, current_work, due>>
        /\ \A t \in Tasks : done'[t] = done[t]
        /\ online' = online /\ populated' = populated
        /\ should_stop' = should_stop
    BY <1>3, Actor DEF SkipsFlush, Quiet, lists, global, Sound, Types
  <2>5. HotplugOK /\ ThreadOK(c) /\ EmptyOK(c) /\ \A e \in CPUs : ThreadOK(e) /\ EmptyOK(e)
    BY DEF Sound, Threads, ListsAreEmpty
  <2>6. Thread(c)' = Thread(c) /\ (Asleep(c)' <=> Asleep(c))
    BY <2>3, SameViews
  <2>7. WaitsOn(Hotplug) = 0 \/ done[Hotplug]
    BY <1>3, <2>2 DEF SkipsFlush, Quiet, WaitsOn
  <2>8. /\ PendingOwned' /\ Barriers' /\ DataIsRight' /\ Cancelled' /\ DueIsThere' /\ DueIsAhead'
        /\ \A e \in CPUs : e # c => Thread(e)' = Thread(e) /\ (Asleep(e)' <=> Asleep(e))
        /\ \A a \in Actors : pc'[a] \in {"queue", "insert"} => Same(a) /\ cpu[a] \in online
    <3>1. pc'[Hotplug] \notin {"queue", "insert"}
      BY <2>2, <2>3
    <3>2. Same(c) \/ (Asleep(c) /\ Asleep(c)' /\ next'[c] = next[c] /\ work'[c] = work[c])
      BY <2>3, <2>6
    <3> QED BY <2>3, <2>4, <2>7, <3>1, <3>2, HotplugCalm
  <2>9. \A e \in CPUs : Destroying /\ Destroying' => (Finished(e)' <=> Finished(e))
    BY <2>2, <2>3 DEF Finished, Destroying
  <2>10. HotplugOK'
    BY <2>2, <2>3, <2>4, <2>5, <2>6, <2>9 DEF HotplugOK, Destroying
  <2>11. ASSUME NEW e \in CPUs
         PROVE  ThreadOK(e)'
    <3>1. CASE e = c
      BY <2>2, <2>3, <2>4, <2>5, <2>6, <2>8, <2>9, <3>1, Actor DEF ThreadOK, HotplugOK, Destroying
    <3>2. CASE e # c
      <4>1. ThreadOK(e) /\ Thread(e)' = Thread(e) /\ e # 0
        BY <2>5, <2>8, <3>2, Actor
      <4> QED BY <2>2, <2>3, <2>4, <2>5, <2>9, <3>2, <4>1 DEF ThreadOK, HotplugOK, Destroying
    <3> QED BY <3>1, <3>2
  <2>12. Settled'
    <3>1. \A a \in Actors : pc'[a] \in {"queue", "insert"} => cpu'[a] \in online'
      BY <2>4, <2>8 DEF Same
    <3>2. Destroying' => Destroying
      BY <2>2, <2>3 DEF Destroying
    <3> QED BY <3>1, <3>2, SettledKept DEF Sound, Threads
  <2>13. ASSUME NEW e \in CPUs
         PROVE  EmptyOK(e)'
    <3>1. worklist[c] = <<>>
      BY <1>3 DEF SkipsFlush, Active
    <3>2. MustBeEmpty(e)' => MustBeEmpty(e) \/ e = c
      BY <2>3, <2>4, <2>6, <2>8 DEF MustBeEmpty
    <3> QED BY <2>4, <2>5, <3>1, <3>2 DEF EmptyOK
  <2> QED BY <2>8, <2>10, <2>11, <2>12, <2>13 DEF Rest, Threads, ListsAreEmpty
<1>4. ASSUME NEW c \in CPUs, CleanupWaited(c)
      PROVE  PendingOwned' /\ Rest'
  <2>1. HotplugAt(pc[Hotplug], next[Hotplug], work[Hotplug],
          cpu[Hotplug]) /\ c \in Actors /\ c # Hotplug
    BY LocalFacts, Actor DEF Sound
  <2>2. pc[Hotplug] = "cleanup_wait" /\ next[Hotplug] \in {"unpopulate",
          "destroy_scan"} /\ cpu[Hotplug] = c
    BY <1>4, <2>1, Actor DEF CleanupWaited, HotplugAt
  <2>3. /\ pc'[Hotplug] = "kthread_stop" /\ next'[Hotplug] = next[Hotplug]
        /\ work'[Hotplug] = Null /\ cpu'[Hotplug] = c
        /\ OthersBoth(Hotplug, c) /\ Same(c)
    BY <1>4, <2>1, MoveFacts, Actor DEF CleanupWaited, Waited, Sound, Goes, Others, OthersBoth
  <2>4. /\ UNCHANGED <<pending, data, worklist, current_work, due>>
        /\ \A t \in Tasks : done'[t] = done[t]
        /\ online' = online /\ populated' = populated
        /\ should_stop' = should_stop
    BY <1>4, Actor DEF CleanupWaited, Waited, lists, global, Sound, Types
  <2>5. HotplugOK /\ ThreadOK(c) /\ EmptyOK(c) /\ \A e \in CPUs : ThreadOK(e) /\ EmptyOK(e)
    BY DEF Sound, Threads, ListsAreEmpty
  <2>6. Thread(c)' = Thread(c) /\ (Asleep(c)' <=> Asleep(c))
    BY <2>3, SameViews
  <2>7. WaitsOn(Hotplug) = 0 \/ done[Hotplug]
    BY <1>4, <2>2 DEF CleanupWaited, Waited, WaitsOn
  <2>8. /\ PendingOwned' /\ Barriers' /\ DataIsRight' /\ Cancelled' /\ DueIsThere' /\ DueIsAhead'
        /\ \A e \in CPUs : e # c => Thread(e)' = Thread(e) /\ (Asleep(e)' <=> Asleep(e))
        /\ \A a \in Actors : pc'[a] \in {"queue", "insert"} => Same(a) /\ cpu[a] \in online
    <3>1. pc'[Hotplug] \notin {"queue", "insert"}
      BY <2>2, <2>3
    <3>2. Same(c) \/ (Asleep(c) /\ Asleep(c)' /\ next'[c] = next[c] /\ work'[c] = work[c])
      BY <2>3, <2>6
    <3> QED BY <2>3, <2>4, <2>7, <3>1, <3>2, HotplugCalm
  <2>9. \A e \in CPUs : Destroying /\ Destroying' => (Finished(e)' <=> Finished(e))
    BY <2>2, <2>3 DEF Finished, Destroying
  <2>10. HotplugOK'
    BY <2>2, <2>3, <2>4, <2>5, <2>6, <2>9 DEF HotplugOK, Destroying
  <2>11. ASSUME NEW e \in CPUs
         PROVE  ThreadOK(e)'
    <3>1. CASE e = c
      BY <2>2, <2>3, <2>4, <2>5, <2>6, <2>8, <2>9, <3>1, Actor DEF ThreadOK, HotplugOK, Destroying
    <3>2. CASE e # c
      <4>1. ThreadOK(e) /\ Thread(e)' = Thread(e) /\ e # 0
        BY <2>5, <2>8, <3>2, Actor
      <4> QED BY <2>2, <2>3, <2>4, <2>5, <2>9, <3>2, <4>1 DEF ThreadOK, HotplugOK, Destroying
    <3> QED BY <3>1, <3>2
  <2>12. Settled'
    <3>1. \A a \in Actors : pc'[a] \in {"queue", "insert"} => cpu'[a] \in online'
      BY <2>4, <2>8 DEF Same
    <3>2. Destroying' => Destroying
      BY <2>2, <2>3 DEF Destroying
    <3> QED BY <3>1, <3>2, SettledKept DEF Sound, Threads
  <2>13. ASSUME NEW e \in CPUs
         PROVE  EmptyOK(e)'
    <3>1. Drained' => Drained /\ cpu'[Hotplug] = cpu[Hotplug]
      BY <1>4, <2>2, <2>3 DEF Drained, CleanupWaited, Waited
    <3>2. CASE e = c
      <4>1. MustBeEmpty(c)' => MustBeEmpty(c)
        BY <2>2, <2>3, <2>4, <2>5, <2>6, <3>1, <2>9 DEF MustBeEmpty, Drained, ThreadOK, HotplugOK
      <4> QED BY <2>4, <2>5, <3>2, <4>1 DEF EmptyOK
    <3>3. CASE e # c
      <4>1. MustBeEmpty(e)' => MustBeEmpty(e)
        BY <2>2, <2>3, <2>4, <2>8, <3>1, <3>3 DEF MustBeEmpty
      <4> QED BY <2>4, <2>5, <4>1 DEF EmptyOK
    <3> QED BY <3>2, <3>3
  <2> QED BY <2>8, <2>10, <2>11, <2>12, <2>13 DEF Rest, Threads, ListsAreEmpty
<1>5. ASSUME NEW c \in CPUs, Stops(c)
      PROVE  PendingOwned' /\ Rest'
  <2>1. HotplugAt(pc[Hotplug], next[Hotplug], work[Hotplug],
          cpu[Hotplug]) /\ c \in Actors /\ c # Hotplug
    BY LocalFacts, Actor DEF Sound
  <2>2. pc[Hotplug] = "kthread_stop" /\ next[Hotplug] \in {"unpopulate",
          "destroy_scan"} /\ cpu[Hotplug] = c
    BY <1>5, <2>1, Actor DEF Stops, HotplugAt
  <2>3. /\ pc'[Hotplug] = "wait_exited" /\ next'[Hotplug] = next[Hotplug]
        /\ work'[Hotplug] = Null /\ cpu'[Hotplug] = c
        /\ OthersBoth(Hotplug, c) /\ Same(c)
    BY <1>5, <2>1, MoveFacts, Actor DEF Stops, Sound, Goes, Others, OthersBoth
  <2>4. /\ UNCHANGED <<pending, data, worklist, current_work, due>>
        /\ \A t \in Tasks : done'[t] = done[t]
        /\ online' = online /\ populated' = populated
        /\ should_stop'[c] = TRUE /\ \A e \in CPUs : e # c => should_stop'[e] = should_stop[e]
    BY <1>5, Actor DEF Stops, lists, global, Sound, Types
  <2>5. HotplugOK /\ ThreadOK(c) /\ EmptyOK(c) /\ \A e \in CPUs : ThreadOK(e) /\ EmptyOK(e)
    BY DEF Sound, Threads, ListsAreEmpty
  <2>6. Thread(c)' = Thread(c) /\ (Asleep(c)' <=> Asleep(c))
    BY <2>3, SameViews
  <2>7. WaitsOn(Hotplug) = 0 \/ done[Hotplug]
    BY <1>5, <2>2 DEF Stops, WaitsOn
  <2>8. /\ PendingOwned' /\ Barriers' /\ DataIsRight' /\ Cancelled' /\ DueIsThere' /\ DueIsAhead'
        /\ \A e \in CPUs : e # c => Thread(e)' = Thread(e) /\ (Asleep(e)' <=> Asleep(e))
        /\ \A a \in Actors : pc'[a] \in {"queue", "insert"} => Same(a) /\ cpu[a] \in online
    <3>1. pc'[Hotplug] \notin {"queue", "insert"}
      BY <2>2, <2>3
    <3>2. Same(c) \/ (Asleep(c) /\ Asleep(c)' /\ next'[c] = next[c] /\ work'[c] = work[c])
      BY <2>3, <2>6
    <3> QED BY <2>3, <2>4, <2>7, <3>1, <3>2, HotplugCalm
  <2>9. \A e \in CPUs : Destroying /\ Destroying' => (Finished(e)' <=> Finished(e))
    BY <2>2, <2>3 DEF Finished, Destroying
  <2>10. HotplugOK'
    BY <2>2, <2>3, <2>4, <2>5, <2>6, <2>9 DEF HotplugOK, Destroying
  <2>11. ASSUME NEW e \in CPUs
         PROVE  ThreadOK(e)'
    <3>1. CASE e = c
      BY <2>2, <2>3, <2>4, <2>5, <2>6, <2>8, <2>9, <3>1, Actor DEF ThreadOK, HotplugOK, Destroying
    <3>2. CASE e # c
      <4>1. ThreadOK(e) /\ Thread(e)' = Thread(e) /\ e # 0
        BY <2>5, <2>8, <3>2, Actor
      <4> QED BY <2>2, <2>3, <2>4, <2>5, <2>9, <3>2, <4>1 DEF ThreadOK, HotplugOK, Destroying
    <3> QED BY <3>1, <3>2
  <2>12. Settled'
    <3>1. \A a \in Actors : pc'[a] \in {"queue", "insert"} => cpu'[a] \in online'
      BY <2>4, <2>8 DEF Same
    <3>2. Destroying' => Destroying
      BY <2>2, <2>3 DEF Destroying
    <3> QED BY <3>1, <3>2, SettledKept DEF Sound, Threads
  <2>13. ASSUME NEW e \in CPUs
         PROVE  EmptyOK(e)'
    <3>1. Drained' => Drained /\ cpu'[Hotplug] = cpu[Hotplug]
      BY <1>5, <2>2, <2>3 DEF Drained, Stops
    <3>2. CASE e = c
      <4>1. MustBeEmpty(c)' => MustBeEmpty(c)
        BY <2>2, <2>3, <2>4, <2>5, <2>6, <3>1, <2>9 DEF MustBeEmpty, Drained, ThreadOK, HotplugOK
      <4> QED BY <2>4, <2>5, <3>2, <4>1 DEF EmptyOK
    <3>3. CASE e # c
      <4>1. MustBeEmpty(e)' => MustBeEmpty(e)
        BY <2>2, <2>3, <2>4, <2>8, <3>1, <3>3 DEF MustBeEmpty
      <4> QED BY <2>4, <2>5, <4>1 DEF EmptyOK
    <3> QED BY <3>2, <3>3
  <2> QED BY <2>8, <2>10, <2>11, <2>12, <2>13 DEF Rest, Threads, ListsAreEmpty
<1>6. ASSUME NEW c \in CPUs, SeesExit(c)
      PROVE  PendingOwned' /\ Rest'
  <2>1. HotplugAt(pc[Hotplug], next[Hotplug], work[Hotplug],
          cpu[Hotplug]) /\ c \in Actors /\ c # Hotplug
    BY LocalFacts, Actor DEF Sound
  <2>2. pc[Hotplug] = "wait_exited" /\ next[Hotplug] \in {"unpopulate",
          "destroy_scan"} /\ cpu[Hotplug] = c
    BY <1>6, <2>1, Actor DEF SeesExit, HotplugAt
  <2>3. /\ pc'[Hotplug] = next[Hotplug] /\ next'[Hotplug] = next[Hotplug]
        /\ work'[Hotplug] = Null /\ cpu'[Hotplug] = c
        /\ OthersBoth(Hotplug, c)
        /\ pc'[c] = "no thread" /\ next'[c] = next[c] /\ work'[c] = work[c]
    <3>1. PICK n : n = next[Hotplug]
      OBVIOUS
    <3>2. MoveBoth(Hotplug, n, n, Null, c, c, "no thread")
      BY <1>6, <3>1 DEF SeesExit
    <3>3. Types /\ Hotplug \in Actors /\ c \in Actors /\ Hotplug # c
      BY Actor DEF Sound
    <3>4. /\ Goes(Hotplug, n, n, Null, c) /\ OthersBoth(Hotplug, c)
          /\ Goes(c, "no thread", next[c], work[c], cpu[c])
      BY ONLY <3>2, <3>3, MoveBothFacts
    <3> QED BY <3>1, <3>4 DEF Goes
  <2>4. /\ UNCHANGED <<pending, data, worklist, current_work, due>>
        /\ \A t \in Tasks : done'[t] = done[t]
        /\ online' = online /\ populated' = populated
        /\ should_stop' = should_stop
    BY <1>6, Actor DEF SeesExit, lists, global, Sound, Types
  <2>5. HotplugOK /\ ThreadOK(c) /\ EmptyOK(c) /\ \A e \in CPUs : ThreadOK(e) /\ EmptyOK(e)
    BY DEF Sound, Threads, ListsAreEmpty
  <2>6. Thread(c) = "exited" /\ Thread(c)' = "no thread" /\ Asleep(c) /\ Asleep(c)'
    <3>1. Thread(c) = "exited"
      BY <1>6, <2>2, <2>5 DEF SeesExit, HotplugOK, Thread
    <3> QED BY <2>3, <3>1 DEF Thread, Asleep
  <2>7. WaitsOn(Hotplug) = 0 \/ done[Hotplug]
    BY <1>6, <2>2 DEF SeesExit, WaitsOn
  <2>8. /\ PendingOwned' /\ Barriers' /\ DataIsRight' /\ Cancelled' /\ DueIsThere' /\ DueIsAhead'
        /\ \A e \in CPUs : e # c => Thread(e)' = Thread(e) /\ (Asleep(e)' <=> Asleep(e))
        /\ \A a \in Actors : pc'[a] \in {"queue", "insert"} => Same(a) /\ cpu[a] \in online
    <3>1. pc'[Hotplug] \notin {"queue", "insert"}
      BY <2>2, <2>3
    <3>2. Same(c) \/ (Asleep(c) /\ Asleep(c)' /\ next'[c] = next[c] /\ work'[c] = work[c])
      BY <2>3, <2>6
    <3> QED BY <2>3, <2>4, <2>7, <3>1, <3>2, HotplugCalm
  <2>9. \A e \in CPUs : Finished(e)' <=> Finished(e) \/ (next[Hotplug] = "destroy_scan" /\ e = c)
    BY <2>2, <2>3 DEF Finished
  <2>10. HotplugOK'
    BY <2>2, <2>3, <2>4, <2>5, <2>6, <2>9 DEF HotplugOK, Destroying
  <2>11. ASSUME NEW e \in CPUs
         PROVE  ThreadOK(e)'
    <3>1. CASE e = c
      BY <2>2, <2>3, <2>4, <2>5, <2>6, <2>8, <2>9, <3>1, Actor DEF ThreadOK, HotplugOK, Destroying
    <3>2. CASE e # c
      <4>1. ThreadOK(e) /\ Thread(e)' = Thread(e) /\ e # 0
        BY <2>5, <2>8, <3>2, Actor
      <4> QED BY <2>2, <2>3, <2>4, <2>5, <2>9, <3>2, <4>1 DEF ThreadOK, HotplugOK, Destroying
    <3> QED BY <3>1, <3>2
  <2>12. Settled'
    <3>1. \A a \in Actors : pc'[a] \in {"queue", "insert"} => cpu'[a] \in online'
      BY <2>4, <2>8 DEF Same
    <3>2. Destroying' => Destroying
      BY <2>2, <2>3 DEF Destroying
    <3> QED BY <3>1, <3>2, SettledKept DEF Sound, Threads
  <2>13. ASSUME NEW e \in CPUs
         PROVE  EmptyOK(e)'
    <3>1. Drained' => Drained /\ cpu'[Hotplug] = cpu[Hotplug]
      BY <1>6, <2>2, <2>3 DEF Drained, SeesExit
    <3>2. CASE e = c
      <4>1. MustBeEmpty(c)' => MustBeEmpty(c)
        BY <2>2, <2>3, <2>4, <2>5, <2>6, <3>1, <2>9 DEF MustBeEmpty, Drained, ThreadOK, HotplugOK
      <4> QED BY <2>4, <2>5, <3>2, <4>1 DEF EmptyOK
    <3>3. CASE e # c
      <4>1. MustBeEmpty(e)' => MustBeEmpty(e)
        BY <2>2, <2>3, <2>4, <2>8, <3>1, <3>3 DEF MustBeEmpty
      <4> QED BY <2>4, <2>5, <4>1 DEF EmptyOK
    <3> QED BY <3>2, <3>3
  <2> QED BY <2>8, <2>10, <2>11, <2>12, <2>13 DEF Rest, Threads, ListsAreEmpty
<1>7. ASSUME NEW c \in CPUs, Unpopulates(c)
      PROVE  PendingOwned' /\ Rest'
  <2>1. HotplugAt(pc[Hotplug], next[Hotplug], work[Hotplug],
          cpu[Hotplug]) /\ c \in Actors /\ c # Hotplug
    BY LocalFacts, Actor DEF Sound
  <2>2. pc[Hotplug] = "unpopulate" /\ next[Hotplug] = "unpopulate" /\ cpu[Hotplug] = c
    BY <1>7, <2>1, Actor DEF Unpopulates, HotplugAt
  <2>3. /\ pc'[Hotplug] = "idle" /\ next'[Hotplug] = "idle"
        /\ work'[Hotplug] = Null /\ cpu'[Hotplug] = 0
        /\ OthersBoth(Hotplug, c) /\ Same(c)
    BY <1>7, <2>1, MoveFacts, Actor DEF Unpopulates, Sound, Goes, Others, OthersBoth
  <2>4. /\ UNCHANGED <<pending, data, worklist, current_work, due>>
        /\ \A t \in Tasks : done'[t] = done[t]
        /\ online' = online /\ populated' = populated \ {c}
        /\ should_stop' = should_stop
    BY <1>7, Actor DEF Unpopulates, lists, global, Sound, Types
  <2>5. HotplugOK /\ ThreadOK(c) /\ EmptyOK(c) /\ \A e \in CPUs : ThreadOK(e) /\ EmptyOK(e)
    BY DEF Sound, Threads, ListsAreEmpty
  <2>6. Thread(c)' = Thread(c) /\ (Asleep(c)' <=> Asleep(c))
    BY <2>3, SameViews
  <2>7. WaitsOn(Hotplug) = 0 \/ done[Hotplug]
    BY <1>7, <2>2 DEF Unpopulates, WaitsOn
  <2>8. /\ PendingOwned' /\ Barriers' /\ DataIsRight' /\ Cancelled' /\ DueIsThere' /\ DueIsAhead'
        /\ \A e \in CPUs : e # c => Thread(e)' = Thread(e) /\ (Asleep(e)' <=> Asleep(e))
        /\ \A a \in Actors : pc'[a] \in {"queue", "insert"} => Same(a) /\ cpu[a] \in online
    <3>1. pc'[Hotplug] \notin {"queue", "insert"}
      BY <2>2, <2>3
    <3>2. Same(c) \/ (Asleep(c) /\ Asleep(c)' /\ next'[c] = next[c] /\ work'[c] = work[c])
      BY <2>3, <2>6
    <3> QED BY <2>3, <2>4, <2>7, <3>1, <3>2, HotplugCalm
  <2>9. \A e \in CPUs : Destroying /\ Destroying' => (Finished(e)' <=> Finished(e))
    BY <2>2, <2>3 DEF Finished, Destroying
  <2>10. HotplugOK'
    BY <2>2, <2>3, <2>4, <2>5, <2>6, <2>9 DEF HotplugOK, Destroying
  <2>11. ASSUME NEW e \in CPUs
         PROVE  ThreadOK(e)'
    <3>1. CASE e = c
      BY <2>2, <2>3, <2>4, <2>5, <2>6, <2>8, <2>9, <3>1, Actor DEF ThreadOK, HotplugOK, Destroying
    <3>2. CASE e # c
      <4>1. ThreadOK(e) /\ Thread(e)' = Thread(e) /\ e # 0
        BY <2>5, <2>8, <3>2, Actor
      <4> QED BY <2>2, <2>3, <2>4, <2>5, <2>9, <3>2, <4>1 DEF ThreadOK, HotplugOK, Destroying
    <3> QED BY <3>1, <3>2
  <2>12. Settled'
    <3>1. \A a \in Actors : pc'[a] \in {"queue", "insert"} => cpu'[a] \in online'
      BY <2>4, <2>8 DEF Same
    <3>2. Destroying' => Destroying
      BY <2>2, <2>3 DEF Destroying
    <3> QED BY <3>1, <3>2, SettledKept DEF Sound, Threads
  <2>13. ASSUME NEW e \in CPUs
         PROVE  EmptyOK(e)'
    <3>1. Drained' => Drained /\ cpu'[Hotplug] = cpu[Hotplug]
      BY <1>7, <2>2, <2>3 DEF Drained, Unpopulates
    <3>2. CASE e = c
      <4>1. MustBeEmpty(c)' => MustBeEmpty(c)
        BY <2>2, <2>3, <2>4, <2>5, <2>6, <3>1, <2>9 DEF MustBeEmpty, Drained, ThreadOK, HotplugOK
      <4> QED BY <2>4, <2>5, <3>2, <4>1 DEF EmptyOK
    <3>3. CASE e # c
      <4>1. MustBeEmpty(e)' => MustBeEmpty(e)
        BY <2>2, <2>3, <2>4, <2>8, <3>1, <3>3 DEF MustBeEmpty
      <4> QED BY <2>4, <2>5, <4>1 DEF EmptyOK
    <3> QED BY <3>2, <3>3
  <2> QED BY <2>8, <2>10, <2>11, <2>12, <2>13 DEF Rest, Threads, ListsAreEmpty
<1>8. ASSUME NEW c \in CPUs, Creates(c)
      PROVE  PendingOwned' /\ Rest'
  <2>1. HotplugAt(pc[Hotplug], next[Hotplug], work[Hotplug],
          cpu[Hotplug]) /\ c \in Actors /\ c # Hotplug
    BY LocalFacts, Actor DEF Sound
  <2>2. pc[Hotplug] = "create" /\ next[Hotplug] = "unpopulate" /\ cpu[Hotplug] = c
    BY <1>8, <2>1, Actor DEF Creates, HotplugAt
  <2>3. /\ pc'[Hotplug] = "bring_up" /\ next'[Hotplug] = "unpopulate"
        /\ work'[Hotplug] = Null /\ cpu'[Hotplug] = c
        /\ OthersBoth(Hotplug, c)
        /\ pc'[c] = "created" /\ next'[c] = next[c] /\ work'[c] = work[c]
    BY <1>8, <2>1, MoveBothFacts, Actor DEF Creates, Sound, Goes
  <2>4. /\ UNCHANGED <<pending, data, worklist, current_work, due>>
        /\ \A t \in Tasks : done'[t] = done[t]
        /\ online' = online /\ populated' = populated
        /\ should_stop'[c] = FALSE /\ \A e \in CPUs : e # c => should_stop'[e] = should_stop[e]
    BY <1>8, Actor DEF Creates, lists, global, Sound, Types
  <2>5. HotplugOK /\ ThreadOK(c) /\ EmptyOK(c) /\ \A e \in CPUs : ThreadOK(e) /\ EmptyOK(e)
    BY DEF Sound, Threads, ListsAreEmpty
  <2>6. Thread(c) = "no thread" /\ Thread(c)' = "created" /\ Asleep(c) /\ Asleep(c)'
    <3>1. Thread(c) = "no thread"
      BY <1>8, <2>2, <2>5 DEF Creates, HotplugOK, Thread
    <3> QED BY <2>3, <3>1 DEF Thread, Asleep
  <2>7. WaitsOn(Hotplug) = 0 \/ done[Hotplug]
    BY <1>8, <2>2 DEF Creates, WaitsOn
  <2>8. /\ PendingOwned' /\ Barriers' /\ DataIsRight' /\ Cancelled' /\ DueIsThere' /\ DueIsAhead'
        /\ \A e \in CPUs : e # c => Thread(e)' = Thread(e) /\ (Asleep(e)' <=> Asleep(e))
        /\ \A a \in Actors : pc'[a] \in {"queue", "insert"} => Same(a) /\ cpu[a] \in online
    <3>1. pc'[Hotplug] \notin {"queue", "insert"}
      BY <2>2, <2>3
    <3>2. Same(c) \/ (Asleep(c) /\ Asleep(c)' /\ next'[c] = next[c] /\ work'[c] = work[c])
      BY <2>3, <2>6
    <3> QED BY <2>3, <2>4, <2>7, <3>1, <3>2, HotplugCalm
  <2>9. \A e \in CPUs : Destroying /\ Destroying' => (Finished(e)' <=> Finished(e))
    BY <2>2, <2>3 DEF Finished, Destroying
  <2>10. HotplugOK'
    BY <2>2, <2>3, <2>4, <2>5, <2>6, <2>9 DEF HotplugOK, Destroying
  <2>11. ASSUME NEW e \in CPUs
         PROVE  ThreadOK(e)'
    <3>1. CASE e = c
      BY <2>2, <2>3, <2>4, <2>5, <2>6, <2>8, <2>9, <3>1, Actor DEF ThreadOK, HotplugOK, Destroying
    <3>2. CASE e # c
      <4>1. ThreadOK(e) /\ Thread(e)' = Thread(e) /\ e # 0
        BY <2>5, <2>8, <3>2, Actor
      <4> QED BY <2>2, <2>3, <2>4, <2>5, <2>9, <3>2, <4>1 DEF ThreadOK, HotplugOK, Destroying
    <3> QED BY <3>1, <3>2
  <2>12. Settled'
    <3>1. \A a \in Actors : pc'[a] \in {"queue", "insert"} => cpu'[a] \in online'
      BY <2>4, <2>8 DEF Same
    <3>2. Destroying' => Destroying
      BY <2>2, <2>3 DEF Destroying
    <3> QED BY <3>1, <3>2, SettledKept DEF Sound, Threads
  <2>13. ASSUME NEW e \in CPUs
         PROVE  EmptyOK(e)'
    <3>1. Drained' => Drained /\ cpu'[Hotplug] = cpu[Hotplug]
      BY <1>8, <2>2, <2>3 DEF Drained, Creates
    <3>2. CASE e = c
      <4>1. MustBeEmpty(c)' => MustBeEmpty(c)
        BY <2>2, <2>3, <2>4, <2>5, <2>6, <3>1, <2>9 DEF MustBeEmpty, Drained, ThreadOK, HotplugOK
      <4> QED BY <2>4, <2>5, <3>2, <4>1 DEF EmptyOK
    <3>3. CASE e # c
      <4>1. MustBeEmpty(e)' => MustBeEmpty(e)
        BY <2>2, <2>3, <2>4, <2>8, <3>1, <3>3 DEF MustBeEmpty
      <4> QED BY <2>4, <2>5, <4>1 DEF EmptyOK
    <3> QED BY <3>2, <3>3
  <2> QED BY <2>8, <2>10, <2>11, <2>12, <2>13 DEF Rest, Threads, ListsAreEmpty
<1>9. ASSUME NEW c \in CPUs, CreateFails(c)
      PROVE  PendingOwned' /\ Rest'
  <2>1. HotplugAt(pc[Hotplug], next[Hotplug], work[Hotplug],
          cpu[Hotplug]) /\ c \in Actors /\ c # Hotplug
    BY LocalFacts, Actor DEF Sound
  <2>2. pc[Hotplug] = "create" /\ next[Hotplug] = "unpopulate" /\ cpu[Hotplug] = c
    BY <1>9, <2>1, Actor DEF CreateFails, HotplugAt
  <2>3. /\ pc'[Hotplug] = "unpopulate" /\ next'[Hotplug] = "unpopulate"
        /\ work'[Hotplug] = Null /\ cpu'[Hotplug] = c
        /\ OthersBoth(Hotplug, c) /\ Same(c)
    BY <1>9, <2>1, MoveFacts, Actor DEF CreateFails, Quiet, Sound, Goes, Others, OthersBoth
  <2>4. /\ UNCHANGED <<pending, data, worklist, current_work, due>>
        /\ \A t \in Tasks : done'[t] = done[t]
        /\ online' = online /\ populated' = populated
        /\ should_stop' = should_stop
    BY <1>9, Actor DEF CreateFails, Quiet, lists, global, Sound, Types
  <2>5. HotplugOK /\ ThreadOK(c) /\ EmptyOK(c) /\ \A e \in CPUs : ThreadOK(e) /\ EmptyOK(e)
    BY DEF Sound, Threads, ListsAreEmpty
  <2>6. Thread(c)' = Thread(c) /\ (Asleep(c)' <=> Asleep(c))
    BY <2>3, SameViews
  <2>7. WaitsOn(Hotplug) = 0 \/ done[Hotplug]
    BY <1>9, <2>2 DEF CreateFails, Quiet, WaitsOn
  <2>8. /\ PendingOwned' /\ Barriers' /\ DataIsRight' /\ Cancelled' /\ DueIsThere' /\ DueIsAhead'
        /\ \A e \in CPUs : e # c => Thread(e)' = Thread(e) /\ (Asleep(e)' <=> Asleep(e))
        /\ \A a \in Actors : pc'[a] \in {"queue", "insert"} => Same(a) /\ cpu[a] \in online
    <3>1. pc'[Hotplug] \notin {"queue", "insert"}
      BY <2>2, <2>3
    <3>2. Same(c) \/ (Asleep(c) /\ Asleep(c)' /\ next'[c] = next[c] /\ work'[c] = work[c])
      BY <2>3, <2>6
    <3> QED BY <2>3, <2>4, <2>7, <3>1, <3>2, HotplugCalm
  <2>9. \A e \in CPUs : Destroying /\ Destroying' => (Finished(e)' <=> Finished(e))
    BY <2>2, <2>3 DEF Finished, Destroying
  <2>10. HotplugOK'
    BY <2>2, <2>3, <2>4, <2>5, <2>6, <2>9 DEF HotplugOK, Destroying
  <2>11. ASSUME NEW e \in CPUs
         PROVE  ThreadOK(e)'
    <3>1. CASE e = c
      BY <2>2, <2>3, <2>4, <2>5, <2>6, <2>8, <2>9, <3>1, Actor DEF ThreadOK, HotplugOK, Destroying
    <3>2. CASE e # c
      <4>1. ThreadOK(e) /\ Thread(e)' = Thread(e) /\ e # 0
        BY <2>5, <2>8, <3>2, Actor
      <4> QED BY <2>2, <2>3, <2>4, <2>5, <2>9, <3>2, <4>1 DEF ThreadOK, HotplugOK, Destroying
    <3> QED BY <3>1, <3>2
  <2>12. Settled'
    <3>1. \A a \in Actors : pc'[a] \in {"queue", "insert"} => cpu'[a] \in online'
      BY <2>4, <2>8 DEF Same
    <3>2. Destroying' => Destroying
      BY <2>2, <2>3 DEF Destroying
    <3> QED BY <3>1, <3>2, SettledKept DEF Sound, Threads
  <2>13. ASSUME NEW e \in CPUs
         PROVE  EmptyOK(e)'
    <3>1. Drained' => Drained /\ cpu'[Hotplug] = cpu[Hotplug]
      BY <1>9, <2>2, <2>3 DEF Drained, CreateFails, Quiet
    <3>2. CASE e = c
      <4>1. MustBeEmpty(c)' => MustBeEmpty(c)
        BY <2>2, <2>3, <2>4, <2>5, <2>6, <3>1, <2>9 DEF MustBeEmpty, Drained, ThreadOK, HotplugOK
      <4> QED BY <2>4, <2>5, <3>2, <4>1 DEF EmptyOK
    <3>3. CASE e # c
      <4>1. MustBeEmpty(e)' => MustBeEmpty(e)
        BY <2>2, <2>3, <2>4, <2>8, <3>1, <3>3 DEF MustBeEmpty
      <4> QED BY <2>4, <2>5, <4>1 DEF EmptyOK
    <3> QED BY <3>2, <3>3
  <2> QED BY <2>8, <2>10, <2>11, <2>12, <2>13 DEF Rest, Threads, ListsAreEmpty
<1>10. ASSUME NEW c \in CPUs, ComesUp(c)
      PROVE  PendingOwned' /\ Rest'
  <2>1. HotplugAt(pc[Hotplug], next[Hotplug], work[Hotplug],
          cpu[Hotplug]) /\ c \in Actors /\ c # Hotplug
    BY LocalFacts, Actor DEF Sound
  <2>2. pc[Hotplug] = "bring_up" /\ next[Hotplug] = "unpopulate" /\ cpu[Hotplug] = c
    BY <1>10, <2>1, Actor DEF ComesUp, HotplugAt
  <2>3. /\ pc'[Hotplug] = "cpu_online" /\ next'[Hotplug] = "unpopulate"
        /\ work'[Hotplug] = Null /\ cpu'[Hotplug] = c
        /\ OthersBoth(Hotplug, c) /\ Same(c)
    BY <1>10, <2>1, MoveFacts, Actor DEF ComesUp, Sound, Goes, Others, OthersBoth
  <2>4. /\ UNCHANGED <<pending, data, worklist, current_work, due>>
        /\ \A t \in Tasks : done'[t] = done[t]
        /\ online' = online \cup {c} /\ populated' = populated
        /\ should_stop' = should_stop
    BY <1>10, Actor DEF ComesUp, lists, global, Sound, Types
  <2>5. HotplugOK /\ ThreadOK(c) /\ EmptyOK(c) /\ \A e \in CPUs : ThreadOK(e) /\ EmptyOK(e)
    BY DEF Sound, Threads, ListsAreEmpty
  <2>6. Thread(c)' = Thread(c) /\ (Asleep(c)' <=> Asleep(c))
    BY <2>3, SameViews
  <2>7. WaitsOn(Hotplug) = 0 \/ done[Hotplug]
    BY <1>10, <2>2 DEF ComesUp, WaitsOn
  <2>8. /\ PendingOwned' /\ Barriers' /\ DataIsRight' /\ Cancelled' /\ DueIsThere' /\ DueIsAhead'
        /\ \A e \in CPUs : e # c => Thread(e)' = Thread(e) /\ (Asleep(e)' <=> Asleep(e))
        /\ \A a \in Actors : pc'[a] \in {"queue", "insert"} => Same(a) /\ cpu[a] \in online
    <3>1. pc'[Hotplug] \notin {"queue", "insert"}
      BY <2>2, <2>3
    <3>2. Same(c) \/ (Asleep(c) /\ Asleep(c)' /\ next'[c] = next[c] /\ work'[c] = work[c])
      BY <2>3, <2>6
    <3> QED BY <2>3, <2>4, <2>7, <3>1, <3>2, HotplugCalm
  <2>9. \A e \in CPUs : Destroying /\ Destroying' => (Finished(e)' <=> Finished(e))
    BY <2>2, <2>3 DEF Finished, Destroying
  <2>10. HotplugOK'
    BY <2>2, <2>3, <2>4, <2>5, <2>6, <2>9 DEF HotplugOK, Destroying
  <2>11. ASSUME NEW e \in CPUs
         PROVE  ThreadOK(e)'
    <3>1. CASE e = c
      BY <2>2, <2>3, <2>4, <2>5, <2>6, <2>8, <2>9, <3>1, Actor DEF ThreadOK, HotplugOK, Destroying
    <3>2. CASE e # c
      <4>1. ThreadOK(e) /\ Thread(e)' = Thread(e) /\ e # 0
        BY <2>5, <2>8, <3>2, Actor
      <4> QED BY <2>2, <2>3, <2>4, <2>5, <2>9, <3>2, <4>1 DEF ThreadOK, HotplugOK, Destroying
    <3> QED BY <3>1, <3>2
  <2>12. Settled'
    <3>1. \A a \in Actors : pc'[a] \in {"queue", "insert"} => cpu'[a] \in online'
      BY <2>4, <2>8 DEF Same
    <3>2. Destroying' => Destroying
      BY <2>2, <2>3 DEF Destroying
    <3> QED BY <3>1, <3>2, SettledKept DEF Sound, Threads
  <2>13. ASSUME NEW e \in CPUs
         PROVE  EmptyOK(e)'
    <3>1. Drained' => Drained /\ cpu'[Hotplug] = cpu[Hotplug]
      BY <1>10, <2>2, <2>3 DEF Drained, ComesUp
    <3>2. CASE e = c
      <4>1. MustBeEmpty(c)' => MustBeEmpty(c)
        BY <2>2, <2>3, <2>4, <2>5, <2>6, <3>1, <2>9 DEF MustBeEmpty, Drained, ThreadOK, HotplugOK
      <4> QED BY <2>4, <2>5, <3>2, <4>1 DEF EmptyOK
    <3>3. CASE e # c
      <4>1. MustBeEmpty(e)' => MustBeEmpty(e)
        BY <2>2, <2>3, <2>4, <2>8, <3>1, <3>3 DEF MustBeEmpty
      <4> QED BY <2>4, <2>5, <4>1 DEF EmptyOK
    <3> QED BY <3>2, <3>3
  <2> QED BY <2>8, <2>10, <2>11, <2>12, <2>13 DEF Rest, Threads, ListsAreEmpty
<1>11. ASSUME NEW c \in CPUs, UpCanceled(c)
      PROVE  PendingOwned' /\ Rest'
  <2>1. HotplugAt(pc[Hotplug], next[Hotplug], work[Hotplug],
          cpu[Hotplug]) /\ c \in Actors /\ c # Hotplug
    BY LocalFacts, Actor DEF Sound
  <2>2. pc[Hotplug] = "bring_up" /\ next[Hotplug] = "unpopulate" /\ cpu[Hotplug] = c
    BY <1>11, <2>1, Actor DEF UpCanceled, HotplugAt
  <2>3. /\ pc'[Hotplug] = "cleanup" /\ next'[Hotplug] = "unpopulate"
        /\ work'[Hotplug] = Null /\ cpu'[Hotplug] = c
        /\ OthersBoth(Hotplug, c)
        /\ pc'[c] = "prepare" /\ next'[c] = next[c] /\ work'[c] = work[c]
    BY <1>11, <2>1, MoveBothFacts, Actor DEF UpCanceled, Sound, Goes
  <2>4. /\ UNCHANGED <<pending, data, worklist, current_work, due>>
        /\ \A t \in Tasks : done'[t] = done[t]
        /\ online' = online /\ populated' = populated
        /\ should_stop' = should_stop
    BY <1>11, Actor DEF UpCanceled, lists, global, Sound, Types
  <2>5. HotplugOK /\ ThreadOK(c) /\ EmptyOK(c) /\ \A e \in CPUs : ThreadOK(e) /\ EmptyOK(e)
    BY DEF Sound, Threads, ListsAreEmpty
  <2>6. Thread(c) = "created" /\ Thread(c)' = "runs" /\ Asleep(c) /\ Asleep(c)'
    <3>1. Thread(c) = "created"
      BY <1>11, <2>2, <2>5 DEF UpCanceled, HotplugOK, Thread
    <3> QED BY <2>3, <3>1 DEF Thread, Asleep
  <2>7. WaitsOn(Hotplug) = 0 \/ done[Hotplug]
    BY <1>11, <2>2 DEF UpCanceled, WaitsOn
  <2>8. /\ PendingOwned' /\ Barriers' /\ DataIsRight' /\ Cancelled' /\ DueIsThere' /\ DueIsAhead'
        /\ \A e \in CPUs : e # c => Thread(e)' = Thread(e) /\ (Asleep(e)' <=> Asleep(e))
        /\ \A a \in Actors : pc'[a] \in {"queue", "insert"} => Same(a) /\ cpu[a] \in online
    <3>1. pc'[Hotplug] \notin {"queue", "insert"}
      BY <2>2, <2>3
    <3>2. Same(c) \/ (Asleep(c) /\ Asleep(c)' /\ next'[c] = next[c] /\ work'[c] = work[c])
      BY <2>3, <2>6
    <3> QED BY <2>3, <2>4, <2>7, <3>1, <3>2, HotplugCalm
  <2>9. \A e \in CPUs : Destroying /\ Destroying' => (Finished(e)' <=> Finished(e))
    BY <2>2, <2>3 DEF Finished, Destroying
  <2>10. HotplugOK'
    BY <2>2, <2>3, <2>4, <2>5, <2>6, <2>9 DEF HotplugOK, Destroying
  <2>11. ASSUME NEW e \in CPUs
         PROVE  ThreadOK(e)'
    <3>1. CASE e = c
      BY <2>2, <2>3, <2>4, <2>5, <2>6, <2>8, <2>9, <3>1, Actor DEF ThreadOK, HotplugOK, Destroying
    <3>2. CASE e # c
      <4>1. ThreadOK(e) /\ Thread(e)' = Thread(e) /\ e # 0
        BY <2>5, <2>8, <3>2, Actor
      <4> QED BY <2>2, <2>3, <2>4, <2>5, <2>9, <3>2, <4>1 DEF ThreadOK, HotplugOK, Destroying
    <3> QED BY <3>1, <3>2
  <2>12. Settled'
    <3>1. \A a \in Actors : pc'[a] \in {"queue", "insert"} => cpu'[a] \in online'
      BY <2>4, <2>8 DEF Same
    <3>2. Destroying' => Destroying
      BY <2>2, <2>3 DEF Destroying
    <3> QED BY <3>1, <3>2, SettledKept DEF Sound, Threads
  <2>13. ASSUME NEW e \in CPUs
         PROVE  EmptyOK(e)'
    <3>1. Drained' => Drained /\ cpu'[Hotplug] = cpu[Hotplug]
      BY <1>11, <2>2, <2>3 DEF Drained, UpCanceled
    <3>2. CASE e = c
      <4>1. MustBeEmpty(c)' => MustBeEmpty(c)
        BY <2>2, <2>3, <2>4, <2>5, <2>6, <3>1, <2>9 DEF MustBeEmpty, Drained, ThreadOK, HotplugOK
      <4> QED BY <2>4, <2>5, <3>2, <4>1 DEF EmptyOK
    <3>3. CASE e # c
      <4>1. MustBeEmpty(e)' => MustBeEmpty(e)
        BY <2>2, <2>3, <2>4, <2>8, <3>1, <3>3 DEF MustBeEmpty
      <4> QED BY <2>4, <2>5, <4>1 DEF EmptyOK
    <3> QED BY <3>2, <3>3
  <2> QED BY <2>8, <2>10, <2>11, <2>12, <2>13 DEF Rest, Threads, ListsAreEmpty
<1>12. ASSUME NEW c \in CPUs, StartsThread(c)
      PROVE  PendingOwned' /\ Rest'
  <2>1. HotplugAt(pc[Hotplug], next[Hotplug], work[Hotplug],
          cpu[Hotplug]) /\ c \in Actors /\ c # Hotplug
    BY LocalFacts, Actor DEF Sound
  <2>2. pc[Hotplug] = "cpu_online" /\ next[Hotplug] = "unpopulate" /\ cpu[Hotplug] = c
    BY <1>12, <2>1, Actor DEF StartsThread, HotplugAt
  <2>3. /\ pc'[Hotplug] = "idle" /\ next'[Hotplug] = "idle"
        /\ work'[Hotplug] = Null /\ cpu'[Hotplug] = 0
        /\ OthersBoth(Hotplug, c)
        /\ pc'[c] = "prepare" /\ next'[c] = next[c] /\ work'[c] = work[c]
    BY <1>12, <2>1, MoveBothFacts, Actor DEF StartsThread, Sound, Goes
  <2>4. /\ UNCHANGED <<pending, data, worklist, current_work, due>>
        /\ \A t \in Tasks : done'[t] = done[t]
        /\ online' = online /\ populated' = populated
        /\ should_stop' = should_stop
    BY <1>12, Actor DEF StartsThread, lists, global, Sound, Types
  <2>5. HotplugOK /\ ThreadOK(c) /\ EmptyOK(c) /\ \A e \in CPUs : ThreadOK(e) /\ EmptyOK(e)
    BY DEF Sound, Threads, ListsAreEmpty
  <2>6. Thread(c) = "created" /\ Thread(c)' = "runs" /\ Asleep(c) /\ Asleep(c)'
    <3>1. Thread(c) = "created"
      BY <1>12, <2>2, <2>5 DEF StartsThread, HotplugOK, Thread
    <3> QED BY <2>3, <3>1 DEF Thread, Asleep
  <2>7. WaitsOn(Hotplug) = 0 \/ done[Hotplug]
    BY <1>12, <2>2 DEF StartsThread, WaitsOn
  <2>8. /\ PendingOwned' /\ Barriers' /\ DataIsRight' /\ Cancelled' /\ DueIsThere' /\ DueIsAhead'
        /\ \A e \in CPUs : e # c => Thread(e)' = Thread(e) /\ (Asleep(e)' <=> Asleep(e))
        /\ \A a \in Actors : pc'[a] \in {"queue", "insert"} => Same(a) /\ cpu[a] \in online
    <3>1. pc'[Hotplug] \notin {"queue", "insert"}
      BY <2>2, <2>3
    <3>2. Same(c) \/ (Asleep(c) /\ Asleep(c)' /\ next'[c] = next[c] /\ work'[c] = work[c])
      BY <2>3, <2>6
    <3> QED BY <2>3, <2>4, <2>7, <3>1, <3>2, HotplugCalm
  <2>9. \A e \in CPUs : Destroying /\ Destroying' => (Finished(e)' <=> Finished(e))
    BY <2>2, <2>3 DEF Finished, Destroying
  <2>10. HotplugOK'
    BY <2>2, <2>3, <2>4, <2>5, <2>6, <2>9 DEF HotplugOK, Destroying
  <2>11. ASSUME NEW e \in CPUs
         PROVE  ThreadOK(e)'
    <3>1. CASE e = c
      BY <2>2, <2>3, <2>4, <2>5, <2>6, <2>8, <2>9, <3>1, Actor DEF ThreadOK, HotplugOK, Destroying
    <3>2. CASE e # c
      <4>1. ThreadOK(e) /\ Thread(e)' = Thread(e) /\ e # 0
        BY <2>5, <2>8, <3>2, Actor
      <4> QED BY <2>2, <2>3, <2>4, <2>5, <2>9, <3>2, <4>1 DEF ThreadOK, HotplugOK, Destroying
    <3> QED BY <3>1, <3>2
  <2>12. Settled'
    <3>1. \A a \in Actors : pc'[a] \in {"queue", "insert"} => cpu'[a] \in online'
      BY <2>4, <2>8 DEF Same
    <3>2. Destroying' => Destroying
      BY <2>2, <2>3 DEF Destroying
    <3> QED BY <3>1, <3>2, SettledKept DEF Sound, Threads
  <2>13. ASSUME NEW e \in CPUs
         PROVE  EmptyOK(e)'
    <3>1. Drained' => Drained /\ cpu'[Hotplug] = cpu[Hotplug]
      BY <1>12, <2>2, <2>3 DEF Drained, StartsThread
    <3>2. CASE e = c
      <4>1. MustBeEmpty(c)' => MustBeEmpty(c)
        BY <2>2, <2>3, <2>4, <2>5, <2>6, <3>1, <2>9 DEF MustBeEmpty, Drained, ThreadOK, HotplugOK
      <4> QED BY <2>4, <2>5, <3>2, <4>1 DEF EmptyOK
    <3>3. CASE e # c
      <4>1. MustBeEmpty(e)' => MustBeEmpty(e)
        BY <2>2, <2>3, <2>4, <2>8, <3>1, <3>3 DEF MustBeEmpty
      <4> QED BY <2>4, <2>5, <4>1 DEF EmptyOK
    <3> QED BY <3>2, <3>3
  <2> QED BY <2>8, <2>10, <2>11, <2>12, <2>13 DEF Rest, Threads, ListsAreEmpty
<1>13. ASSUME NEW c \in CPUs, DestroyVisits(c)
      PROVE  PendingOwned' /\ Rest'
  <2>1. HotplugAt(pc[Hotplug], next[Hotplug], work[Hotplug],
          cpu[Hotplug]) /\ c \in Actors /\ c # Hotplug
    BY LocalFacts, Actor DEF Sound
  <2>2. pc[Hotplug] = "destroy_scan" /\ next[Hotplug] = "destroy_scan" /\ cpu[Hotplug] \in Nat
    BY <1>13, <2>1, Actor DEF DestroyVisits, HotplugAt
  <2>3. /\ pc'[Hotplug] = "cleanup" /\ next'[Hotplug] = "destroy_scan"
        /\ work'[Hotplug] = Null /\ cpu'[Hotplug] = c
        /\ OthersBoth(Hotplug, c) /\ Same(c)
    BY <1>13, <2>1, MoveFacts, Actor DEF DestroyVisits, Quiet, Sound, Goes, Others, OthersBoth
  <2>4. /\ UNCHANGED <<pending, data, worklist, current_work, due>>
        /\ \A t \in Tasks : done'[t] = done[t]
        /\ online' = online /\ populated' = populated
        /\ should_stop' = should_stop
    BY <1>13, Actor DEF DestroyVisits, Quiet, lists, global, Sound, Types
  <2>5. HotplugOK /\ ThreadOK(c) /\ EmptyOK(c) /\ \A e \in CPUs : ThreadOK(e) /\ EmptyOK(e)
    BY DEF Sound, Threads, ListsAreEmpty
  <2>6. Thread(c)' = Thread(c) /\ (Asleep(c)' <=> Asleep(c))
    BY <2>3, SameViews
  <2>7. WaitsOn(Hotplug) = 0 \/ done[Hotplug]
    BY <1>13, <2>2 DEF DestroyVisits, Quiet, WaitsOn
  <2>8. /\ PendingOwned' /\ Barriers' /\ DataIsRight' /\ Cancelled' /\ DueIsThere' /\ DueIsAhead'
        /\ \A e \in CPUs : e # c => Thread(e)' = Thread(e) /\ (Asleep(e)' <=> Asleep(e))
        /\ \A a \in Actors : pc'[a] \in {"queue", "insert"} => Same(a) /\ cpu[a] \in online
    <3>1. pc'[Hotplug] \notin {"queue", "insert"}
      BY <2>2, <2>3
    <3>2. Same(c) \/ (Asleep(c) /\ Asleep(c)' /\ next'[c] = next[c] /\ work'[c] = work[c])
      BY <2>3, <2>6
    <3> QED BY <2>3, <2>4, <2>7, <3>1, <3>2, HotplugCalm
  <2>9. /\ c \in populated /\ c \in online
        /\ \A e \in CPUs : e \in online => (Finished(e)' <=> Finished(e))
    <3>1. c \in populated /\ c > cpu[Hotplug] /\ \A e \in populated : e > cpu[Hotplug] => e >= c
      BY <1>13 DEF DestroyVisits, Visits, wq_cpu_map
    <3>2. ASSUME NEW e \in CPUs, e \in online
          PROVE  e < c <=> e < cpu[Hotplug] \/ e = cpu[Hotplug]
      <4>1. e \in populated /\ e \in Nat /\ c \in Nat
        BY <2>5, <3>2, Actor DEF ThreadOK
      <4> QED BY <2>2, <3>1, <4>1
    <3> QED BY <2>2, <2>3, <2>5, <3>1, <3>2 DEF Finished, ThreadOK
  <2>10. HotplugOK'
    BY <2>2, <2>3, <2>4, <2>5, <2>6, <2>9 DEF HotplugOK, Destroying
  <2>11. ASSUME NEW e \in CPUs
         PROVE  ThreadOK(e)'
    <3>1. CASE e = c
      BY <2>2, <2>3, <2>4, <2>5, <2>6, <2>8, <2>9, <3>1, Actor DEF ThreadOK, HotplugOK, Destroying
    <3>2. CASE e # c
      <4>1. ThreadOK(e) /\ Thread(e)' = Thread(e) /\ e # 0
        BY <2>5, <2>8, <3>2, Actor
      <4> QED BY <2>2, <2>3, <2>4, <2>5, <2>9, <3>2, <4>1 DEF ThreadOK, HotplugOK, Destroying
    <3> QED BY <3>1, <3>2
  <2>12. Settled'
    <3>1. \A a \in Actors : pc'[a] \in {"queue", "insert"} => cpu'[a] \in online'
      BY <2>4, <2>8 DEF Same
    <3>2. Destroying' => Destroying
      BY <2>2, <2>3 DEF Destroying
    <3> QED BY <3>1, <3>2, SettledKept DEF Sound, Threads
  <2>13. ASSUME NEW e \in CPUs
         PROVE  EmptyOK(e)'
    <3>1. Drained' => Drained /\ cpu'[Hotplug] = cpu[Hotplug]
      BY <1>13, <2>2, <2>3 DEF Drained, DestroyVisits, Quiet
    <3>2. CASE e = c
      <4>1. MustBeEmpty(c)' => MustBeEmpty(c)
        BY <2>2, <2>3, <2>4, <2>5, <2>6, <3>1, <2>9 DEF MustBeEmpty, Drained, ThreadOK, HotplugOK
      <4> QED BY <2>4, <2>5, <3>2, <4>1 DEF EmptyOK
    <3>3. CASE e # c
      <4>1. MustBeEmpty(e)' => MustBeEmpty(e)
        BY <2>2, <2>3, <2>4, <2>8, <3>1, <3>3 DEF MustBeEmpty
      <4> QED BY <2>4, <2>5, <4>1 DEF EmptyOK
    <3> QED BY <3>2, <3>3
  <2> QED BY <2>8, <2>10, <2>11, <2>12, <2>13 DEF Rest, Threads, ListsAreEmpty
<1>14. ASSUME Destroys
      PROVE  PendingOwned' /\ Rest'
  <2>0. PICK c \in CPUs : TRUE
    BY WorkqueueAssumption
  <2>1. HotplugAt(pc[Hotplug], next[Hotplug], work[Hotplug],
          cpu[Hotplug]) /\ c \in Actors /\ c # Hotplug
    BY LocalFacts, Actor DEF Sound
  <2>2. pc[Hotplug] = "idle" /\ next[Hotplug] = "idle" /\ cpu[Hotplug] = 0
    BY <1>14, <2>1, Actor DEF Destroys, HotplugAt
  <2>3. /\ pc'[Hotplug] = "destroy_scan" /\ next'[Hotplug] = "destroy_scan"
        /\ work'[Hotplug] = Null /\ cpu'[Hotplug] = 0
        /\ OthersBoth(Hotplug, c) /\ Same(c)
    BY <1>14, <2>1, MoveFacts, Actor DEF Destroys, Quiet, Sound, Goes, Others, OthersBoth
  <2>4. /\ UNCHANGED <<pending, data, worklist, current_work, due>>
        /\ \A t \in Tasks : done'[t] = done[t]
        /\ online' = online /\ populated' = populated
        /\ should_stop' = should_stop
    BY <1>14, Actor DEF Destroys, Quiet, lists, global, Sound, Types
  <2>5. HotplugOK /\ ThreadOK(c) /\ EmptyOK(c) /\ \A e \in CPUs : ThreadOK(e) /\ EmptyOK(e)
    BY DEF Sound, Threads, ListsAreEmpty
  <2>6. Thread(c)' = Thread(c) /\ (Asleep(c)' <=> Asleep(c))
    BY <2>3, SameViews
  <2>7. WaitsOn(Hotplug) = 0 \/ done[Hotplug]
    BY <1>14, <2>2 DEF Destroys, Quiet, WaitsOn
  <2>8. /\ PendingOwned' /\ Barriers' /\ DataIsRight' /\ Cancelled' /\ DueIsThere' /\ DueIsAhead'
        /\ \A e \in CPUs : e # c => Thread(e)' = Thread(e) /\ (Asleep(e)' <=> Asleep(e))
        /\ \A a \in Actors : pc'[a] \in {"queue", "insert"} => Same(a) /\ cpu[a] \in online
    <3>1. pc'[Hotplug] \notin {"queue", "insert"}
      BY <2>2, <2>3
    <3>2. Same(c) \/ (Asleep(c) /\ Asleep(c)' /\ next'[c] = next[c] /\ work'[c] = work[c])
      BY <2>3, <2>6
    <3> QED BY <2>3, <2>4, <2>7, <3>1, <3>2, HotplugCalm
  <2>9. \A e \in CPUs : ~Finished(e)'
    BY <2>2, <2>3, Actor DEF Finished
  <2>10. HotplugOK'
    BY <2>2, <2>3, <2>4, <2>5, <2>6, <2>9 DEF HotplugOK, Destroying
  <2>11. ASSUME NEW e \in CPUs
         PROVE  ThreadOK(e)'
    <3>1. CASE e = c
      BY <2>2, <2>3, <2>4, <2>5, <2>6, <2>8, <2>9, <3>1, Actor DEF ThreadOK, HotplugOK, Destroying
    <3>2. CASE e # c
      <4>1. ThreadOK(e) /\ Thread(e)' = Thread(e) /\ e # 0
        BY <2>5, <2>8, <3>2, Actor
      <4> QED BY <2>2, <2>3, <2>4, <2>5, <2>9, <3>2, <4>1 DEF ThreadOK, HotplugOK, Destroying
    <3> QED BY <3>1, <3>2
  <2>12. Settled'
    <3>1. \A a \in Tasks \cup Works \cup CPUs : Same(a)
      BY <2>3, Actor DEF OthersBoth
    <3>2. \A a \in Actors : pc'[a] \in {"queue", "insert"} => cpu'[a] \in online'
      BY <2>4, <2>8 DEF Same
    <3> QED BY <1>14, <3>1, <3>2 DEF Destroys, Settled, Same
  <2>13. ASSUME NEW e \in CPUs
         PROVE  EmptyOK(e)'
    <3>1. Drained' => Drained /\ cpu'[Hotplug] = cpu[Hotplug]
      BY <1>14, <2>2, <2>3 DEF Drained, Destroys, Quiet
    <3>2. CASE e = c
      <4>1. MustBeEmpty(c)' => MustBeEmpty(c)
        BY <2>2, <2>3, <2>4, <2>5, <2>6, <3>1, <2>9 DEF MustBeEmpty, Drained, ThreadOK, HotplugOK
      <4> QED BY <2>4, <2>5, <3>2, <4>1 DEF EmptyOK
    <3>3. CASE e # c
      <4>1. MustBeEmpty(e)' => MustBeEmpty(e)
        BY <2>2, <2>3, <2>4, <2>8, <3>1, <3>3 DEF MustBeEmpty
      <4> QED BY <2>4, <2>5, <4>1 DEF EmptyOK
    <3> QED BY <3>2, <3>3
  <2> QED BY <2>8, <2>10, <2>11, <2>12, <2>13 DEF Rest, Threads, ListsAreEmpty
<1>15. ASSUME DestroyEnds
      PROVE  PendingOwned' /\ Rest'
  <2>0. PICK c \in CPUs : TRUE
    BY WorkqueueAssumption
  <2>1. HotplugAt(pc[Hotplug], next[Hotplug], work[Hotplug],
          cpu[Hotplug]) /\ c \in Actors /\ c # Hotplug
    BY LocalFacts, Actor DEF Sound
  <2>2. pc[Hotplug] = "destroy_scan" /\ next[Hotplug] = "destroy_scan" /\ cpu[Hotplug] \in Nat
    BY <1>15, <2>1, Actor DEF DestroyEnds, HotplugAt
  <2>3. /\ pc'[Hotplug] = "freed" /\ next'[Hotplug] = "destroy_scan"
        /\ work'[Hotplug] = Null /\ cpu'[Hotplug] = 0
        /\ OthersBoth(Hotplug, c) /\ Same(c)
    BY <1>15, <2>1, MoveFacts, Actor DEF DestroyEnds, Quiet, Sound, Goes, Others, OthersBoth
  <2>4. /\ UNCHANGED <<pending, data, worklist, current_work, due>>
        /\ \A t \in Tasks : done'[t] = done[t]
        /\ online' = online /\ populated' = populated
        /\ should_stop' = should_stop
    BY <1>15, Actor DEF DestroyEnds, Quiet, lists, global, Sound, Types
  <2>5. HotplugOK /\ ThreadOK(c) /\ EmptyOK(c) /\ \A e \in CPUs : ThreadOK(e) /\ EmptyOK(e)
    BY DEF Sound, Threads, ListsAreEmpty
  <2>6. Thread(c)' = Thread(c) /\ (Asleep(c)' <=> Asleep(c))
    BY <2>3, SameViews
  <2>7. WaitsOn(Hotplug) = 0 \/ done[Hotplug]
    BY <1>15, <2>2 DEF DestroyEnds, Quiet, WaitsOn
  <2>8. /\ PendingOwned' /\ Barriers' /\ DataIsRight' /\ Cancelled' /\ DueIsThere' /\ DueIsAhead'
        /\ \A e \in CPUs : e # c => Thread(e)' = Thread(e) /\ (Asleep(e)' <=> Asleep(e))
        /\ \A a \in Actors : pc'[a] \in {"queue", "insert"} => Same(a) /\ cpu[a] \in online
    <3>1. pc'[Hotplug] \notin {"queue", "insert"}
      BY <2>2, <2>3
    <3>2. Same(c) \/ (Asleep(c) /\ Asleep(c)' /\ next'[c] = next[c] /\ work'[c] = work[c])
      BY <2>3, <2>6
    <3> QED BY <2>3, <2>4, <2>7, <3>1, <3>2, HotplugCalm
  <2>9. \A e \in CPUs : e \in online => Finished(e) /\ Finished(e)'
    <3>1. ASSUME NEW e \in CPUs, e \in online
          PROVE  e < cpu[Hotplug] \/ e = cpu[Hotplug]
      <4>1. e \in populated /\ e \in Nat
        BY <2>5, <3>1, Actor DEF ThreadOK
      <4>2. e <= cpu[Hotplug]
        BY <1>15, <4>1 DEF DestroyEnds, Visited, wq_cpu_map
      <4> QED BY <2>2, <4>1, <4>2
    <3> QED BY <2>2, <2>3, <3>1 DEF Finished
  <2>10. HotplugOK'
    BY <2>2, <2>3, <2>4, <2>5, <2>6, <2>9 DEF HotplugOK, Destroying
  <2>11. ASSUME NEW e \in CPUs
         PROVE  ThreadOK(e)'
    <3>1. CASE e = c
      BY <2>2, <2>3, <2>4, <2>5, <2>6, <2>8, <2>9, <3>1, Actor DEF ThreadOK, HotplugOK, Destroying
    <3>2. CASE e # c
      <4>1. ThreadOK(e) /\ Thread(e)' = Thread(e) /\ e # 0
        BY <2>5, <2>8, <3>2, Actor
      <4> QED BY <2>2, <2>3, <2>4, <2>5, <2>9, <3>2, <4>1 DEF ThreadOK, HotplugOK, Destroying
    <3> QED BY <3>1, <3>2
  <2>12. Settled'
    <3>1. \A a \in Actors : pc'[a] \in {"queue", "insert"} => cpu'[a] \in online'
      BY <2>4, <2>8 DEF Same
    <3>2. Destroying' => Destroying
      BY <2>2, <2>3 DEF Destroying
    <3> QED BY <3>1, <3>2, SettledKept DEF Sound, Threads
  <2>13. ASSUME NEW e \in CPUs
         PROVE  EmptyOK(e)'
    <3>1. Drained' => Drained /\ cpu'[Hotplug] = cpu[Hotplug]
      BY <1>15, <2>2, <2>3 DEF Drained, DestroyEnds, Quiet
    <3>2. CASE e = c
      <4>1. MustBeEmpty(c)' => MustBeEmpty(c)
        BY <2>2, <2>3, <2>4, <2>5, <2>6, <3>1, <2>9 DEF MustBeEmpty, Drained, ThreadOK, HotplugOK
      <4> QED BY <2>4, <2>5, <3>2, <4>1 DEF EmptyOK
    <3>3. CASE e # c
      <4>1. MustBeEmpty(e)' => MustBeEmpty(e)
        BY <2>2, <2>3, <2>4, <2>8, <3>1, <3>3 DEF MustBeEmpty
      <4> QED BY <2>4, <2>5, <4>1 DEF EmptyOK
    <3> QED BY <3>2, <3>3
  <2> QED BY <2>8, <2>10, <2>11, <2>12, <2>13 DEF Rest, Threads, ListsAreEmpty
<1> QED BY <1>1, <1>2, <1>3, <1>4, <1>5, <1>6, <1>7, <1>8, <1>9, <1>10, <1>11, <1>12, <1>13,
        <1>14, <1>15

(* cleanup_workqueue_thread() puts its barrier behind what is on the list  *)
(* of the CPU whose worker is to stop.                                     *)
LEMMA CleanupInsertsKeeps ==
  ASSUME Sound, Follows, NEW c \in CPUs, CleanupInserts(c)
  PROVE  PendingOwned' /\ Rest'
<1>1. HotplugAt(pc[Hotplug], next[Hotplug], work[Hotplug], cpu[Hotplug])
  BY LocalFacts DEF Sound
<1>2. /\ pc[Hotplug] = "cleanup" /\ cpu[Hotplug] = c /\ work[Hotplug] = Null
      /\ next[Hotplug] \in {"unpopulate", "destroy_scan"} /\ Active(c)
  BY <1>1 DEF CleanupInserts, HotplugAt
<1>3. /\ pc'[Hotplug] = "cleanup_wait" /\ next'[Hotplug] = next[Hotplug]
      /\ work'[Hotplug] = Null /\ cpu'[Hotplug] = c /\ Others(Hotplug)
  <2>1. PICK n : n = next[Hotplug]
    OBVIOUS
  <2>2. Move(Hotplug, "cleanup_wait", n, Null, c)
    BY <2>1 DEF CleanupInserts
  <2>3. Goes(Hotplug, "cleanup_wait", n, Null, c) /\ Others(Hotplug)
    BY <2>2, MoveFacts, Actor DEF Sound
  <2> QED BY <2>1, <2>3 DEF Goes
<1>4. PICK l : l = list_add_tail(worklist[c], Hotplug)
  OBVIOUS
<1>5. /\ ListEntries(l) = ListEntries(worklist[c]) \cup {Hotplug}
      /\ Hotplug \notin ListEntries(worklist[c]) => ListOK(l)
      /\ \A x, y : Ahead(worklist[c], x, y) => Ahead(l, x, y)
  <2>1. PICK S, s, t : S = Works \cup Flushers /\ s = worklist[c] /\ t = Hotplug
    OBVIOUS
  <2>2. s \in Seq(S)
    BY <2>1 DEF Sound, Types
  <2>3. t \in S
    BY <2>1, Actor
  <2>4. ListOK(s)
    BY <2>1 DEF Sound, Barriers
  <2>5. l = list_add_tail(s, t)
    BY <1>4, <2>1
  <2>6. ListEntries(list_add_tail(s, t)) = ListEntries(s) \cup {t}
    BY ONLY <2>2, <2>3, <2>4, AddTailFacts
  <2>7. t \notin ListEntries(s) => ListOK(l)
    BY <2>2, <2>3, <2>4, <2>5, AddTailFacts
  <2>8. \A x, y : Ahead(s, x, y) => Ahead(l, x, y)
    BY <2>2, <2>3, <2>4, <2>5, AddTailOrder
  <2> QED BY <2>1, <2>5, <2>6, <2>7, <2>8
<1>6. WaitsOn(Hotplug) = 0 /\ WaitsOn(Hotplug)' = c
  BY <1>2, <1>3 DEF WaitsOn
<1>7. Hand(Hotplug)' = Hand(Hotplug) /\ cpu'[Hotplug] = cpu[Hotplug]
  BY <1>2, <1>3 DEF Hand
<1>8. Links(Hotplug, c, l)
  BY <1>2, <1>3, <1>4, <1>5, <1>6, <1>7 DEF Links, CleanupInserts
<1>9. Threads'
  <2>1. should_stop' = should_stop /\ online' = online /\ populated' = populated
    BY DEF CleanupInserts, Barrier, global
  <2>2. \A e \in CPUs : Same(e) /\ Thread(e)' = Thread(e)
    BY <1>3, SameViews, Actor DEF Others
  <2>3. (Destroying' <=> Destroying) /\ \A e \in CPUs : Finished(e)' <=> Finished(e)
    BY <1>2, <1>3 DEF Destroying, Finished
  <2>4. HotplugOK'
    BY <1>2, <1>3, <2>1, <2>2, <2>3 DEF Sound, Threads, HotplugOK
  <2>5. ASSUME NEW e \in CPUs
        PROVE  ThreadOK(e)'
    <3>1. ThreadOK(e) /\ Thread(e)' = Thread(e)
      BY <2>2 DEF Sound, Threads
    <3> QED BY <1>2, <1>3, <2>1, <2>3, <3>1 DEF ThreadOK
  <2>6. Settled'
    <3>1. ASSUME NEW a \in Actors, pc'[a] \in {"queue", "insert"}
          PROVE  cpu'[a] \in online'
      <4>1. Same(a)
        BY <1>3, <3>1 DEF Others
      <4> QED BY <2>1, <3>1, <4>1 DEF Sound, Threads, Settled, Same
    <3> QED BY <2>3, <3>1, SettledKept DEF Sound, Threads
  <2> QED BY <2>4, <2>5, <2>6 DEF Threads
<1> QED BY <1>8, <1>9, LinksKeeps, Actor

(* When destroy_workqueue() has come to its end no CPU has a worker, no    *)
(* list has an entry, and nobody holds a work item.                        *)
LEMMA FreedFacts ==
  ASSUME Sound, pc[Hotplug] = "freed"
  PROVE  /\ \A c \in CPUs : /\ Thread(c) = "no thread" /\ pc[c] = "no thread" /\ ~Active(c)
                            /\ worklist[c] = <<>> /\ current_work[c] = Null /\ next[c] = "idle"
         /\ \A a \in Tasks \cup Works : pc[a] = "idle" /\ next[a] = "idle"
         /\ next[Hotplug] = "destroy_scan" /\ work[Hotplug] = Null /\ cpu[Hotplug] = 0
         /\ \A w \in Works : ~pending[w]
<1>1. next[Hotplug] = "destroy_scan" /\ work[Hotplug] = Null /\ cpu[Hotplug] = 0
  <2>1. HotplugAt(pc[Hotplug], next[Hotplug], work[Hotplug], cpu[Hotplug])
    BY LocalFacts DEF Sound
  <2> QED BY <2>1 DEF HotplugAt
<1>2. Destroying
  BY DEF Destroying
<1>3. ASSUME NEW c \in CPUs
      PROVE  /\ Thread(c) = "no thread" /\ pc[c] = "no thread" /\ ~Active(c)
             /\ worklist[c] = <<>> /\ current_work[c] = Null /\ next[c] = "idle"
  <2>1. ThreadOK(c) /\ Finished(c) /\ c # 0
    BY Actor DEF Sound, Threads, Finished
  <2>2. Thread(c) = "no thread"
    BY <1>1, <1>2, <2>1 DEF ThreadOK
  <2>3. ~Active(c)
    BY <2>2, NotActive DEF MustBeEmpty
  <2>4. pc[c] = "no thread"
    BY <2>2 DEF Thread
  <2>5. WorkerAt(pc[c], next[c], work[c], cpu[c])
    BY LocalFacts DEF Sound
  <2> QED BY <2>2, <2>3, <2>4, <2>5 DEF Active, WorkerAt
<1>4. ASSUME NEW a \in Tasks \cup Works
      PROVE  pc[a] = "idle" /\ next[a] = "idle"
  <2>1. pc[a] = "idle"
    BY <1>2 DEF Sound, Threads, Settled
  <2>2. CASE a \in Tasks
    <3>1. TaskAt(pc[a], next[a], work[a], cpu[a])
      BY <2>2, LocalFacts DEF Sound
    <3> QED BY <2>1, <3>1 DEF TaskAt
  <2>3. CASE a \in Works
    <3>1. TimerAt(a, pc[a], next[a], work[a], cpu[a])
      BY <2>3, LocalFacts DEF Sound
    <3> QED BY <2>1, <3>1 DEF TimerAt
  <2> QED BY <2>2, <2>3
<1>5. ASSUME NEW w \in Works
      PROVE  ~pending[w]
  <2>1. PICK kind \in {"none", "list", "timer", "clear", "actor"}, a \in Actors : Owned(w, kind, a)
    BY DEF Sound, PendingOwned
  <2>2. ASSUME NEW c \in CPUs
        PROVE  w \notin ListEntries(worklist[c]) /\ Clearing(c) # w
    <3>1. worklist[c] = <<>> /\ current_work[c] = Null /\ w # Null
      BY <1>3, Actor
    <3>2. w \notin ListEntries(worklist[c])
      BY <3>1 DEF ListEntries
    <3>3. Clearing(c) # w
      BY <3>1 DEF Clearing
    <3> QED BY <3>2, <3>3
  <2>3. pc[w] # "armed"
    BY <1>4
  <2>4. \A b \in Actors : Hand(b) # w
    <3>1. ASSUME NEW b \in Actors
          PROVE  Hand(b) = Null
      <4>1. CASE b = Hotplug
        BY <1>1, <4>1 DEF Hand
      <4>2. CASE b \in CPUs
        BY <1>3, <4>2 DEF Hand
      <4>3. CASE b \in Tasks \cup Works
        BY <1>4, <4>3 DEF Hand
      <4> QED BY <4>1, <4>2, <4>3 DEF Actors
    <3> QED BY <3>1, Actor
  <2> QED BY <2>1, <2>2, <2>3, <2>4 DEF Owned
<1> QED BY <1>1, <1>3, <1>4, <1>5

(* __create_workqueue_key() after destroy_workqueue(): everything is as in *)
(* the beginning, on the CPUs that are online.                             *)
LEMMA RecreateKeeps ==
  ASSUME Sound, Follows, create_workqueue
  PROVE  PendingOwned' /\ Rest'
<1>1. pc[Hotplug] = "freed" /\ online \subseteq CPUs
  BY DEF create_workqueue, Sound, Types
<1>2. /\ \A c \in CPUs : /\ Thread(c) = "no thread" /\ pc[c] = "no thread"
                         /\ worklist[c] = <<>> /\ current_work[c] = Null /\ next[c] = "idle"
      /\ \A a \in Tasks \cup Works : pc[a] = "idle" /\ next[a] = "idle"
      /\ next[Hotplug] = "destroy_scan" /\ work[Hotplug] = Null /\ cpu[Hotplug] = 0
  BY <1>1, FreedFacts
<1>3. /\ UNCHANGED <<pending, worklist, current_work, work, cpu, done, online, populated, due>>
      /\ pc'[Hotplug] = "idle" /\ next'[Hotplug] = "idle"
  BY Actor DEF create_workqueue, masks, Sound, Types
<1>4. \A c \in CPUs : /\ pc'[c] = IF c \in online THEN "prepare" ELSE "no thread"
                      /\ should_stop'[c] = (should_stop[c] /\ c \notin online)
                      /\ next'[c] = "idle"
  BY <1>2, Actor DEF create_workqueue, Sound, Types
<1>5. \A a \in Tasks \cup Works : a \in Actors /\ pc'[a] = "idle" /\ next'[a] = "idle" /\ Same(a)
  <2>1. ASSUME NEW a \in Tasks \cup Works
        PROVE  a \in Actors /\ a # Hotplug /\ a \notin online
    BY <1>1, Actor
  <2>2. ASSUME NEW a \in Tasks \cup Works
        PROVE  pc'[a] = pc[a] /\ next'[a] = next[a]
    BY <2>1 DEF create_workqueue, Sound, Types
  <2> QED BY <1>2, <1>3, <2>1, <2>2 DEF Same
<1>6. \A a \in Actors : Hand(a) = Null /\ Hand(a)' = Null
  <2>1. Hand(Hotplug) = Null /\ Hand(Hotplug)' = Null
    BY <1>2, <1>3 DEF Hand
  <2>2. ASSUME NEW c \in CPUs
        PROVE  Hand(c) = Null /\ Hand(c)' = Null
    <3>1. Hand(c) = Null
      BY <1>2 DEF Hand
    <3>2. pc'[c] \in {"prepare", "no thread"} /\ next'[c] = "idle"
      BY <1>4
    <3> QED BY <3>1, <3>2 DEF Hand
  <2>3. ASSUME NEW a \in Tasks \cup Works
        PROVE  Hand(a) = Null /\ Hand(a)' = Null
    BY <1>2, <1>5 DEF Hand
  <2> QED BY <2>1, <2>2, <2>3 DEF Actors
<1>7. \A c \in CPUs : Clearing(c) = Null /\ Clearing(c)' = Null
  BY <1>2, <1>3 DEF Clearing
<1>8. ASSUME NEW c \in CPUs, NEW x
      PROVE  x \notin ListEntries(worklist[c]) /\ x \notin ListEntries(worklist'[c])
  <2>1. worklist[c] = <<>> /\ worklist'[c] = <<>>
    BY <1>2, <1>3
  <2> QED BY <2>1 DEF ListEntries
<1>9. \A a \in Actors : pc'[a] \notin {"queue", "insert", "add_timer"}
  BY <1>3, <1>4, <1>5 DEF Actors
<1>10. PendingOwned'
  <2>1. ASSUME NEW w \in Works
        PROVE  SameOwner(w)
    BY <1>3, <1>5, <1>6, <1>7, <1>8, Actor DEF SameOwner, Same
  <2> QED BY <2>1, OwnersKept DEF Sound
<1>11. Barriers'
  <2>1. \A f \in Flushers : BarrierOK(f)'
    BY <1>7, <1>8, BarrierGone, Actor
  <2> QED BY <1>3, <2>1 DEF Barriers, Sound
<1>12. DataIsRight'
  <2>1. \A c \in CPUs : current_work'[c] = Null
    BY <1>2, <1>3
  <2> QED BY <1>7, <1>8, <1>9, <2>1, Actor DEF DataIsRight
<1>13. ~Destroying'
  BY <1>3 DEF Destroying
<1>14. ASSUME NEW c \in CPUs
       PROVE  ThreadOK(c)'
  <2>1. ThreadOK(c) /\ c # 0
    BY Actor DEF Sound, Threads
  <2>2. Thread(c)' = IF c \in online THEN "runs" ELSE "no thread"
    BY <1>4 DEF Thread
  <2> QED BY <1>1, <1>2, <1>3, <1>4, <1>13, <2>1, <2>2 DEF ThreadOK
<1>15. Threads'
  <2>1. HotplugOK'
    BY <1>3, <1>13 DEF HotplugOK
  <2>2. Settled'
    BY <1>9, <1>13 DEF Settled
  <2> QED BY <1>14, <2>1, <2>2 DEF Threads
<1>16. ListsAreEmpty'
  BY <1>2, <1>3 DEF ListsAreEmpty, EmptyOK
<1>17. ASSUME NEW t \in Tasks
       PROVE  due[t] = {} /\ due'[t] = {}
  <2>1. ASSUME NEW d \in due[t]
        PROVE  FALSE
    <3>1. Active(d.cpu) /\ d.cpu \in CPUs
      BY DueFacts
    <3> QED BY <1>2, <3>1 DEF Active
  <2> QED BY <1>3, <2>1
<1>18. Cancelled'
  BY <1>5, CancelNothing DEF Cancelled
<1>19. DueIsThere' /\ DueIsAhead'
  BY <1>17 DEF DueIsThere, DueIsAhead, DueOK
<1> QED BY <1>10, <1>11, <1>12, <1>15, <1>16, <1>18, <1>19 DEF Rest

------------------------------------------------------------------------------
(* Who holds cwq->lock between two steps, and what that pins. *)
Pins == Locked /\ Timely /\ Pinned

(* What t relies on between its two reads is left alone. *)
Undisturbed(t) ==
  /\ work[t] \in ListEntries(worklist[cpu[t]]) => work[t] \in ListEntries(worklist'[cpu[t]])
  /\ ~Delays /\ data'[work[t]] = cpu[t] => data[work[t]] = cpu[t]
  /\ \A d \in due'[t] : d.own => \E e \in due[t] : e.own

(* Who holds a lock holds that of a CPU. *)
LEMMA HolderFacts ==
  ASSUME Sound, NEW a \in Actors, Holds(a)
  PROVE  lock[cpu[a]] = a /\ cpu[a] \in CPUs /\ a # Null
<1>1. lock[cpu[a]] = a
  BY DEF Sound, Locked
<1>2. CASE a \in Tasks
  <2>1. TaskAt(pc[a], next[a], work[a], cpu[a])
    BY <1>2, LocalFacts DEF Sound
  <2> QED BY <1>1, <1>2, <2>1, Actor DEF TaskAt, Holds
<1>3. CASE a \in CPUs
  <2>1. WorkerAt(pc[a], next[a], work[a], cpu[a])
    BY <1>3, LocalFacts DEF Sound
  <2> QED BY <1>1, <1>3, <2>1, Actor DEF WorkerAt, Holds
<1>4. CASE a \in Works
  <2>1. TimerAt(a, pc[a], next[a], work[a], cpu[a])
    BY <1>4, LocalFacts DEF Sound
  <2> QED BY <1>1, <1>4, <2>1, Actor DEF TimerAt, Holds
<1>5. CASE a = Hotplug
  <2>1. HotplugAt(pc[a], next[a], work[a], cpu[a])
    BY <1>5, LocalFacts DEF Sound
  <2> QED BY <1>1, <1>5, <2>1, Actor DEF HotplugAt, Holds
<1> QED BY <1>2, <1>3, <1>4, <1>5 DEF Actors

(* The pin of a task that is left alone stays. *)
LEMMA PinKept ==
  ASSUME NEW t, PinnedOK(t), Same(t), Delays' <=> Delays, Holds(t) => Undisturbed(t)
  PROVE  PinnedOK(t)'
BY DEF PinnedOK, Same, Undisturbed, Holds

(* a moves, and b with it: a takes a lock only if it is free to, and those *)
(* who hold one keep it.                                                   *)
LEMMA PinsKept ==
  ASSUME Sound, Follows, NEW a \in Actors, NEW b \in Actors, OthersBoth(a, b),
         b = a \/ (b \notin Tasks /\ ~Holds(b)' /\ pc'[b] # "add_timer"),
         Holds(a)' => lock'[cpu'[a]] = a, pc'[a] = "add_timer" => Delays,
         a \in Tasks => PinnedOK(a)',
         \A e \in Actors : e # a /\ e # b /\ Holds(e) => lock'[cpu[e]] = e,
         \A t \in Tasks : t # a /\ Holds(t) => Undisturbed(t)
  PROVE  Pins'
<1>1. Delays' <=> Delays
  BY ProgramSame DEF Follows, Delays, May
<1>2. \A e \in Actors : e # a /\ e # b => Same(e)
  BY DEF OthersBoth
<1>3. Locked'
  <2>1. ASSUME NEW e \in Actors, Holds(e)'
        PROVE  lock'[cpu'[e]] = e
    <3>1. CASE e = a
      BY <2>1, <3>1
    <3>2. CASE e # a
      <4>1. Same(e) /\ e # b
        BY <1>2, <2>1, <3>2
      <4>2. Holds(e) /\ cpu'[e] = cpu[e]
        BY <2>1, <4>1 DEF Same, Holds
      <4> QED BY <3>2, <4>1, <4>2
    <3> QED BY <3>1, <3>2
  <2> QED BY <2>1 DEF Locked
<1>4. Timely'
  <2>1. ASSUME ~Delays, NEW e \in Actors
        PROVE  pc'[e] # "add_timer"
    <3>1. CASE e = a \/ e = b
      BY <2>1, <3>1
    <3>2. CASE e # a /\ e # b
      BY <1>2, <2>1, <3>2 DEF Sound, Timely, Same
    <3> QED BY <3>1, <3>2
  <2> QED BY <1>1, <2>1 DEF Timely
<1>5. Pinned'
  <2>1. ASSUME NEW t \in Tasks
        PROVE  PinnedOK(t)'
    <3>1. CASE t = a
      BY <3>1
    <3>2. CASE t # a
      <4>1. Same(t) /\ PinnedOK(t)
        BY <1>2, <3>2, Actor DEF Sound, Pinned
      <4> QED BY <1>1, <3>2, <4>1, PinKept
    <3> QED BY <3>1, <3>2
  <2> QED BY <2>1 DEF Pinned
<1> QED BY <1>3, <1>4, <1>5 DEF Pins

(* A task that is not between its two reads relies on nothing. *)
LEMMA NotPinned ==
  ASSUME NEW t, pc'[t] \notin {"steal_data", "flush_data"}
  PROVE  PinnedOK(t)'
BY DEF PinnedOK

(* Steps that touch no lock and no work->data and take no work item off a  *)
(* list.                                                                   *)
Harmless(a) ==
  /\ pc'[a] \notin {"insert", "steal_data", "flush_data"}
  /\ pc'[a] = "add_timer" => Delays
  /\ lock' = lock /\ data' = data
  /\ \A c \in CPUs, w \in Works : w \in ListEntries(worklist[c]) => w \in ListEntries(worklist'[c])
  /\ \A t \in Tasks : t # a => \A d \in due'[t] : d.own => \E e \in due[t] : e.own

(* They keep the locks and the pins. *)
LEMMA HarmlessBoth ==
  ASSUME Sound, Follows, NEW a \in Actors, NEW b \in Actors, OthersBoth(a, b),
         b = a \/ (b \notin Tasks /\ ~Holds(b)' /\ pc'[b] # "add_timer"), Harmless(a)
  PROVE  Pins'
<1>1. ~Holds(a)' /\ PinnedOK(a)'
  BY NotPinned DEF Harmless, Holds
<1>2. \A e \in Actors : Holds(e) => lock'[cpu[e]] = e
  BY HolderFacts DEF Harmless
<1>3. ASSUME NEW t \in Tasks, t # a, Holds(t)
      PROVE  Undisturbed(t)
  <2>1. cpu[t] \in CPUs
    BY <1>3, HolderFacts, Actor
  <2>2. work[t] \in Works
    BY <1>3, TaskWork DEF Holds, Sound
  <2> QED BY <1>3, <2>1, <2>2 DEF Harmless, Undisturbed
<1> QED BY <1>1, <1>2, <1>3, PinsKept DEF Harmless

(* One actor moves, and the lists are left alone. *)
LEMMA HarmlessMove ==
  ASSUME Sound, Follows, NEW a \in Actors, NEW p, NEW n, NEW x, NEW k, Move(a, p, n, x, k),
         p \notin {"insert", "steal_data", "flush_data"}, p = "add_timer" => Delays,
         lock' = lock, data' = data, worklist' = worklist,
         \A t \in Tasks : t # a => due'[t] = due[t]
  PROVE  Pins'
<1>1. Goes(a, p, n, x, k) /\ Others(a)
  BY MoveFacts DEF Sound
<1>2. OthersBoth(a, a)
  BY <1>1 DEF Others, OthersBoth
<1>3. Harmless(a)
  BY <1>1 DEF Harmless, Goes
<1> QED BY <1>2, <1>3, HarmlessBoth

(* Two actors move, and the lists are left alone. *)
LEMMA HarmlessMoveBoth ==
  ASSUME Sound, Follows, NEW a \in Actors, NEW p, NEW n, NEW x, NEW k, NEW b \in Actors, NEW q,
         MoveBoth(a, p, n, x, k, b, q), a # b, b \notin Tasks,
         p \notin {"insert", "steal_data", "flush_data", "add_timer"},
         q \notin {"insert", "steal_data", "flush_data", "add_timer"},
         lock' = lock, data' = data, worklist' = worklist, due' = due
  PROVE  Pins'
<1>1. Goes(a, p, n, x, k) /\ Goes(b, q, next[b], work[b], cpu[b]) /\ OthersBoth(a, b)
  BY MoveBothFacts DEF Sound
<1>2. ~Holds(b)' /\ pc'[b] # "add_timer"
  BY <1>1 DEF Goes, Holds
<1>3. Harmless(a)
  BY <1>1 DEF Harmless, Goes
<1> QED BY <1>1, <1>2, <1>3, HarmlessBoth

(* A flusher inserts a barrier. *)
LEMMA BarrierPins ==
  ASSUME Sound, Follows, NEW f \in Flushers, NEW p, NEW n, NEW x, NEW k, Move(f, p, n, x, k),
         p \in {"flush_wait", "work_wait", "wait_wait", "cleanup_wait"}, lock' = lock,
         NEW c \in CPUs, NEW l, Barrier(f, c, l),
         l = list_add_tail(worklist[c], f) \/ l = AddFirst(worklist[c], f)
  PROVE  Pins'
<1>1. f \in Actors
  BY DEF Flushers, Actors
<1>2. Goes(f, p, n, x, k) /\ OthersBoth(f, f)
  BY <1>1, MoveFacts DEF Sound, Others, OthersBoth
<1>3. PICK S, s : S = Works \cup Flushers /\ s = worklist[c]
  OBVIOUS
<1>4. s \in Seq(S) /\ f \in S
  BY <1>3 DEF Sound, Types
<1>5. ListEntries(list_add_tail(s, f)) = ListEntries(s) \cup {f}
  BY ONLY <1>4, AddTailFacts
<1>6. ListEntries(AddFirst(s, f)) = ListEntries(s) \cup {f}
  BY ONLY <1>4, AddFirstFacts
<1>7. \A e \in CPUs : worklist'[e] = IF e = c THEN l ELSE worklist[e]
  BY DEF Barrier, Sound, Types
<1>8. \A e \in CPUs, w \in Works :
        w \in ListEntries(worklist[e]) => w \in ListEntries(worklist'[e])
  BY <1>3, <1>5, <1>6, <1>7
<1>9. Harmless(f)
  BY <1>2, <1>8 DEF Harmless, Barrier, Goes
<1> QED BY <1>1, <1>2, <1>9, HarmlessBoth

(* The lock that a holds is released: the others hold other ones. *)
LEMMA LockReleased ==
  ASSUME Sound, NEW a \in Actors, Holds(a), lock' = [lock EXCEPT ![cpu[a]] = Null]
  PROVE  \A e \in Actors : e # a /\ Holds(e) => lock'[cpu[e]] = e /\ cpu[e] # cpu[a]
BY HolderFacts DEF Sound, Types

(* The lock that a takes was free: the others hold other ones. *)
LEMMA LockTaken ==
  ASSUME Sound, NEW a \in Actors, cpu[a] \in CPUs, lock[cpu[a]] = Null,
         lock' = [lock EXCEPT ![cpu[a]] = a]
  PROVE  /\ lock'[cpu[a]] = a
         /\ \A e \in Actors : e # a /\ Holds(e) => lock'[cpu[e]] = e /\ cpu[e] # cpu[a]
BY HolderFacts DEF Sound, Types

(* A task looks whether the work item is on a list, and keeps the lock. *)
LEMMA LooksPins ==
  ASSUME Sound, Follows, NEW t \in Tasks, LockLooks(t) \/ StealLooks(t)
  PROVE  Pins'
<1>1. TaskAt(pc[t], next[t], work[t], cpu[t])
  BY LocalFacts DEF Sound
<1>2. work[t] \in Works /\ cpu[t] \in CPUs /\ t \in Actors
  BY <1>1, Actor DEF TaskAt, LockLooks, StealLooks
<1>3. Others(t) /\ work'[t] = work[t] /\ cpu'[t] = cpu[t] /\ pc'[t] \in {"flush_data", "steal_data"}
  <2>1. CASE LockLooks(t)
    BY <1>2, <2>1, MoveFacts DEF LockLooks, Goes, Sound
  <2>2. CASE StealLooks(t)
    BY <1>2, <2>2, MoveFacts DEF StealLooks, Goes, Sound
  <2> QED BY <2>1, <2>2
<1>4. /\ lock[cpu[t]] = Null /\ lock' = [lock EXCEPT ![cpu[t]] = t] /\ Listed(work[t])
      /\ data' = data /\ worklist' = worklist /\ due' = due
  BY DEF LockLooks, StealLooks, lists
<1>5. /\ lock'[cpu[t]] = t
      /\ \A e \in Actors : e # t /\ Holds(e) => lock'[cpu[e]] = e /\ cpu[e] # cpu[t]
  BY <1>2, <1>4, LockTaken
<1>6. \A u \in Tasks : Undisturbed(u)
  BY <1>4 DEF Undisturbed
<1>7. PinnedOK(t)'
  <2>1. data[work[t]] = cpu[t] => work[t] \in ListEntries(worklist[cpu[t]])
    BY <1>2, <1>4, ListedWhere DEF Sound
  <2>2. ASSUME NEW d \in due[t], d.own
        PROVE  data[work[t]] = cpu[t]
    <3>1. pc[t] = "flush_lock"
      BY <2>2, NothingDue DEF LockLooks, StealLooks
    <3>2. AtMost(work[t], cpu[t])
      BY <2>2, <3>1 DEF Sound, DueIsAhead, DueOK
    <3> QED BY <1>4, <3>2 DEF AtMost
  <2> QED BY <1>3, <1>4, <2>1, <2>2 DEF PinnedOK
<1>8. OthersBoth(t, t)
  BY <1>3 DEF Others, OthersBoth
<1> QED BY <1>2, <1>3, <1>5, <1>6, <1>7, <1>8, PinsKept

(* A task leaves with nothing done, and releases the lock. *)
LEMMA LeavesPins ==
  ASSUME Sound, Follows, NEW t \in Tasks, LockLeaves(t) \/ StealFails(t)
  PROVE  Pins'
<1>1. PICK p, n, x, k : p \in {"idle", "wait_on_work"} /\ Move(t, p, n, x, k)
  BY DEF LockLeaves, StealFails
<1>2. Goes(t, p, n, x, k) /\ Others(t) /\ t \in Actors
  BY <1>1, MoveFacts, Actor DEF Sound
<1>3. data' = data /\ worklist' = worklist /\ due' = due
  BY DEF LockLeaves, StealFails, lists
<1>4. CASE lock' = lock
  BY <1>1, <1>2, <1>3, <1>4, HarmlessMove
<1>5. CASE lock' # lock
  <2>1. Holds(t) /\ lock' = [lock EXCEPT ![cpu[t]] = Null]
    BY <1>5 DEF LockLeaves, StealFails, Holds
  <2>2. \A e \in Actors : e # t /\ Holds(e) => lock'[cpu[e]] = e
    BY <1>2, <2>1, LockReleased
  <2>3. \A u \in Tasks : Undisturbed(u)
    BY <1>3 DEF Undisturbed
  <2>4. ~Holds(t)' /\ pc'[t] # "add_timer" /\ PinnedOK(t)'
    BY <1>1, <1>2, NotPinned DEF Goes, Holds
  <2>5. OthersBoth(t, t)
    BY <1>2 DEF Others, OthersBoth
  <2> QED BY <1>2, <2>2, <2>3, <2>4, <2>5, PinsKept
<1> QED BY <1>4, <1>5

(* A task links its barrier behind the work item, under the lock of its list. *)
LEMMA BehindPins ==
  ASSUME Sound, Follows, NEW t \in Tasks, NEW c \in CPUs, LockBehind(t, c)
  PROVE  Pins'
<1>1. Goes(t, "work_wait", "idle", work[t], c) /\ Others(t) /\ t \in Actors
  BY MoveFacts, Actor DEF Sound, LockBehind
<1>2. Holds(t) /\ lock' = [lock EXCEPT ![cpu[t]] = Null] /\ data' = data /\ due' = due
  BY DEF LockBehind, Barrier, Holds
<1>3. \A e \in Actors : e # t /\ Holds(e) => lock'[cpu[e]] = e /\ cpu[e] # cpu[t]
  BY <1>1, <1>2, LockReleased
<1>4. ASSUME NEW u \in Tasks, u # t, Holds(u)
      PROVE  Undisturbed(u)
  <2>1. cpu[u] \in CPUs /\ cpu[u] # c
    BY <1>3, <1>4, HolderFacts, Actor DEF LockBehind
  <2>2. worklist'[cpu[u]] = worklist[cpu[u]]
    BY <2>1 DEF LockBehind, Barrier, Sound, Types
  <2> QED BY <1>2, <2>2 DEF Undisturbed
<1>5. ~Holds(t)' /\ pc'[t] # "add_timer" /\ PinnedOK(t)'
  BY <1>1, NotPinned DEF Goes, Holds
<1>6. OthersBoth(t, t)
  BY <1>1 DEF Others, OthersBoth
<1> QED BY <1>1, <1>3, <1>4, <1>5, <1>6, PinsKept

(* A task steals the work item, under the lock of its list: it is on no    *)
(* other one.                                                              *)
LEMMA StealPins ==
  ASSUME Sound, Follows, NEW t \in Tasks, Steals(t)
  PROVE  Pins'
<1>1. Goes(t, "wait_on_work", "clear_pending", work[t], 0) /\ Others(t) /\ t \in Actors
  BY MoveFacts, Actor DEF Sound, Steals
<1>2. Holds(t) /\ lock' = [lock EXCEPT ![cpu[t]] = Null] /\ data' = data
  BY DEF Steals, Holds
<1>3. \A e \in Actors : e # t /\ Holds(e) => lock'[cpu[e]] = e /\ cpu[e] # cpu[t]
  BY <1>1, <1>2, LockReleased
<1>4. work[t] \in Works /\ cpu[t] \in CPUs
  BY <1>1, <1>2, HolderFacts, TaskWork DEF Steals, Sound
<1>5. ASSUME NEW u \in Tasks, u # t, Holds(u)
      PROVE  Undisturbed(u)
  <2>1. cpu[u] \in CPUs /\ cpu[u] # cpu[t]
    BY <1>3, <1>5, HolderFacts, Actor
  <2>2. work[t] \notin ListEntries(worklist[cpu[u]])
    BY <1>4, <2>1 DEF Steals, Sound, DataIsRight
  <2>3. worklist'[cpu[u]] = worklist[cpu[u]]
    BY <2>1, <2>2 DEF Steals
  <2>4. \A d \in due'[u] : d \in due[u]
    BY DEF Steals
  <2> QED BY <1>2, <2>3, <2>4 DEF Undisturbed
<1>6. ~Holds(t)' /\ pc'[t] # "add_timer" /\ PinnedOK(t)'
  BY <1>1, NotPinned DEF Goes, Holds
<1>7. OthersBoth(t, t)
  BY <1>1 DEF Others, OthersBoth
<1> QED BY <1>1, <1>3, <1>5, <1>6, <1>7, PinsKept

(* Somebody queues a work item: it takes the lock and stores the data ...  *)
LEMMA SetsPins ==
  ASSUME Sound, Follows, NEW a \in Queuers, SetsData(a)
  PROVE  Pins'
<1>1. work[a] \in Works /\ cpu[a] \in CPUs /\ a \in Actors
  BY QueuerFacts DEF SetsData, Sound
<1>2. Goes(a, "insert", next[a], work[a], cpu[a]) /\ Others(a)
  BY <1>1, MoveFacts DEF Sound, SetsData
<1>3. /\ lock'[cpu[a]] = a
      /\ \A e \in Actors : e # a /\ Holds(e) => lock'[cpu[e]] = e /\ cpu[e] # cpu[a]
  BY <1>1, LockTaken DEF SetsData
<1>4. ASSUME NEW u \in Tasks, u # a, Holds(u)
      PROVE  Undisturbed(u)
  <2>1. cpu[u] # cpu[a]
    BY <1>3, <1>4, Actor
  <2>2. work[u] \in Works
    BY <1>4, TaskWork DEF Holds, Sound
  <2>3. data'[work[u]] = cpu[u] => data[work[u]] = cpu[u]
    BY <1>1, <2>1, <2>2 DEF SetsData, Sound, Types
  <2>4. worklist' = worklist
    BY DEF SetsData
  <2>5. \A d \in due'[u] : d \in due[u]
    BY DEF SetsData, Excused
  <2> QED BY <2>3, <2>4, <2>5 DEF Undisturbed
<1>5. lock'[cpu'[a]] = a /\ pc'[a] # "add_timer" /\ PinnedOK(a)'
  BY <1>2, <1>3, NotPinned DEF Goes
<1>6. OthersBoth(a, a)
  BY <1>2 DEF Others, OthersBoth
<1> QED BY <1>1, <1>3, <1>4, <1>5, <1>6, PinsKept

(* ... links the work item and releases the lock. *)
LEMMA InsertPins ==
  ASSUME Sound, Follows, NEW a \in Queuers, Inserts(a)
  PROVE  Pins'
<1>1. work[a] \in Works /\ cpu[a] \in CPUs /\ a \in Actors /\ next[a] \in {"idle", "flush_work", "run"}
  BY QueuerFacts DEF Inserts, Sound
<1>2. PICK x : Goes(a, next[a], "idle", x, 0) /\ Others(a)
  BY <1>1, MoveFacts DEF Sound, Inserts
<1>3. Holds(a) /\ lock' = [lock EXCEPT ![cpu[a]] = Null] /\ data' = data /\ due' = due
  BY DEF Inserts, Holds
<1>4. \A e \in Actors : e # a /\ Holds(e) => lock'[cpu[e]] = e /\ cpu[e] # cpu[a]
  BY <1>1, <1>3, LockReleased
<1>5. ASSUME NEW u \in Tasks, u # a, Holds(u)
      PROVE  Undisturbed(u)
  <2>1. cpu[u] \in CPUs /\ cpu[u] # cpu[a]
    BY <1>4, <1>5, HolderFacts, Actor
  <2>2. worklist'[cpu[u]] = worklist[cpu[u]]
    BY <2>1 DEF Inserts, Sound, Types
  <2> QED BY <1>3, <2>2 DEF Undisturbed
<1>6. ~Holds(a)' /\ pc'[a] # "add_timer" /\ PinnedOK(a)'
  BY <1>1, <1>2, NotPinned DEF Goes, Holds
<1>7. OthersBoth(a, a)
  BY <1>2 DEF Others, OthersBoth
<1> QED BY <1>1, <1>4, <1>5, <1>6, <1>7, PinsKept

(* Somebody starts the timer: only with a delay is work->data stored       *)
(* without the lock.                                                       *)
LEMMA TimerPins ==
  ASSUME Sound, Follows, NEW a \in Queuers, AddsTimer(a)
  PROVE  Pins'
<1>1. PICK w \in Works : w = work[a] /\ a \in Actors /\ next[a] \in {"idle", "flush_work", "run"}
  BY QueuerFacts DEF AddsTimer, Sound
<1>2. w \in Actors /\ w \notin Tasks /\ Delays
  BY <1>1, Actor DEF AddsTimer, Sound, Timely
<1>3. a # w
  <2>1. ASSUME a \in Works PROVE FALSE
    <3>1. TimerAt(a, pc[a], next[a], work[a], cpu[a])
      BY <2>1, LocalFacts DEF Sound
    <3> QED BY <3>1 DEF AddsTimer, TimerAt
  <2> QED BY <1>1, <2>1
<1>4. Goes(a, next[a], "idle", Null, 0) /\ OthersBoth(a, w) /\ pc'[w] = "armed"
  BY <1>1, <1>2, <1>3, MoveBothFacts DEF Sound, AddsTimer, Goes
<1>5. lock' = lock /\ worklist' = worklist /\ due' = due
  BY DEF AddsTimer, lists
<1>6. \A u \in Tasks : Undisturbed(u)
  BY <1>2, <1>5 DEF Undisturbed
<1>7. \A e \in Actors : Holds(e) => lock'[cpu[e]] = e
  BY <1>5, HolderFacts
<1>8. ~Holds(a)' /\ PinnedOK(a)' /\ ~Holds(w)' /\ pc'[w] # "add_timer"
  BY <1>1, <1>4, NotPinned DEF Goes, Holds
<1> QED BY <1>1, <1>2, <1>4, <1>6, <1>7, <1>8, PinsKept

(* The worker of c goes on to the next work item, under the lock of c. *)
LEMMA WorkerPins ==
  ASSUME Sound, Follows, NEW c \in CPUs, NoMoreWork(c) \/ TakesWork(c)
  PROVE  Pins'
<1>1. Others(c) /\ pc'[c] \in {"prepare", "clear"} /\ c \in Actors
  <2>1. CASE NoMoreWork(c)
    BY <2>1, MoveFacts, Actor DEF NoMoreWork, Goes, Sound
  <2>2. CASE TakesWork(c)
    BY <2>2, MoveFacts, Actor DEF TakesWork, Goes, Sound
  <2> QED BY <2>1, <2>2
<1>2. lock' = lock /\ data' = data
  BY DEF NoMoreWork, TakesWork
<1>3. ASSUME NEW u \in Tasks, Holds(u)
      PROVE  Undisturbed(u)
  <2>1. cpu[u] \in CPUs /\ lock[cpu[u]] # Null
    BY <1>3, HolderFacts, Actor
  <2>2. worklist'[cpu[u]] = worklist[cpu[u]]
    BY <2>1 DEF NoMoreWork, TakesWork, Sound, Types
  <2>3. due[u] \in SUBSET Due /\ due'[u] = Progress(c, due[u])
    BY DEF NoMoreWork, TakesWork, Sound, Types
  <2>4. \A e \in due'[u] : \E d \in due[u] : e.own = d.own
    BY <2>3, ProgressFacts
  <2> QED BY <1>2, <2>2, <2>4 DEF Undisturbed
<1>4. \A e \in Actors : Holds(e) => lock'[cpu[e]] = e
  BY <1>2, HolderFacts
<1>5. ~Holds(c)' /\ pc'[c] # "add_timer" /\ c \notin Tasks
  BY <1>1, Actor DEF Holds
<1>6. OthersBoth(c, c)
  BY <1>1 DEF Others, OthersBoth
<1> QED BY <1>1, <1>3, <1>4, <1>5, <1>6, PinsKept

(* Nobody holds a lock while the workqueue is created. *)
LEMMA CreatePins ==
  ASSUME Sound, Follows, create_workqueue
  PROVE  Pins'
<1>1. Destroying
  BY DEF create_workqueue, Destroying
<1>2. /\ \A a \in Tasks \cup Works : pc[a] = "idle"
      /\ \A c \in CPUs : pc[c] \notin {"queue", "insert", "add_timer"}
  BY <1>1 DEF Sound, Threads, Settled
<1>3. /\ \A a \in Tasks \cup Works : pc'[a] = "idle"
      /\ \A c \in CPUs : pc'[c] \in {"prepare", pc[c]}
      /\ pc'[Hotplug] = "idle"
  BY <1>2, Actor DEF create_workqueue, Sound, Types
<1>4. \A c \in CPUs : pc[c] \in WorkerLabel
  <2>1. ASSUME NEW p, NEW n, NEW x, NEW k, WorkerAt(p, n, x, k)
        PROVE  p \in WorkerLabel
    BY <2>1 DEF WorkerAt, WorkerLabel
  <2> QED BY <2>1, LocalFacts DEF Sound
<1>5. \A c \in CPUs : pc'[c] \notin {"insert", "steal_data", "flush_data", "add_timer"}
  BY <1>2, <1>3, <1>4 DEF WorkerLabel
<1>6. \A a \in Actors : ~Holds(a)' /\ pc'[a] # "add_timer"
  BY <1>3, <1>5 DEF Actors, Holds
<1>7. \A t \in Tasks : PinnedOK(t)'
  BY <1>3, NotPinned
<1> QED BY <1>6, <1>7 DEF Pins, Locked, Timely, Pinned

(* Every step keeps the locks and the pins. *)
LEMMA PinsStep ==
  ASSUME Sound, Follows
  PROVE  Pins'
<1>1. ASSUME NEW t \in Tasks, NEW w \in Works, FlushReads(t, w)
      PROVE  Pins'
  <2>1. \A u \in Tasks : u # t => due'[u] = due[u]
    BY <1>1 DEF FlushReads, Sound, Types
  <2> QED BY <1>1, <2>1, HarmlessMove, Actor DEF FlushReads
<1>2. ASSUME NEW t \in Tasks, NEW w \in Works, NEW loop \in {"grab", "del_timer"},
        CancelStarts(t, w, loop)
      PROVE  Pins'
  BY <1>2, HarmlessMove, Actor DEF CancelStarts, Quiet, Waited, lists
<1>3. ASSUME NEW t \in Tasks, NEW w \in Works, CancelsTimer(t, w)
      PROVE  Pins'
  BY <1>3, HarmlessMoveBoth, Actor DEF CancelsTimer, lists
<1>4. ASSUME NEW t \in Tasks, NEW w \in Works, NEW c \in online, FlushQueues(t, w, c)
      PROVE  Pins'
  BY <1>4, HarmlessMoveBoth, Actor DEF FlushQueues, lists
<1>5. ASSUME NEW t \in Tasks, NEW w \in Works, NEW k \in online, NEW p \in {"queue",
        "add_timer"}, Takes(t, w, k, p, "idle", "idle")
      PROVE  Pins'
  <2>1. p = "add_timer" => Delays
    BY <1>5 DEF Takes, Delays
  <2> QED BY <1>5, <2>1, HarmlessMove, Actor DEF Takes, lists
<1>6. ASSUME NEW t \in Tasks, NEW c \in CPUs, FlushVisits(t, c)
      PROVE  Pins'
  BY <1>6, HarmlessMove, Actor DEF FlushVisits, Quiet, Waited, lists
<1>7. ASSUME NEW t \in Tasks, NEW c \in CPUs, FlushInserts(t, c)
      PROVE  Pins'
  BY <1>7, BarrierPins, Actor DEF FlushInserts
<1>8. ASSUME NEW t \in Tasks, NEW c \in CPUs, LockBehind(t, c)
      PROVE  Pins'
  BY <1>8, BehindPins
<1>9. ASSUME NEW t \in Tasks, NEW c \in CPUs, LockFirst(t, c)
      PROVE  Pins'
  BY <1>9, BarrierPins, Actor DEF LockFirst
<1>10. ASSUME NEW t \in Tasks, NEW c \in CPUs, WaitVisits(t, c)
      PROVE  Pins'
  BY <1>10, HarmlessMove, Actor DEF WaitVisits, Quiet, Waited, lists
<1>11. ASSUME NEW t \in Tasks, NEW c \in CPUs, WaitInserts(t, c)
      PROVE  Pins'
  BY <1>11, BarrierPins, Actor DEF WaitInserts
<1>12. ASSUME NEW t \in Tasks, FlushStarts(t)
      PROVE  Pins'
  <2>1. \A u \in Tasks : u # t => due'[u] = due[u]
    BY <1>12 DEF FlushStarts, Sound, Types
  <2> QED BY <1>12, <2>1, HarmlessMove, Actor DEF FlushStarts
<1>13. ASSUME NEW t \in Tasks, FlushNever(t)
      PROVE  Pins'
  BY <1>13, HarmlessMove, Actor DEF FlushNever, Quiet, Waited, lists
<1>14. ASSUME NEW t \in Tasks, FlushEnds(t)
      PROVE  Pins'
  BY <1>14, HarmlessMove, Actor DEF FlushEnds, Quiet, Waited, lists
<1>15. ASSUME NEW t \in Tasks, FlushWaited(t)
      PROVE  Pins'
  BY <1>15, HarmlessMove, Actor DEF FlushWaited, Quiet, Waited, lists
<1>16. ASSUME NEW t \in Tasks, LockLeaves(t)
      PROVE  Pins'
  BY <1>16, LeavesPins
<1>17. ASSUME NEW t \in Tasks, WorkWaited(t)
      PROVE  Pins'
  BY <1>17, HarmlessMove, Actor DEF WorkWaited, Quiet, Waited, lists
<1>18. ASSUME NEW t \in Tasks, DeletesTimer(t)
      PROVE  Pins'
  <2>1. work[t] \in Works
    BY <1>18, TaskWork DEF DeletesTimer, Sound
  <2> QED BY <1>18, <2>1, HarmlessMoveBoth, Actor DEF DeletesTimer, lists
<1>19. ASSUME NEW t \in Tasks, TimerMissed(t)
      PROVE  Pins'
  BY <1>19, HarmlessMove, Actor DEF TimerMissed, Quiet, Waited, lists
<1>20. ASSUME NEW t \in Tasks, Grabs(t)
      PROVE  Pins'
  BY <1>20, HarmlessMove, Actor DEF Grabs, Quiet, Waited, lists
<1>21. ASSUME NEW t \in Tasks, GrabFails(t)
      PROVE  Pins'
  BY <1>21, HarmlessMove, Actor DEF GrabFails, Quiet, Waited, lists
<1>22. ASSUME NEW t \in Tasks, GrabLooks(t)
      PROVE  Pins'
  BY <1>22, HarmlessMove, Actor DEF GrabLooks, Quiet, Waited, lists
<1>23. ASSUME NEW t \in Tasks, Steals(t)
      PROVE  Pins'
  BY <1>23, StealPins
<1>24. ASSUME NEW t \in Tasks, StealFails(t)
      PROVE  Pins'
  BY <1>24, LeavesPins
<1>25. ASSUME NEW t \in Tasks, WaitSkips(t)
      PROVE  Pins'
  <2>1. TaskAt(pc[t], next[t], work[t], cpu[t])
    BY LocalFacts DEF Sound
  <2>2. next[t] \in {"del_timer", "grab", "clear_pending"}
    BY <1>25, <2>1 DEF WaitSkips, TaskAt
  <2> QED BY <1>25, <2>2, HarmlessMove, Actor DEF WaitSkips, Quiet, lists
<1>26. ASSUME NEW t \in Tasks, WaitStarts(t)
      PROVE  Pins'
  BY <1>26, HarmlessMove, Actor DEF WaitStarts, Quiet, Waited, lists
<1>27. ASSUME NEW t \in Tasks, WaitEnds(t)
      PROVE  Pins'
  <2>1. TaskAt(pc[t], next[t], work[t], cpu[t])
    BY LocalFacts DEF Sound
  <2>2. next[t] \in {"del_timer", "grab", "clear_pending"}
    BY <1>27, <2>1 DEF WaitEnds, TaskAt
  <2> QED BY <1>27, <2>2, HarmlessMove, Actor DEF WaitEnds, Quiet, lists
<1>28. ASSUME NEW t \in Tasks, WaitWaited(t)
      PROVE  Pins'
  BY <1>28, HarmlessMove, Actor DEF WaitWaited, Quiet, Waited, lists
<1>29. ASSUME NEW t \in Tasks, Drops(t)
      PROVE  Pins'
  BY <1>29, HarmlessMove, Actor DEF Drops, Quiet, Waited, lists
<1>30. ASSUME NEW c \in CPUs, NEW w \in Works, NEW k \in online, NEW p \in {"queue",
        "add_timer"}, Takes(c, w, k, p, "func", "run")
      PROVE  Pins'
  <2>1. p = "add_timer" => Delays
    BY <1>30 DEF Takes, Delays
  <2> QED BY <1>30, <2>1, HarmlessMove, Actor DEF Takes, lists
<1>31. ASSUME NEW c \in CPUs, NEW w \in Works, c \in online, TimerFires(w, c)
      PROVE  Pins'
  BY <1>31, HarmlessMove, Actor DEF TimerFires, Quiet, Waited, lists
<1>32. ASSUME NEW a \in Queuers, SetsData(a)
      PROVE  Pins'
  BY <1>32, SetsPins
<1>33. ASSUME NEW a \in Queuers, Inserts(a)
      PROVE  Pins'
  BY <1>33, InsertPins
<1>34. ASSUME NEW a \in Queuers, AddsTimer(a)
      PROVE  Pins'
  BY <1>34, TimerPins
<1>35. ASSUME NEW c \in CPUs, NEW p \in {"test", "schedule", "finish"}, Sleeps(c, p)
      PROVE  Pins'
  BY <1>35, HarmlessMove, Actor DEF Sleeps, Quiet, Waited, lists
<1>36. ASSUME NEW c \in CPUs, Runs(c)
      PROVE  Pins'
  BY <1>36, HarmlessMove, Actor DEF Runs, Quiet, Waited, lists
<1>37. ASSUME NEW c \in CPUs, Exits(c)
      PROVE  Pins'
  BY <1>37, HarmlessMove, Actor DEF Exits, Quiet, Waited, lists
<1>38. ASSUME NEW c \in CPUs, FuncEnds(c)
      PROVE  Pins'
  BY <1>38, HarmlessMove, Actor DEF FuncEnds, Quiet, Waited, lists
<1>39. ASSUME NEW c \in CPUs, NoMoreWork(c)
      PROVE  Pins'
  BY <1>39, WorkerPins
<1>40. ASSUME NEW c \in CPUs, TakesWork(c)
      PROVE  Pins'
  BY <1>40, WorkerPins
<1>41. ASSUME NEW c \in CPUs, ClearsPending(c)
      PROVE  Pins'
  BY <1>41, HarmlessMove, Actor DEF ClearsPending, Quiet, Waited, lists
<1>42. ASSUME NEW c \in CPUs, RunsBarrier(c)
      PROVE  Pins'
  BY <1>42, HarmlessMove, Actor DEF RunsBarrier, Quiet, Waited, lists
<1>43. ASSUME NEW c \in CPUs, GoesDown(c)
      PROVE  Pins'
  BY <1>43, HarmlessMove, Actor DEF GoesDown, Quiet, Waited, lists
<1>44. ASSUME NEW c \in CPUs, GoesUp(c)
      PROVE  Pins'
  BY <1>44, HarmlessMove, Actor DEF GoesUp, Quiet, Waited, lists
<1>45. ASSUME NEW c \in CPUs, SkipsFlush(c)
      PROVE  Pins'
  BY <1>45, HarmlessMove, Actor DEF SkipsFlush, Quiet, Waited, lists
<1>46. ASSUME NEW c \in CPUs, CleanupInserts(c)
      PROVE  Pins'
  BY <1>46, BarrierPins, Actor DEF CleanupInserts
<1>47. ASSUME NEW c \in CPUs, CleanupWaited(c)
      PROVE  Pins'
  BY <1>47, HarmlessMove, Actor DEF CleanupWaited, Quiet, Waited, lists
<1>48. ASSUME NEW c \in CPUs, Stops(c)
      PROVE  Pins'
  BY <1>48, HarmlessMove, Actor DEF Stops, Quiet, Waited, lists
<1>49. ASSUME NEW c \in CPUs, SeesExit(c)
      PROVE  Pins'
  <2>1. HotplugAt(pc[Hotplug], next[Hotplug], work[Hotplug], cpu[Hotplug])
    BY LocalFacts DEF Sound
  <2>2. next[Hotplug] \in {"unpopulate", "destroy_scan"}
    BY <1>49, <2>1 DEF SeesExit, HotplugAt
  <2>3. PICK n \in {"unpopulate", "destroy_scan"} :
          MoveBoth(Hotplug, n, n, Null, c, c, "no thread")
    BY <1>49, <2>2 DEF SeesExit
  <2>4. lock' = lock /\ data' = data /\ worklist' = worklist /\ due' = due
    BY <1>49 DEF SeesExit, lists
  <2> QED BY <2>3, <2>4, HarmlessMoveBoth, Actor
<1>50. ASSUME NEW c \in CPUs, Unpopulates(c)
      PROVE  Pins'
  BY <1>50, HarmlessMove, Actor DEF Unpopulates, Quiet, Waited, lists
<1>51. ASSUME NEW c \in CPUs, Creates(c)
      PROVE  Pins'
  BY <1>51, HarmlessMoveBoth, Actor DEF Creates, lists
<1>52. ASSUME NEW c \in CPUs, CreateFails(c)
      PROVE  Pins'
  BY <1>52, HarmlessMove, Actor DEF CreateFails, Quiet, Waited, lists
<1>53. ASSUME NEW c \in CPUs, ComesUp(c)
      PROVE  Pins'
  BY <1>53, HarmlessMove, Actor DEF ComesUp, Quiet, Waited, lists
<1>54. ASSUME NEW c \in CPUs, UpCanceled(c)
      PROVE  Pins'
  BY <1>54, HarmlessMoveBoth, Actor DEF UpCanceled, lists
<1>55. ASSUME NEW c \in CPUs, StartsThread(c)
      PROVE  Pins'
  BY <1>55, HarmlessMoveBoth, Actor DEF StartsThread, lists
<1>56. ASSUME NEW c \in CPUs, DestroyVisits(c)
      PROVE  Pins'
  BY <1>56, HarmlessMove, Actor DEF DestroyVisits, Quiet, Waited, lists
<1>57. ASSUME Destroys
      PROVE  Pins'
  BY <1>57, HarmlessMove, Actor DEF Destroys, Quiet, Waited, lists
<1>58. ASSUME DestroyEnds
      PROVE  Pins'
  BY <1>58, HarmlessMove, Actor DEF DestroyEnds, Quiet, Waited, lists
<1>59. ASSUME create_workqueue
      PROVE  Pins'
  BY <1>59, CreatePins
<1>60. ASSUME NEW t \in Tasks, LockLooks(t)
      PROVE  Pins'
  BY <1>60, LooksPins
<1>61. ASSUME NEW t \in Tasks, StealLooks(t)
      PROVE  Pins'
  BY <1>61, LooksPins
<1> QED
  BY <1>1, <1>2, <1>3, <1>4, <1>5, <1>6, <1>7, <1>8, <1>9, <1>10, <1>11, <1>12, <1>13, <1>14,
     <1>15, <1>16, <1>17, <1>18, <1>19, <1>20, <1>21, <1>22, <1>23, <1>24, <1>25, <1>26, <1>27,
     <1>28, <1>29, <1>30, <1>31, <1>32, <1>33, <1>34, <1>35, <1>36, <1>37, <1>38, <1>39,
     <1>40, <1>41, <1>42, <1>43, <1>44, <1>45, <1>46, <1>47, <1>48, <1>49, <1>50,
     <1>51, <1>52, <1>53, <1>54, <1>55, <1>56, <1>57, <1>58, <1>59, <1>60, <1>61,
     StepCases DEF Sound

------------------------------------------------------------------------------
(* Sound is inductive. *)

(* Every step keeps the invariant. *)
LEMMA StepKeeps ==
  ASSUME Sound, Follows
  PROVE  Sound'
<1>1. Types /\ Locals /\ Barriers /\ DataIsRight /\ Threads
  BY DEF Sound
<1>2. Locals'
  BY <1>1, LocalsStep DEF Sound
<1>3. Types'
  BY <1>1, <1>2, TypesStep
<1>4. PendingOwned' /\ Rest'
  <2>1. ASSUME NEW t \in Tasks, NEW w \in Works,
               \/ FlushReads(t, w)
               \/ \E loop \in {"grab", "del_timer"} : CancelStarts(t, w, loop)
               \/ CancelsTimer(t, w)
               \/ \E c \in online : FlushQueues(t, w, c)
               \/ \E k \in online, p \in {"queue", "add_timer"} : Takes(t, w, k, p, "idle", "idle")
        PROVE  PendingOwned' /\ Rest'
    BY <2>1, QuietTasks, TasksTake
  <2>2. ASSUME NEW t \in Tasks, NEW c \in CPUs,
               \/ FlushVisits(t, c) \/ FlushInserts(t, c) \/ LockBehind(t, c) \/ LockFirst(t, c)
               \/ WaitVisits(t, c) \/ WaitInserts(t, c)
        PROVE  PendingOwned' /\ Rest'
    BY <2>2, QuietTasks, TasksLink
  <2>3. ASSUME NEW t \in Tasks,
               \/ FlushStarts(t) \/ FlushNever(t) \/ FlushEnds(t) \/ FlushWaited(t) \/ LockLeaves(t)
               \/ WorkWaited(t) \/ DeletesTimer(t) \/ TimerMissed(t)
               \/ Grabs(t) \/ GrabFails(t) \/ GrabLooks(t) \/ Steals(t) \/ StealFails(t)
               \/ LockLooks(t) \/ StealLooks(t)
               \/ WaitSkips(t) \/ WaitStarts(t) \/ WaitEnds(t) \/ WaitWaited(t) \/ Drops(t)
        PROVE  PendingOwned' /\ Rest'
    BY <2>3, QuietTasks, TasksTake, TasksSteal
  <2>4. ASSUME NEW c \in CPUs, NEW w \in Works,
               \/ \E k \in online, p \in {"queue", "add_timer"} : Takes(c, w, k, p, "func", "run")
               \/ c \in online /\ TimerFires(w, c)
        PROVE  PendingOwned' /\ Rest'
    BY <2>4, WorkersQuiet
  <2>5. ASSUME NEW a \in Queuers, SetsData(a) \/ Inserts(a) \/ AddsTimer(a)
        PROVE  PendingOwned' /\ Rest'
    BY <2>5, SetsKeeps, InsertsKeeps, AddsTimerKeeps
  <2>6. ASSUME NEW c \in CPUs,
               \/ \E p \in {"test", "schedule", "finish"} : Sleeps(c, p)
               \/ Runs(c) \/ Exits(c) \/ FuncEnds(c) \/ NoMoreWork(c) \/ TakesWork(c)
               \/ ClearsPending(c) \/ RunsBarrier(c)
        PROVE  PendingOwned' /\ Rest'
    BY <2>6, WorkersQuiet, ExitsKeeps, NoMoreKeeps, TakesWorkKeeps, BarrierRunsKeeps
  <2>7. ASSUME NEW c \in CPUs,
               \/ GoesDown(c) \/ GoesUp(c) \/ SkipsFlush(c) \/ CleanupInserts(c) \/ CleanupWaited(c)
               \/ Stops(c) \/ SeesExit(c) \/ Unpopulates(c) \/ Creates(c) \/ CreateFails(c)
               \/ ComesUp(c) \/ UpCanceled(c) \/ StartsThread(c) \/ DestroyVisits(c)
        PROVE  PendingOwned' /\ Rest'
    BY <2>7, HotplugSteps, CleanupInsertsKeeps
  <2>8. ASSUME Destroys \/ DestroyEnds \/ create_workqueue
        PROVE  PendingOwned' /\ Rest'
    BY <2>8, HotplugSteps, RecreateKeeps
  <2> QED BY <1>1, <2>1, <2>2, <2>3, <2>4, <2>5, <2>6, <2>7, <2>8, StepCases
<1>5. Pins'
  BY PinsStep
<1> QED BY <1>2, <1>3, <1>4, <1>5 DEF Sound, Rest, Pins

(* The workqueue is empty when it is created. *)
LEMMA InitKeeps == Init => Sound
<1> SUFFICES ASSUME Init PROVE Sound
  OBVIOUS
<1>1. /\ \A c \in CPUs : /\ pc[c] = "prepare" /\ next[c] = "idle" /\ work[c] = Null /\ cpu[c] = 0
                         /\ worklist[c] = <<>> /\ current_work[c] = Null /\ ~should_stop[c]
      /\ \A a \in Tasks \cup Works \cup {Hotplug} :
           pc[a] = "idle" /\ next[a] = "idle" /\ work[a] = Null /\ cpu[a] = 0
      /\ \A t \in Tasks : due[t] = {}
      /\ \A w \in Works : ~pending[w]
      /\ online = CPUs /\ populated = CPUs
  BY Actor DEF Init, Actors
<1>2. Types
  <2>1. pc \in [Actors -> Label] /\ next \in [Actors -> Label]
    BY DEF Init, Label, TaskLabel, WorkerLabel
  <2>2. <<>> \in Seq(Works \cup Flushers)
    OBVIOUS
  <2> QED BY <2>1, <2>2 DEF Init, Types, TaskState, TASK_RUNNING
<1>3. Locals
  <2>1. ASSUME NEW c \in CPUs
        PROVE  At(c)
    BY <1>1, Actor DEF At, WorkerAt
  <2>2. ASSUME NEW a \in Tasks
        PROVE  At(a)
    BY <1>1, Actor DEF At, TaskAt
  <2>3. ASSUME NEW a \in Works
        PROVE  At(a)
    BY <1>1, Actor DEF At, TimerAt
  <2>4. At(Hotplug)
    BY <1>1, Actor DEF At, HotplugAt
  <2> QED BY <2>1, <2>2, <2>3, <2>4 DEF Locals, Actors
<1>4. \A c \in CPUs : Clearing(c) = Null /\ Asleep(c) /\ Thread(c) = "runs"
  BY <1>1 DEF Clearing, Asleep, Thread
<1>5. \A c \in CPUs : \A x : x \notin ListEntries(worklist[c])
  BY <1>1 DEF ListEntries
<1>6. \A a \in Actors : Hand(a) = Null /\ pc[a] \notin {"queue", "insert", "add_timer", "armed"}
  BY <1>1 DEF Hand, Actors
<1>7. PendingOwned
  <2>1. ASSUME NEW w \in Works
        PROVE  Owned(w, "none", w)
    BY <1>1, <1>4, <1>5, <1>6, Actor DEF Owned
  <2> QED BY <2>1, Actor DEF PendingOwned
<1>8. Barriers
  <2>1. \A c \in CPUs : ListOK(worklist[c])
    BY <1>1 DEF ListOK
  <2> QED BY <1>4, <1>5, <2>1, Actor DEF Barriers, BarrierOK
<1>9. DataIsRight
  BY <1>1, <1>4, <1>5, <1>6, Actor DEF DataIsRight
<1>10. ~Destroying
  BY <1>1 DEF Destroying
<1>11. Threads
  <2>1. HotplugOK
    BY <1>1, <1>10 DEF HotplugOK
  <2>2. Settled
    BY <1>6, <1>10 DEF Settled
  <2>3. ASSUME NEW c \in CPUs
        PROVE  ThreadOK(c)
    BY <1>1, <1>4, <1>10 DEF ThreadOK
  <2> QED BY <2>1, <2>2, <2>3 DEF Threads
<1>12. ListsAreEmpty
  BY <1>1 DEF ListsAreEmpty, EmptyOK
<1>13. Cancelled /\ DueIsThere /\ DueIsAhead
  BY <1>1 DEF Cancelled, CancelOK, DueIsThere, DueIsAhead, DueOK
<1>14. Locked /\ Timely /\ Pinned
  <2>1. \A a \in Actors : pc[a] \notin {"insert", "steal_data", "flush_data", "add_timer"}
    BY <1>1 DEF Actors
  <2>2. \A a \in Actors : ~Holds(a) /\ pc[a] # "add_timer"
    BY <2>1 DEF Holds
  <2>3. \A t \in Tasks : PinnedOK(t)
    BY <1>1 DEF PinnedOK
  <2> QED BY <2>2, <2>3 DEF Locked, Timely, Pinned
<1> QED BY <1>2, <1>3, <1>7, <1>8, <1>9, <1>11, <1>12, <1>13, <1>14 DEF Sound

(* A stuttering step changes nothing. *)
LEMMA StutterKeeps ==
  ASSUME Sound, UNCHANGED vars
  PROVE  Sound'
<1>1. /\ pending' = pending /\ data' = data /\ worklist' = worklist
      /\ current_work' = current_work /\ lock' = lock /\ pc' = pc /\ next' = next /\ work' = work
      /\ cpu' = cpu /\ done' = done /\ tstate' = tstate /\ should_stop' = should_stop
      /\ online' = online /\ populated' = populated /\ program' = program /\ due' = due
  BY DEF vars
<1>2. Types'
  BY <1>1 DEF Sound, Types
<1>3. Locals'
  BY <1>1 DEF Sound, Locals, At
<1>4. \A c : Clearing(c)' = Clearing(c) /\ (Asleep(c)' <=> Asleep(c)) /\ Thread(c)' = Thread(c)
  BY <1>1 DEF Clearing, Asleep, Thread
<1>5. \A a : Hand(a)' = Hand(a) /\ WaitsOn(a)' = WaitsOn(a)
  BY <1>1 DEF Hand, WaitsOn
<1>6. PendingOwned'
  <2>1. \A w \in Works : SameOwner(w)
    BY <1>1, <1>4, <1>5 DEF SameOwner
  <2> QED BY <2>1, OwnersKept DEF Sound
<1>7. Barriers'
  BY <1>1, <1>4, <1>5 DEF Sound, Barriers, BarrierOK
<1>8. DataIsRight'
  BY <1>1, <1>4 DEF Sound, DataIsRight
<1>9. (Destroying' <=> Destroying) /\ (Drained' <=> Drained) /\ \A c : Finished(c)' <=> Finished(c)
  BY <1>1 DEF Destroying, Drained, Finished
<1>10. Threads'
  <2>1. HotplugOK'
    <3>1. Thread(cpu[Hotplug])' = Thread(cpu[Hotplug])
      BY <1>1 DEF Thread
    <3> QED BY <1>1, <1>9, <3>1 DEF Sound, Threads, HotplugOK
  <2>2. Settled'
    BY <1>1, <1>9 DEF Sound, Threads, Settled
  <2>3. \A c \in CPUs : ThreadOK(c)'
    BY <1>1, <1>4, <1>9 DEF Sound, Threads, ThreadOK
  <2> QED BY <2>1, <2>2, <2>3 DEF Threads
<1>11. ListsAreEmpty'
  BY <1>1, <1>4, <1>9 DEF Sound, ListsAreEmpty, EmptyOK, MustBeEmpty
<1>12. Cancelled'
  BY <1>1 DEF Sound, Cancelled, CancelOK
<1>13. DueIsThere'
  BY <1>1 DEF Sound, DueIsThere, DueThere
<1>14. DueIsAhead'
  <2>1. ASSUME NEW t \in Tasks
        PROVE  DueOK(t)'
    <3>1. DueOK(t) /\ Same(t)
      BY <1>1 DEF Sound, DueIsAhead, Same
    <3>2. \A d : Behind(t, d) => Behind(t, d)'
      BY <1>1 DEF Behind
    <3>3. AtMost(work[t], cpu[t]) => AtMost(work[t], cpu[t])'
      BY <1>1 DEF AtMost, Listed
    <3> QED BY <1>1, <3>1, <3>2, <3>3, DueKept
  <2> QED BY <2>1 DEF DueIsAhead
<1>15. \A a : Holds(a)' <=> Holds(a)
  BY <1>1 DEF Holds
<1>16. Delays' <=> Delays
  BY <1>1 DEF Delays, May
<1>17. Locked' /\ Timely'
  BY <1>1, <1>15, <1>16 DEF Sound, Locked, Timely
<1>18. Pinned'
  <2>1. ASSUME NEW t \in Tasks
        PROVE  PinnedOK(t)'
    <3>1. PinnedOK(t) /\ Same(t) /\ Undisturbed(t)
      BY <1>1 DEF Sound, Pinned, Same, Undisturbed
    <3> QED BY <1>16, <3>1, PinKept
  <2> QED BY <2>1 DEF Pinned
<1> QED BY <1>2, <1>3, <1>6, <1>7, <1>8, <1>10, <1>11, <1>12, <1>13, <1>14, <1>17, <1>18 DEF Sound

------------------------------------------------------------------------------
(* Types: every actor is at one of its own program points, and what the    *)
(* lists hold are work items and barriers.                                 *)
LEMMA SoundTypes ==
  ASSUME Sound, fooled \in BOOLEAN
  PROVE  TypeOK
<1>1. \A t \in Tasks : pc[t] \in TaskLabel /\ next[t] \in TaskLabel
  <2>1. ASSUME NEW p, NEW n, NEW x, NEW k, TaskAt(p, n, x, k)
        PROVE  p \in TaskLabel /\ n \in TaskLabel
    BY <2>1 DEF TaskAt, TaskLabel
  <2> QED BY <2>1, LocalFacts DEF Sound
<1>2. \A c \in CPUs : pc[c] \in WorkerLabel /\ next[c] \in WorkerLabel \cup TaskLabel
  <2>1. ASSUME NEW p, NEW n, NEW x, NEW k, WorkerAt(p, n, x, k)
        PROVE  p \in WorkerLabel /\ n \in WorkerLabel \cup TaskLabel
    BY <2>1 DEF WorkerAt, WorkerLabel, TaskLabel
  <2> QED BY <2>1, LocalFacts DEF Sound
<1>3. \A w \in Works : pc[w] \in TimerLabel /\ next[w] \in TaskLabel
  <2>1. ASSUME NEW w, NEW p, NEW n, NEW x, NEW k, TimerAt(w, p, n, x, k)
        PROVE  p \in TimerLabel /\ n \in TaskLabel
    BY <2>1 DEF TimerAt, TimerLabel, TaskLabel
  <2> QED BY <2>1, LocalFacts DEF Sound
<1>4. pc[Hotplug] \in HotplugLabel /\ next[Hotplug] \in HotplugLabel
  <2>1. ASSUME NEW p, NEW n, NEW x, NEW k, HotplugAt(p, n, x, k)
        PROVE  p \in HotplugLabel /\ n \in HotplugLabel
    BY <2>1 DEF HotplugAt, HotplugLabel
  <2> QED BY <2>1, LocalFacts DEF Sound
<1>5. next \in [Actors -> TaskLabel \cup WorkerLabel \cup HotplugLabel]
  <2>1. ASSUME NEW a \in Actors
        PROVE  next[a] \in TaskLabel \cup WorkerLabel \cup HotplugLabel
    BY <1>1, <1>2, <1>3, <1>4 DEF Actors
  <2>2. next \in [Actors -> Label]
    BY DEF Sound, Types
  <2> QED BY <2>1, <2>2
<1> QED BY <1>1, <1>2, <1>3, <1>4, <1>5 DEF Sound, Types, TypeOK, Due

(* A step that fools somebody: a flusher or a canceller finds the data it  *)
(* expects although the work item is on no list.  Nothing else is damaged  *)
(* by that step, and it takes somebody who starts work with a delay.       *)
LEMMA FooledBy ==
  ASSUME Sound, NEW t \in Tasks, pc[t] \in {"flush_data", "steal_data"}, data[work[t]] = cpu[t],
         work[t] \notin ListEntries(worklist[cpu[t]])
  PROVE  /\ work[t] \in Works /\ cpu[t] \in CPUs /\ t \in Actors
         /\ ~Listed(work[t]) /\ Delays
<1>1. TaskAt(pc[t], next[t], work[t], cpu[t])
  BY LocalFacts DEF Sound
<1>2. work[t] \in Works /\ cpu[t] \in CPUs /\ t \in Actors
  BY <1>1, Actor DEF TaskAt
<1>3. ~Listed(work[t])
  BY <1>2, ListedWhere DEF Sound
<1>4. Delays
  BY DEF Sound, Pinned, PinnedOK
<1> QED BY <1>2, <1>3, <1>4

(* flush_work() links its barrier to a work item that is on no list. *)
LEMMA FlushIsFooled ==
  ASSUME Sound, TypeOK, Next, ~fooled, NEW t \in Tasks, FlushBehind(t), fooled'
  PROVE  TypeOK' /\ Delays
<1>1. pc[t] = "flush_data" /\ data[work[t]] = cpu[t] /\ work[t] \notin ListEntries(worklist[cpu[t]])
  BY DEF FlushBehind
<1>2. work[t] \in Works /\ cpu[t] \in CPUs /\ t \in Actors /\ ~Listed(work[t]) /\ Delays
  BY <1>1, FooledBy
<1>3. /\ worklist' = [worklist EXCEPT ![cpu[t]] = worklist[cpu[t]]]
      /\ pc' = [pc EXCEPT ![t] = "work_wait"] /\ done' = [done EXCEPT ![t] = FALSE]
      /\ UNCHANGED <<pending, data, current_work, next, work, cpu, should_stop, online, populated, due>>
  BY <1>1 DEF FlushBehind, insert_wq_barrier, Goto, works, masks
<1>4. fooled' \in BOOLEAN /\ program' = program
  BY <1>1, ProgramSame DEF FlushBehind
<1>5. lock' \in [CPUs -> Actors \cup {Null}] /\ tstate' \in [CPUs -> TaskState]
  BY LockTypes DEF Sound
<1>6. /\ DOMAIN pc' = Actors
      /\ \A u \in Tasks : pc'[u] \in TaskLabel
      /\ \A c \in CPUs : pc'[c] \in WorkerLabel
      /\ \A w \in Works : pc'[w] \in TimerLabel
      /\ pc'[Hotplug] \in HotplugLabel
  BY <1>2, <1>3, Actor DEF TypeOK, TaskLabel
<1>7. worklist' \in [CPUs -> Seq(Works \cup Flushers)] /\ done' \in [Flushers -> BOOLEAN]
  BY <1>2, <1>3, Actor DEF TypeOK
<1> QED BY <1>2, <1>3, <1>4, <1>5, <1>6, <1>7 DEF TypeOK

(* try_to_grab_pending() takes off a list a work item that is on none. *)
LEMMA CancelIsFooled ==
  ASSUME Sound, TypeOK, Next, ~fooled, NEW t \in Tasks, Steal(t), fooled'
  PROVE  TypeOK' /\ Delays
<1>1. pc[t] = "steal_data" /\ data[work[t]] = cpu[t] /\ work[t] \notin ListEntries(worklist[cpu[t]])
  BY DEF Steal, Goto
<1>2. work[t] \in Works /\ cpu[t] \in CPUs /\ t \in Actors /\ ~Listed(work[t]) /\ Delays
  BY <1>1, FooledBy
<1>3. /\ worklist' = [c \in CPUs |-> worklist[c]]
      /\ pc' = [pc EXCEPT ![t] = "wait_on_work"] /\ next' = [next EXCEPT ![t] = "clear_pending"]
      /\ cpu' = [cpu EXCEPT ![t] = 0]
      /\ due' = [u \in Tasks |-> {d \in due[u] : ~(d.work = work[t] /\ d.phase = "queued")}]
      /\ UNCHANGED <<pending, data, current_work, work, done, tstate, should_stop, online, populated>>
  BY <1>1, <1>2 DEF Steal, Goto, Listed, works, workers, masks
<1>4. fooled' \in BOOLEAN /\ program' = program
  BY <1>1, ProgramSame DEF Steal
<1>5. lock' \in [CPUs -> Actors \cup {Null}]
  BY LockTypes DEF Sound
<1>6. /\ DOMAIN pc' = Actors
      /\ \A u \in Tasks : pc'[u] \in TaskLabel
      /\ \A c \in CPUs : pc'[c] \in WorkerLabel
      /\ \A w \in Works : pc'[w] \in TimerLabel
      /\ pc'[Hotplug] \in HotplugLabel
  BY <1>2, <1>3, Actor DEF TypeOK, TaskLabel
<1>7. /\ worklist' \in [CPUs -> Seq(Works \cup Flushers)]
      /\ next' \in [Actors -> TaskLabel \cup WorkerLabel \cup HotplugLabel]
      /\ cpu' \in [Actors -> CPUs \cup {0}]
  BY <1>2, <1>3, Actor DEF TypeOK, TaskLabel
<1>8. due' \in [Tasks -> SUBSET Due]
  BY <1>3 DEF TypeOK, Due
<1> QED BY <1>2, <1>3, <1>4, <1>5, <1>6, <1>7, <1>8 DEF TypeOK, Due

(* What fools nobody leaves the history variable alone. *)
LEMMA FooledSteps ==
  ASSUME Next
  PROVE  \/ fooled' = fooled
         \/ \E t \in Tasks : FlushBehind(t) \/ Steal(t)
BY DEF Next, Call, Step, Worker, Timer, HotplugStarts, HotplugStep, Corrupted, vars

(* A stuttering step fools nobody. *)
LEMMA UnchangedKeeps ==
  ASSUME IInv, UNCHANGED vars
  PROVE  IInv'
<1>1. fooled' = fooled /\ program' = program
  BY DEF vars
<1>2. TypeOK => TypeOK'
  BY DEF TypeOK, vars
<1>3. Delays => Delays'
  BY <1>1 DEF Delays, May
<1>4. Sound => Sound'
  BY StutterKeeps
<1> QED BY <1>1, <1>2, <1>3, <1>4 DEF IInv

(* If nobody has been fooled yet, a step keeps the invariant or fools      *)
(* somebody.                                                               *)
LEMMA NextKeeps ==
  ASSUME IInv, Next
  PROVE  IInv'
<1>1. CASE fooled
  <2>1. UNCHANGED vars
    BY <1>1 DEF Next, Call, Step, Worker, Timer, HotplugStarts, HotplugStep, Corrupted
  <2> QED BY <1>1, <2>1, UnchangedKeeps
<1>2. CASE ~fooled
  <2>1. Sound /\ fooled \in BOOLEAN
    BY <1>2 DEF IInv
  <2>2. TypeOK
    BY <2>1, SoundTypes
  <2>3. CASE fooled'
    <3>1. PICK t \in Tasks : FlushBehind(t) \/ Steal(t)
      BY <1>2, <2>3, FooledSteps
    <3>2. TypeOK' /\ Delays
      BY <1>2, <2>1, <2>2, <2>3, <3>1, FlushIsFooled, CancelIsFooled
    <3>3. Delays'
      BY <1>2, <3>2, ProgramSame DEF Delays, May
    <3>4. fooled' \in BOOLEAN
      BY <3>2 DEF TypeOK
    <3> QED BY <2>3, <3>2, <3>3, <3>4 DEF IInv
  <2>4. CASE ~fooled'
    <3>1. Sound'
      BY <1>2, <2>1, <2>4, StepKeeps DEF Follows
    <3>2. fooled' \in BOOLEAN
      <4>1. ASSUME NEW t \in Tasks, FlushBehind(t) \/ Steal(t)
            PROVE  fooled' \in BOOLEAN
        BY <2>1, <4>1 DEF FlushBehind, Steal
      <4> QED BY <2>1, <4>1, FooledSteps
    <3> QED BY <2>4, <3>1, <3>2 DEF IInv
  <2> QED BY <2>3, <2>4
<1> QED BY <1>1, <1>2

(* Every reachable state satisfies IInv. *)
THEOREM InvariantHolds == Spec => []IInv
<1>1. Init => IInv
  <2>1. Init => Sound /\ fooled = FALSE
    BY InitKeeps DEF Init
  <2> QED BY <2>1 DEF IInv
<1>2. IInv /\ [Next]_vars => IInv'
  BY UnchangedKeeps, NextKeeps
<1> QED BY <1>1, <1>2, PTL DEF Spec

(* Every variable holds a value of its C type, and every actor is at one   *)
(* of its own program points, whatever happens.                            *)
THEOREM TypeCorrect == Spec => []TypeOK
<1>1. IInv => TypeOK
  BY SoundTypes DEF IInv
<1> QED BY <1>1, InvariantHolds, PTL

(* The two reads of flush_work() and of try_to_grab_pending() fool them    *)
(* only if somebody calls queue_delayed_work(): with queue_work() alone    *)
(* work->data is stored under cwq->lock, and the lock that is held is the  *)
(* right one whenever the data agree.                                      *)
THEOREM OnlyDelayFools == Spec => []RaceNeedsDelay
<1>1. IInv => RaceNeedsDelay
  BY DEF IInv, RaceNeedsDelay, Delays
<1> QED BY <1>1, InvariantHolds, PTL

(* The PENDING bit of a work item has one owner while it is set and none   *)
(* while it is clear, for any number of CPUs, work items and tasks, as     *)
(* long as nobody has been fooled: no two queue the same work item,        *)
(* however timers, cancels, requeueing and CPU hotplug interleave.         *)
THEOREM PendingHasOneOwner == Spec => []OnePendingOwner
<1>1. ASSUME Sound, NEW w \in Works
      PROVE  Cardinality(Owners(w)) = IF pending[w] THEN 1 ELSE 0
  <2> DEFINE OnList(x) == \E c \in CPUs : \E i \in DOMAIN worklist[c] :
                            x = <<c, i>> /\ worklist[c][i] = w
             InTimer(x) == x = <<"timer", w>> /\ pc[w] = "armed"
             AtWorker(x) == \E c \in CPUs : x = <<"clear", c>> /\ Clearing(c) = w
             InHand(x) == \E a \in Actors : x = <<"actor", a>> /\ Hand(a) = w
  <2>1. PICK k \in {"none", "list", "timer", "clear", "actor"}, e \in Actors : Owned(w, k, e)
    BY <1>1 DEF Sound, PendingOwned
  <2>2. \A x : x \in Owners(w) <=> OnList(x) \/ InTimer(x) \/ AtWorker(x) \/ InHand(x)
    <3>1. w # Null
      BY Actor
    <3>2. \A c : Clearing(c) = w <=> pc[c] = "clear" /\ current_work[c] = w
      BY <3>1 DEF Clearing
    <3>3. \A a : Hand(a) = w <=>
            /\ work[a] = w
            /\ \/ pc[a] \in {"queue", "insert", "add_timer", "clear_pending", "clear_only"}
               \/ next[a] = "clear_pending"
      BY <3>1 DEF Hand
    <3> DEFINE L == UNION {{c} \X {i \in DOMAIN worklist[c] : worklist[c][i] = w} : c \in CPUs}
               T == {<<"timer", w>> : z \in {y \in {w} : pc[y] = "armed"}}
               C == {<<"clear", c>> : c \in {y \in CPUs : pc[y] = "clear" /\ current_work[y] = w}}
               A == {<<"actor", a>> : a \in {y \in Actors : work[y] = w /\
                       \/ pc[y] \in {"queue", "insert", "add_timer", "clear_pending", "clear_only"}
                       \/ next[y] = "clear_pending"}}
    <3>4. \A x : x \in L <=> OnList(x)
      OBVIOUS
    <3>5. \A x : x \in T <=> InTimer(x)
      OBVIOUS
    <3>6. \A x : x \in C <=> AtWorker(x)
      BY <3>2
    <3>7. \A x : x \in A <=> InHand(x)
      BY <3>3
    <3>8. Owners(w) = L \cup T \cup C \cup A
      BY DEF Owners
    <3> HIDE DEF L, T, C, A, OnList, InTimer, AtWorker, InHand
    <3> QED BY <3>4, <3>5, <3>6, <3>7, <3>8
  <2>3. \A c \in CPUs : DOMAIN worklist[c] = 1 .. Len(worklist[c])
    BY <1>1 DEF Sound, Types
  <2>4. \A x : OnList(x) => k = "list"
    <3>1. ASSUME NEW c \in CPUs, NEW i \in DOMAIN worklist[c], worklist[c][i] = w
          PROVE  k = "list"
      <4>1. w \in ListEntries(worklist[c])
        BY <2>3, <3>1 DEF ListEntries
      <4> QED BY <2>1, <4>1 DEF Owned
    <3> QED BY <3>1
  <2>5. \A x : (InTimer(x) <=> k = "timer" /\ x = <<"timer", w>>)
    BY <2>1 DEF Owned
  <2>6. \A x : (AtWorker(x) <=> k = "clear" /\ x = <<"clear", e>>)
    BY <2>1 DEF Owned
  <2>7. \A x : (InHand(x) <=> k = "actor" /\ x = <<"actor", e>>)
    BY <2>1 DEF Owned
  <2>8. pending[w] <=> k # "none"
    BY <2>1 DEF Owned
  <2> HIDE DEF OnList, InTimer, AtWorker, InHand
  <2>9. CASE k = "none"
    <3>1. Owners(w) = {}
      BY <2>2, <2>4, <2>5, <2>6, <2>7, <2>9
    <3> QED BY <2>8, <2>9, <3>1, FS_EmptySet
  <2>10. CASE k = "list"
    <3>1. e \in CPUs /\ w \in ListEntries(worklist[e])
          /\ \A c \in CPUs : w \in ListEntries(worklist[c]) => c = e
      BY <2>1, <2>10 DEF Owned
    <3>2. PICK i \in 1 .. Len(worklist[e]) : worklist[e][i] = w
      BY <3>1 DEF ListEntries
    <3>3. \A j \in 1 .. Len(worklist[e]) : worklist[e][j] = w => j = i
      BY <1>1, <3>1, <3>2 DEF Sound, Barriers, ListOK
    <3>4. \A x : OnList(x) <=> x = <<e, i>>
      <4>1. OnList(<<e, i>>)
        BY <2>3, <3>1, <3>2 DEF OnList
      <4>2. ASSUME NEW x, OnList(x)
            PROVE  x = <<e, i>>
        <5>0. PICK c \in CPUs : \E i2 \in DOMAIN worklist[c] : x = <<c, i2>> /\ worklist[c][i2] = w
          BY <4>2 DEF OnList
        <5>1. PICK j \in DOMAIN worklist[c] : x = <<c, j>> /\ worklist[c][j] = w
          BY <5>0
        <5>2. w \in ListEntries(worklist[c])
          BY <2>3, <5>1 DEF ListEntries
        <5>3. c = e
          BY <3>1, <5>2
        <5>4. j = i
          BY <2>3, <3>3, <5>1, <5>3
        <5> QED BY <5>1, <5>3, <5>4
      <4> QED BY <4>1, <4>2
    <3>5. Owners(w) = {<<e, i>>}
      BY <2>2, <2>5, <2>6, <2>7, <2>10, <3>4
    <3> QED BY <2>8, <2>10, <3>5, FS_Singleton
  <2>11. CASE k \in {"timer", "clear", "actor"}
    <3>1. PICK x : Owners(w) = {x}
      <4>1. CASE k = "timer"
        <5>1. Owners(w) = {<<"timer", w>>}
          BY <2>2, <2>4, <2>5, <2>6, <2>7, <4>1
        <5> QED BY <5>1
      <4>2. CASE k = "clear"
        <5>1. Owners(w) = {<<"clear", e>>}
          BY <2>2, <2>4, <2>5, <2>6, <2>7, <4>2
        <5> QED BY <5>1
      <4>3. CASE k = "actor"
        <5>1. Owners(w) = {<<"actor", e>>}
          BY <2>2, <2>4, <2>5, <2>6, <2>7, <4>3
        <5> QED BY <5>1
      <4> QED BY <2>11, <4>1, <4>2, <4>3
    <3> QED BY <2>8, <2>11, <3>1, FS_Singleton
  <2> QED BY <2>9, <2>10, <2>11
<1>2. IInv => OnePendingOwner
  BY <1>1 DEF OnePendingOwner, IInv
<1> QED BY <1>2, InvariantHolds, PTL

(* No BUG_ON() of kernel/workqueue.c fires: a worker runs only work items  *)
(* that belong to its CPU, and nobody queues one that is on a list or      *)
(* starts a timer that runs, as long as nobody has been fooled.            *)
THEOREM NoBugFires == Spec => []NoBug
<1>1. ASSUME Sound PROVE NoBug
  <2>1. ASSUME NEW c \in CPUs, pc[c] = "clear", current_work[c] \in Works
        PROVE  data[current_work[c]] = c
    <3>1. Clearing(c) = current_work[c]
      BY <2>1 DEF Clearing
    <3> QED BY <1>1, <2>1, <3>1 DEF Sound, DataIsRight
  <2>2. ASSUME NEW a \in Actors, pc[a] \in {"queue", "add_timer"}
        PROVE  pending[work[a]] /\ ~Listed(work[a]) /\ pc[work[a]] # "armed"
    <3>1. a \in Queuers
      <4>1. HotplugAt(pc[Hotplug], next[Hotplug], work[Hotplug], cpu[Hotplug])
        BY <1>1, LocalFacts DEF Sound
      <4>2. pc[Hotplug] \notin {"queue", "add_timer"}
        BY <4>1 DEF HotplugAt
      <4> QED BY <2>2, <4>2 DEF Actors, Queuers
    <3>2. work[a] \in Works
      BY <1>1, <2>2, <3>1, QueuerFacts DEF Sound
    <3>3. Hand(a) = work[a]
      BY <2>2 DEF Hand
    <3>4. Owned(work[a], "actor", a)
      BY <1>1, <3>2, <3>3, OwnerFacts DEF Sound
    <3> QED BY <3>4 DEF Owned, Listed
  <2> QED BY <2>1, <2>2 DEF NoBug
<1>2. IInv => NoBug
  BY <1>1 DEF IInv, NoBug
<1> QED BY <1>2, InvariantHolds, PTL

(* When cancel_work_sync() and cancel_delayed_work_sync() are about to     *)
(* return, the work item's function runs on no CPU, as long as nobody has  *)
(* been fooled.                                                            *)
THEOREM CancelWaits == Spec => []CancelIsSync
<1>1. ASSUME Sound PROVE CancelIsSync
  <2>1. ASSUME NEW t \in Tasks, pc[t] = "clear_pending"
        PROVE  next[t] = "clear_pending"
    <3>1. TaskAt(pc[t], next[t], work[t], cpu[t])
      BY <1>1, LocalFacts DEF Sound
    <3> QED BY <2>1, <3>1 DEF TaskAt
  <2> QED BY <1>1, <2>1 DEF Sound, Cancelled, CancelOK, CancelIsSync
<1>2. IInv => CancelIsSync
  BY <1>1 DEF IInv, CancelIsSync
<1> QED BY <1>2, InvariantHolds, PTL

(* flush_workqueue() and flush_work() return only when what they have to   *)
(* wait for was run to its end or cancelled, although CPUs come and go     *)
(* while they visit them one after the other.  (A flush_work() that links  *)
(* its barrier to a work item on no list never returns.)                   *)
THEOREM FlushesWait == Spec => []FlushWaits
<1>1. ASSUME Sound PROVE FlushWaits
  BY <1>1, NothingDue DEF FlushWaits
<1>2. IInv => FlushWaits
  BY <1>1 DEF IInv, FlushWaits
<1> QED BY <1>2, InvariantHolds, PTL

(* A CPU without a worker has nothing to run, and nothing is pending when  *)
(* destroy_workqueue() frees the workqueue.                                *)
THEOREM NothingIsLeftBehind == Spec => []NothingLeftBehind
<1>1. ASSUME Sound PROVE NothingLeftBehind
  <2>1. ASSUME NEW c \in CPUs, pc[c] \in {"exited", "no thread", "created"}, c \notin online
        PROVE  ~Active(c)
    <3>1. MustBeEmpty(c)
      BY <2>1 DEF MustBeEmpty, Thread
    <3> QED BY <1>1, <3>1, NotActive
  <2>2. pc[Hotplug] = "freed" => \A w \in Works : ~pending[w]
    BY <1>1, FreedFacts
  <2> QED BY <2>1, <2>2 DEF NothingLeftBehind
<1>2. IInv => NothingLeftBehind
  BY <1>1 DEF IInv, NothingLeftBehind
<1> QED BY <1>2, InvariantHolds, PTL

(* If nobody calls queue_delayed_work(), nobody is ever fooled, and the    *)
(* PENDING bit has one owner, no BUG_ON() fires and the synchronous        *)
(* cancels wait, without any condition.                                    *)
THEOREM SafeWithoutDelay == Spec => [](~Delays => ~fooled /\ OnePendingOwner /\ NoBug /\ CancelIsSync)
<1>1. RaceNeedsDelay /\ ~Delays => ~fooled
  BY DEF RaceNeedsDelay, Delays
<1> QED BY <1>1, OnlyDelayFools, PendingHasOneOwner, NoBugFires, CancelWaits, PTL
==============================================================================
