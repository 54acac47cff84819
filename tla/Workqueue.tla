------------------------------ MODULE Workqueue ------------------------------
(***************************************************************************)
(* Workqueues, kernel/workqueue.c: one multithreaded workqueue_struct with *)
(* its per-CPU worker threads, the tasks that queue, flush and cancel work *)
(* items, their timers, and CPU hotplug, which creates and stops workers.  *)
(*                                                                         *)
(* A work item is protected by no lock of its own.  Whoever sets its       *)
(* PENDING bit may queue it; who dequeues it clears the bit before running *)
(* it.  The words work->data and work->entry are read by tasks that hold   *)
(* the lock of the wrong CPU or no lock at all.                            *)
(*                                                                         *)
(* The actors are tasks, workers (named by their CPU), timers (named by    *)
(* their work item) and the hotplug code.  A section under cwq->lock that  *)
(* makes one visible change is one step; insert_work() makes two, and the  *)
(* two reads of flush_work() and of try_to_grab_pending() are two steps.   *)
(***************************************************************************)
EXTENDS Integers, Sequences, FiniteSets, Sched, KList

CONSTANTS CPUs,     \* the possible CPUs, as numbers
          Works,    \* the (delayed) work items
          Tasks,    \* the tasks that use the workqueue
          Hotplug,  \* the task in cpu_up(), cpu_down() or destroy_workqueue()
          Null,     \* no lock holder, no work item, no cwq
          Programs  \* what the actors may call: functions from actors to sets of calls

(* The actors are told apart by their names. *)
ASSUME WorkqueueAssumption ==
  /\ CPUs \subseteq Nat \ {0} /\ IsFiniteSet(CPUs) /\ CPUs # {}
  /\ IsFiniteSet(Works) /\ IsFiniteSet(Tasks)
  /\ CPUs \cap Works = {} /\ CPUs \cap Tasks = {} /\ Works \cap Tasks = {}
  /\ Hotplug \notin CPUs \cup Works \cup Tasks
  /\ Null \notin CPUs \cup Works \cup Tasks \cup {Hotplug}

Actors   == Tasks \cup CPUs \cup Works \cup {Hotplug}
Flushers == Tasks \cup {Hotplug}   \* those that own a struct wq_barrier

VARIABLES pending,      \* pending[w]: WORK_STRUCT_PENDING
          data,         \* data[w]: the CPU whose cwq get_wq_data(w) is, or Null
          worklist,     \* worklist[c]: work items, and the flushers of barriers
          current_work, \* current_work[c]: what the worker of c runs, or Null
          lock,         \* lock[c]: who is between two steps under the lock of c, or Null
          pc,           \* where each actor is
          next,         \* next[a]: where the function a is in returns to
          work,         \* work[a]: the work item a deals with, or Null
          cpu,          \* cpu[a]: the CPU a uses or looked at last, or 0
          done,         \* done[f]: the completion of f's barrier
          tstate,       \* tstate[c]: task->state of the worker of c
          should_stop,  \* should_stop[c]: kthread_should_stop() of the worker
          online,       \* cpu_online_mask
          populated,    \* cpu_populated_map
          program,      \* program[a]: the calls a may make; no step changes it
          due,          \* due[t]: history, what t's flush has to wait for
          fooled        \* history: a work item was taken off, or waited for on, a list
                        \* it is not on

vars == <<pending, data, worklist, current_work, lock, pc, next, work, cpu, done,
          tstate, should_stop, online, populated, program, due, fooled>>

works   == <<pending, data>>
workers == <<tstate, should_stop>>
masks   == <<online, populated>>

Init ==
  /\ pending = [w \in Works |-> FALSE]
  /\ data = [w \in Works |-> Null]
  /\ worklist = [c \in CPUs |-> <<>>]
  /\ current_work = [c \in CPUs |-> Null]
  /\ lock = [c \in CPUs |-> Null]
  /\ pc = [a \in Actors |-> IF a \in CPUs THEN "prepare" ELSE "idle"]
  /\ next = [a \in Actors |-> "idle"]
  /\ work = [a \in Actors |-> Null]
  /\ cpu = [a \in Actors |-> 0]
  /\ done = [f \in Flushers |-> FALSE]
  /\ tstate = [c \in CPUs |-> TASK_RUNNING]
  /\ should_stop = [c \in CPUs |-> FALSE]
  /\ online = CPUs
  /\ populated = CPUs
  /\ program \in Programs
  /\ due = [t \in Tasks |-> {}]
  /\ fooled = FALSE

May(a, call) == call \in program[a]

Goto(a, from, to) == pc[a] = from /\ pc' = [pc EXCEPT ![a] = to]

(* destroy_workqueue() is at work; nobody queues anything any more. *)
Destroying == pc[Hotplug] \in {"destroy_scan", "freed"} \/ next[Hotplug] = "destroy_scan"

(* !list_empty(&work->entry), whichever list it is on. *)
Listed(w) == \E c \in CPUs : w \in ListEntries(worklist[c])

(* wake_up(&cwq->more_work): the worker is on that queue from              *)
(* prepare_to_wait() to finish_wait(), and TASK_RUNNING otherwise.         *)
WakeWorker(c) == tstate' = wake_up_process(tstate, c)

(* The function that a is in returns. *)
Return(a, from) ==
  /\ Goto(a, from, next[a])
  /\ next' = [next EXCEPT ![a] = "idle"]

(* The task's call is over, or is forgotten as far as its locals go. *)
Leave(t, from) ==
  /\ Goto(t, from, "idle")
  /\ next' = [next EXCEPT ![t] = "idle"]
  /\ work' = [work EXCEPT ![t] = Null]
  /\ cpu' = [cpu EXCEPT ![t] = 0]

------------------------------------------------------------------------------
(* Queueing.  Any actor a that wins the PENDING bit of w goes on to queue  *)
(* it or to start its timer; the others leave it alone.                    *)

(* Variant with a bug: the PENDING bit is set and not tested. *)
BuggyTestAndSet(a, from, w, c, to, return) ==
  /\ pending' = [pending EXCEPT ![w] = TRUE]
  /\ Goto(a, from, to)
  /\ next' = [next EXCEPT ![a] = return]
  /\ work' = [work EXCEPT ![a] = w]
  /\ cpu' = [cpu EXCEPT ![a] = c]
  /\ UNCHANGED <<data, worklist, current_work, lock, done, workers, masks, due>>

(* test_and_set_bit(WORK_STRUCT_PENDING); preemption is off for            *)
(* queue_work(), so that c stays online, but not for queue_delayed_work(). *)
TestAndSet(a, from, w, c, to, return) ==
  /\ ~pending[w]
  /\ pending' = [pending EXCEPT ![w] = TRUE]
  /\ Goto(a, from, to)
  /\ next' = [next EXCEPT ![a] = return]
  /\ work' = [work EXCEPT ![a] = w]
  /\ cpu' = [cpu EXCEPT ![a] = c]
  /\ UNCHANGED <<data, worklist, current_work, lock, done, workers, masks, due>>

(* A flush_work() that was called before the work item is queued again     *)
(* does not wait for it ("it doesn't make sense to use this function").    *)
Excused(w) == [t \in Tasks |-> IF work[t] = w THEN {} ELSE due[t]]

(* Variant with a bug: set_wq_data() before cwq->lock is taken. *)
BuggySetWqData(a) ==
  /\ Goto(a, "queue", "insert")
  /\ data' = [data EXCEPT ![work[a]] = cpu[a]]
  /\ due' = Excused(work[a])
  /\ UNCHANGED <<pending, worklist, current_work, lock, next, work, cpu, done, workers, masks>>

(* __queue_work() and insert_work(): take cwq->lock and set_wq_data() ...  *)
SetWqData(a) ==
  /\ Goto(a, "queue", "insert")
  /\ lock[cpu[a]] = Null
  /\ lock' = [lock EXCEPT ![cpu[a]] = a]
  /\ data' = [data EXCEPT ![work[a]] = cpu[a]]
  /\ due' = Excused(work[a])
  /\ UNCHANGED <<pending, worklist, current_work, next, work, cpu, done, workers, masks>>

(* Variant with a bug: no wake_up(). *)
BuggyInsertWork(a) ==
  /\ Return(a, "insert")
  /\ worklist' = [worklist EXCEPT ![cpu[a]] = list_add_tail(@, work[a])]
  /\ lock' = [lock EXCEPT ![cpu[a]] = Null]
  /\ work' = [work EXCEPT ![a] = IF next[a] = "flush_work" THEN @ ELSE Null]
  /\ cpu' = [cpu EXCEPT ![a] = 0]
  /\ UNCHANGED <<pending, data, current_work, done, workers, masks, due>>

(* ... smp_wmb(), list_add_tail(), wake_up(). *)
InsertWork(a) ==
  /\ Return(a, "insert")
  /\ worklist' = [worklist EXCEPT ![cpu[a]] = list_add_tail(@, work[a])]
  /\ WakeWorker(cpu[a])
  /\ lock' = [lock EXCEPT ![cpu[a]] = Null]
  /\ work' = [work EXCEPT ![a] = IF next[a] = "flush_work" THEN @ ELSE Null]
  /\ cpu' = [cpu EXCEPT ![a] = 0]
  /\ UNCHANGED <<pending, data, current_work, done, should_stop, masks, due>>

(* queue_delayed_work_on(), after it got the PENDING bit. *)
AddTimer(a) ==
  LET w == work[a] IN
  /\ pc[a] = "add_timer"
  /\ data' = [data EXCEPT ![w] = cpu[a]]
  /\ pc' = [pc EXCEPT ![a] = next[a], ![w] = "armed"]
  /\ next' = [next EXCEPT ![a] = "idle"]
  /\ work' = [work EXCEPT ![a] = Null]
  /\ cpu' = [cpu EXCEPT ![a] = 0]
  /\ UNCHANGED <<pending, worklist, current_work, lock, done, workers, masks, due>>

(* The timer expires on some CPU, to which it may have been migrated, and  *)
(* delayed_work_timer_fn() queues the work item there.                     *)
delayed_work_timer_fn(w, c) ==
  /\ c \in online
  /\ Goto(w, "armed", "queue")
  /\ work' = [work EXCEPT ![w] = w]
  /\ cpu' = [cpu EXCEPT ![w] = c]
  /\ UNCHANGED <<works, worklist, current_work, lock, next, done, workers, masks, due>>

queue_work(t, w) ==
  \E c \in online : TestAndSet(t, "idle", w, c, "queue", "idle")

queue_delayed_work(t, w) ==
  \E c \in online : TestAndSet(t, "idle", w, c, "add_timer", "idle")

------------------------------------------------------------------------------
(* The worker thread.  Freezing is left out. *)

(* worker_thread(): prepare_to_wait() ... *)
PrepareToWait(c) ==
  /\ Goto(c, "prepare", "test")
  /\ tstate' = [tstate EXCEPT ![c] = TASK_INTERRUPTIBLE]
  /\ UNCHANGED <<works, worklist, current_work, lock, next, work, cpu, done, should_stop, masks, due>>

(* ... sleep if there is nothing to do ... *)
TestMoreWork(c) ==
  /\ Goto(c, "test", IF should_stop[c] \/ worklist[c] # <<>> THEN "finish" ELSE "schedule")
  /\ UNCHANGED <<works, worklist, current_work, lock, next, work, cpu, done, workers, masks, due>>

Schedule(c) ==
  /\ ScheduleReturns(tstate[c], "none")
  /\ Goto(c, "schedule", "finish")
  /\ UNCHANGED <<works, worklist, current_work, lock, next, work, cpu, done, workers, masks, due>>

(* Variant with a bug: kthread_should_stop() is not tested after the wait. *)
BuggyFinishWait(c) ==
  /\ Goto(c, "finish", "run")
  /\ tstate' = [tstate EXCEPT ![c] = TASK_RUNNING]
  /\ UNCHANGED <<works, worklist, current_work, lock, next, work, cpu, done, should_stop, masks, due>>

(* ... finish_wait(), and exit or run_workqueue(). *)
FinishWait(c) ==
  /\ Goto(c, "finish", IF should_stop[c] THEN "exited" ELSE "run")
  /\ tstate' = [tstate EXCEPT ![c] = TASK_RUNNING]
  /\ UNCHANGED <<works, worklist, current_work, lock, next, work, cpu, done, should_stop, masks, due>>

(* What c has finished is no longer due; what it takes off its list runs. *)
Progress(c, s) ==
  LET w == current_work[c]
      left == {d \in s : ~(d.cpu = c /\ d.phase = "running" /\ d.work = w)}
  IN  {IF d.cpu = c /\ worklist[c] # <<>> /\ d.work = Head(worklist[c])
       THEN [d EXCEPT !.phase = "running"] ELSE d : d \in left}

(* Variant with a bug: the worker stops before its list is empty. *)
BuggyNextWork(c) ==
  /\ lock[c] = Null
  /\ \/ /\ should_stop[c]
        /\ Goto(c, "run", "exited")
        /\ current_work' = [current_work EXCEPT ![c] = Null]
        /\ UNCHANGED worklist
     \/ /\ worklist[c] = <<>>
        /\ Goto(c, "run", "prepare")
        /\ current_work' = [current_work EXCEPT ![c] = Null]
        /\ UNCHANGED worklist
     \/ /\ worklist[c] # <<>> /\ ~should_stop[c]
        /\ Goto(c, "run", "clear")
        /\ current_work' = [current_work EXCEPT ![c] = Head(worklist[c])]
        /\ worklist' = [worklist EXCEPT ![c] = Tail(@)]
  /\ due' = [t \in Tasks |-> Progress(c, due[t])]
  /\ UNCHANGED <<works, lock, next, work, cpu, done, workers, masks>>

(* run_workqueue(), under cwq->lock: forget the work item that has run,    *)
(* take the next one off the list.                                         *)
NextWork(c) ==
  /\ lock[c] = Null
  /\ \/ /\ worklist[c] = <<>>
        /\ Goto(c, "run", "prepare")
        /\ current_work' = [current_work EXCEPT ![c] = Null]
        /\ UNCHANGED worklist
     \/ /\ worklist[c] # <<>>
        /\ Goto(c, "run", "clear")
        /\ current_work' = [current_work EXCEPT ![c] = Head(worklist[c])]
        /\ worklist' = [worklist EXCEPT ![c] = Tail(@)]
  /\ due' = [t \in Tasks |-> Progress(c, due[t])]
  /\ UNCHANGED <<works, lock, next, work, cpu, done, workers, masks>>

(* BUG_ON(get_wq_data(work) != cwq), work_clear_pending(). *)
ClearPending(c) ==
  /\ current_work[c] \in Works
  /\ Goto(c, "clear", "func")
  /\ pending' = [pending EXCEPT ![current_work[c]] = FALSE]
  /\ UNCHANGED <<data, worklist, current_work, lock, next, work, cpu, done, workers, masks, due>>

wq_barrier_func(c) ==
  /\ current_work[c] \in Flushers
  /\ Goto(c, "clear", "run")
  /\ done' = [done EXCEPT ![current_work[c]] = TRUE]
  /\ UNCHANGED <<works, worklist, current_work, lock, next, work, cpu, workers, masks, due>>

(* f(work) returns; it may have queued a work item, its own included.  The *)
(* worker of a dead CPU runs on some other one.                            *)
FuncReturns(c) ==
  /\ Goto(c, "func", "run")
  /\ UNCHANGED <<works, worklist, current_work, lock, next, work, cpu, done, workers, masks, due>>

Requeue(c, w) ==
  /\ ~Destroying
  /\ \E x \in IF c \in online THEN {c} ELSE online :
       \/ May(c, "queue_work") /\ TestAndSet(c, "func", w, x, "queue", "run")
       \/ May(c, "queue_delayed_work") /\ TestAndSet(c, "func", w, x, "add_timer", "run")

------------------------------------------------------------------------------
(* Barriers.  insert_wq_barrier(), under cwq->lock, puts f's barrier on    *)
(* the list of c, which becomes `list'; f then waits for it to have run.   *)
insert_wq_barrier(f, c, from, to, list) ==
  /\ Goto(f, from, to)
  /\ worklist' = [worklist EXCEPT ![c] = list]
  /\ done' = [done EXCEPT ![f] = FALSE]
  /\ WakeWorker(c)

WaitForCompletion(f, from, to) ==
  /\ done[f]
  /\ Goto(f, from, to)
  /\ done' = [done EXCEPT ![f] = FALSE]
  /\ UNCHANGED <<works, worklist, current_work, lock, next, work, cpu, workers, masks, due>>

(* Variant with a bug: what is running is not looked at. *)
BuggyActive(c) == worklist[c] # <<>>

Active(c) == worklist[c] # <<>> \/ current_work[c] # Null

(* flush_cpu_workqueue() on c, called by f. *)
flush_cpu_workqueue(f, c, from, wait, over) ==
  /\ lock[c] = Null
  /\ \/ /\ Active(c)
        /\ insert_wq_barrier(f, c, from, wait, list_add_tail(worklist[c], f))
     \/ /\ ~Active(c)
        /\ Goto(f, from, over)
        /\ UNCHANGED <<worklist, done, tstate>>
  /\ UNCHANGED <<works, current_work, lock, should_stop, masks, due>>

wq_cpu_map == populated

(* for_each_cpu(cpu, wq_cpu_map(wq)) is about to visit c. *)
Visits(f, c) ==
  /\ c \in wq_cpu_map
  /\ c > cpu[f]
  /\ \A x \in wq_cpu_map : x > cpu[f] => x >= c

Visited(f) == \A x \in wq_cpu_map : x <= cpu[f]

(* The instances of the work items in W that are on a list or running; own *)
(* tells whether the flush is going to look at the CPU they are on.        *)
Outstanding(W, own) ==
  {d \in [cpu : CPUs, phase : {"queued", "running"}, work : W, own : BOOLEAN] :
     /\ d.own = (d.cpu \in own)
     /\ IF d.phase = "queued" THEN d.work \in ListEntries(worklist[d.cpu])
                              ELSE d.work = current_work[d.cpu]}

------------------------------------------------------------------------------
(* flush_workqueue(): flush the populated CPUs one after the other. *)
flush_workqueue(t) ==
  /\ Goto(t, "idle", "flush_scan")
  /\ due' = [due EXCEPT ![t] = Outstanding(Works, CPUs)]
  /\ UNCHANGED <<works, worklist, current_work, lock, next, work, cpu, done, workers, masks>>

FlushScan(t) ==
  /\ pc[t] = "flush_scan"
  /\ \/ \E c \in CPUs :
          /\ Visits(t, c)
          /\ flush_cpu_workqueue(t, c, "flush_scan", "flush_wait", "flush_scan")
          /\ cpu' = [cpu EXCEPT ![t] = c]
          /\ UNCHANGED <<next, work>>
     \/ /\ Visited(t)
        /\ Leave(t, "flush_scan")
        /\ UNCHANGED <<works, worklist, current_work, lock, done, workers, masks, due>>

------------------------------------------------------------------------------
(* flush_work(): read get_wq_data() without a lock ... *)
FlushWork(t, from, w) ==
  /\ pc[t] = from
  /\ \/ /\ data[w] = Null
        /\ Leave(t, from)
        /\ UNCHANGED due
     \/ /\ data[w] # Null
        /\ Goto(t, from, "flush_lock")
        /\ work' = [work EXCEPT ![t] = w]
        /\ cpu' = [cpu EXCEPT ![t] = data[w]]
        /\ due' = [due EXCEPT ![t] = Outstanding({w}, {data[w]})]
        /\ next' = [next EXCEPT ![t] = "idle"]
  /\ UNCHANGED <<works, worklist, current_work, lock, done, workers, masks>>

(* ... lock that cwq; unless work->entry is on a list, of whatever CPU,    *)
(* wait if the function runs there ...                                     *)
FlushLock(t) ==
  LET c == cpu[t]
      w == work[t]
  IN
  /\ pc[t] = "flush_lock"
  /\ lock[c] = Null
  /\ \/ /\ Listed(w)
        /\ Goto(t, "flush_lock", "flush_data")
        /\ lock' = [lock EXCEPT ![c] = t]
        /\ UNCHANGED <<worklist, done, tstate, next, work, cpu>>
     \/ /\ ~Listed(w) /\ current_work[c] = w
        /\ insert_wq_barrier(t, c, "flush_lock", "work_wait", AddFirst(worklist[c], t))
        /\ UNCHANGED <<lock, next, work, cpu>>
     \/ /\ ~Listed(w) /\ current_work[c] # w
        /\ Leave(t, "flush_lock")
        /\ UNCHANGED <<lock, worklist, done, tstate>>
  /\ UNCHANGED <<works, current_work, should_stop, masks, due>>

(* ... smp_rmb(), and read get_wq_data() again: wait behind the work item. *)
(* If it was on the list of another CPU and is on none by now, the barrier *)
(* is linked to it alone, and no worker will find it.                      *)
FlushBehind(t) ==
  LET c == cpu[t]
      w == work[t]
      right == w \in ListEntries(worklist[c])
  IN
  /\ pc[t] = "flush_data"
  /\ lock' = [lock EXCEPT ![c] = Null]
  /\ \/ /\ data[w] = c
        /\ insert_wq_barrier(t, c, "flush_data", "work_wait",
                             IF right THEN AddBehind(worklist[c], w, t) ELSE worklist[c])
        /\ fooled' = ~right
        /\ UNCHANGED <<next, work, cpu>>
     \/ /\ data[w] # c
        /\ Leave(t, "flush_data")
        /\ UNCHANGED <<worklist, done, tstate, fooled>>
  /\ UNCHANGED <<works, current_work, should_stop, masks, due>>

WorkWait(t) ==
  /\ done[t]
  /\ Leave(t, "work_wait")
  /\ done' = [done EXCEPT ![t] = FALSE]
  /\ UNCHANGED <<works, worklist, current_work, lock, workers, masks, due>>

(* flush_delayed_work(): del_timer_sync() waits for the timer function; if *)
(* the timer was pending the work item is queued on this CPU, at once.     *)
flush_delayed_work(t, w) ==
  \/ /\ pc[w] = "armed"
     /\ \E c \in online :
          /\ pc[t] = "idle"
          /\ pc' = [pc EXCEPT ![t] = "queue", ![w] = "idle"]
          /\ next' = [next EXCEPT ![t] = "flush_work"]
          /\ work' = [work EXCEPT ![t] = w]
          /\ cpu' = [cpu EXCEPT ![t] = c]
     /\ UNCHANGED <<works, worklist, current_work, lock, done, workers, masks, due>>
  \/ /\ pc[w] = "idle"
     /\ FlushWork(t, "idle", w)

------------------------------------------------------------------------------
(* __cancel_work_timer().  next[t] is where the loop starts over, until t  *)
(* owns the PENDING bit.                                                   *)
Cancel(t, w, loop) ==
  /\ Goto(t, "idle", loop)
  /\ next' = [next EXCEPT ![t] = loop]
  /\ work' = [work EXCEPT ![t] = w]
  /\ UNCHANGED <<works, worklist, current_work, lock, cpu, done, workers, masks, due>>

cancel_work_sync(t, w)         == Cancel(t, w, "grab")
cancel_delayed_work_sync(t, w) == Cancel(t, w, "del_timer")

DelTimer(t) ==
  LET w == work[t] IN
  /\ pc[t] = "del_timer"
  /\ \/ /\ pc[w] = "armed"
        /\ pc' = [pc EXCEPT ![t] = "wait_on_work", ![w] = "idle"]
        /\ next' = [next EXCEPT ![t] = "clear_pending"]
     \/ /\ pc[w] # "armed"
        /\ Goto(t, "del_timer", "grab")
        /\ UNCHANGED next
  /\ UNCHANGED <<works, worklist, current_work, lock, work, cpu, done, workers, masks, due>>

(* Variant with a bug: a work item that is not pending is not waited for. *)
BuggyTryToGrab(t) ==
  LET w == work[t] IN
  /\ pc[t] = "grab"
  /\ \/ /\ ~pending[w]
        /\ Goto(t, "grab", "clear_pending")
        /\ pending' = [pending EXCEPT ![w] = TRUE]
        /\ next' = [next EXCEPT ![t] = "clear_pending"]
        /\ UNCHANGED cpu
     \/ /\ pending[w] /\ data[w] = Null
        /\ Goto(t, "grab", "wait_on_work")
        /\ UNCHANGED <<pending, next, cpu>>
     \/ /\ pending[w] /\ data[w] # Null
        /\ Goto(t, "grab", "steal")
        /\ cpu' = [cpu EXCEPT ![t] = data[w]]
        /\ UNCHANGED <<pending, next>>
  /\ UNCHANGED <<data, worklist, current_work, lock, work, done, workers, masks, due>>

(* try_to_grab_pending(): the bit was free; or read get_wq_data() ... *)
TryToGrab(t) ==
  LET w == work[t] IN
  /\ pc[t] = "grab"
  /\ \/ /\ ~pending[w]
        /\ Goto(t, "grab", "wait_on_work")
        /\ pending' = [pending EXCEPT ![w] = TRUE]
        /\ next' = [next EXCEPT ![t] = "clear_pending"]
        /\ UNCHANGED cpu
     \/ /\ pending[w] /\ data[w] = Null
        /\ Goto(t, "grab", "wait_on_work")
        /\ UNCHANGED <<pending, next, cpu>>
     \/ /\ pending[w] /\ data[w] # Null
        /\ Goto(t, "grab", "steal")
        /\ cpu' = [cpu EXCEPT ![t] = data[w]]
        /\ UNCHANGED <<pending, next>>
  /\ UNCHANGED <<data, worklist, current_work, lock, work, done, workers, masks, due>>

(* ... lock that cwq, see whether work->entry is on a list ... *)
StealLock(t) ==
  LET listed == Listed(work[t]) IN
  /\ Goto(t, "steal", IF listed THEN "steal_data" ELSE "wait_on_work")
  /\ lock[cpu[t]] = Null
  /\ lock' = [lock EXCEPT ![cpu[t]] = IF listed THEN t ELSE Null]
  /\ cpu' = [cpu EXCEPT ![t] = IF listed THEN @ ELSE 0]
  /\ UNCHANGED <<works, worklist, current_work, next, work, done, workers, masks, due>>

(* ... smp_rmb(), and steal the work item if get_wq_data() is that cwq.    *)
(* The list may be the one of another CPU, whose worker has taken the item *)
(* off since, and queue_delayed_work() needs no lock to store the data:    *)
(* then list_del_init() does nothing, and the owner of the PENDING bit is  *)
(* another one.                                                            *)
Steal(t) ==
  LET c == cpu[t]
      w == work[t]
  IN
  /\ Goto(t, "steal_data", "wait_on_work")
  /\ lock' = [lock EXCEPT ![c] = Null]
  /\ cpu' = [cpu EXCEPT ![t] = 0]
  /\ \/ /\ data[w] = c
        /\ worklist' = [x \in CPUs |-> IF w \in ListEntries(worklist[x])
                                       THEN list_del(worklist[x], w) ELSE worklist[x]]
        /\ next' = [next EXCEPT ![t] = "clear_pending"]
        /\ due' = [u \in Tasks |-> {d \in due[u] : ~(d.work = w /\ d.phase = "queued")}]
        /\ fooled' = (w \notin ListEntries(worklist[c]))
     \/ /\ data[w] # c
        /\ UNCHANGED <<worklist, next, due, fooled>>
  /\ UNCHANGED <<works, current_work, work, done, workers, masks>>

(* wait_on_work(): if the work item was ever queued, visit the CPUs. *)
wait_on_work(t) ==
  /\ Goto(t, "wait_on_work", IF data[work[t]] = Null THEN next[t] ELSE "wait_scan")
  /\ UNCHANGED <<works, worklist, current_work, lock, next, work, cpu, done, workers, masks, due>>

(* wait_on_cpu_work() *)
WaitScan(t) ==
  /\ pc[t] = "wait_scan"
  /\ \/ \E c \in CPUs :
          /\ Visits(t, c)
          /\ lock[c] = Null
          /\ cpu' = [cpu EXCEPT ![t] = c]
          /\ \/ /\ current_work[c] = work[t]
                /\ insert_wq_barrier(t, c, "wait_scan", "wait_wait", AddFirst(worklist[c], t))
             \/ /\ current_work[c] # work[t]
                /\ UNCHANGED <<pc, worklist, done, tstate>>
     \/ /\ Visited(t)
        /\ Goto(t, "wait_scan", next[t])
        /\ cpu' = [cpu EXCEPT ![t] = 0]
        /\ UNCHANGED <<worklist, done, tstate>>
  /\ UNCHANGED <<works, current_work, lock, next, work, should_stop, masks, due>>

(* work_clear_pending() at the end of the cancel functions. *)
CancelClears(t, from) ==
  /\ Leave(t, from)
  /\ pending' = [pending EXCEPT ![work[t]] = FALSE]
  /\ UNCHANGED <<data, worklist, current_work, lock, done, workers, masks, due>>

(* Variant with a bug: the result of del_timer() is ignored. *)
BuggyCancelDelayed(t, w) ==
  /\ pc[t] = "idle"
  /\ pc' = [pc EXCEPT ![t] = "clear_only", ![w] = "idle"]
  /\ work' = [work EXCEPT ![t] = w]
  /\ UNCHANGED <<works, worklist, current_work, lock, next, cpu, done, workers, masks, due>>

(* cancel_delayed_work() and __cancel_delayed_work(): the latter does not  *)
(* wait for a timer function that runs; both then return 0.                *)
cancel_delayed_work(t, w) ==
  /\ pc[w] = "armed"
  /\ pc[t] = "idle"
  /\ pc' = [pc EXCEPT ![t] = "clear_only", ![w] = "idle"]
  /\ work' = [work EXCEPT ![t] = w]
  /\ UNCHANGED <<works, worklist, current_work, lock, next, cpu, done, workers, masks, due>>

------------------------------------------------------------------------------
(* CPU hotplug and the life of a workqueue, all under cpu_add_remove_lock. *)
(* take_cpu_down() under stop_machine(): nobody runs on c with preemption  *)
(* disabled.                                                               *)
cpu_down(c) ==
  /\ c \in online /\ online # {c}
  /\ \A a \in Actors : pc[a] \in {"queue", "insert"} => cpu[a] # c
  /\ Goto(Hotplug, "idle", "cleanup")
  /\ online' = online \ {c}
  /\ cpu' = [cpu EXCEPT ![Hotplug] = c]
  /\ next' = [next EXCEPT ![Hotplug] = "unpopulate"]
  /\ UNCHANGED <<works, worklist, current_work, lock, work, done, workers, populated, due>>

(* Variant with a bug: no flush_cpu_workqueue(). *)
BuggyCleanup ==
  /\ pc[Hotplug] = "cleanup"
  /\ Goto(Hotplug, "cleanup", "kthread_stop")
  /\ UNCHANGED <<works, worklist, current_work, lock, done, workers, masks, due, next, work, cpu>>

(* cleanup_workqueue_thread(): flush_cpu_workqueue() ... *)
Cleanup ==
  /\ pc[Hotplug] = "cleanup"
  /\ flush_cpu_workqueue(Hotplug, cpu[Hotplug], "cleanup", "cleanup_wait", "kthread_stop")
  /\ UNCHANGED <<next, work, cpu>>

(* ... kthread_stop() ... *)
kthread_stop ==
  /\ Goto(Hotplug, "kthread_stop", "wait_exited")
  /\ should_stop' = [should_stop EXCEPT ![cpu[Hotplug]] = TRUE]
  /\ WakeWorker(cpu[Hotplug])
  /\ UNCHANGED <<works, worklist, current_work, lock, next, work, cpu, done, masks, due>>

(* ... and cwq->thread = NULL once it has exited. *)
ThreadGone ==
  /\ pc[Hotplug] = "wait_exited"
  /\ pc[cpu[Hotplug]] = "exited"
  /\ pc' = [pc EXCEPT ![cpu[Hotplug]] = "no thread", ![Hotplug] = next[Hotplug]]
  /\ UNCHANGED <<works, worklist, current_work, lock, next, work, cpu, done, workers, masks, due>>

(* The end of CPU_POST_DEAD, of CPU_UP_CANCELED, of CPU_ONLINE. *)
HotplugEnds(from) ==
  /\ Goto(Hotplug, from, "idle")
  /\ next' = [next EXCEPT ![Hotplug] = "idle"]
  /\ cpu' = [cpu EXCEPT ![Hotplug] = 0]

Unpopulate ==
  /\ HotplugEnds("unpopulate")
  /\ populated' = populated \ {cpu[Hotplug]}
  /\ UNCHANGED <<works, worklist, current_work, lock, work, done, workers, online, due>>

(* CPU_UP_PREPARE; if something goes wrong before the CPU is up,           *)
(* CPU_UP_CANCELED starts the thread and stops it.  If it was the thread   *)
(* that could not be created, cwq->thread is NULL, there is nothing to     *)
(* clean up and the CPU is taken off the map.                              *)
cpu_up(c) ==
  /\ c \notin online
  /\ Goto(Hotplug, "idle", "create")
  /\ populated' = populated \cup {c}
  /\ cpu' = [cpu EXCEPT ![Hotplug] = c]
  /\ next' = [next EXCEPT ![Hotplug] = "unpopulate"]
  /\ UNCHANGED <<works, worklist, current_work, lock, work, done, workers, online, due>>

create_workqueue_thread ==
  LET c == cpu[Hotplug] IN
  /\ pc[Hotplug] = "create"
  /\ \/ /\ pc' = [pc EXCEPT ![Hotplug] = "bring_up", ![c] = "created"]
        /\ should_stop' = [should_stop EXCEPT ![c] = FALSE]
     \/ /\ pc' = [pc EXCEPT ![Hotplug] = "unpopulate"]
        /\ UNCHANGED should_stop
  /\ UNCHANGED <<works, worklist, current_work, lock, next, work, cpu, done, tstate, masks, due>>

BringUp ==
  /\ \/ /\ Goto(Hotplug, "bring_up", "cpu_online")
        /\ online' = online \cup {cpu[Hotplug]}
     \/ /\ pc[Hotplug] = "bring_up"
        /\ pc' = [pc EXCEPT ![Hotplug] = "cleanup", ![cpu[Hotplug]] = "prepare"]
        /\ UNCHANGED online
  /\ UNCHANGED <<works, worklist, current_work, lock, next, work, cpu, done, workers, populated, due>>

(* CPU_ONLINE: start_workqueue_thread() *)
start_workqueue_thread ==
  /\ pc[Hotplug] = "cpu_online"
  /\ pc' = [pc EXCEPT ![Hotplug] = "idle", ![cpu[Hotplug]] = "prepare"]
  /\ next' = [next EXCEPT ![Hotplug] = "idle"]
  /\ cpu' = [cpu EXCEPT ![Hotplug] = 0]
  /\ UNCHANGED <<works, worklist, current_work, lock, work, done, workers, masks, due>>

(* destroy_workqueue(), which is called when nobody uses the workqueue any *)
(* more: no task is in a call, no timer is armed.                          *)
destroy_workqueue ==
  /\ \A a \in Tasks \cup Works : pc[a] = "idle"
  /\ \A c \in CPUs : pc[c] \notin {"queue", "insert", "add_timer"}
  /\ Goto(Hotplug, "idle", "destroy_scan")
  /\ next' = [next EXCEPT ![Hotplug] = "destroy_scan"]
  /\ UNCHANGED <<works, worklist, current_work, lock, work, cpu, done, workers, masks, due>>

DestroyScan ==
  /\ \/ \E c \in CPUs : /\ Visits(Hotplug, c)
                        /\ Goto(Hotplug, "destroy_scan", "cleanup")
                        /\ cpu' = [cpu EXCEPT ![Hotplug] = c]
     \/ /\ Visited(Hotplug)
        /\ Goto(Hotplug, "destroy_scan", "freed")
        /\ cpu' = [cpu EXCEPT ![Hotplug] = 0]
  /\ UNCHANGED <<works, worklist, current_work, lock, next, work, done, workers, masks, due>>

(* __create_workqueue_key(); its users initialise their work items.  If a  *)
(* thread cannot be created it destroys the empty workqueue, and all stays *)
(* as it is.                                                               *)
create_workqueue ==
  /\ pc[Hotplug] = "freed"
  /\ pc' = [a \in Actors |-> IF a = Hotplug THEN "idle"
                             ELSE IF a \in online THEN "prepare" ELSE pc[a]]
  /\ next' = [next EXCEPT ![Hotplug] = "idle"]
  /\ data' = [w \in Works |-> Null]
  /\ should_stop' = [c \in CPUs |-> should_stop[c] /\ c \notin online]
  /\ UNCHANGED <<pending, worklist, current_work, lock, work, cpu, done, tstate, masks, due>>

------------------------------------------------------------------------------
Call(t) ==
  /\ ~fooled
  /\ ~Destroying
  /\ \/ May(t, "flush_workqueue") /\ flush_workqueue(t)
     \/ \E w \in Works :
          \/ May(t, "queue_work") /\ queue_work(t, w)
          \/ May(t, "queue_delayed_work") /\ queue_delayed_work(t, w)
          \/ May(t, "flush_work") /\ FlushWork(t, "idle", w)
          \/ May(t, "flush_delayed_work") /\ flush_delayed_work(t, w)
          \/ May(t, "cancel_work_sync") /\ cancel_work_sync(t, w)
          \/ May(t, "cancel_delayed_work_sync") /\ cancel_delayed_work_sync(t, w)
          \/ May(t, "cancel_delayed_work") /\ cancel_delayed_work(t, w)
  /\ UNCHANGED <<program, fooled>>

Queueing(a) == SetWqData(a) \/ InsertWork(a) \/ AddTimer(a)

Step(t) ==
  /\ ~fooled
  /\ \/ /\ \/ Queueing(t)
           \/ FlushScan(t) \/ WaitForCompletion(t, "flush_wait", "flush_scan")
           \/ FlushWork(t, "flush_work", work[t]) \/ FlushLock(t) \/ WorkWait(t)
           \/ DelTimer(t) \/ TryToGrab(t) \/ StealLock(t) \/ wait_on_work(t)
           \/ WaitScan(t) \/ WaitForCompletion(t, "wait_wait", "wait_scan")
           \/ CancelClears(t, "clear_pending") \/ CancelClears(t, "clear_only")
        /\ UNCHANGED fooled
     \/ FlushBehind(t) \/ Steal(t)
  /\ UNCHANGED program

Worker(c) ==
  /\ ~fooled
  /\ \/ PrepareToWait(c) \/ TestMoreWork(c) \/ Schedule(c) \/ FinishWait(c)
     \/ NextWork(c) \/ ClearPending(c) \/ wq_barrier_func(c) \/ FuncReturns(c)
     \/ Queueing(c) \/ \E w \in Works : Requeue(c, w)
  /\ UNCHANGED <<program, fooled>>

Timer(w) ==
  /\ ~fooled
  /\ Queueing(w) \/ \E c \in CPUs : delayed_work_timer_fn(w, c)
  /\ UNCHANGED <<program, fooled>>

HotplugStarts ==
  /\ ~fooled
  /\ \/ \E c \in CPUs : \/ May(Hotplug, "cpu_down") /\ cpu_down(c)
                        \/ May(Hotplug, "cpu_up") /\ cpu_up(c)
     \/ May(Hotplug, "destroy_workqueue") /\ destroy_workqueue
  /\ UNCHANGED <<program, fooled>>

HotplugStep ==
  /\ ~fooled
  /\ \/ Cleanup \/ WaitForCompletion(Hotplug, "cleanup_wait", "kthread_stop")
     \/ kthread_stop \/ ThreadGone \/ Unpopulate
     \/ create_workqueue_thread \/ BringUp \/ start_workqueue_thread
     \/ DestroyScan \/ create_workqueue
  /\ UNCHANGED <<program, fooled>>

(* What comes once a task has been fooled is not followed: a timer that is *)
(* started while it runs, an entry linked to a barrier on the stack.       *)
Corrupted == fooled /\ UNCHANGED vars

Next ==
  \/ \E t \in Tasks : Call(t) \/ Step(t)
  \/ \E c \in CPUs : Worker(c)
  \/ \E w \in Works : Timer(w)
  \/ HotplugStarts \/ HotplugStep
  \/ Corrupted

Spec == Init /\ [][Next]_vars

(* Actors that can run do run and timers expire; cwq->lock is a ticket     *)
(* lock.  Nobody has to start a call.                                      *)
Fairness ==
  /\ \A t \in Tasks : SF_vars(Step(t))
  /\ \A c \in CPUs : SF_vars(Worker(c))
  /\ \A w \in Works : SF_vars(Timer(w))
  /\ SF_vars(HotplugStep)

FairSpec == Spec /\ Fairness

------------------------------------------------------------------------------
TaskLabel ==
  {"idle", "queue", "insert", "add_timer", "flush_scan", "flush_wait", "flush_work",
   "flush_lock", "flush_data", "work_wait", "del_timer", "grab", "steal", "steal_data",
   "wait_on_work", "wait_scan", "wait_wait", "clear_pending", "clear_only"}

WorkerLabel ==
  {"prepare", "test", "schedule", "finish", "run", "clear", "func", "queue", "insert",
   "add_timer", "exited", "no thread", "created"}

TimerLabel == {"idle", "armed", "queue", "insert"}

HotplugLabel ==
  {"idle", "cleanup", "cleanup_wait", "kthread_stop", "wait_exited", "unpopulate", "create",
   "bring_up", "cpu_online", "destroy_scan", "freed"}

(* Every variable holds a value of its C type, and every actor is at one   *)
(* of its own program points.                                              *)
TypeOK ==
  /\ pending \in [Works -> BOOLEAN]
  /\ data \in [Works -> CPUs \cup {Null}]
  /\ worklist \in [CPUs -> Seq(Works \cup Flushers)]
  /\ current_work \in [CPUs -> Works \cup Flushers \cup {Null}]
  /\ lock \in [CPUs -> Actors \cup {Null}]
  /\ DOMAIN pc = Actors
  /\ \A t \in Tasks : pc[t] \in TaskLabel
  /\ \A c \in CPUs : pc[c] \in WorkerLabel
  /\ \A w \in Works : pc[w] \in TimerLabel
  /\ pc[Hotplug] \in HotplugLabel
  /\ next \in [Actors -> TaskLabel \cup WorkerLabel \cup HotplugLabel]
  /\ work \in [Actors -> Works \cup {Null}]
  /\ cpu \in [Actors -> CPUs \cup {0}]
  /\ done \in [Flushers -> BOOLEAN]
  /\ tstate \in [CPUs -> TaskState]
  /\ should_stop \in [CPUs -> BOOLEAN]
  /\ online \in SUBSET CPUs
  /\ populated \in SUBSET CPUs
  /\ program \in Programs
  /\ fooled \in BOOLEAN
  /\ due \in [Tasks -> SUBSET [cpu : CPUs, phase : {"queued", "running"}, work : Works,
                               own : BOOLEAN]]

(* Who holds the PENDING bit of w: its place on a list, its timer, who is  *)
(* about to queue it, the worker that has not cleared it yet, a task that  *)
(* cancels it.                                                             *)
Owners(w) ==
  (UNION {{c} \X {i \in DOMAIN worklist[c] : worklist[c][i] = w} : c \in CPUs})
  \cup {<<"timer", w>> : x \in {y \in {w} : pc[y] = "armed"}}
  \cup {<<"clear", c>> : c \in {x \in CPUs : pc[x] = "clear" /\ current_work[x] = w}}
  \cup {<<"actor", a>> : a \in {x \in Actors : work[x] = w /\
          \/ pc[x] \in {"queue", "insert", "add_timer", "clear_pending", "clear_only"}
          \/ next[x] = "clear_pending"}}

(* The PENDING bit has one owner while it is set and none while it is      *)
(* clear, so no two ever queue the same work item: as long as nobody has   *)
(* been fooled.                                                            *)
OnePendingOwner ==
  ~fooled => \A w \in Works : Cardinality(Owners(w)) = IF pending[w] THEN 1 ELSE 0

(* The BUG_ON()s of run_workqueue(), queue_work_on(),                      *)
(* queue_delayed_work_on() and set_wq_data() do not fire.                  *)
NoBug ==
  ~fooled =>
    /\ \A c \in CPUs : pc[c] = "clear" /\ current_work[c] \in Works => data[current_work[c]] = c
    /\ \A a \in Actors :
         /\ pc[a] \in {"queue", "add_timer"} => pending[work[a]] /\ ~Listed(work[a])
         /\ pc[a] = "add_timer" => pc[work[a]] # "armed"

(* flush_work() and try_to_grab_pending() read work->entry and then        *)
(* work->data, under a lock that may not be the one of the list: the pair  *)
(* fools them only if the work item is started with a delay, because       *)
(* queue_delayed_work() alone stores the data without the lock.            *)
RaceNeedsDelay ==
  fooled => \E a \in Tasks \cup CPUs : May(a, "queue_delayed_work")

(* "Upon a successful return (>= 0), the caller owns WORK_STRUCT_PENDING   *)
(* bit, so this work can't be re-armed in any way": nobody else owns it.   *)
GrabbedIsOwned ==
  \A t \in Tasks : next[t] = "clear_pending" => Owners(work[t]) = {<<"actor", t>>}

(* When cancel_work_sync() and cancel_delayed_work_sync() return, the work *)
(* item's function runs nowhere, even if it re-queued itself and moved to  *)
(* another CPU meanwhile.                                                  *)
CancelIsSync ==
  ~fooled => \A t \in Tasks : pc[t] = "clear_pending" => \A c \in CPUs : current_work[c] # work[t]

(* flush_workqueue() returns when all that was queued or running on entry  *)
(* has finished or was cancelled, and flush_work() when the work item is   *)
(* done with on the CPU it was last queued on, unless it was queued again. *)
FlushWaits ==
  ~fooled => \A t \in Tasks : pc[t] = "idle" => \A d \in due[t] : ~d.own

(* "flush_work - block until a work_struct's callback has terminated":     *)
(* wherever it runs.                                                       *)
FlushWorkWaits ==
  \A t \in Tasks : pc[t] = "idle" => due[t] = {}

(* A CPU without a worker has nothing left to run: cleanup_workqueue_      *)
(* thread() may stop a worker although flushers still add barriers, and    *)
(* destroy_workqueue() leaves no work item behind.                         *)
NothingLeftBehind ==
  ~fooled =>
    /\ \A c \in CPUs : pc[c] \in {"exited", "no thread", "created"} => ~Active(c) \/ c \in online
    /\ pc[Hotplug] = "freed" => \A w \in Works : ~pending[w]

(* A flush_workqueue() comes back, even if work items queue themselves all *)
(* the time ("we are not livelocked by new incoming ones") and CPUs go     *)
(* away under it.                                                          *)
FlushReturns == \A t \in Tasks : pc[t] = "flush_scan" ~> pc[t] = "idle" \/ fooled

(* What is queued runs or is cancelled: the PENDING bit is never stuck.    *)
PendingClears == \A w \in Works : pending[w] ~> ~pending[w] \/ fooled

(* CPU hotplug and destroy_workqueue() come to an end if the calls of      *)
(* flush_workqueue() do: each may find the barrier of the one before still *)
(* in current_work, and gives the worker that is to stop one more to run.  *)
HotplugReturns ==
  <>[](\A t \in Tasks : pc[t] # "flush_scan") =>
    (pc[Hotplug] # "idle" ~> pc[Hotplug] = "idle" \/ fooled)
==============================================================================
