# Kernel synchronisation primitives of Linux 2.6.34 in TLA+

The repository holds the Linux 2.6.34 source (`src/linux-2.6.34`) beside reading
notes (`src/bookNotes`, prose). This project specifies and verifies the code every
other subsystem leans on: the blocking locks of the kernel, its deferred work
(workqueues, tasklets) and sleepable RCU. These parts are small, subtle and almost impossible to
test: their bugs need two or three CPUs to meet in a window of a few instructions.

## Inventory

| Component | State | Operations | Talks to | What is hard |
|---|---|---|---|---|
| semaphore (`kernel/semaphore.c`) | `count`, `wait_list`, one waiter (`up`) per sleeper's stack | `down`, `down_interruptible`, `down_killable`, `down_timeout`, `down_trylock`, `up` | lists, `schedule_timeout`, `wake_up_process` | a unit is handed over while a signal or the timer wakes the sleeper |
| mutex (`kernel/mutex.c`, `include/asm-generic/mutex-*.h`) | `count`, `owner`, `wait_lock`, `wait_list` | `mutex_lock*`, `mutex_trylock`, `mutex_unlock` | lists, `schedule`, the owner's run queue while spinning | `count` and `owner` change without a lock |
| rw_semaphore (`arch/x86/include/asm/rwsem.h`, `lib/rwsem.c`, `kernel/rwsem.c`) | `count` (two numbers in one word), `wait_lock`, `wait_list`, waiter `task`/`flags` | `down_read`, `down_write`, the trylocks, `up_read`, `up_write`, `downgrade_write` | lists, `schedule`, `wake_up_process` | lockers add their bias first and find out afterwards; several wakers at once |
| rwsem-spinlock (`lib/rwsem-spinlock.c`) | `activity`, `wait_lock`, `wait_list`, waiter `task`/`flags` | the same operations for machines without suitable atomics | lists, `schedule`, `wake_up_process` | some wake-ups trust what earlier operations left at the front of the list |
| workqueue (`kernel/workqueue.c`, `include/linux/workqueue.h`) | per CPU `worklist`, `current_work`, thread; per item the PENDING bit, `data`, `entry`, timer; `cpu_populated_map` | `queue_work`, `queue_delayed_work`, `flush_workqueue`, `flush_work`, `flush_delayed_work`, `cancel_*`, `destroy_workqueue`, the hotplug callback | timers, completions, kthreads, CPU hotplug | an item is protected by no lock of its own and moves between CPUs while others flush, cancel or take a CPU away |
| tasklets and softirqs (`kernel/softirq.c`, `include/linux/interrupt.h`) | SCHED and RUN bits, `count`, per CPU two lists with tail pointers, pending softirqs | `tasklet_schedule`, `tasklet_hi_schedule*`, `tasklet_disable*`, `tasklet_enable`, `tasklet_kill`, `tasklet_action`, `takeover_tasklets` | CPU hotplug | three words of one tasklet are used by three CPUs without a lock |
| SRCU (`kernel/srcu.c`) | `completed`, per CPU counters of two ranks, `mutex` | `srcu_read_lock`, `srcu_read_unlock`, `synchronize_srcu*` | `synchronize_sched*` | the read side has no memory barriers and moves between CPUs |
| kthreads (`kernel/kthread.c`) | `should_stop`, exit | `kthread_stop`, `kthread_should_stop` | the workqueue | modelled as the workqueue uses them |
| lists (`include/linux/list.h`) | order of entries | `list_add_tail`, `list_del`, insertion at the front or behind an entry | | an entry on a stack that is gone |
| sleeping and waking (`kernel/sched.c`, `kernel/timer.c`, `include/linux/sched.h`) | task state, pending signals, timers | `schedule`, `schedule_timeout`, `wake_up_process` | | a wakeup between setting the state and `schedule()` |
| completions, wait queues, kfifo | | | | not modelled |
| everything else of the kernel, the notes | | | | not modelled, see PROJECT.json |

What makes each correct:

* semaphore: units are conserved, waiters are served in order, a waiter that got a
  unit wakes up, a waiter that gave up is not on the list, `down_timeout()` returns.
* mutex: one holder, `owner` names it, waiters are never hidden from the unlocker,
  the list is exact, a free mutex is not left lying while tasks wait for it.
* rw_semaphore, both implementations: it is a reader/writer lock, `count` (`activity`) is
  exact whenever nobody is in the middle of correcting it, nobody is forgotten or starves.
* workqueue: whoever won the PENDING bit alone may queue the item, so that it is never on
  two lists; when a flush or a cancellation returns, what it had to wait for is over; no
  work and no barrier is left on the list of a CPU whose worker stopped; everything comes
  to an end although work items queue themselves again.
* tasklet: its function runs on one CPU at a time, not while it is disabled, and after
  `tasklet_schedule()` at least once, wherever the lists go when a CPU dies.
* SRCU: `synchronize_srcu()` does not return while a reader uses what it found before the
  update, although the read side has no memory barriers, and it does return.

## Modules

| Module | Models |
|---|---|
| `Sched` | task states, signals, when `schedule()` returns, `wake_up_process()` |
| `KList` | `list_add_tail()`, `list_del()`, insertion in front and behind an entry, on sequences without repetition |
| `Semaphore` | `kernel/semaphore.c` |
| `Mutex` | `kernel/mutex.c` with `mutex-dec.h`, `mutex-xchg.h` or `mutex-null.h`; optimistic spinning by the constant `SpinOnOwner` |
| `RWLock` | what a reader/writer lock promises (abstract) |
| `RWSem` | the x86 fast paths and `lib/rwsem.c`; implements `RWLock` |
| `RWSemSpinlock` | `lib/rwsem-spinlock.c`; implements `RWLock` too |
| `Workqueue` | `kernel/workqueue.c` with delayed work, CPU hotplug, creation and destruction; composes work items, timers, workers (kthreads), completions and hotplug; uses `Sched`, `KList` |
| `Tasklet` | tasklets, their two softirqs, CPU hotplug |
| `SRCU` | `kernel/srcu.c`, with the reorderings at either end of a read-side section and of an update |
| `MC…` | TLC instances of the above: the symmetry set of `Mutex`, the calls (`Programs`) or the tasks (`Sharings`) that are put together |
| `KListProofs`, `SemaphoreProofs`, `MutexProofs`, `RWSemProofs`, `RWSemSpinlockProofs`, `WorkqueueProofs`, `TaskletProofs`, `SRCUProofs` | lemmas and theorems about the module of that name, checked by TLAPS |

A definition whose name begins with `Buggy` is a variant with one plausible bug. It
is part of no specification: it takes the place of the definition that follows it to
show that a property notices the bug (`mutants` in PROJECT.json).

### How state and actions correspond to the code

**Grain.** In `Semaphore` all state is protected by `sem->lock`, so an action is one
critical section: from a `spin_lock` to the next `spin_unlock`. In `Mutex` and `RWSem`
the words `count`, `owner` and `waiter->task` are accessed without a lock, so an action
contains at most one access to such a word; accesses to what `wait_lock` protects go
with the neighbouring access, and `wait_lock` itself is a variable because its holder
is interleaved with tasks on the fast paths. Memory is sequentially consistent: the
atomic operations used here imply full barriers on x86, and `set_task_state()` orders
the store of the task state before the test that follows it.

**Sleeping.** `tstate[t]` is `task->state`. `schedule()` returns when it is
`TASK_RUNNING` or when a signal is pending that the state listens to (`Sched`). The
store of the state and the call of `schedule()` are two actions, so wakeups and signals
fall in between. Signals arrive at any moment and are dealt with outside the lock
functions.

**Semaphore.** `up[t]`, `state[t]`, `timeout[t]` are the waiter and the parameters of
`__down_common()`. `DownFast`/`DownSlow` are the two branches of every `down*()`;
`DownCall` lists the arguments the four callers pass. `ScheduleTimeoutReturns` returns
any part of the timeout, since the task may run long after it was woken;
`TimerExpires` is `process_timeout()`. `SpuriousWakeup` is a `wake_up_process()` by somebody
who knows nothing of the semaphore, at any moment and any number of times: the waiter finds
`up` unset and sleeps on with what is left of its timeout. `up()` may come from anyone, with or without an
earlier `down()`, as the code allows. `owed` is a history variable: successful
downs less ups.

**Mutex.** `pc[t]` names the point in `mutex_lock`/`__mutex_lock_common`/
`mutex_unlock`/`mutex_trylock`. `seen` and `prev` are the locals `owner` and `prev`;
dead locals are reset so that they do not multiply states. `mutex_spin_on_owner()` may
return 0 at any time (`SpinGivesUp`): whether the owner runs and whether a reschedule
is due are outside the model. `FastPath` is the build: chosen in `Init`, never changed, so
one run covers the three. `FastPath = "null"` is the build with
`CONFIG_DEBUG_MUTEXES`, in which the owner is cleared in the unlock slow path under
`wait_lock` (with `debug_locks` still on). Only `mutex-dec.h` goes with spinning (`Spins`):
`kernel/Kconfig.locks` excludes it for `CONFIG_DEBUG_MUTEXES`, and the only user of
`mutex-xchg.h` is ARM before v6, without SMP. This matters: with `mutex-xchg.h` and
spinning together `NoLostWakeup` fails, because a failed fast path stores 0 over -1 and a
spinner, unlike a task on its way to the queue, need not put it back. `kernel/mutex.h`
keeps the owner only on SMP (and `kernel/mutex-debug.h` when debugging); in the other
builds nothing reads `owner` and it is a history variable.

**RWSem.** `granted[t]` says that `waiter->task` is NULL. `batch[t]` holds the waiters
the waker has taken off the list and not woken yet, `return[t]` where
`__rwsem_do_wake()` returns to. `call_rwsem_wake` is an assembly stub that is not part
of the source tree; it is modelled from what `lib/rwsem.c` expects of it ("the 'active
part' of count reached 0") and from the C code of the same test in
`arch/ia64/include/asm/rwsem.h`. `ACTIVE_MASK` is a constant; the runs use 7, which
leaves room for every task of the instance.

**RWSemSpinlock.** All of it happens under `wait_lock`, so an operation is one action
except for what others see before the lock is released: `waiter->task = NULL` (`Grant`)
and `wake_up_process()` (`WakeUp`), after either of which the waiter may go on while the
waker still holds the lock. `batch` holds the waiters taken off the list that are not
woken yet. `__rwsem_do_wake()` adds the readers to `activity` after the last of them is
woken, the model before the first: `activity` is used under `wait_lock` only, so that
nobody can tell. `__up_read()` calls `__rwsem_wake_one_writer()`, which does not look at the
flags of the first waiter; `FrontIsRight` is why it need not.

**Workqueue.** The actors are tasks, workers (named by their CPU), timers (named by their
work item) and the hotplug code; `pc[a]` is where each is, `next[a]` where the function
it is in returns to. A barrier is an entry of `worklist` with the name of the flusher
that owns it, since it lives on the flusher's stack. `data[w]` is what `get_wq_data()`
returns. A section under `cwq->lock` is one action, except `insert_work()`: its
`set_wq_data()` and `list_add_tail()` can be seen one without the other by whoever
holds the lock of another CPU, so they are `SetWqData` and `InsertWork`, with `lock[c]`
held in between. The first read of `work->data` by `flush_work()` and
`try_to_grab_pending()`, without a lock, is an action of its own (`FlushWork`, `TryToGrab`);
so are the two reads they make under the lock it leads to, which may be the wrong one:
`list_empty(&work->entry)` (`FlushLock`, `StealLock`) and `work->data` again (`FlushBehind`,
`Steal`), with `lock[c]` held in between. If by the second read the item is not on the list
of c although `data` names c, the task is *fooled* (finding 3): it takes the item off no
list, or links a barrier behind an entry that no worker will come to. The history variable
`fooled` records this, and the model stops there (`Corrupted`): what follows is a timer
started while it is armed or a list threaded through a stack. The properties of the
workqueue are about the states before that, `RaceNeedsDelay` says when it cannot happen,
and `GrabbedIsOwned` shows that it can. Tasks are not bound to CPUs, so two CPUs are enough
for the race in the `workqueue` run; on a machine it takes three (the canceller, the worker
and the one that starts the timer), which is what `workqueue_grab` has. The
`for_each_cpu` loops visit CPUs in ascending order, each visit evaluates
`cpu_populated_map` anew. Queueing disables preemption, which `take_cpu_down()`
(under `stop_machine`) waits for. Hotplug includes the failures to create a thread or to
bring the CPU up; `cleanup_workqueue_thread()` without a thread, which returns at once, is the
step from `create` to `unpopulate`. A failure in `__create_workqueue_key()` destroys
the workqueue before anybody has seen it and is left out: the state is the one before the
call. `destroy_workqueue()` is called when no task is in a call and no timer
is armed, which is what the kernel demands of its users, and the workqueue is created
again afterwards. `due[t]` is a history variable: the instances of work items that t's
flush has to wait for, with `own` telling those on a CPU the flush looks at.

**Tasklet.** A list is what it is in the code: `head`, `next` and a `tail` that points
either to the head or to the last tasklet, because a wrong tail is a hazard here. What runs with
interrupts off on one CPU is one action, every atomic operation on a tasklet is one.
Tasks also stand for interrupt handlers and for tasklets that schedule tasklets.
`__do_softirq()` takes the pending mask and handles `hi` before `normal`; ksoftirqd calls
the same function and is not told apart. `tasklet_hi_schedule_first()` is in
`FirstFairSpec` only, see the findings. Two simplifications: the CPU that went away comes back
before another one goes, and it always comes up; `CPU_UP_CANCELED` would call
`takeover_tasklets()` for a CPU whose lists are empty since it died.

**SRCU.** Memory is not sequentially consistent here. The read side has only compiler
barriers, so `using[r]` (the reader has a reference to the protected data) may become
true before the reader has read `completed` or its increment has reached memory
(`Access`), and stay true after the decrement (`EndAccess` at `unlock`); the updater's own store to
the data may show after its read of `completed` (`Publish` after `ReadCompleted`). Not every
reordering is there: an access that *begins* after the decrement has shown is not modelled.
`sync_func()` lasts until everything that was `Unsettled` when it was called is over:
every CPU has passed through a context switch, with a full barrier, and has left the
section with preemption off it was in. This is the contract of `synchronize_sched()`;
RCU itself is not modelled. Counters are per CPU and a reader may unlock on a CPU other
than the one it locked on; `completed` and the counters wrap (`IntRange`, `CntRange`).
`waitfor[u]` is a history variable: the readers whose reference is older than u's update.

## Runs

| Run | Instance | Shows |
|---|---|---|
| `semaphore` | 2 tasks, count 1 (at most 2), timeouts 0..2 | `TypeOK`, `UnitsConserved`, `NoOvertaking`, `ListIsWaiters`, `GrantedIsAwake`; `DownReturns`: no starvation if units come back; `TimeoutReturns`: though nobody has to call `up()` and wakeups without a unit may go on for ever |
| `mutex` | 3 tasks, each of the three builds | `MutualExclusion`, `OwnerIsHolder`, `NoLostWakeup`, `ListIsWaiters` |
| `mutex_live` | 2 tasks, each of the three builds | `SomeoneGetsIt`; `TypeOK` |
| `rwsem` | 4 tasks | `IsRWLock`: the code implements `RWLock`; `CountIsAccurate`, `NobodyForgotten`, `GrantedIsWoken`, `TypeOK`; `FirstServed`: no starvation of a reader or writer |
| `rwsem_spinlock` | 4 tasks | `IsRWLock`, `ActivityIsExact`, `FrontIsRight`; `Served` |
| `workqueue` | 2 CPUs, 1 delayed work item, 2 tasks, 4 programs | `RaceNeedsDelay`; as long as nobody is fooled, `NoBug` (no `BUG_ON` of queueing and running is reached), `OnePendingOwner`, `CancelIsSync`, `FlushWaits`, `NothingLeftBehind` |
| `workqueue_live` | the same, smaller programs | `FlushReturns`, `PendingClears`, `HotplugReturns`, unless somebody is fooled |
| `workqueue_flush_work` | one task queues, one flushes | finding 1 |
| `workqueue_grab` | 3 CPUs; one task queues and delays, one cancels | finding 3 |
| `tasklet` | 2 CPUs, 2 tasklets, 2 tasks, 3 programs | `OneSchedOwner`, `TailIsLast`, `Serialized`, `NothingStranded`; `ScheduledRuns` |
| `tasklet_hi_first` | 1 CPU, 2 tasklets, 2 tasks | finding 2 |
| `srcu` | 2 CPUs; one reader with two updaters, two readers with one | `GracePeriod`, `OldRankOnlyDrains`; `GracePeriodEnds` |

That a writer is alone (`RWSem!WriterIsAlone`) is part of `RWLock`, so `IsRWLock` shows it.
`TypeOK` of `RWSemSpinlock`, `Workqueue`, `Tasklet` and `SRCU`, `SRCU!CountersAddUp` and
`RWSemSpinlock!GrantedIsWoken` hold on the same instances and are proved for all; the runs
spend their time on the properties that say more.

Bounds. For the mutex three tasks are a holder, a waiter and a third task that races with
both. The semaphore has two, because its safety properties are proved for any number
(below) and liveness has to rule out that one task waits while the other one keeps coming
back, overtakes it or forgets to wake it; `MaxCount` stops `up()` at 2, so that both
`count = 0` and a count that stays positive after a `down()` occur, and `MaxTimeout` 2
lets a timeout be used up in two parts, with a wakeup for nothing and another sleep in between. Four tasks on the rw_semaphores give a holder, two
readers and a writer in a row, or a second waker. `FirstServed` says it for one task; tasks
are interchangeable. `Programs` says which calls each actor may make, any number of times:
the programs put together the operations that race for the same words, and all
calls together would be too many states for nothing new. One work item is enough, since
items only meet on lists, whose order the barriers of the flushers show; two CPUs are what
an item needs to move. The fourth program of the `workqueue` run is the one without delays, for
`RaceNeedsDelay`. For tasklets there are two of them, so that the first and the last of a list differ.
`Sharings` says which tasks share the srcu_struct: two updaters meet in the mutex and in
the early exit, two readers are what a sum over two CPUs can miss. `IntRange` 6 lets
`completed` wrap and still tell a difference of 2 from one of -2, `CntRange` 3 lets every
counter wrap while the sum stays exact for two readers. The four of them together
(two readers, two updaters) have 6.4 million states and were checked for the safety
properties too; that instance is too long to be run regularly.
No other bound is needed: all other variables are finite by themselves.
The safety run of the mutex uses symmetry. Deadlock is checked in every run.

Fairness. A task that can take a step takes it (weak fairness): the scheduler does not
starve a runnable kernel task, timers fire and raised softirqs are handled. Steps that take
`wait_lock` or `cwq->lock` are strongly fair, because the spinlock is a ticket lock
(`arch/x86/include/asm/spinlock.h`): who waits for it gets it although others take it
in between. Holders give the locks back and read-side sections end; this is an assumption
about the users. For the semaphore it is the hypothesis `UnitsReturned` of `DownReturns`
alone, so that `TimeoutReturns` does without it. A task that is woken for nothing again and
again sees time pass: not all its returns from `schedule_timeout()` come within one jiffy
(`TimePasses`, strongly fair, because a return is possible again and again and not all
the time). Nobody has to call a function, and no
signal has to come. What is not claimed:

* That `cancel_work_sync()` and `flush_work()` return: a work item that queues itself can
  keep the one from grabbing it, and finding 3 leaves the other one waiting.
* For the mutex only `SomeoneGetsIt`: a given waiter may be overtaken by spinners and by
  fast paths for ever, and the code does not promise otherwise. For the same reason
  `GracePeriodEnds` is about the updater that has got `sp->mutex`.
* `HotplugReturns` supposes that the calls of `flush_workqueue()` cease: the worker that is
  to stop first runs the barriers on its list, and a flusher that finds the barrier of
  the one before in `current_work` adds another one. Two flushers that take turns can
  keep it from stopping.
* `ScheduledRuns` supposes that the tasklet does not stay disabled and that the set of
  online CPUs eventually stays the same; a tasklet could be moved from dying CPU
  to dying CPU for ever.

## Findings

1. `workqueue_flush_work`: `flush_work()` is documented to "block until a work_struct's
   callback has terminated". It looks only at the CPU the item was queued on last, and
   returns while the function still runs on the CPU it was queued on before.
   `FlushWaits` is what does hold.
2. `tasklet_hi_first`: `__tasklet_hi_schedule_first()` never sets `tail`. On an empty list
   the tail goes on pointing to the head, and the next `tasklet_hi_schedule()` overwrites
   it: the first tasklet never runs, and its SCHED bit keeps it from being scheduled
   again. kmemcheck is the only caller.
3. `workqueue_grab`: "Upon a successful return (>= 0), the caller "owns"
   WORK_STRUCT_PENDING bit, so this work can't be re-armed in any way", says the comment
   above `try_to_grab_pending()`. The canceller locks c1, where the item was last, and
   finds `work->entry` on a list, which is the one of c2 by now. The worker of c2 takes the
   item off, clears PENDING and runs it; `queue_delayed_work()` on CPU c1 sets the bit,
   stores c1 in `work->data` without any lock and starts the timer. The canceller reads
   c1, as it expects, and returns 1. The bit has two owners: the canceller clears it with
   the timer armed, the next `queue_delayed_work()` meets its `BUG_ON(timer_pending())`,
   and the function may run after the cancellation has returned. `smp_rmb()` makes sure that
   the canceller sees the value `insert_work()` has stored, but not that it is still that
   one. `flush_work()` makes the same two reads and can wait for a barrier that is on no
   list. `RaceNeedsDelay` and `SafeWithoutDelay` say what is left: items that nobody starts
   with a delay are safe, because `insert_work()` stores the data under the lock of the
   CPU it names.

A smaller disagreement has no run: the comment above the spin loop of
`__mutex_lock_common()` (mutex.c:156-158) says that a task spins "when we find that there are
no pending waiters"; the loop looks at `lock->owner` only, and in `Mutex` a task spins while
others are queued.

## Proofs

TLAPS proves every invariant the passing runs check, and that the two rw_semaphores implement
`RWLock`, for every number of tasks, CPUs, work items, tasklets, readers and updaters and
every value of the other constants. Each `*Proofs` module has an inductive invariant
`IInv`, found by strengthening the property until every step kept it, with TLC to weed out
wrong guesses; a lemma that initial states satisfy it; lemmas that the steps keep
it, one per group of conjuncts or of actions; `InvariantHolds`; and one theorem per
property. `PROJECT.json` lists them under `theorems`.

* `SemaphoreProofs`: `TypeOK`, `UnitsConserved`, `NoOvertaking`, `ListIsWaiters` and
  `GrantedIsAwake`. Their conjunction `IInv` is inductive and none is by itself: that
  the units add up when `__up()` hands one over needs that the first entry of the list
  was not handed one before (`ListIsWaiters`), that a fast `down()` keeps
  `NoOvertaking` needs that `count` is 0 while the list is not empty, and that
  `waiter.up` implies being awake needs that only tasks without a unit go to sleep.
* `MutexProofs`: `TypeOK`, `MutualExclusion`, `OwnerIsHolder`, `ListIsWaiters`,
  `NoLostWakeup`, for each fast path. The strengthening says that `count` is at most 0
  while the mutex is held (`HeldIsLocked`), what the trylocks know of the count they read
  (`PrevOK`), that the owner is cleared before the access that frees the mutex
  (`OwnerCleared`), that who is in the critical section holds `wait_lock` (`LockIsHeld`),
  and that a waiter that has taken the mutex leaves the list with `count` negative or with
  somebody who will make it so (`GotIsSeen`). With the last two, the wakeup in
  `mutex_unlock()` finds the first waiter asleep or about to try, never in the middle of
  failing.
* `RWSemSpinlockProofs`: `TypeOK`, `ActivityIsExact`, `FrontIsRight`, `GrantedIsWoken`, and
  `Implements`: `Spec => IsRWLock`. `activity` counts holders and waiters taken off the list
  that are not told yet, so the strengthening says who is on the list, in the batch of the
  task that wakes and asleep (`LockIsHeld`, `ListsAreExact`, `BatchIsRight`).
* `RWSemProofs`: `TypeOK`, `CountIsAccurate`, `NobodyForgotten`, `GrantedIsWoken`, that a
  writer is alone, and `Implements`. The core is `CountIsExact`, the value of `count` in
  every state and not only when nobody is correcting it: the tasks that are active, which
  include failed lockers, promised waiters and the one who tries to wake, plus the waiting
  bias for each queued task and each writer among them. Then `Exclusion`, and
  `QueueIsWatched`: while somebody is queued, somebody is active or about to look.
* `TaskletProofs`: `TypeOK`, `OneSchedOwner`, `TailIsLast`, `Serialized`, `NothingStranded`.
  `SchedOwned` says that there are disjoint sequences which the pointers `head`, `next`,
  `tail` and the softirq's private lists spell out, and that a tasklet has its SCHED
  bit set just when it is in one of them or in the hand of one actor. `RunIsLock` (the RUN
  bit is a lock), `CountIsExact` (`count` is the number of those who disabled the tasklet),
  `Busy` and `OneIsAway` (hotplug) do the rest.
* `WorkqueueProofs`: `RaceNeedsDelay` (`OnlyDelayFools`); `OnePendingOwner`, `NoBug`,
  `CancelIsSync`, `FlushWaits` and `NothingLeftBehind` as long as nobody is fooled; the first
  three without that condition where nobody calls `queue_delayed_work()`
  (`SafeWithoutDelay`); `TypeOK`. `IInv` says that types hold throughout, that `Sound` holds
  while nobody is fooled, and that a task was fooled only where delays are allowed. In
  `Sound`, `Locals` says what each actor's locals are at each program point;
  `PendingOwned`, that a pending item is in exactly one place: one list, a timer, the worker
  that is about to clear the bit or the hand of one actor; `Barriers`, that a barrier is on
  the list of the CPU its flusher waits for; `DataIsRight`, that `work->data` names the CPU
  of the list or the worker, which is what a lockless reader relies on; `Locked`, that who is
  between its two reads holds the lock of the CPU it looks at; `Timely`, that
  nobody is about to start a timer where delays are not allowed; and `Pinned`, the heart of
  `OnlyDelayFools`: without delays, a task between its two reads that holds the lock of c
  would find `data` naming c only if the item is on the list of c, since nobody else can
  take it off that list or store c while the lock is held; and, delays or not, a flush
  that still has an instance to wait for on c finds the item there. `Threads` and
  `ListsAreEmpty` say which CPUs have a worker at each stage of hotplug, creation and
  destruction, and that a list without one is empty; `Cancelled`, that a cancellation has
  left behind it no CPU that runs the item; `DueIsThere` and `DueIsAhead`, that what a flush
  has to wait for is on a CPU it has still to visit or ahead of its barrier. The steps are
  first brought to a common form (`StepCases`): who moves where and what it does to the
  shared variables. The conjuncts are then proved on these forms.
* `SRCUProofs`: `TypeOK`, `GracePeriod`, `OldRankOnlyDrains`, `CountersAddUp`. Two arguments
  meet. One follows a grace period through its stages: the readers it has to wait for are in
  the old rank, have left it, and are done (`UsersAreInside`, `OldRankDrains`, `Progress`).
  The other justifies the early exit: of two flips an updater has seen, the second belongs
  to a grace period that began after the update could be seen (`UpdateShowsInTime`,
  `EarlyExitIsSafe`). Under both is arithmetic: the counters of a rank add up to its
  readers although each of them wraps (`RanksAddUp`), also while they are being read one
  after the other (`ScanIsExact`).
* `KListProofs`: what the list operations do to the set of entries and to their order.

Assumptions are the `ASSUME`s of the component modules, which TLC evaluates in every run:
the sets of tasks, CPUs, work items and so on are finite and do not overlap, `Null` is none
of them, constants have their types; in `RWSem`, `ACTIVE_MASK` exceeds the number of tasks
(2^16 - 1 lockers on x86-32, as the comment in `asm/rwsem.h` says); in `SRCU`, a counter
can count all readers, `completed` has an even number of values and more than four (C's
`int` has 2^32).

Only model-checked: all liveness (`DownReturns`, `TimeoutReturns`, `SomeoneGetsIt`,
`FirstServed`, `Served`, `FlushReturns`, `PendingClears`, `HotplugReturns`, `ScheduledRuns`,
`GracePeriodEnds`), because fairness and ENABLED are beyond the prover. Induction over
recursive definitions is beyond it too. No module uses RECURSIVE; where a model adds up or
follows pointers with a recursive function (`Total` in `SRCU`, `Chain` in `Tasklet`), the
proof exhibits that function, as the partial sums or as the sequence the invariant
provides, and shows the two equal at the least place where they could differ.

## Not modelled

* mutex: `atomic_dec_and_mutex_lock()`, lockdep, the warnings and poisoning of
  `mutex-debug.c`, the wrap of `count` at 2^31 lockers (`pid_max` is far below).
* rw_semaphores: architectures other than x86 and the generic one.
* workqueue: freezing for suspend, single-threaded workqueues (one CPU's part of this
  one), `schedule_on_each_cpu()`, `execute_in_process_context()` and `work_on_cpu()`,
  which are built from the operations modelled, and debugobjects.
* tasklets: the other softirqs, the loop of ksoftirqd, remote softirqs,
  `tasklet_hrtimer`, `tasklet_kill_immediate()`, which is for a CPU that is dead.
* SRCU: `cleanup_srcu_struct()`, which refuses to free what readers use, and
  `srcu_batches_completed()`. RCU itself is represented by the contract of
  `synchronize_sched()`.
* Relaxed memory order outside `SRCU`.
* Completions and wait queues beyond what the workqueue needs of them, kfifo (sequential
  code with a barrier on each side) and the subsystems listed in PROJECT.json: the rest
  of the kernel is millions of lines that use these primitives.

## Plan

The modules are written, the runs pass and every invariant the passing ones check is proved. What is
left is upkeep: shorter proofs of the workqueue, where groups of steps share more of their
argument than the lemmas show, and theorems about the action forms of the liveness
arguments (what each step brings nearer), which would replace part of what only TLC checks.
