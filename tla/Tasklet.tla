------------------------------- MODULE Tasklet -------------------------------
(***************************************************************************)
(* Tasklets: the inline functions of include/linux/interrupt.h and the     *)
(* per-CPU vectors of kernel/softirq.c.                                    *)
(*                                                                         *)
(* Each CPU has two singly linked lists with a pointer to the last link    *)
(* (tasklet_vec and tasklet_hi_vec), changed by that CPU only, with        *)
(* interrupts off.  Between CPUs a tasklet is protected by its SCHED bit,  *)
(* whose owner alone may put it on a list, its RUN bit and its count.      *)
(*                                                                         *)
(* The actors are tasks, which also stand for interrupts and for tasklets  *)
(* that schedule one, the softirq code of each CPU, and CPU hotplug.  A    *)
(* section with interrupts off is one step, every atomic operation on a    *)
(* tasklet is one.                                                         *)
(***************************************************************************)
EXTENDS Integers, FiniteSets

CONSTANTS CPUs, Tasklets,
          Tasks,    \* users of the tasklets
          Hotplug,  \* the CPU hotplug code
          Null,     \* the null pointer
          Programs  \* what the actors may call: functions from actors to sets of calls

Prio   == {"hi", "normal"}       \* HI_SOFTIRQ and TASKLET_SOFTIRQ
Vecs   == CPUs \X Prio           \* tasklet_hi_vec and tasklet_vec of every CPU
Actors == Tasks \cup CPUs \cup {Hotplug}

ASSUME TaskletAssumption ==
  /\ IsFiniteSet(CPUs) /\ IsFiniteSet(Tasklets) /\ IsFiniteSet(Tasks)
  /\ CPUs \cap Tasks = {}
  /\ Hotplug \notin CPUs \cup Tasks
  /\ Null \notin Tasklets \cup CPUs
  /\ Tasklets \cap Vecs = {}

VARIABLES sched,    \* sched[t]: TASKLET_STATE_SCHED
          run,      \* run[t]: TASKLET_STATE_RUN
          count,    \* count[t]: how often t is disabled
          next,     \* next[t]
          head,     \* head[v]: the first tasklet of the vector, or Null
          tail,     \* tail[v]: v for &v.head, a tasklet t for &t->next
          raised,   \* raised[c]: softirqs that are pending
          todo,     \* todo[c]: those __do_softirq() has still to handle
          pc,       \* where each actor is
          this,     \* this[a]: the tasklet it deals with, or Null
          prio,     \* prio[a]: the vector it uses
          list,     \* list[c]: what is left of the list tasklet_action() took
          online,   \* cpu_online_mask
          program   \* program[a]: the calls a may make; no step changes it

vars == <<sched, run, count, next, head, tail, raised, todo, pc, this, prio, list, online, program>>

bits    == <<sched, run, count>>
vectors == <<next, head, tail, raised>>

Init ==
  /\ sched = [t \in Tasklets |-> FALSE]
  /\ run = [t \in Tasklets |-> FALSE]
  /\ count = [t \in Tasklets |-> 0]
  /\ next = [t \in Tasklets |-> Null]
  /\ head = [v \in Vecs |-> Null]
  /\ tail = [v \in Vecs |-> v]
  /\ raised = [c \in CPUs |-> {}]
  /\ todo = [c \in CPUs |-> {}]
  /\ pc = [a \in Actors |-> "idle"]
  /\ this = [a \in Actors |-> Null]
  /\ prio = [a \in Actors |-> "normal"]
  /\ list = [c \in CPUs |-> Null]
  /\ online = CPUs
  /\ program \in Programs

Goto(a, from, to) == pc[a] = from /\ pc' = [pc EXCEPT ![a] = to]

(* The actor is done with its tasklet. *)
Leave(a, from) ==
  /\ Goto(a, from, "idle")
  /\ this' = [this EXCEPT ![a] = Null]
  /\ prio' = [prio EXCEPT ![a] = "normal"]

raise_softirq_irqoff(c, p) == raised' = [raised EXCEPT ![c] = @ \cup {p}]

(* t->next = NULL; *v.tail = t; v.tail = &t->next *)
AddLast(v, t) ==
  LET cut == [next EXCEPT ![t] = Null] IN
  /\ \/ /\ tail[v] \in Vecs
        /\ head' = [head EXCEPT ![tail[v]] = t]
        /\ next' = cut
     \/ /\ tail[v] \in Tasklets
        /\ next' = [cut EXCEPT ![tail[v]] = t]
        /\ UNCHANGED head
  /\ tail' = [tail EXCEPT ![v] = t]

------------------------------------------------------------------------------
(* tasklet_schedule() and tasklet_hi_schedule(): if the SCHED bit was      *)
(* clear ...                                                               *)
TestAndSetSched(u, t, p, to) ==
  /\ ~sched[t]
  /\ sched' = [sched EXCEPT ![t] = TRUE]
  /\ Goto(u, "idle", to)
  /\ this' = [this EXCEPT ![u] = t]
  /\ prio' = [prio EXCEPT ![u] = p]
  /\ UNCHANGED <<run, count, vectors, todo, list, online>>

tasklet_schedule(u, t)    == TestAndSetSched(u, t, "normal", "schedule")
tasklet_hi_schedule(u, t) == TestAndSetSched(u, t, "hi", "schedule")

(* ... __tasklet_schedule() and __tasklet_hi_schedule() put the tasklet on *)
(* the vector of the CPU the caller is on by now.                          *)
__tasklet_schedule(u, c) ==
  /\ pc[u] = "schedule"
  /\ c \in online
  /\ AddLast(<<c, prio[u]>>, this[u])
  /\ raise_softirq_irqoff(c, prio[u])
  /\ Leave(u, "schedule")
  /\ UNCHANGED <<bits, todo, list, online>>

(* tasklet_hi_schedule_first(), __tasklet_hi_schedule_first(): the caller  *)
(* has interrupts off and must not touch another tasklet.                  *)
tasklet_hi_schedule_first(u, t) == TestAndSetSched(u, t, "hi", "schedule_first")

__tasklet_hi_schedule_first(u, c) ==
  /\ pc[u] = "schedule_first"
  /\ c \in online
  /\ next' = [next EXCEPT ![this[u]] = head[<<c, "hi">>]]
  /\ head' = [head EXCEPT ![<<c, "hi">>] = this[u]]
  /\ raise_softirq_irqoff(c, "hi")
  /\ Leave(u, "schedule_first")
  /\ UNCHANGED <<bits, tail, todo, list, online>>

(* tasklet_disable_nosync() *)
tasklet_disable_nosync(u, t, to) ==
  /\ Goto(u, "idle", to)
  /\ this' = [this EXCEPT ![u] = t]
  /\ count' = [count EXCEPT ![t] = @ + 1]
  /\ UNCHANGED <<sched, run, vectors, todo, prio, list, online>>

(* Variant with a bug: tasklet_unlock_wait() does not wait. *)
BuggyUnlockWait(u, from, to) ==
  /\ Goto(u, from, to)
  /\ UNCHANGED <<bits, vectors, todo, this, prio, list, online>>

(* tasklet_disable(): tasklet_unlock_wait() after that. *)
tasklet_unlock_wait(u, from, to) ==
  /\ Goto(u, from, to)
  /\ ~run[this[u]]
  /\ UNCHANGED <<bits, vectors, todo, this, prio, list, online>>

tasklet_enable(u, from) ==
  /\ Leave(u, from)
  /\ count' = [count EXCEPT ![this[u]] = @ - 1]
  /\ UNCHANGED <<sched, run, vectors, todo, list, online>>

(* tasklet_kill(): wait until the SCHED bit can be had, wait until the     *)
(* tasklet does not run, clear the bit.                                    *)
tasklet_kill(u, t) ==
  /\ Goto(u, "idle", "kill")
  /\ this' = [this EXCEPT ![u] = t]
  /\ UNCHANGED <<bits, vectors, todo, prio, list, online>>

(* Variant with a bug: set_bit() in the place of test_and_set_bit(). *)
BuggyKillGrabs(u) ==
  /\ Goto(u, "kill", "kill_wait")
  /\ sched' = [sched EXCEPT ![this[u]] = TRUE]
  /\ UNCHANGED <<run, count, vectors, todo, this, prio, list, online>>

KillGrabs(u) ==
  /\ Goto(u, "kill", "kill_wait")
  /\ ~sched[this[u]]
  /\ sched' = [sched EXCEPT ![this[u]] = TRUE]
  /\ UNCHANGED <<run, count, vectors, todo, this, prio, list, online>>

KillClears(u) ==
  /\ Leave(u, "killed")
  /\ sched' = [sched EXCEPT ![this[u]] = FALSE]
  /\ UNCHANGED <<run, count, vectors, todo, list, online>>

------------------------------------------------------------------------------
(* __do_softirq(): what is pending now is handled, HI_SOFTIRQ first. *)
__do_softirq(c) ==
  /\ c \in online
  /\ raised[c] # {}
  /\ Goto(c, "idle", "softirq")
  /\ todo' = [todo EXCEPT ![c] = raised[c]]
  /\ raised' = [raised EXCEPT ![c] = {}]
  /\ UNCHANGED <<bits, next, head, tail, this, prio, list, online>>

SoftirqEnds(c) ==
  /\ todo[c] = {}
  /\ Goto(c, "softirq", "idle")
  /\ UNCHANGED <<bits, vectors, todo, this, prio, list, online>>

(* tasklet_action() and tasklet_hi_action(): take the whole list ... *)
tasklet_action(c) ==
  LET p == IF "hi" \in todo[c] THEN "hi" ELSE "normal"
      v == <<c, p>>
  IN
  /\ todo[c] # {}
  /\ Goto(c, "softirq", "loop")
  /\ todo' = [todo EXCEPT ![c] = @ \ {p}]
  /\ prio' = [prio EXCEPT ![c] = p]
  /\ list' = [list EXCEPT ![c] = head[v]]
  /\ head' = [head EXCEPT ![v] = Null]
  /\ tail' = [tail EXCEPT ![v] = v]
  /\ UNCHANGED <<bits, next, raised, this, online>>

ListEmpty(c) ==
  /\ list[c] = Null
  /\ Goto(c, "loop", "softirq")
  /\ prio' = [prio EXCEPT ![c] = "normal"]
  /\ UNCHANGED <<bits, vectors, todo, this, list, online>>

(* ... and for each of its tasklets: tasklet_trylock() (its next is not    *)
(* read again before it is set) ...                                        *)
tasklet_trylock(c) ==
  LET t == list[c] IN
  /\ t # Null
  /\ Goto(c, "loop", IF run[t] THEN "readd" ELSE "locked")
  /\ this' = [this EXCEPT ![c] = t]
  /\ list' = [list EXCEPT ![c] = next[t]]
  /\ next' = [next EXCEPT ![t] = Null]
  /\ run' = [run EXCEPT ![t] = TRUE]
  /\ UNCHANGED <<sched, count, head, tail, raised, todo, prio, online>>

(* ... atomic_read(&t->count) ... *)
TestCount(c) ==
  /\ pc[c] = "locked"
  /\ Goto(c, "locked", IF count[this[c]] = 0 THEN "clear" ELSE "disabled")
  /\ UNCHANGED <<bits, vectors, todo, this, prio, list, online>>

(* ... test_and_clear_bit(TASKLET_STATE_SCHED), BUG() if it was clear ... *)
TestAndClearSched(c) ==
  /\ Goto(c, "clear", "func")
  /\ sched' = [sched EXCEPT ![this[c]] = FALSE]
  /\ UNCHANGED <<run, count, vectors, todo, this, prio, list, online>>

(* Variant with a bug: a disabled tasklet is not unlocked. *)
BuggyUnlock(c, from, to) ==
  /\ Goto(c, from, to)
  /\ run' = [run EXCEPT ![this[c]] = (to # "loop")]
  /\ this' = [this EXCEPT ![c] = IF to = "loop" THEN Null ELSE @]
  /\ UNCHANGED <<sched, count, vectors, todo, prio, list, online>>

(* ... t->func() has returned, or is not called; tasklet_unlock() ... *)
tasklet_unlock(c, from, to) ==
  /\ Goto(c, from, to)
  /\ run' = [run EXCEPT ![this[c]] = FALSE]
  /\ this' = [this EXCEPT ![c] = IF to = "loop" THEN Null ELSE @]
  /\ UNCHANGED <<sched, count, vectors, todo, prio, list, online>>

(* ... or try again later. *)
Readd(c) ==
  /\ Goto(c, "readd", "loop")
  /\ AddLast(<<c, prio[c]>>, this[c])
  /\ raise_softirq_irqoff(c, prio[c])
  /\ this' = [this EXCEPT ![c] = Null]
  /\ UNCHANGED <<bits, todo, prio, list, online>>

------------------------------------------------------------------------------
(* take_cpu_down() under stop_machine(): no softirq runs on the CPU. *)
cpu_down(c) ==
  /\ c \in online /\ online # {c}
  /\ pc[c] = "idle"
  /\ Goto(Hotplug, "idle", "dead")
  /\ online' = online \ {c}
  /\ UNCHANGED <<bits, vectors, todo, this, prio, list>>

(* Variant with a bug: a list is moved although it is empty. *)
BuggyMoveList(from, to) ==
  /\ \/ /\ tail[to] \in Vecs
        /\ head' = [head EXCEPT ![tail[to]] = head[from], ![from] = Null]
        /\ UNCHANGED next
     \/ /\ tail[to] \in Tasklets
        /\ next' = [next EXCEPT ![tail[to]] = head[from]]
        /\ head' = [head EXCEPT ![from] = Null]
  /\ tail' = [tail EXCEPT ![to] = tail[from], ![from] = from]

(* CPU_DEAD: takeover_tasklets(), run with interrupts off on the CPU `to`, *)
(* appends the list `from` of the dead CPU to its own; first tasklet_vec,  *)
(* then tasklet_hi_vec.                                                    *)
MoveList(from, to) ==
  \/ /\ tail[from] = from
     /\ UNCHANGED <<next, head, tail>>
  \/ /\ tail[from] # from
     /\ \/ /\ tail[to] \in Vecs
           /\ head' = [head EXCEPT ![tail[to]] = head[from], ![from] = Null]
           /\ UNCHANGED next
        \/ /\ tail[to] \in Tasklets
           /\ next' = [next EXCEPT ![tail[to]] = head[from]]
           /\ head' = [head EXCEPT ![from] = Null]
     /\ tail' = [tail EXCEPT ![to] = tail[from], ![from] = from]

(* Variant with a bug: nobody is told about the lists that were moved. *)
BuggyTakeover(c, to, p, from, then) ==
  /\ Goto(Hotplug, from, then)
  /\ c \notin online /\ to \in online
  /\ MoveList(<<c, p>>, <<to, p>>)
  /\ UNCHANGED <<bits, raised, todo, this, prio, list, online>>

takeover_tasklets(c, to, p, from, then) ==
  /\ Goto(Hotplug, from, then)
  /\ c \notin online /\ to \in online
  /\ MoveList(<<c, p>>, <<to, p>>)
  /\ raise_softirq_irqoff(to, p)
  /\ UNCHANGED <<bits, todo, this, prio, list, online>>

(* The CPU comes back: its lists were taken over when it died, so one that *)
(* does not come up after all (CPU_UP_CANCELED) has nothing to take over.  *)
cpu_up(c) ==
  /\ c \notin online
  /\ Goto(Hotplug, "down", "idle")
  /\ online' = online \cup {c}
  /\ UNCHANGED <<bits, vectors, todo, this, prio, list>>

------------------------------------------------------------------------------
May(a, call) == call \in program[a]

Call(u) ==
  /\ \E t \in Tasklets :
       \/ May(u, "schedule") /\ tasklet_schedule(u, t)
       \/ May(u, "hi_schedule") /\ tasklet_hi_schedule(u, t)
       \/ May(u, "disable_nosync") /\ tasklet_disable_nosync(u, t, "nosync")
       \/ May(u, "disable") /\ tasklet_disable_nosync(u, t, "disable")
       \/ May(u, "kill") /\ tasklet_kill(u, t)
  /\ UNCHANGED program

Step(u) ==
  /\ \/ \E c \in CPUs : __tasklet_schedule(u, c)
     \/ tasklet_unlock_wait(u, "disable", "disabled")
     \/ tasklet_enable(u, "disabled") \/ tasklet_enable(u, "nosync")
     \/ KillGrabs(u) \/ tasklet_unlock_wait(u, "kill_wait", "killed") \/ KillClears(u)
  /\ UNCHANGED program

Softirq(c) ==
  /\ \/ __do_softirq(c) \/ SoftirqEnds(c)
     \/ tasklet_action(c) \/ ListEmpty(c) \/ tasklet_trylock(c) \/ TestCount(c)
     \/ TestAndClearSched(c)
     \/ tasklet_unlock(c, "func", "loop") \/ tasklet_unlock(c, "disabled", "readd")
     \/ Readd(c)
  /\ UNCHANGED program

HotplugStarts(c) ==
  /\ May(Hotplug, "cpu_down")
  /\ cpu_down(c) \/ cpu_up(c)
  /\ UNCHANGED program

Takeover ==
  /\ \E c, to \in CPUs : \/ takeover_tasklets(c, to, "normal", "dead", "dead_hi")
                          \/ takeover_tasklets(c, to, "hi", "dead_hi", "down")
  /\ UNCHANGED program

Next ==
  \/ \E u \in Tasks : Call(u) \/ Step(u)
  \/ \E c \in CPUs : Softirq(c) \/ HotplugStarts(c)
  \/ Takeover

Spec == Init /\ [][Next]_vars

(* Softirqs that are raised are handled, on the way out of an interrupt or *)
(* by ksoftirqd; tasks go on with what they began, and the hotplug code    *)
(* calls its notifiers.                                                    *)
Fairness ==
  /\ \A c \in CPUs : WF_vars(Softirq(c))
  /\ \A u \in Tasks : WF_vars(Step(u))
  /\ WF_vars(Takeover)

FairSpec == Spec /\ Fairness

(* The same with tasklet_hi_schedule_first(), which only kmemcheck calls. *)
CallFirst(u) ==
  /\ May(u, "hi_schedule_first")
  /\ \E t \in Tasklets : tasklet_hi_schedule_first(u, t)
  /\ UNCHANGED program

StepFirst(u) ==
  /\ \E c \in CPUs : __tasklet_hi_schedule_first(u, c)
  /\ UNCHANGED program

FirstFairSpec ==
  /\ Init
  /\ [][Next \/ \E u \in Tasks : CallFirst(u) \/ StepFirst(u)]_vars
  /\ Fairness
  /\ \A u \in Tasks : WF_vars(StepFirst(u))

------------------------------------------------------------------------------
TaskLabel ==
  {"idle", "schedule", "schedule_first", "nosync", "disable", "disabled",
   "kill", "kill_wait", "killed"}

SoftirqLabel ==
  {"idle", "softirq", "loop", "locked", "clear", "func", "disabled", "readd"}

(* Every variable holds a value of its C type; count goes back to zero and *)
(* never below.                                                            *)
TypeOK ==
  /\ sched \in [Tasklets -> BOOLEAN]
  /\ run \in [Tasklets -> BOOLEAN]
  /\ count \in [Tasklets -> 0 .. Cardinality(Tasks)]
  /\ next \in [Tasklets -> Tasklets \cup {Null}]
  /\ head \in [Vecs -> Tasklets \cup {Null}]
  /\ tail \in [Vecs -> Tasklets \cup Vecs]
  /\ raised \in [CPUs -> SUBSET Prio]
  /\ todo \in [CPUs -> SUBSET Prio]
  /\ DOMAIN pc = Actors
  /\ \A u \in Tasks : pc[u] \in TaskLabel
  /\ \A c \in CPUs : pc[c] \in SoftirqLabel
  /\ pc[Hotplug] \in {"idle", "dead", "dead_hi", "down"}
  /\ this \in [Actors -> Tasklets \cup {Null}]
  /\ prio \in [Actors -> Prio]
  /\ list \in [CPUs -> Tasklets \cup {Null}]
  /\ online \in SUBSET CPUs
  /\ program \in Programs

(* The tasklets reached from the pointer t. *)
Chain(t) ==
  LET reach[n \in Nat] ==
        IF n = 0 THEN {t} \ {Null}
        ELSE reach[n - 1] \cup ({next[s] : s \in reach[n - 1]} \ {Null})
  IN  reach[Cardinality(Tasklets)]

(* The softirq code of c has taken t off its private list and neither run  *)
(* it yet nor put it back.                                                 *)
InHand(c, t) == this[c] = t /\ pc[c] \in {"locked", "clear", "disabled", "readd"}

(* Who holds the SCHED bit of t: a list, the caller of tasklet_schedule(), *)
(* the softirq code, tasklet_kill().                                       *)
Owners(t) ==
  {v \in Vecs : t \in Chain(head[v])}
  \cup {<<c, "list">> : c \in {x \in CPUs : t \in Chain(list[x])}}
  \cup {<<c, "hand">> : c \in {x \in CPUs : InHand(x, t)}}
  \cup {<<u, "task">> : u \in {x \in Tasks :
          this[x] = t /\ pc[x] \in {"schedule", "schedule_first", "kill_wait", "killed"}}}

(* A scheduled tasklet is in exactly one place, a tasklet that is not      *)
(* scheduled in none: none gets lost, none is queued twice, the BUG() in   *)
(* tasklet_action() is not reached, and a tasklet that was killed is gone. *)
OneSchedOwner ==
  \A t \in Tasklets : Cardinality(Owners(t)) = IF sched[t] THEN 1 ELSE 0

(* Every tail points to the last link of its list, whoever appended to the *)
(* list and whatever CPU it came from.                                     *)
TailIsLast ==
  \A v \in Vecs :
    IF head[v] = Null THEN tail[v] = v
                      ELSE tail[v] \in Chain(head[v]) /\ next[tail[v]] = Null

(* Between tasklet_trylock() and tasklet_unlock(). *)
Runs(c, t) == this[c] = t /\ pc[c] \in {"clear", "func"}

(* "Tasklet is strictly serialized wrt itself", and it does not run once   *)
(* tasklet_disable() has returned, nor when tasklet_kill() is done: count  *)
(* and the two bits are tested one after the other by both sides.          *)
Serialized ==
  \A t \in Tasklets :
    /\ \A c, d \in CPUs : Runs(c, t) /\ Runs(d, t) => c = d
    /\ \A u \in Tasks : pc[u] \in {"disabled", "killed"} /\ this[u] = t
                          => \A c \in CPUs : ~Runs(c, t)

(* A list that is not empty will be looked at: its softirq is raised or    *)
(* about to be handled.                                                    *)
NothingStranded ==
  \A v \in Vecs : head[v] # Null => \/ v[2] \in raised[v[1]] \cup todo[v[1]]
                                    \/ v[1] \notin online /\ pc[Hotplug] \in {"dead", "dead_hi"}

(* "If tasklet_schedule() is called, then tasklet is guaranteed to be      *)
(* executed on some cpu at least once after this", if it does not stay     *)
(* disabled and CPUs do not come and go for ever.                          *)
ScheduledRuns ==
  \A t \in Tasklets :
    <>[](count[t] = 0) /\ <>[][FALSE]_online =>
      ((\E u \in Tasks : pc[u] \in {"schedule", "schedule_first"} /\ this[u] = t)
         ~> (\E c \in CPUs : pc[c] = "func" /\ this[c] = t))
==============================================================================
