------------------------- MODULE RWSemSpinlockProofs -------------------------
(***************************************************************************)
(* lib/rwsem-spinlock.c is a reader/writer lock, for any number of tasks.  *)
(*                                                                         *)
(* activity counts those who hold the semaphore and those who are off the  *)
(* list but have not been told yet (Promised).  To keep it exact one has   *)
(* to know who waits: the tasks on the list and the promised ones are      *)
(* just the waiters that were not granted the semaphore.                   *)
(***************************************************************************)
EXTENDS RWSemSpinlock, KListProofs, FiniteSetTheorems, TLAPS

Waking == {"grant", "wake_up"}

(* A waiter that was not told yet. *)
Waiters == {t \in Tasks : pc[t] \in {"wait", "schedule"} /\ ~granted[t]}

(* Only a task that wakes others keeps wait_lock from step to step; it has *)
(* somebody to wake.                                                       *)
LockIsHeld ==
  /\ \A t \in Tasks : wait_lock = t <=> pc[t] \in Waking
  /\ wait_lock = Null <=> batch = <<>>

(* Whoever waits is on the list, or in the batch and not told yet; at      *)
(* "wake_up" the first of the batch was told.                              *)
ListsAreExact ==
  /\ ListOK(wait_list) /\ ListOK(batch)
  /\ ListEntries(wait_list) \cap ListEntries(batch) = {}
  /\ Waiters = ListEntries(wait_list) \cup Promised
  /\ \A t \in Tasks :
       /\ pc[t] = "grant" => Promised = ListEntries(batch)
       /\ pc[t] = "wake_up" => Promised = ListEntries(batch) \ {Head(batch)}

(* The batch is one writer or some readers. *)
BatchIsRight == \A t \in Promised : flags[t] = "write" <=> activity = -1

IInv ==
  /\ TypeOK
  /\ LockIsHeld
  /\ ListsAreExact
  /\ BatchIsRight
  /\ ActivityIsExact
  /\ FrontIsRight
  /\ GrantedIsWoken

Holders == Readers \cup Writers \cup Promised

------------------------------------------------------------------------------
(* Any set of tasks is finite and has no more members than all.            *)
LEMMA TasksFinite ==
  ASSUME NEW S \in SUBSET Tasks
  PROVE  /\ IsFiniteSet(S) /\ Cardinality(S) \in Nat
         /\ Cardinality(S) <= Cardinality(Tasks) /\ Cardinality(Tasks) \in Nat
         /\ Cardinality(S) = 0 <=> S = {}
         /\ \A x : x \in S /\ Cardinality(S) = 1 => S = {x}
         /\ \A x : Cardinality({x}) = 1
         /\ \A x : x \in S => Cardinality(S \ {x}) = Cardinality(S) - 1
         /\ \A x : x \notin S => Cardinality(S \cup {x}) = Cardinality(S) + 1
<1>1. IsFiniteSet(S) /\ Cardinality(S) \in Nat
  BY RWSemSpinlockAssumption, FS_Subset, FS_CardinalityType
<1>2. Cardinality(S) <= Cardinality(Tasks) /\ Cardinality(Tasks) \in Nat
  BY RWSemSpinlockAssumption, FS_Subset, FS_CardinalityType
<1>3. Cardinality(S) = 0 <=> S = {}
  BY <1>1, FS_EmptySet
<1>4. ASSUME NEW x, x \in S
      PROVE  /\ Cardinality(S \ {x}) = Cardinality(S) - 1
             /\ Cardinality(S) = 1 => S = {x}
  <2>1. IsFiniteSet(S \ {x}) /\ Cardinality(S \ {x}) = Cardinality(S) - 1
    BY <1>1, <1>4, FS_RemoveElement
  <2>2. Cardinality(S) = 1 => S \ {x} = {}
    BY <2>1, FS_EmptySet
  <2> QED
    BY <1>4, <2>1, <2>2
<1>5. ASSUME NEW x, x \notin S
      PROVE  Cardinality(S \cup {x}) = Cardinality(S) + 1
  BY <1>1, <1>5, FS_AddElement
<1>6. \A x : Cardinality({x}) = 1
  <2> TAKE x
  <2>1. Cardinality({} \cup {x}) = 1
    BY FS_EmptySet, FS_AddElement
  <2> QED
    BY <2>1
<1> QED
  BY <1>1, <1>2, <1>3, <1>4, <1>5, <1>6

(* What activity tells about the holders. *)
LEMMA ActivityFacts ==
  ASSUME IInv
  PROVE  /\ Holders \in SUBSET Tasks /\ activity \in Int
         /\ activity = 0 => Holders = {}
         /\ \A t \in Readers : activity >= 1 /\ Writers = {} /\ (activity = 1 => Holders = {t})
         /\ \A t \in Writers : activity = -1 /\ Holders = {t} /\ Readers = {}
         /\ \A t \in Promised : activity = -1 => Holders = {t} /\ Writers = {} /\ Readers = {}
         /\ activity >= 0 => Writers = {} /\ Cardinality(Holders) = activity
         /\ activity < 0 => Readers = {} /\ activity = -1
<1>1. Holders \in SUBSET Tasks /\ activity \in Int
  <2>1. activity \in Int
    BY RWSemSpinlockAssumption, FS_CardinalityType DEF IInv, TypeOK
  <2>2. ListEntries(batch) \subseteq Tasks
    BY DEF IInv, TypeOK, ListEntries
  <2> QED
    BY <2>1, <2>2 DEF Holders, Readers, Writers, Promised
<1>2. \/ activity >= 0 /\ Writers = {} /\ Cardinality(Holders) = activity
      \/ activity = -1 /\ Readers = {} /\ Cardinality(Holders) = 1
  BY DEF IInv, ActivityIsExact, Holders
<1>3. /\ Cardinality(Holders) \in Nat
      /\ Cardinality(Holders) = 0 <=> Holders = {}
      /\ \A x : x \in Holders /\ Cardinality(Holders) = 1 => Holders = {x}
  BY <1>1, TasksFinite
<1>4. ASSUME NEW t \in Readers
      PROVE  activity >= 1 /\ Writers = {} /\ (activity = 1 => Holders = {t})
  <2>1. t \in Holders
    BY DEF Holders
  <2> QED
    BY <1>1, <1>2, <1>3, <2>1
<1>5. ASSUME NEW t \in Writers
      PROVE  activity = -1 /\ Holders = {t} /\ Readers = {}
  <2>1. t \in Holders
    BY DEF Holders
  <2> QED
    BY <1>1, <1>2, <1>3, <2>1
<1>6. ASSUME NEW t \in Promised, activity = -1
      PROVE  Holders = {t} /\ Writers = {} /\ Readers = {}
  <2>1. t \in Holders
    BY DEF Holders
  <2>2. Holders = {t} /\ Readers = {}
    BY <1>1, <1>2, <1>3, <1>6, <2>1
  <2>3. t \notin Writers
    BY DEF Promised, Writers, IInv, ListsAreExact, Waiters
  <2> QED
    BY <2>2, <2>3 DEF Holders
<1>7. activity = 0 => Holders = {}
  BY <1>1, <1>2, <1>3
<1> QED
  BY <1>1, <1>2, <1>4, <1>5, <1>6, <1>7

(* The first state: nobody has the semaphore or waits for it.              *)
LEMMA InitInv == Init => IInv
<1> SUFFICES ASSUME Init PROVE IInv
  OBVIOUS
<1> USE DEF Init
<1>1. Cardinality(Tasks) \in Nat
  BY RWSemSpinlockAssumption, FS_CardinalityType
<1>2. TypeOK
  BY <1>1 DEF TypeOK, Label
<1>3. ListEntries(<<>>) = {} /\ ListOK(<<>>)
  BY DEF ListEntries, ListOK
<1>4. Readers = {} /\ Writers = {} /\ Promised = {} /\ Waiters = {}
  BY <1>3 DEF Readers, Writers, Promised, Waiters
<1>5. LockIsHeld
  BY RWSemSpinlockAssumption DEF LockIsHeld, Waking
<1>6. ListsAreExact /\ BatchIsRight
  BY <1>3, <1>4 DEF ListsAreExact, BatchIsRight
<1>7. ActivityIsExact
  BY <1>4, FS_EmptySet DEF ActivityIsExact
<1>8. FrontIsRight /\ GrantedIsWoken
  BY DEF FrontIsRight, GrantedIsWoken
<1> QED
  BY <1>2, <1>5, <1>6, <1>7, <1>8 DEF IInv

------------------------------------------------------------------------------
(* Every step implements one of the abstract lock, or leaves it alone.     *)
AbsStep == [Abstract!Next]_<<Readers, Writers>>

(* __down_read_trylock() and the fast path of __down_read().               *)
LEMMA ReadInv ==
  ASSUME IInv, NEW t \in Tasks, __down_read_trylock(t)
  PROVE  IInv' /\ AbsStep
<1> USE DEF Goto, Waking
<1>0. TypeOK /\ LockIsHeld /\ ListsAreExact /\ GrantedIsWoken
  BY DEF IInv
<1>1. /\ wait_lock = Null /\ batch = <<>> /\ wait_list = <<>> /\ activity >= 0 /\ pc[t] = "idle"
      /\ pc' = [pc EXCEPT ![t] = "reading"] /\ activity' = activity + 1
      /\ UNCHANGED <<wait_lock, wait_list, flags, granted, batch, return, tstate>>
  BY <1>0 DEF __down_read_trylock, MayRead, LockIsHeld
<1>2. Promised = {} /\ Promised' = {} /\ Waiters' = Waiters
  BY <1>0, <1>1 DEF Promised, ListEntries, Waiters, TypeOK
<1>3. Readers' = Readers \cup {t} /\ Writers' = Writers /\ t \notin Holders
  BY <1>0, <1>1, <1>2 DEF Readers, Writers, Holders, TypeOK
<1>4. Writers = {} /\ Cardinality(Holders) = activity /\ activity \in Int
  BY <1>1, ActivityFacts
<1>5. Holders' = Holders \cup {t} /\ Holders' \in SUBSET Tasks
  BY <1>2, <1>3, ActivityFacts DEF Holders
<1>6. Cardinality(Holders') = activity'
  BY <1>1, <1>3, <1>4, ActivityFacts, TasksFinite, <1>5
<1>7. ActivityIsExact' /\ FrontIsRight' /\ BatchIsRight'
  BY <1>1, <1>2, <1>3, <1>4, <1>6 DEF ActivityIsExact, Holders, FrontIsRight, BatchIsRight
<1>8. activity' \in -1 .. Cardinality(Tasks)
  BY <1>1, <1>4, <1>5, <1>6, TasksFinite
<1>9. TypeOK'
  BY <1>0, <1>1, <1>8 DEF TypeOK, Label
<1>10. LockIsHeld' /\ ListsAreExact'
  BY <1>0, <1>1, <1>2 DEF TypeOK, LockIsHeld, ListsAreExact
<1>11. GrantedIsWoken'
  BY <1>0, <1>1 DEF TypeOK, GrantedIsWoken
<1>12. Abstract!AcquireRead(t)
  BY <1>3, <1>4 DEF Abstract!AcquireRead, Holders
<1> QED
  BY <1>7, <1>9, <1>10, <1>11, <1>12 DEF IInv, AbsStep, Abstract!Next

(* __down_write_trylock() and the fast path of __down_write().             *)
LEMMA WriteInv ==
  ASSUME IInv, NEW t \in Tasks, __down_write_trylock(t)
  PROVE  IInv' /\ AbsStep
<1> USE DEF Goto, Waking
<1>0. TypeOK /\ LockIsHeld /\ ListsAreExact /\ GrantedIsWoken
  BY DEF IInv
<1>1. /\ wait_lock = Null /\ batch = <<>> /\ wait_list = <<>> /\ activity = 0 /\ pc[t] = "idle"
      /\ pc' = [pc EXCEPT ![t] = "writing"] /\ activity' = -1
      /\ UNCHANGED <<wait_lock, wait_list, flags, granted, batch, return, tstate>>
  BY <1>0 DEF __down_write_trylock, MayWrite, LockIsHeld
<1>2. Promised' = {} /\ Waiters' = Waiters
  BY <1>0, <1>1 DEF Promised, ListEntries, Waiters, TypeOK
<1>3. Readers = {} /\ Writers = {}
  BY <1>1, ActivityFacts DEF Holders
<1>4. Readers' = {} /\ Writers' = {t}
  BY <1>0, <1>1, <1>3 DEF Readers, Writers, TypeOK
<1>5. ActivityIsExact' /\ FrontIsRight' /\ BatchIsRight'
  <2>1. Cardinality({} \cup {t} \cup {}) = 1
    <3>1. Cardinality({t}) = 1 /\ {} \cup {t} \cup {} = {t}
      BY TasksFinite
    <3> QED
      BY <3>1
  <2> QED
    BY <1>1, <1>2, <1>4, <2>1 DEF ActivityIsExact, FrontIsRight, BatchIsRight
<1>6. TypeOK'
  <2>1. activity' \in -1 .. Cardinality(Tasks)
    BY <1>1, TasksFinite
  <2> QED
    BY <1>0, <1>1, <2>1 DEF TypeOK, Label
<1>7. LockIsHeld' /\ ListsAreExact'
  BY <1>0, <1>1, <1>2 DEF TypeOK, LockIsHeld, ListsAreExact, Promised, ListEntries
<1>8. GrantedIsWoken'
  BY <1>0, <1>1 DEF TypeOK, GrantedIsWoken
<1>9. Abstract!AcquireWrite(t)
  BY <1>3, <1>4 DEF Abstract!AcquireWrite
<1> QED
  BY <1>5, <1>6, <1>7, <1>8, <1>9 DEF IInv, AbsStep, Abstract!Next

(* The slow path of __down_read() and __down_write(): queue up and sleep.  *)
LEMMA EnqueueInv ==
  ASSUME IInv, NEW t \in Tasks, NEW flag \in {"read", "write"}, wait_lock = Null,
         flag = "read" => ~MayRead, flag = "write" => ~MayWrite, Enqueue(t, flag)
  PROVE  IInv' /\ AbsStep
<1> USE DEF Goto, Waking
<1>0. TypeOK /\ LockIsHeld /\ ListsAreExact /\ GrantedIsWoken /\ FrontIsRight
  BY DEF IInv
<1>1. /\ batch = <<>> /\ pc[t] = "idle"
      /\ pc' = [pc EXCEPT ![t] = "wait"] /\ flags' = [flags EXCEPT ![t] = flag]
      /\ granted' = [granted EXCEPT ![t] = FALSE]
      /\ tstate' = [tstate EXCEPT ![t] = TASK_UNINTERRUPTIBLE]
      /\ wait_list' = list_add_tail(wait_list, t)
      /\ UNCHANGED <<activity, wait_lock, batch, return>>
  BY <1>0 DEF Enqueue, LockIsHeld
<1>2. Promised = {} /\ Promised' = {}
  BY <1>1 DEF Promised, ListEntries
<1>3. Readers' = Readers /\ Writers' = Writers /\ Waiters' = Waiters \cup {t} /\ t \notin Waiters
  BY <1>0, <1>1 DEF Readers, Writers, Waiters, TypeOK
<1>4. /\ wait_list' \in Seq(Tasks) /\ wait_list' # <<>>
      /\ ListEntries(wait_list') = ListEntries(wait_list) \cup {t}
      /\ ListOK(wait_list')
  <2>1. t \notin ListEntries(wait_list) /\ ListOK(wait_list) /\ wait_list \in Seq(Tasks)
    BY <1>0, <1>3 DEF TypeOK, ListsAreExact
  <2> QED
    BY <1>1, <2>1, AddTailFacts
<1>5. ActivityIsExact' /\ BatchIsRight'
  BY <1>1, <1>2, <1>3 DEF IInv, ActivityIsExact, BatchIsRight
<1>6. TypeOK'
  BY <1>0, <1>1, <1>4 DEF TypeOK, Label
<1>7. LockIsHeld'
  BY <1>0, <1>1 DEF TypeOK, LockIsHeld
<1>8. ListsAreExact'
  <2>1. ListEntries(batch) = {} /\ ListEntries(batch') = {} /\ ListOK(batch')
    BY <1>1 DEF ListEntries, ListOK
  <2>2. \A u \in Tasks : pc'[u] \notin Waking
    BY <1>0, <1>1, RWSemSpinlockAssumption DEF TypeOK, LockIsHeld
  <2> QED
    BY <1>0, <1>2, <1>3, <1>4, <2>1, <2>2 DEF ListsAreExact
<1>9. FrontIsRight'
  <2>1. activity \in Int /\ (activity < 0 => activity = -1)
    BY ActivityFacts
  <2>2. CASE wait_list = <<>>
    <3>1. Head(wait_list') = t
      BY <1>1, <2>2 DEF list_add_tail
    <3>2. activity # 0 /\ (activity > 0 => flag = "write")
      BY <2>1, <2>2 DEF MayRead, MayWrite
    <3> QED
      BY <1>0, <1>1, <3>1, <3>2 DEF TypeOK, FrontIsRight
  <2>3. CASE wait_list # <<>>
    <3>1. Head(wait_list') = Head(wait_list) /\ Head(wait_list) \in ListEntries(wait_list)
      <4>1. Head(wait_list) \in ListEntries(wait_list) /\ Head(wait_list) = wait_list[1]
            /\ Len(wait_list) \in Nat \ {0}
        BY <1>0, <2>3, FirstFacts DEF TypeOK
      <4>2. Head(wait_list') = wait_list'[1] /\ wait_list'[1] = wait_list[1]
        BY <1>0, <1>1, <1>4, <4>1 DEF TypeOK, list_add_tail
      <4> QED
        BY <4>1, <4>2
    <3>2. Head(wait_list) # t /\ Head(wait_list) \in Tasks
      BY <1>0, <1>3, <3>1 DEF ListsAreExact, Waiters
    <3> QED
      BY <1>0, <1>1, <2>3, <3>1, <3>2 DEF TypeOK, FrontIsRight
  <2> QED
    BY <2>2, <2>3
<1>10. GrantedIsWoken'
  BY <1>0, <1>1 DEF TypeOK, GrantedIsWoken
<1> QED
  BY <1>3, <1>5, <1>6, <1>7, <1>8, <1>9, <1>10 DEF IInv, AbsStep

(* A waiter looks whether it was told, sleeps and wakes up. *)
LEMMA WaitInv ==
  ASSUME IInv, NEW t \in Tasks, WaitTest(t) \/ Woken(t)
  PROVE  IInv' /\ AbsStep
<1> USE DEF Goto, Waking
<1>0. TypeOK /\ LockIsHeld /\ ListsAreExact /\ GrantedIsWoken /\ FrontIsRight /\ BatchIsRight
  BY DEF IInv
<1>1. UNCHANGED <<activity, wait_lock, wait_list, flags, granted, batch, return>>
  BY DEF WaitTest, Woken
<1>2. /\ pc[t] \in {"wait", "schedule"}
      /\ \/ pc' = [pc EXCEPT ![t] = "wait"] /\ pc[t] = "schedule"
         \/ pc' = [pc EXCEPT ![t] = "schedule"] /\ pc[t] = "wait" /\ ~granted[t]
         \/ /\ granted[t] /\ flags[t] = "read" /\ pc' = [pc EXCEPT ![t] = "reading"]
         \/ /\ granted[t] /\ flags[t] = "write" /\ pc' = [pc EXCEPT ![t] = "writing"]
  BY <1>0 DEF TypeOK, WaitTest, Woken
<1>3. /\ \E s \in {TASK_RUNNING, TASK_UNINTERRUPTIBLE} : tstate' = [tstate EXCEPT ![t] = s]
      /\ pc'[t] # "schedule" \/ tstate' = tstate
  <2>1. CASE Woken(t)
    BY <1>0, <2>1 DEF TypeOK, Woken
  <2>2. CASE WaitTest(t)
    <3>1. tstate = [tstate EXCEPT ![t] = tstate[t]] /\ tstate[t] \in {TASK_RUNNING, TASK_UNINTERRUPTIBLE}
      BY <1>0 DEF TypeOK
    <3> QED
      BY <1>0, <2>2, <3>1 DEF TypeOK, WaitTest
  <2> QED
    BY <2>1, <2>2
<1>4. Readers' = Readers /\ Writers' = Writers /\ Waiters' = Waiters /\ Promised' = Promised
  BY <1>0, <1>1, <1>2 DEF TypeOK, Readers, Writers, Waiters, Promised
<1>5. ActivityIsExact' /\ BatchIsRight' /\ FrontIsRight'
  BY <1>0, <1>1, <1>4 DEF IInv, ActivityIsExact, BatchIsRight, FrontIsRight
<1>6. TypeOK'
  BY <1>0, <1>1, <1>2, <1>3 DEF TypeOK, Label
<1>7. LockIsHeld' /\ ListsAreExact'
  BY <1>0, <1>1, <1>2, <1>4 DEF TypeOK, LockIsHeld, ListsAreExact
<1>8. GrantedIsWoken'
  BY <1>0, <1>1, <1>2, <1>3 DEF TypeOK, GrantedIsWoken
<1> QED
  BY <1>4, <1>5, <1>6, <1>7, <1>8 DEF IInv, AbsStep

------------------------------------------------------------------------------
(* Taking the first n waiters off the list to wake them.                   *)
LEMMA WakeLists ==
  ASSUME IInv, NEW t \in Tasks, NEW from, NEW to \in {"idle", "reading"}, pc[t] = from,
         NEW n \in 1 .. Len(wait_list), wait_lock = Null, Wake(t, from, n, to),
         from \in {"reading", "writing"}, UNCHANGED <<flags, granted, tstate>>
  PROVE  /\ LockIsHeld' /\ ListsAreExact' /\ GrantedIsWoken'
         /\ Promised = {} /\ Promised' = {wait_list[i] : i \in 1 .. n}
         /\ Promised' \in SUBSET Tasks /\ Cardinality(Promised') = n
         /\ Promised' \cap Readers = {} /\ Promised' \cap Writers = {}
         /\ pc' = [pc EXCEPT ![t] = "grant"] /\ return' = [return EXCEPT ![t] = to]
         /\ activity' \in -1 .. Cardinality(Tasks) => TypeOK'
         /\ wait_list' # <<>> => n < Len(wait_list) /\ Head(wait_list') = wait_list[n + 1]
<1> USE DEF Goto, Waking
<1>0. TypeOK /\ LockIsHeld /\ ListsAreExact /\ GrantedIsWoken
  BY DEF IInv
<1>1. /\ pc' = [pc EXCEPT ![t] = "grant"] /\ wait_lock' = t
      /\ batch' = SubSeq(wait_list, 1, n)
      /\ wait_list' = SubSeq(wait_list, n + 1, Len(wait_list))
      /\ return' = [return EXCEPT ![t] = to]
  BY DEF Wake
<1>2. /\ batch = <<>> /\ ListEntries(batch) = {} /\ Promised = {}
      /\ wait_list \in Seq(Tasks) /\ ListOK(wait_list) /\ n \in 0 .. Len(wait_list)
      /\ ListEntries(wait_list) = Waiters
  <2>1. batch = <<>> /\ ListEntries(<<>>) = {} /\ n \in 0 .. Len(wait_list)
    BY <1>0 DEF LockIsHeld, ListEntries
  <2> QED
    BY <1>0, <2>1 DEF TypeOK, ListsAreExact, Promised
<1>3. /\ batch' \in Seq(Tasks) /\ wait_list' \in Seq(Tasks)
      /\ ListOK(batch') /\ ListOK(wait_list') /\ Len(batch') = n
      /\ ListEntries(batch') = {wait_list[i] : i \in 1 .. n}
      /\ ListEntries(batch') \cup ListEntries(wait_list') = ListEntries(wait_list)
      /\ ListEntries(batch') \cap ListEntries(wait_list') = {}
      /\ wait_list' # <<>> => n < Len(wait_list) /\ Head(wait_list') = wait_list[n + 1]
  BY <1>1, <1>2, PrefixFacts
<1>4. Waiters' = Waiters
  BY <1>0, <1>1 DEF TypeOK, Waiters
<1>5. Promised' = ListEntries(batch') /\ Promised' \subseteq Waiters
  BY <1>2, <1>3 DEF Promised, Waiters
<1>6. Promised' \in SUBSET Tasks /\ Promised' \cap Readers = {} /\ Promised' \cap Writers = {}
  BY <1>0, <1>5 DEF TypeOK, Waiters, Readers, Writers
<1>7. Cardinality(Promised') = n
  BY <1>3, <1>5, CountFacts
<1>8. \A u \in Tasks : u # t => pc'[u] = pc[u] /\ pc[u] \notin Waking
  BY <1>0, <1>1, RWSemSpinlockAssumption DEF TypeOK, LockIsHeld
<1>9. LockIsHeld'
  <2>1. batch' # <<>>
    BY <1>3
  <2>2. pc'[t] = "grant" /\ wait_lock' = t /\ t # Null
    BY <1>0, <1>1, RWSemSpinlockAssumption DEF TypeOK
  <2> QED
    BY <1>8, <2>1, <2>2 DEF LockIsHeld
<1>10. ListsAreExact'
  <2>1. pc'[t] = "grant"
    BY <1>0, <1>1 DEF TypeOK
  <2> QED
    BY <1>2, <1>3, <1>4, <1>5, <1>8, <2>1 DEF ListsAreExact
<1>11. GrantedIsWoken'
  BY <1>0, <1>1, <1>8 DEF TypeOK, GrantedIsWoken
<1>12. activity' \in -1 .. Cardinality(Tasks) => TypeOK'
  BY <1>0, <1>1, <1>3 DEF TypeOK, Label
<1> QED
  BY <1>1, <1>2, <1>3, <1>5, <1>6, <1>7, <1>9, <1>10, <1>11, <1>12

(* A holder that wakes nobody goes on. *)
LEMMA WakeNobodyLists ==
  ASSUME IInv, NEW t \in Tasks, NEW from, NEW to \in {"idle", "reading"}, pc[t] = from,
         wait_lock = Null, WakeNobody(t, from, to),
         from \in {"reading", "writing"}, UNCHANGED <<flags, granted, tstate>>
  PROVE  /\ LockIsHeld' /\ ListsAreExact' /\ GrantedIsWoken' /\ BatchIsRight'
         /\ Promised = {} /\ Promised' = {}
         /\ activity' \in -1 .. Cardinality(Tasks) => TypeOK'
<1> USE DEF Goto, Waking
<1>0. TypeOK /\ LockIsHeld /\ ListsAreExact /\ GrantedIsWoken
  BY DEF IInv
<1>1. pc' = [pc EXCEPT ![t] = to] /\ UNCHANGED <<wait_lock, batch, wait_list, return>>
  BY DEF WakeNobody
<1>2. batch = <<>> /\ Promised = {} /\ Promised' = {}
  BY <1>0, <1>1 DEF LockIsHeld, Promised, ListEntries
<1>3. Waiters' = Waiters
  BY <1>0, <1>1 DEF TypeOK, Waiters
<1>4. \A u \in Tasks : pc'[u] \notin Waking
  BY <1>0, <1>1, RWSemSpinlockAssumption DEF TypeOK, LockIsHeld
<1>5. LockIsHeld' /\ ListsAreExact' /\ BatchIsRight'
  BY <1>0, <1>1, <1>2, <1>3, <1>4, RWSemSpinlockAssumption DEF LockIsHeld, ListsAreExact, BatchIsRight
<1>6. GrantedIsWoken'
  BY <1>0, <1>1, <1>4 DEF TypeOK, GrantedIsWoken
<1>7. activity' \in -1 .. Cardinality(Tasks) => TypeOK'
  BY <1>0, <1>1 DEF TypeOK, Label
<1> QED
  BY <1>2, <1>5, <1>6, <1>7

(* The number of readers at the front is well defined: the first writer,   *)
(* or the end, comes right behind them.                                    *)
LEMMA LeadingFacts ==
  ASSUME TypeOK, wait_list # <<>>, flags[Head(wait_list)] = "read"
  PROVE  /\ LeadingReaders \in 1 .. Len(wait_list)
         /\ \A i \in 1 .. LeadingReaders : flags[wait_list[i]] = "read"
         /\ LeadingReaders < Len(wait_list) => flags[wait_list[LeadingReaders + 1]] = "write"
<1> DEFINE k == Len(wait_list)
           P(n) == /\ \A i \in 1 .. n : flags[wait_list[i]] = "read"
                   /\ n < k => flags[wait_list[n + 1]] = "write"
           W == {i \in 1 .. k : flags[wait_list[i]] = "write"}
<1>1. k \in Nat \ {0} /\ Head(wait_list) = wait_list[1]
  BY DEF TypeOK
<1>2. \A i \in 1 .. k : flags[wait_list[i]] = "read" \/ i \in W
  BY DEF TypeOK
<1>3. \E n \in 0 .. k : P(n)
  <2>1. CASE W = {}
    BY <1>1, <1>2, <2>1
  <2>2. CASE W # {}
    <3>1. W \in SUBSET Nat
      BY <1>1
    <3>2. PICK x \in W : \A y \in W : x <= y
      <4> HIDE DEF W
      <4> QED
        BY <2>2, <3>1, LeastNat
    <3>3. x \in 1 .. k /\ x - 1 \in 0 .. k /\ (x - 1) + 1 = x /\ flags[wait_list[x]] = "write"
      BY <1>1
    <3>4. ASSUME NEW i \in 1 .. x - 1
          PROVE  flags[wait_list[i]] = "read"
      <4>1. i \in 1 .. k /\ ~(x <= i)
        BY <1>1, <3>3
      <4>2. i \notin W
        <5> HIDE DEF W
        <5> QED
          BY <3>2, <4>1
      <4> QED
        BY <1>2, <4>1, <4>2
    <3> QED
      BY <3>3, <3>4
  <2> QED
    BY <2>1, <2>2
<1>4. LeadingReaders \in 0 .. k /\ P(LeadingReaders)
  <2>1. LeadingReaders = CHOOSE n \in 0 .. k : P(n)
    BY DEF LeadingReaders
  <2> HIDE DEF P
  <2> QED
    BY <1>3, <2>1
<1>5. LeadingReaders # 0
  BY <1>1, <1>4
<1> QED
  BY <1>1, <1>4, <1>5

(* __up_read(): the last reader hands the semaphore to the front writer.   *)
LEMMA UpReadInv ==
  ASSUME IInv, NEW t \in Tasks, __up_read(t)
  PROVE  IInv' /\ AbsStep
<1> USE DEF Goto
<1>0. TypeOK /\ FrontIsRight /\ pc[t] = "reading" /\ wait_lock = Null
  BY DEF IInv, __up_read, __rwsem_wake_one_writer, Wake, WakeNobody
<1>1. t \in Readers
  BY <1>0 DEF Readers
<1>2. activity >= 1 /\ activity \in Int /\ Writers = {} /\ (activity = 1 => Holders = {t})
      /\ Cardinality(Holders) = activity /\ Holders \in SUBSET Tasks
  BY <1>1, ActivityFacts
<1>3. CASE activity = 1 /\ wait_list # <<>>
  <2>1. /\ activity' = -1 /\ Wake(t, "reading", 1, "idle")
        /\ UNCHANGED <<flags, granted, tstate>>
    BY <1>3 DEF __up_read, __rwsem_wake_one_writer
  <2>2. 1 \in 1 .. Len(wait_list) /\ Head(wait_list) = wait_list[1]
    BY <1>0, <1>3 DEF TypeOK
  <2>3. /\ LockIsHeld' /\ ListsAreExact' /\ GrantedIsWoken'
        /\ Promised' = {wait_list[i] : i \in 1 .. 1}
        /\ Promised' \in SUBSET Tasks /\ Cardinality(Promised') = 1
        /\ pc' = [pc EXCEPT ![t] = "grant"] /\ return' = [return EXCEPT ![t] = "idle"]
        /\ activity' \in -1 .. Cardinality(Tasks) => TypeOK'
    BY <1>0, <2>1, <2>2, WakeLists
  <2>4. TypeOK'
    <3>1. activity' \in -1 .. Cardinality(Tasks)
      BY <2>1, TasksFinite
    <3> QED
      BY <2>3, <3>1
  <2>5. Readers = {t} /\ Readers' = {} /\ Writers' = {}
    <3>1. Readers = {t}
      BY <1>1, <1>2, <1>3 DEF Holders
    <3> QED
      BY <1>0, <1>2, <2>1, <2>3, <3>1 DEF TypeOK, Readers, Writers
  <2>6. ActivityIsExact' /\ FrontIsRight'
    BY <2>1, <2>3, <2>5 DEF ActivityIsExact, FrontIsRight
  <2>7. BatchIsRight'
    <3>1. flags[wait_list[1]] = "write"
      BY <1>0, <1>2, <1>3, <2>2 DEF FrontIsRight
    <3> QED
      BY <2>1, <2>3, <3>1 DEF BatchIsRight
  <2>8. Abstract!ReleaseRead(t)
    BY <1>2, <2>5 DEF Abstract!ReleaseRead
  <2> QED
    BY <2>3, <2>4, <2>6, <2>7, <2>8 DEF IInv, AbsStep, Abstract!Next
<1>4. CASE ~(activity = 1 /\ wait_list # <<>>)
  <2>1. /\ activity' = activity - 1 /\ WakeNobody(t, "reading", "idle")
        /\ UNCHANGED <<flags, granted, tstate>>
    BY <1>4 DEF __up_read
  <2>2. /\ LockIsHeld' /\ ListsAreExact' /\ GrantedIsWoken' /\ BatchIsRight'
        /\ Promised = {} /\ Promised' = {}
        /\ activity' \in -1 .. Cardinality(Tasks) => TypeOK'
    BY <1>0, <2>1, WakeNobodyLists
  <2>3. TypeOK'
    <3>1. activity' \in -1 .. Cardinality(Tasks)
      BY <1>2, <2>1, TasksFinite
    <3> QED
      BY <2>2, <3>1
  <2>4. Readers' = Readers \ {t} /\ Writers' = Writers
    BY <1>0, <2>1 DEF TypeOK, Readers, Writers, WakeNobody
  <2>5. ActivityIsExact'
    <3>1. Holders' = Holders \ {t} /\ t \in Holders
      BY <1>1, <1>2, <2>2, <2>4 DEF Holders
    <3>2. Cardinality(Holders') = activity' /\ activity' >= 0
      BY <1>2, <2>1, <3>1, TasksFinite
    <3> QED
      BY <1>2, <2>4, <3>2 DEF ActivityIsExact, Holders
  <2>6. FrontIsRight'
    BY <1>0, <1>2, <1>4, <2>1 DEF FrontIsRight, WakeNobody
  <2>7. Abstract!ReleaseRead(t)
    BY <1>1, <2>4 DEF Abstract!ReleaseRead
  <2> QED
    BY <2>2, <2>3, <2>5, <2>6, <2>7 DEF IInv, AbsStep, Abstract!Next
<1> QED
  BY <1>3, <1>4

(* __up_write() and __downgrade_write(): the writer was alone. *)
LEMMA LeaveWritingInv ==
  ASSUME IInv, NEW t \in Tasks, __up_write(t) \/ __downgrade_write(t)
  PROVE  IInv' /\ AbsStep
<1> USE DEF Goto
<1>1. PICK base \in {0, 1}, wakewrite \in BOOLEAN, to \in {"idle", "reading"} :
         /\ LeaveWriting(t, wakewrite, base, to)
         /\ base = 1 <=> to = "reading"
         /\ wakewrite <=> base = 0
  <2>1. CASE __up_write(t)
    <3> WITNESS 0 \in {0, 1}, TRUE \in BOOLEAN, "idle" \in {"idle", "reading"}
    <3>1. LeaveWriting(t, TRUE, 0, "idle")
      BY <2>1 DEF __up_write
    <3>2. 0 # 1 /\ "idle" # "reading"
      OBVIOUS
    <3> QED
      BY <3>1, <3>2
  <2>2. CASE __downgrade_write(t)
    <3> WITNESS 1 \in {0, 1}, FALSE \in BOOLEAN, "reading" \in {"idle", "reading"}
    <3>1. LeaveWriting(t, FALSE, 1, "reading")
      BY <2>2 DEF __downgrade_write
    <3>2. 0 # 1
      OBVIOUS
    <3> QED
      BY <3>1, <3>2
  <2> QED
    BY <2>1, <2>2
<1>0. /\ TypeOK /\ pc[t] = "writing" /\ wait_lock = Null /\ Cardinality(Tasks) \in Nat
      /\ UNCHANGED <<flags, granted, tstate>>
  BY <1>1, TasksFinite DEF IInv, LeaveWriting
<1>2. t \in Writers
  BY <1>0 DEF Writers
<1>3. Writers = {t} /\ Readers = {} /\ 1 <= Cardinality(Tasks)
  <2>1. Holders = {t} /\ Readers = {}
    BY <1>2, ActivityFacts
  <2>2. {t} \in SUBSET Tasks /\ Cardinality({t}) = 1
    BY TasksFinite
  <2>3. Cardinality({t}) <= Cardinality(Tasks)
    BY <2>2, TasksFinite
  <2> QED
    BY <1>2, <2>1, <2>2, <2>3 DEF Holders
<1>4. ASSUME Writers' = {}, Readers' = IF base = 1 THEN {t} ELSE {}
      PROVE  AbsStep
  <2>1. base = 1 => Abstract!Downgrade(t)
    BY <1>3, <1>4 DEF Abstract!Downgrade
  <2>2. base = 0 => Abstract!ReleaseWrite(t)
    BY <1>3, <1>4 DEF Abstract!ReleaseWrite
  <2> QED
    BY <2>1, <2>2 DEF AbsStep, Abstract!Next
<1>5. ASSUME WakeNobody(t, "writing", to), activity' = base,
             wait_list # <<>> => base = 1 /\ flags[Head(wait_list)] = "write"
      PROVE  IInv' /\ AbsStep
  <2>1. /\ LockIsHeld' /\ ListsAreExact' /\ GrantedIsWoken' /\ BatchIsRight'
        /\ Promised' = {}
        /\ activity' \in -1 .. Cardinality(Tasks) => TypeOK'
    BY <1>0, <1>5, WakeNobodyLists
  <2>2. TypeOK'
    <3>1. activity' \in -1 .. Cardinality(Tasks)
      BY <1>0, <1>3, <1>5
    <3> QED
      BY <2>1, <3>1
  <2>3. Writers' = {} /\ Readers' = IF base = 1 THEN {t} ELSE {}
    BY <1>0, <1>1, <1>3, <1>5 DEF TypeOK, Readers, Writers, WakeNobody
  <2>4. ActivityIsExact'
    <3>1. Cardinality({t}) = 1 /\ Cardinality({}) = 0
      BY TasksFinite, FS_EmptySet
    <3>2. (Readers \cup Writers \cup Promised)' = IF base = 1 THEN {t} ELSE {}
      BY <2>1, <2>3
    <3> QED
      BY <1>5, <2>1, <2>3, <3>1, <3>2 DEF ActivityIsExact
  <2>5. FrontIsRight'
    BY <1>0, <1>5 DEF FrontIsRight, WakeNobody
  <2> QED
    BY <1>4, <2>1, <2>2, <2>3, <2>4, <2>5 DEF IInv
<1>6. ASSUME NEW n \in 1 .. Len(wait_list), Wake(t, "writing", n, to),
             \/ activity' = -1 /\ n = 1 /\ base = 0 /\ flags[wait_list[1]] = "write"
             \/ /\ activity' = base + n /\ \A i \in 1 .. n : flags[wait_list[i]] = "read"
                /\ n < Len(wait_list) => flags[wait_list[n + 1]] = "write"
      PROVE  IInv' /\ AbsStep
  <2>1. /\ LockIsHeld' /\ ListsAreExact' /\ GrantedIsWoken'
        /\ Promised' = {wait_list[i] : i \in 1 .. n}
        /\ Promised' \in SUBSET Tasks /\ Cardinality(Promised') = n
        /\ Promised' \cap Writers = {}
        /\ pc' = [pc EXCEPT ![t] = "grant"] /\ return' = [return EXCEPT ![t] = to]
        /\ activity' \in -1 .. Cardinality(Tasks) => TypeOK'
        /\ wait_list' # <<>> => n < Len(wait_list) /\ Head(wait_list') = wait_list[n + 1]
    BY <1>0, <1>6, WakeLists
  <2>2. Writers' = {} /\ Readers' = IF base = 1 THEN {t} ELSE {}
    BY <1>0, <1>1, <1>3, <2>1 DEF TypeOK, Readers, Writers
  <2>3. t \notin Promised' /\ n \in Nat
    BY <1>2, <2>1
  <2>4. Cardinality((Readers \cup Writers \cup Promised)') = base + n
        /\ base + n \in 0 .. Cardinality(Tasks)
    <3>1. (Readers \cup Writers \cup Promised)' = IF base = 1 THEN Promised' \cup {t} ELSE Promised'
      BY <2>2
    <3>2. PICK P \in SUBSET Tasks : P = Promised'
      BY <2>1
    <3>3. P \cup {t} \in SUBSET Tasks /\ Cardinality(P \cup {t}) = n + 1 /\ Cardinality(P) = n
      <4>1. Cardinality(P) = n /\ t \notin P
        BY <2>1, <2>3, <3>2
      <4>2. Cardinality(P \cup {t}) = Cardinality(P) + 1
        BY <4>1, TasksFinite
      <4> QED
        BY <4>1, <4>2
    <3>4. n <= Cardinality(Tasks) /\ n + 1 <= Cardinality(Tasks)
      BY <3>3, TasksFinite
    <3>5. CASE base = 1
      <4>1. (Readers \cup Writers \cup Promised)' = P \cup {t}
        BY <3>1, <3>2, <3>5
      <4>2. Cardinality((Readers \cup Writers \cup Promised)') = Cardinality(P \cup {t})
        BY <4>1
      <4>3. base + n = Cardinality(P \cup {t}) /\ base + n \in 0 .. Cardinality(Tasks)
        BY <1>0, <2>3, <3>3, <3>4, <3>5
      <4> QED
        BY <4>2, <4>3
    <3>6. CASE base = 0
      <4>1. (Readers \cup Writers \cup Promised)' = P
        BY <3>1, <3>2, <3>6
      <4>2. Cardinality((Readers \cup Writers \cup Promised)') = Cardinality(P)
        BY <4>1
      <4>3. base + n = Cardinality(P) /\ base + n \in 0 .. Cardinality(Tasks)
        BY <1>0, <2>3, <3>3, <3>4, <3>6
      <4> QED
        BY <4>2, <4>3
    <3> QED
      BY <3>5, <3>6
  <2>5. TypeOK'
    <3>1. activity' \in -1 .. Cardinality(Tasks)
      BY <1>0, <1>6, <2>3, <2>4
    <3> QED
      BY <2>1, <3>1
  <2>6. ActivityIsExact'
    BY <1>6, <2>2, <2>3, <2>4 DEF ActivityIsExact
  <2>7. FrontIsRight'
    BY <1>0, <1>6, <2>1, <2>3 DEF FrontIsRight
  <2>8. BatchIsRight'
    BY <1>0, <1>6, <2>1, <2>3 DEF BatchIsRight
  <2> QED
    BY <1>4, <2>1, <2>2, <2>5, <2>6, <2>7, <2>8 DEF IInv
<1>7. CASE wait_list = <<>>
  BY <1>1, <1>5, <1>7 DEF LeaveWriting
<1>8. CASE wait_list # <<>> /\ flags[Head(wait_list)] = "write"
  <2>1. 1 \in 1 .. Len(wait_list) /\ Head(wait_list) = wait_list[1]
    BY <1>0, <1>8 DEF TypeOK
  <2>2. CASE wakewrite
    <3>1. activity' = -1 /\ Wake(t, "writing", 1, to) /\ base = 0
      BY <1>1, <1>8, <2>2 DEF LeaveWriting, __rwsem_do_wake
    <3> QED
      BY <1>6, <1>8, <2>1, <3>1
  <2>3. CASE ~wakewrite
    <3>1. activity' = base /\ WakeNobody(t, "writing", to) /\ base = 1
      BY <1>1, <1>8, <2>3 DEF LeaveWriting, __rwsem_do_wake
    <3> QED
      BY <1>5, <1>8, <3>1
  <2> QED
    BY <2>2, <2>3
<1>9. CASE wait_list # <<>> /\ flags[Head(wait_list)] = "read"
  <2>1. activity' = base + LeadingReaders /\ Wake(t, "writing", LeadingReaders, to)
    BY <1>1, <1>9 DEF LeaveWriting, __rwsem_do_wake
  <2> QED
    BY <1>0, <1>6, <1>9, <2>1, LeadingFacts
<1>10. wait_list # <<>> => flags[Head(wait_list)] \in {"read", "write"}
  BY <1>0, FirstFacts DEF TypeOK
<1> QED
  BY <1>7, <1>8, <1>9, <1>10

(* waiter->task = NULL: the first of the batch holds the semaphore from    *)
(* here on.                                                                *)
LEMMA GrantInv ==
  ASSUME IInv, NEW t \in Tasks, Grant(t)
  PROVE  IInv' /\ AbsStep
<1> USE DEF Goto, Waking
<1>0. TypeOK /\ LockIsHeld /\ ListsAreExact /\ GrantedIsWoken /\ FrontIsRight /\ BatchIsRight
  BY DEF IInv
<1>1. /\ pc[t] = "grant" /\ pc' = [pc EXCEPT ![t] = "wake_up"]
      /\ granted' = [granted EXCEPT ![Head(batch)] = TRUE]
      /\ UNCHANGED <<activity, wait_lock, wait_list, flags, batch, return, tstate>>
  BY DEF Grant
<1>2. wait_lock = t /\ batch # <<>> /\ \A u \in Tasks : u # t => pc[u] \notin Waking
  BY <1>0, <1>1, RWSemSpinlockAssumption DEF LockIsHeld
<1>3. PICK h \in Tasks : h = Head(batch) /\ h \in ListEntries(batch)
  BY <1>0, <1>2, FirstFacts DEF TypeOK
<1>4. /\ Promised = ListEntries(batch) /\ h \in Promised /\ ~granted[h]
      /\ pc[h] \in {"wait", "schedule"} /\ h # t
  BY <1>0, <1>1, <1>3 DEF ListsAreExact, Promised, Waiters
<1>5. /\ Promised' = Promised \ {h} /\ Waiters' = Waiters \ {h}
      /\ h \notin ListEntries(wait_list)
  BY <1>0, <1>1, <1>3, <1>4 DEF TypeOK, Promised, Waiters, ListsAreExact
<1>6. LockIsHeld'
  BY <1>0, <1>1, <1>2 DEF TypeOK, LockIsHeld
<1>7. ListsAreExact'
  <2>1. Waiters' = ListEntries(wait_list) \cup Promised'
    BY <1>0, <1>5 DEF ListsAreExact
  <2>2. \A u \in Tasks : /\ pc'[u] # "grant"
                         /\ pc'[u] = "wake_up" => Promised' = ListEntries(batch) \ {Head(batch)}
    BY <1>0, <1>1, <1>2, <1>3, <1>4, <1>5 DEF TypeOK
  <2> QED
    BY <1>0, <1>1, <2>1, <2>2 DEF ListsAreExact
<1>8. TypeOK'
  BY <1>0, <1>1, <1>3 DEF TypeOK, Label
<1>9. GrantedIsWoken'
  BY <1>0, <1>1, <1>3 DEF TypeOK, GrantedIsWoken
<1>10. FrontIsRight' /\ BatchIsRight'
  BY <1>0, <1>1, <1>5 DEF FrontIsRight, BatchIsRight
<1>11. CASE flags[h] = "read"
  <2>1. Readers' = Readers \cup {h} /\ Writers' = Writers /\ h \notin Readers
    BY <1>0, <1>1, <1>3, <1>4, <1>11 DEF TypeOK, Readers, Writers
  <2>2. Holders' = Holders
    BY <1>4, <1>5, <2>1 DEF Holders
  <2>3. activity >= 0 /\ Writers = {} /\ Cardinality(Holders) = activity
    BY <1>0, <1>4, <1>11, ActivityFacts DEF BatchIsRight
  <2>4. ActivityIsExact'
    BY <1>1, <2>1, <2>2, <2>3 DEF ActivityIsExact, Holders
  <2>5. Abstract!AcquireRead(h)
    BY <2>1, <2>3 DEF Abstract!AcquireRead
  <2> QED
    BY <1>6, <1>7, <1>8, <1>9, <1>10, <2>4, <2>5 DEF IInv, AbsStep, Abstract!Next
<1>12. CASE flags[h] = "write"
  <2>1. activity = -1 /\ Holders = {h} /\ Writers = {} /\ Readers = {}
    BY <1>0, <1>4, <1>12, ActivityFacts DEF BatchIsRight
  <2>2. Readers' = Readers /\ Writers' = Writers \cup {h}
    BY <1>0, <1>1, <1>3, <1>4, <1>12 DEF TypeOK, Readers, Writers
  <2>3. Holders' = {h} /\ Cardinality({h}) = 1
    BY <1>4, <1>5, <2>1, <2>2, TasksFinite DEF Holders
  <2>4. ActivityIsExact'
    BY <1>1, <2>1, <2>2, <2>3 DEF ActivityIsExact, Holders
  <2>5. Abstract!AcquireWrite(h)
    BY <2>1, <2>2 DEF Abstract!AcquireWrite
  <2> QED
    BY <1>6, <1>7, <1>8, <1>9, <1>10, <2>4, <2>5 DEF IInv, AbsStep, Abstract!Next
<1> QED
  BY <1>0, <1>11, <1>12 DEF TypeOK

(* wake_up_process(), and wait_lock is dropped after the last one. *)
LEMMA WakeUpInv ==
  ASSUME IInv, NEW t \in Tasks, WakeUp(t)
  PROVE  IInv' /\ AbsStep
<1> USE DEF Goto, Waking
<1>0. TypeOK /\ LockIsHeld /\ ListsAreExact /\ GrantedIsWoken /\ FrontIsRight /\ BatchIsRight
  BY DEF IInv
<1>1. /\ pc[t] = "wake_up" /\ tstate' = [tstate EXCEPT ![Head(batch)] = TASK_RUNNING]
      /\ batch' = Tail(batch)
      /\ UNCHANGED <<activity, wait_list, flags, granted>>
  BY DEF WakeUp, wake_up_process
<1>2. wait_lock = t /\ batch # <<>> /\ \A u \in Tasks : u # t => pc[u] \notin Waking
  BY <1>0, <1>1, RWSemSpinlockAssumption DEF LockIsHeld
<1>3. PICK h \in Tasks : h = Head(batch) /\ h \in ListEntries(batch)
  BY <1>0, <1>2, FirstFacts DEF TypeOK
<1>4. /\ batch' \in Seq(Tasks) /\ ListOK(batch')
      /\ ListEntries(batch') = ListEntries(batch) \ {h}
  BY <1>0, <1>1, <1>2, <1>3, FirstFacts DEF TypeOK, ListsAreExact
<1>5. Promised = ListEntries(batch) \ {h} /\ Promised' = Promised
  BY <1>0, <1>1, <1>3, <1>4 DEF ListsAreExact, Promised
<1>6. \/ /\ batch' # <<>> /\ pc' = [pc EXCEPT ![t] = "grant"] /\ UNCHANGED <<wait_lock, return>>
      \/ /\ batch' = <<>> /\ pc' = [pc EXCEPT ![t] = return[t]]
         /\ wait_lock' = Null /\ return' = [return EXCEPT ![t] = "idle"]
  BY <1>1 DEF WakeUp
<1>7. return[t] \in {"idle", "reading"}
  BY <1>0 DEF TypeOK
<1>8. Readers' = Readers /\ Writers' = Writers /\ Waiters' = Waiters
  BY <1>0, <1>1, <1>6, <1>7 DEF TypeOK, Readers, Writers, Waiters
<1>9. TypeOK'
  <2>1. tstate' \in [Tasks -> {TASK_RUNNING, TASK_UNINTERRUPTIBLE}]
    BY <1>0, <1>1 DEF TypeOK
  <2>2. pc' \in [Tasks -> Label] /\ wait_lock' \in Tasks \cup {Null}
        /\ return' \in [Tasks -> {"idle", "reading"}]
    BY <1>0, <1>6, <1>7 DEF TypeOK, Label
  <2> QED
    BY <1>0, <1>1, <1>4, <2>1, <2>2 DEF TypeOK
<1>10. LockIsHeld'
  BY <1>0, <1>1, <1>2, <1>6, <1>7, RWSemSpinlockAssumption DEF TypeOK, LockIsHeld
<1>11. ListsAreExact'
  <2>1. \A u \in Tasks : pc'[u] # "wake_up"
    BY <1>0, <1>1, <1>2, <1>6, <1>7 DEF TypeOK
  <2> QED
    BY <1>0, <1>1, <1>4, <1>5, <1>8, <2>1 DEF ListsAreExact
<1>12. GrantedIsWoken'
  <2> SUFFICES ASSUME NEW u \in Tasks, pc'[u] = "schedule", granted'[u]
               PROVE  tstate'[u] = TASK_RUNNING
    BY DEF GrantedIsWoken
  <2>1. u # t /\ pc[u] = "schedule" /\ granted[u]
    BY <1>0, <1>1, <1>6, <1>7 DEF TypeOK
  <2>2. tstate[u] = TASK_RUNNING \/ u = h
    BY <1>0, <1>2, <1>3, <2>1 DEF GrantedIsWoken
  <2> QED
    BY <1>0, <1>1, <1>3, <2>2 DEF TypeOK
<1>13. FrontIsRight' /\ BatchIsRight' /\ ActivityIsExact'
  BY <1>0, <1>1, <1>5, <1>8 DEF IInv, FrontIsRight, BatchIsRight, ActivityIsExact
<1> QED
  BY <1>8, <1>9, <1>10, <1>11, <1>12, <1>13 DEF IInv, AbsStep

------------------------------------------------------------------------------
(* IInv is inductive, and every step is one of the abstract lock. *)
LEMMA NextInv == IInv /\ [Next]_vars => IInv' /\ AbsStep
<1> SUFFICES ASSUME IInv, [Next]_vars PROVE IInv' /\ AbsStep
  OBVIOUS
<1>1. ASSUME NEW t \in Tasks, Call(t) PROVE IInv' /\ AbsStep
  <2>1. CASE __down_read_trylock(t)
    BY <2>1, ReadInv
  <2>2. CASE __down_write_trylock(t)
    BY <2>2, WriteInv
  <2>3. CASE wait_lock = Null /\ ~MayRead /\ Enqueue(t, "read")
    BY <2>3, EnqueueInv
  <2>4. CASE wait_lock = Null /\ ~MayWrite /\ Enqueue(t, "write")
    BY <2>4, EnqueueInv
  <2> QED
    BY <1>1, <2>1, <2>2, <2>3, <2>4 DEF Call, __down_read, __down_write
<1>2. ASSUME NEW t \in Tasks, Release(t) PROVE IInv' /\ AbsStep
  BY <1>2, UpReadInv, LeaveWritingInv DEF Release
<1>3. ASSUME NEW t \in Tasks, Step(t) PROVE IInv' /\ AbsStep
  BY <1>3, WaitInv, GrantInv, WakeUpInv DEF Step
<1>4. CASE UNCHANGED vars
  <2> USE <1>4 DEF vars
  <2>1. /\ Readers' = Readers /\ Writers' = Writers /\ Promised' = Promised /\ Waiters' = Waiters
    BY DEF Readers, Writers, Promised, Waiters
  <2>2. TypeOK' /\ LockIsHeld' /\ ListsAreExact' /\ BatchIsRight'
    BY <2>1 DEF IInv, TypeOK, LockIsHeld, ListsAreExact, BatchIsRight
  <2>3. ActivityIsExact' /\ FrontIsRight' /\ GrantedIsWoken'
    BY <2>1 DEF IInv, ActivityIsExact, FrontIsRight, GrantedIsWoken
  <2> QED
    BY <2>1, <2>2, <2>3 DEF IInv, AbsStep
<1> QED
  BY <1>1, <1>2, <1>3, <1>4 DEF Next

(* Every reachable state satisfies IInv. *)
THEOREM InvariantHolds == Spec => []IInv
  BY InitInv, NextInv, PTL DEF Spec

(* Types: activity stays between one writer and all tasks reading. *)
THEOREM TypeCorrect == Spec => []TypeOK
<1>1. IInv => TypeOK
  BY DEF IInv
<1> QED
  BY <1>1, InvariantHolds, PTL

(* activity is what rwsem-spinlock.h says, with those counted that were    *)
(* taken off the list but not told yet.                                    *)
THEOREM ActivityHolds == Spec => []ActivityIsExact
<1>1. IInv => ActivityIsExact
  BY DEF IInv
<1> QED
  BY <1>1, InvariantHolds, PTL

(* __rwsem_wake_one_writer() finds a writer at the front whenever it is    *)
(* called, although it does not look.                                      *)
THEOREM FrontHolds == Spec => []FrontIsRight
<1>1. IInv => FrontIsRight
  BY DEF IInv
<1> QED
  BY <1>1, InvariantHolds, PTL

(* No waiter that was granted the semaphore sleeps on. *)
THEOREM GrantedAreWoken == Spec => []GrantedIsWoken
<1>1. IInv => GrantedIsWoken
  BY DEF IInv
<1> QED
  BY <1>1, InvariantHolds, PTL

(* The semaphore implements the abstract reader/writer lock. *)
THEOREM Implements == Spec => IsRWLock
<1>1. Init => Abstract!Init
  BY DEF Init, Abstract!Init, Readers, Writers
<1>2. IInv /\ [Next]_vars => [Abstract!Next]_<<Readers, Writers>>
  BY NextInv DEF AbsStep
<1> QED
  BY <1>1, <1>2, InvariantHolds, PTL DEF Spec, IsRWLock, Abstract!Spec
=============================================================================
