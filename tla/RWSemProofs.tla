----------------------------- MODULE RWSemProofs -----------------------------
(***************************************************************************)
(* The reader/writer semaphore of lib/rwsem.c and asm/rwsem.h is a         *)
(* reader/writer lock, for any number of tasks.                            *)
(*                                                                         *)
(* Everything rests on what count is worth while operations are under way: *)
(* besides the holders, its low part counts lockers that failed and have   *)
(* not corrected it yet, waiters that were taken off the list and are not  *)
(* told yet, and the increment of the task that tries to wake others.      *)
(* From that follows who may succeed: no locker while anybody is queued,   *)
(* and a waiter only when nobody is active.                                *)
(***************************************************************************)
EXTENDS RWSem, KListProofs, FiniteSetTheorems, TLAPS

(* Waiters that the task u has taken off the list and not told yet. *)
Pend(u) ==
  IF pc[u] = "grant" THEN ListEntries(batch[u])
  ELSE IF pc[u] = "wake_up" THEN ListEntries(batch[u]) \ {Head(batch[u])}
  ELSE {}

Promised == UNION {Pend(u) : u \in Tasks}

(* Who holds the semaphore, or will without any further condition. *)
ReadHolders  == Readers \cup {t \in Promised : flags[t] = "read"}
WriteHolders == Writers \cup {t \in Promised : flags[t] = "write"}

(* Its increment of the active part is in count: it tries to wake others. *)
Tries(t) == pc[t] = "undo" \/ (pc[t] = "wake_readers" /\ return[t] # "reading")

(* The tasks that the low part of count counts, and the ones that besides  *)
(* the queued ones the high part counts.                                   *)
Act  == ReadHolders \cup WriteHolders
        \cup {t \in Tasks : pc[t] \in {"read_failed", "write_failed"} \/ Tries(t)}
WAct == WriteHolders \cup {t \in Tasks : pc[t] = "write_failed"}

High == Cardinality(WAct) + Len(wait_list)

CountIsExact == count = Cardinality(Act) + WAITING_BIAS * High

(* __rwsem_do_wake() runs with wait_lock held; its batch is not empty when *)
(* it has one to wake.  Only a downgrade goes on as a reader, and it does  *)
(* not try: it is active.  A waiter that wakes others was not told before. *)
LockIsHeld ==
  /\ \A t \in Tasks : wait_lock = t <=> DoWake(t)
  /\ \A t \in Tasks :
       /\ pc[t] \in {"grant", "wake_up"} => batch[t] # <<>> /\ ListOK(batch[t])
       /\ pc[t] \in {"try_wake", "undo"} => return[t] # "reading" /\ wait_list # <<>>
       /\ pc[t] \in {"try_wake", "undo", "wake_readers"} /\ return[t] = "wait" => ~granted[t]

(* Whoever waits and was not told is queued or promised; who is promised   *)
(* is not queued.                                                          *)
NotTold == {t \in Waiting : ~granted[t]}

ListsAreExact ==
  /\ ListOK(wait_list)
  /\ NotTold = ListEntries(wait_list) \cup Promised
  /\ ListEntries(wait_list) \cap Promised = {}

(* One writer or any number of readers hold the semaphore, and readers     *)
(* that are about to be taken off the list find no writer.                 *)
Exclusion ==
  /\ \A w \in WriteHolders : ReadHolders = {} /\ WriteHolders = {w}
  /\ \A t \in Tasks : pc[t] = "wake_readers" => WriteHolders = {} /\ FrontIs("read")

(* If nobody is active, somebody is about to look at the queue. *)
QueueIsWatched ==
  wait_list # <<>> => Act # {} \/ \E t \in Tasks : pc[t] \in {"rwsem_wake", "try_wake"}

(* TypeOK but for the bounds of count, which follow from CountIsExact. *)
Types ==
  /\ count \in Int
  /\ wait_lock \in Tasks \cup {Null}
  /\ wait_list \in Seq(Tasks)
  /\ flags \in [Tasks -> {"read", "write"}]
  /\ granted \in [Tasks -> BOOLEAN]
  /\ batch \in [Tasks -> Seq(Tasks)]
  /\ return \in [Tasks -> {"idle", "wait", "reading"}]
  /\ pc \in [Tasks -> Label]
  /\ tstate \in [Tasks -> TaskState]

IInv ==
  /\ Types
  /\ LockIsHeld
  /\ ListsAreExact
  /\ CountIsExact
  /\ Exclusion
  /\ QueueIsWatched
  /\ GrantedIsWoken

------------------------------------------------------------------------------
(* A set of tasks is finite; what adding and removing one does to its      *)
(* size.                                                                   *)
LEMMA TasksFinite ==
  ASSUME NEW S \in SUBSET Tasks
  PROVE  /\ IsFiniteSet(S) /\ Cardinality(S) \in Nat
         /\ Cardinality(S) <= Cardinality(Tasks) /\ Cardinality(Tasks) \in Nat
         /\ Cardinality(S) = 0 <=> S = {}
         /\ \A x : x \in S => Cardinality(S \ {x}) = Cardinality(S) - 1
         /\ \A x : x \notin S => Cardinality(S \cup {x}) = Cardinality(S) + 1
<1>1. IsFiniteSet(S) /\ Cardinality(S) \in Nat
  BY RWSemAssumption, FS_Subset, FS_CardinalityType
<1>2. Cardinality(S) <= Cardinality(Tasks) /\ Cardinality(Tasks) \in Nat
  BY RWSemAssumption, FS_Subset, FS_CardinalityType
<1>3. Cardinality(S) = 0 <=> S = {}
  BY <1>1, FS_EmptySet
<1>4. ASSUME NEW x, x \in S
      PROVE  Cardinality(S \ {x}) = Cardinality(S) - 1
  BY <1>1, <1>4, FS_RemoveElement
<1>5. ASSUME NEW x, x \notin S
      PROVE  Cardinality(S \cup {x}) = Cardinality(S) + 1
  BY <1>1, <1>5, FS_AddElement
<1> QED
  BY <1>1, <1>2, <1>3, <1>4, <1>5

(* The two halves of a count of a active lockers and h writers and waiters *)
(* do not run into each other.                                             *)
LEMMA Halves ==
  ASSUME NEW a \in 0 .. Cardinality(Tasks), NEW h \in Nat
  PROVE  LET c == a + WAITING_BIAS * h IN
         /\ c \in Int
         /\ Active(c) = a
         /\ c + 1 >= 0 => h = 0
         /\ c >= 0 <=> h = 0
         /\ c = 0 <=> a = 0 /\ h = 0
         /\ h <= Cardinality(Tasks) => c \in Cardinality(Tasks) * WAITING_BIAS .. Cardinality(Tasks)
<1> DEFINE m == ACTIVE_MASK + 1
           c == a + WAITING_BIAS * h
<1>1. m \in Nat \ {0} /\ Cardinality(Tasks) \in Nat /\ a + 1 < m
  BY RWSemAssumption, FS_CardinalityType
<1>2. WAITING_BIAS = -m
  BY RWSemAssumption DEF WAITING_BIAS
<1> HIDE DEF m
<1>3. c = (-h) * m + a /\ c \in Int
  BY <1>1, <1>2
<1>4. Active(c) = a
  <2>1. -h \in Int /\ a \in 0 .. m - 1
    BY <1>1
  <2>2. ASSUME NEW q \in Int PROVE (q * m + a) % m = a
    BY <1>1, <2>1
  <2>3. ((-h) * m + a) % m = a
    BY <2>1, <2>2
  <2> HIDE DEF c
  <2> QED
    BY <1>3, <2>3 DEF Active, m
<1>5. h = 0 => c = a
  BY <1>1, <1>2
<1>6. h # 0 => c + 1 < 0
  <2>1. h # 0 => m * h >= m
    BY <1>1
  <2> QED
    BY <1>1, <1>2, <2>1
<1>7. h <= Cardinality(Tasks) => Cardinality(Tasks) * WAITING_BIAS <= c
  <2>1. h <= Cardinality(Tasks) => m * h <= m * Cardinality(Tasks)
    BY <1>1
  <2> QED
    BY <1>1, <1>2, <2>1
<1>8. c <= Cardinality(Tasks)
  <2>1. m * h >= 0
    BY <1>1
  <2> QED
    BY <1>1, <1>2, <2>1
<1>9. Cardinality(Tasks) * WAITING_BIAS \in Int
  BY <1>1, <1>2
<1> HIDE DEF c
<1>10. /\ c + 1 >= 0 => h = 0
       /\ c >= 0 <=> h = 0
       /\ c = 0 <=> a = 0 /\ h = 0
  BY <1>3, <1>5, <1>6
<1>11. h <= Cardinality(Tasks) => c \in Cardinality(Tasks) * WAITING_BIAS .. Cardinality(Tasks)
  BY <1>1, <1>3, <1>7, <1>8, <1>9
<1> QED
  BY <1>3, <1>4, <1>10, <1>11 DEF c

(* What count tells. *)
LEMMA CountTells ==
  ASSUME IInv
  PROVE  /\ Act \in SUBSET Tasks /\ WAct \in SUBSET Tasks /\ Promised \in SUBSET Tasks
         /\ Cardinality(Act) \in 0 .. Cardinality(Tasks)
         /\ Cardinality(WAct) \in Nat /\ High \in Nat /\ count \in Int
         /\ Active(count) = Cardinality(Act)
         /\ Active(count) = 0 <=> Act = {}
         /\ count + 1 >= 0 => High = 0
         /\ count >= 0 <=> High = 0
         /\ count = 0 <=> Act = {} /\ High = 0
         /\ High = 0 <=> WAct = {} /\ wait_list = <<>>
<1>1. Promised \in SUBSET Tasks
  <2>1. \A u \in Tasks : ListEntries(batch[u]) \subseteq Tasks
    BY DEF IInv, Types, ListEntries
  <2> QED
    BY <2>1 DEF Promised, Pend
<1>2. Act \in SUBSET Tasks /\ WAct \in SUBSET Tasks
  BY <1>1 DEF Act, WAct, ReadHolders, WriteHolders, Readers, Writers
<1>3. Cardinality(Act) \in 0 .. Cardinality(Tasks) /\ (Cardinality(Act) = 0 <=> Act = {})
  BY <1>2, TasksFinite
<1>4. /\ Cardinality(WAct) \in Nat /\ (Cardinality(WAct) = 0 <=> WAct = {})
      /\ Len(wait_list) \in Nat /\ (Len(wait_list) = 0 <=> wait_list = <<>>)
  BY <1>2, TasksFinite DEF IInv, Types
<1>5. High \in Nat /\ (High = 0 <=> WAct = {} /\ wait_list = <<>>)
  BY <1>4 DEF High
<1>6. count = Cardinality(Act) + WAITING_BIAS * High
  BY DEF IInv, CountIsExact
<1>7. PICK a \in 0 .. Cardinality(Tasks), h \in Nat : a = Cardinality(Act) /\ h = High
  BY <1>3, <1>5
<1>8. count = a + WAITING_BIAS * h
  BY <1>6, <1>7
<1>9. /\ count \in Int /\ Active(count) = a
      /\ count + 1 >= 0 => h = 0
      /\ count >= 0 <=> h = 0
      /\ count = 0 <=> a = 0 /\ h = 0
  BY <1>8, Halves
<1> QED
  BY <1>1, <1>2, <1>3, <1>4, <1>5, <1>7, <1>9

(* The first state: nobody has the semaphore or waits for it.              *)
LEMMA InitInv == Init => IInv
<1> SUFFICES ASSUME Init PROVE IInv
  OBVIOUS
<1> USE DEF Init
<1>1. Types
  BY RWSemAssumption DEF Types, Label, TaskState
<1>2. ListEntries(<<>>) = {} /\ ListOK(<<>>)
  BY DEF ListEntries, ListOK
<1>3. Waiting = {} /\ Readers = {} /\ Writers = {} /\ Promised = {}
  BY DEF Waiting, Readers, Writers, Promised, Pend, DoWake
<1>4. Act = {} /\ WAct = {}
  BY <1>3 DEF Act, WAct, ReadHolders, WriteHolders, Tries
<1>5. LockIsHeld
  BY RWSemAssumption DEF LockIsHeld, DoWake
<1>6. ListsAreExact
  BY <1>2, <1>3 DEF ListsAreExact, NotTold
<1>7. CountIsExact
  <2>1. Cardinality({}) = 0 /\ Len(<<>>) = 0
    BY FS_EmptySet
  <2>2. WAITING_BIAS \in Int
    BY RWSemAssumption DEF WAITING_BIAS
  <2> QED
    BY <1>4, <2>1, <2>2 DEF CountIsExact, High
<1>8. Exclusion
  BY <1>3 DEF Exclusion, WriteHolders
<1>9. QueueIsWatched /\ GrantedIsWoken
  BY DEF QueueIsWatched, GrantedIsWoken
<1> QED
  BY <1>1, <1>5, <1>6, <1>7, <1>8, <1>9 DEF IInv

(* T is S but for x, and has d members more. *)
Moves(S, T, x, d) ==
  /\ T \ {x} = S \ {x}
  /\ \/ d = 0 /\ (x \in T <=> x \in S)
     \/ d = 1 /\ x \in T /\ x \notin S
     \/ d = -1 /\ x \notin T /\ x \in S

(* What that means for their sizes. *)
LEMMA MoveFacts ==
  ASSUME NEW S \in SUBSET Tasks, NEW T \in SUBSET Tasks, NEW x, NEW d \in {-1, 0, 1},
         Moves(S, T, x, d)
  PROVE  Cardinality(T) = Cardinality(S) + d
<1>1. CASE d = 0
  <2>1. S = T
    BY <1>1 DEF Moves
  <2> QED
    BY <1>1, <2>1, TasksFinite
<1>2. CASE d = 1
  <2>1. T = S \cup {x} /\ x \notin S
    BY <1>2 DEF Moves
  <2> QED
    BY <1>2, <2>1, TasksFinite
<1>3. CASE d = -1
  <2>1. T = S \ {x} /\ x \in S
    BY <1>3 DEF Moves
  <2> QED
    BY <1>3, <2>1, TasksFinite
<1> QED
  BY <1>1, <1>2, <1>3

(* count stays exact when one task enters or leaves the active ones and    *)
(* the list grows or shrinks, and tells in the new state, too.             *)
LEMMA CountStep ==
  ASSUME IInv, NEW A \in SUBSET Tasks, NEW B \in SUBSET Tasks, NEW l \in Nat, NEW c,
         NEW d \in Int, NEW k \in Int,
         Cardinality(A) = Cardinality(Act) + d,
         Cardinality(B) + l = Cardinality(WAct) + Len(wait_list) + k,
         c = count + d + WAITING_BIAS * k
  PROVE  /\ c = Cardinality(A) + WAITING_BIAS * (Cardinality(B) + l)
         /\ c \in Int
         /\ Active(c) = 0 <=> A = {}
         /\ c >= 0 <=> B = {} /\ l = 0
         /\ c = 0 <=> A = {} /\ B = {} /\ l = 0
<1> DEFINE w == WAITING_BIAS
           n == Cardinality(WAct)
           m == Len(wait_list)
<1>1. /\ Cardinality(Act) \in Nat /\ n \in Nat /\ m \in Nat /\ w \in Int
      /\ count = Cardinality(Act) + w * (n + m)
  BY CountTells, RWSemAssumption DEF IInv, Types, CountIsExact, High, WAITING_BIAS
<1>2. /\ Cardinality(A) \in 0 .. Cardinality(Tasks) /\ Cardinality(B) \in Nat
      /\ Cardinality(A) = 0 <=> A = {}
      /\ Cardinality(B) = 0 <=> B = {}
  BY TasksFinite
<1> HIDE DEF w, n, m
<1>3. PICK x \in Int, y \in Int : x = w * (n + m) /\ y = w * k /\ x + y = w * (n + m + k)
  BY <1>1
<1>4. c = Cardinality(A) + w * (Cardinality(B) + l)
  <2>1. c = Cardinality(Act) + x + d + y
    BY <1>1, <1>3 DEF w
  <2>2. c = Cardinality(A) + (x + y)
    BY <1>1, <2>1
  <2>3. x + y = w * (Cardinality(B) + l)
    <3>1. Cardinality(B) + l = n + m + k
      BY DEF n, m
    <3> QED
      BY <1>3, <3>1
  <2> QED
    BY <2>2, <2>3
<1>5. PICK a \in 0 .. Cardinality(Tasks), h \in Nat : a = Cardinality(A) /\ h = Cardinality(B) + l
  BY <1>2
<1>6. c = a + WAITING_BIAS * h
  BY <1>4, <1>5 DEF w
<1>7. /\ c \in Int /\ Active(c) = a
      /\ c >= 0 <=> h = 0
      /\ c = 0 <=> a = 0 /\ h = 0
  BY <1>6, Halves
<1> QED
  BY <1>2, <1>5, <1>6, <1>7

(* Only the task that holds wait_lock promises anything; who is promised   *)
(* the semaphore still waits.                                              *)
LEMMA LockFacts ==
  ASSUME IInv
  PROVE  /\ wait_lock = Null => Promised = {} /\ \A t \in Tasks : ~DoWake(t)
         /\ \A t \in Tasks : DoWake(t) => /\ Promised = Pend(t) /\ wait_lock = t
                                          /\ \A u \in Tasks : DoWake(u) => u = t
         /\ \A t \in Promised : t \in Waiting /\ ~granted[t]
         /\ \A t \in ListEntries(wait_list) : t \in Waiting /\ ~granted[t] /\ t \notin Promised
<1>1. \A t \in Tasks : wait_lock = t <=> DoWake(t)
  BY DEF IInv, LockIsHeld
<1>2. \A t \in Tasks : ~DoWake(t) => Pend(t) = {}
  BY DEF DoWake, Pend
<1>3. wait_lock = Null => \A t \in Tasks : ~DoWake(t)
  BY <1>1, RWSemAssumption
<1>4. wait_lock = Null => Promised = {}
  BY <1>2, <1>3 DEF Promised
<1>5. ASSUME NEW t \in Tasks, DoWake(t)
      PROVE  Promised = Pend(t) /\ wait_lock = t /\ \A u \in Tasks : DoWake(u) => u = t
  <2>1. wait_lock = t /\ \A u \in Tasks : DoWake(u) => u = t
    BY <1>1, <1>5
  <2>2. \A u \in Tasks : u # t => Pend(u) = {}
    BY <1>2, <2>1
  <2> QED
    BY <2>1, <2>2 DEF Promised
<1>6. \A t \in Promised : t \in Waiting /\ ~granted[t]
  BY DEF IInv, ListsAreExact, NotTold
<1>7. \A t \in ListEntries(wait_list) : t \in Waiting /\ ~granted[t] /\ t \notin Promised
  BY DEF IInv, ListsAreExact, NotTold
<1> QED
  BY <1>3, <1>4, <1>5, <1>6, <1>7

------------------------------------------------------------------------------
(* Every step implements one of the abstract lock, or leaves it alone.     *)
AbsStep == [Abstract!Next]_<<Readers, Writers>>

(* Where a task is neither queued nor in __rwsem_do_wake(). *)
Free == {"idle", "reading", "writing", "read_failed", "write_failed", "rwsem_wake",
         "downgrade_wake"}

(* A step outside wait_lock: it moves one task and count, and nothing of   *)
(* the queue.                                                              *)
LEMMA FreeStep ==
  ASSUME IInv, NEW t \in Tasks, NEW to \in Free, pc[t] \in Free,
         pc' = [pc EXCEPT ![t] = to],
         UNCHANGED <<wait_lock, wait_list, flags, granted, batch, return, tstate>>
  PROVE  /\ count' \in Int => Types'
         /\ LockIsHeld' /\ ListsAreExact' /\ GrantedIsWoken'
         /\ Promised' = Promised /\ t \notin Promised
         /\ Readers' \ {t} = Readers \ {t} /\ Writers' \ {t} = Writers \ {t}
         /\ ReadHolders' \ {t} = ReadHolders \ {t} /\ WriteHolders' \ {t} = WriteHolders \ {t}
         /\ Act' \ {t} = Act \ {t} /\ WAct' \ {t} = WAct \ {t}
         /\ Act' \in SUBSET Tasks /\ WAct' \in SUBSET Tasks
         /\ t \in Readers <=> pc[t] \in {"reading", "downgrade_wake"}
         /\ t \in Readers' <=> to \in {"reading", "downgrade_wake"}
         /\ t \in Writers <=> pc[t] = "writing"
         /\ t \in Writers' <=> to = "writing"
         /\ t \in ReadHolders <=> t \in Readers
         /\ t \in ReadHolders' <=> t \in Readers'
         /\ t \in WriteHolders <=> t \in Writers
         /\ t \in WriteHolders' <=> t \in Writers'
         /\ t \in Act <=> pc[t] \notin {"idle", "rwsem_wake"}
         /\ t \in Act' <=> to \notin {"idle", "rwsem_wake"}
         /\ t \in WAct <=> pc[t] \in {"writing", "write_failed"}
         /\ t \in WAct' <=> to \in {"writing", "write_failed"}
         /\ \A u \in Tasks : pc'[u] = IF u = t THEN to ELSE pc[u]
<1>0. Types /\ LockIsHeld /\ ListsAreExact /\ GrantedIsWoken
  BY DEF IInv
<1>1. \A u \in Tasks : pc'[u] = IF u = t THEN to ELSE pc[u]
  BY <1>0 DEF Types
<1>2. \A u \in Tasks : DoWake(u)' = DoWake(u) /\ (u \in Waiting' <=> u \in Waiting) /\ Pend(u)' = Pend(u)
  BY <1>1 DEF DoWake, Waiting, Pend, Free
<1>3. ~DoWake(t) /\ t \notin Waiting /\ t \notin Waiting'
  BY <1>1 DEF DoWake, Waiting, Free
<1>4. Promised' = Promised /\ t \notin Promised /\ Promised \subseteq Tasks
  BY <1>2, <1>3, LockFacts, CountTells DEF Promised
<1>5. Waiting' = Waiting /\ Waiting \subseteq Tasks
  BY <1>2 DEF Waiting
<1>6. \A u \in Tasks : u # t => (u \in Readers' <=> u \in Readers) /\ (u \in Writers' <=> u \in Writers)
  BY <1>1, <1>2 DEF Readers, Writers
<1>7. /\ t \in Readers <=> pc[t] \in {"reading", "downgrade_wake"}
      /\ t \in Readers' <=> to \in {"reading", "downgrade_wake"}
      /\ t \in Writers <=> pc[t] = "writing"
      /\ t \in Writers' <=> to = "writing"
  BY <1>1, <1>2, <1>3 DEF Readers, Writers
<1>8. Readers \subseteq Tasks /\ Writers \subseteq Tasks /\ Readers' \subseteq Tasks /\ Writers' \subseteq Tasks
  BY DEF Readers, Writers
<1>9. Readers' \ {t} = Readers \ {t} /\ Writers' \ {t} = Writers \ {t}
  BY <1>6, <1>8
<1>10. /\ ReadHolders' \ {t} = ReadHolders \ {t} /\ WriteHolders' \ {t} = WriteHolders \ {t}
       /\ t \in ReadHolders <=> t \in Readers
       /\ t \in ReadHolders' <=> t \in Readers'
       /\ t \in WriteHolders <=> t \in Writers
       /\ t \in WriteHolders' <=> t \in Writers'
       /\ ReadHolders' \subseteq Tasks /\ WriteHolders' \subseteq Tasks
  BY <1>4, <1>8, <1>9 DEF ReadHolders, WriteHolders
<1>11. \A u \in Tasks : u # t => Tries(u)' = Tries(u)
  BY <1>1 DEF Tries
<1>12. ~Tries(t) /\ ~Tries(t)'
  BY <1>1 DEF Tries, Free
<1>13. /\ Act' \ {t} = Act \ {t} /\ WAct' \ {t} = WAct \ {t}
       /\ Act' \in SUBSET Tasks /\ WAct' \in SUBSET Tasks
  BY <1>1, <1>10, <1>11 DEF Act, WAct
<1>14. /\ t \in Act <=> pc[t] \notin {"idle", "rwsem_wake"}
       /\ t \in Act' <=> to \notin {"idle", "rwsem_wake"}
       /\ t \in WAct <=> pc[t] \in {"writing", "write_failed"}
       /\ t \in WAct' <=> to \in {"writing", "write_failed"}
  BY <1>1, <1>7, <1>10, <1>12 DEF Act, WAct, Free
<1>15. count' \in Int => Types'
  BY <1>0 DEF Types, Label, Free
<1>16. LockIsHeld'
  BY <1>0, <1>1, <1>2 DEF LockIsHeld, Free
<1>17. ListsAreExact'
  BY <1>0, <1>4, <1>5 DEF ListsAreExact, NotTold
<1>18. GrantedIsWoken'
  BY <1>0, <1>1 DEF GrantedIsWoken, Free
<1> QED
  BY <1>1, <1>4, <1>7, <1>9, <1>10, <1>13, <1>14, <1>15, <1>16, <1>17, <1>18

(* While readers are about to be taken off the list, somebody is active.   *)
LEMMA WakerIsActive ==
  ASSUME IInv, NEW u \in Tasks, pc[u] = "wake_readers"
  PROVE  Act # {}
  BY DEF Act, ReadHolders, Readers, Tries, DoWake

(* A step that moves one task into the active ones or out of them, and     *)
(* leaves the queue alone.                                                 *)
LEMMA MoveCount ==
  ASSUME IInv, NEW t, NEW d \in {-1, 0, 1}, NEW e \in {-1, 0, 1},
         Act' \in SUBSET Tasks, WAct' \in SUBSET Tasks,
         Moves(Act, Act', t, d), Moves(WAct, WAct', t, e),
         count' = count + d + WAITING_BIAS * e, wait_list' = wait_list
  PROVE  /\ CountIsExact' /\ count' \in Int
         /\ Active(count') = 0 <=> Act' = {}
         /\ count' >= 0 <=> WAct' = {} /\ wait_list = <<>>
         /\ count' = 0 <=> Act' = {} /\ WAct' = {} /\ wait_list = <<>>
<1>1. Cardinality(Act') = Cardinality(Act) + d /\ Cardinality(WAct') = Cardinality(WAct) + e
  <2>1. Act \in SUBSET Tasks /\ WAct \in SUBSET Tasks
    BY CountTells
  <2>2. Cardinality(Act') = Cardinality(Act) + d
    BY <2>1, MoveFacts
  <2>3. Cardinality(WAct') = Cardinality(WAct) + e
    BY <2>1, MoveFacts
  <2> QED
    BY <2>2, <2>3
<1>2. PICK l \in Nat : l = Len(wait_list) /\ l = Len(wait_list')
  BY DEF IInv, Types
<1>3. l = 0 <=> wait_list = <<>>
  BY <1>2 DEF IInv, Types
<1>4. Cardinality(WAct') + l = Cardinality(WAct) + Len(wait_list) + e /\ d \in Int /\ e \in Int
  BY <1>1, <1>2, CountTells
<1>5. /\ count' = Cardinality(Act') + WAITING_BIAS * (Cardinality(WAct') + l)
      /\ count' \in Int
      /\ Active(count') = 0 <=> Act' = {}
      /\ count' >= 0 <=> WAct' = {} /\ l = 0
      /\ count' = 0 <=> Act' = {} /\ WAct' = {} /\ l = 0
  BY <1>1, <1>4, CountStep
<1> QED
  BY <1>2, <1>3, <1>5 DEF CountIsExact, High

(* A locker that got the semaphore by changing count. *)
LEMMA AcquireInv ==
  ASSUME IInv, NEW t \in Tasks, pc[t] = "idle", NEW to \in {"reading", "writing"},
         pc' = [pc EXCEPT ![t] = to],
         to = "reading" => count + 1 >= 0 /\ count' = count + ACTIVE_READ_BIAS,
         to = "writing" => count = 0 /\ count' = count + ACTIVE_WRITE_BIAS,
         UNCHANGED <<wait_lock, wait_list, flags, granted, batch, return, tstate>>
  PROVE  IInv' /\ AbsStep
<1>1. to \in Free /\ pc[t] \in Free
  BY DEF Free
<1>2. /\ Readers' \ {t} = Readers \ {t} /\ Writers' \ {t} = Writers \ {t}
      /\ ReadHolders' \ {t} = ReadHolders \ {t} /\ WriteHolders' \ {t} = WriteHolders \ {t}
      /\ Act' \ {t} = Act \ {t} /\ WAct' \ {t} = WAct \ {t}
      /\ Act' \in SUBSET Tasks /\ WAct' \in SUBSET Tasks
      /\ t \notin Readers /\ t \notin Writers /\ t \notin ReadHolders /\ t \notin WriteHolders
      /\ t \notin Act /\ t \notin WAct /\ t \in Act'
      /\ t \in Readers' <=> to = "reading"
      /\ t \in Writers' <=> to = "writing"
      /\ t \in ReadHolders' <=> to = "reading"
      /\ t \in WriteHolders' <=> to = "writing"
      /\ t \in WAct' <=> to = "writing"
  BY <1>1, FreeStep
<1>3. /\ High = 0 /\ WAct = {} /\ wait_list = <<>>
      /\ to = "writing" => Act = {}
      /\ count \in Int /\ Act \in SUBSET Tasks
  <2>1. count + 1 >= 0
    BY CountTells
  <2> QED
    BY <2>1, CountTells
<1>4. WriteHolders = {} /\ Writers = {} /\ (to = "writing" => ReadHolders = {} /\ Readers = {})
  BY <1>3 DEF WAct, Act, WriteHolders, ReadHolders
<1>5. CountIsExact' /\ count' \in Int
  <2>1. Moves(Act, Act', t, 1) /\ WAITING_BIAS \in Int
    BY <1>2, RWSemAssumption DEF Moves, WAITING_BIAS
  <2>2. CASE to = "reading"
    <3>1. Moves(WAct, WAct', t, 0)
      BY <1>2, <2>2 DEF Moves
    <3>2. count' = count + 1 + WAITING_BIAS * 0
      BY <1>3, <2>1, <2>2 DEF ACTIVE_READ_BIAS, ACTIVE_BIAS
    <3> QED
      BY <1>2, <2>1, <3>1, <3>2, MoveCount
  <2>3. CASE to = "writing"
    <3>1. Moves(WAct, WAct', t, 1)
      BY <1>2, <2>3 DEF Moves
    <3>2. count' = count + 1 + WAITING_BIAS * 1
      BY <1>3, <2>1, <2>3 DEF ACTIVE_WRITE_BIAS, ACTIVE_BIAS
    <3> QED
      BY <1>2, <2>1, <3>1, <3>2, MoveCount
  <2> QED
    BY <2>2, <2>3
<1>6. Types' /\ LockIsHeld' /\ ListsAreExact' /\ GrantedIsWoken'
  BY <1>1, <1>5, FreeStep
<1>7. Exclusion'
  <2>1. \A w \in WriteHolders' : ReadHolders' = {} /\ WriteHolders' = {w}
    BY <1>2, <1>4
  <2>2. ASSUME NEW u \in Tasks, pc'[u] = "wake_readers"
        PROVE  WriteHolders' = {} /\ FrontIs("read")'
    <3>1. pc[u] = "wake_readers"
      BY <1>1, <2>2, FreeStep
    <3>2. Act # {}
      BY <3>1, WakerIsActive
    <3>3. to # "writing"
      BY <1>3, <3>2
    <3>4. FrontIs("read")
      BY <3>1 DEF IInv, Exclusion
    <3> QED
      BY <1>2, <1>4, <3>3, <3>4 DEF FrontIs
  <2> QED
    BY <2>1, <2>2 DEF Exclusion
<1>8. QueueIsWatched'
  BY <1>2 DEF QueueIsWatched
<1>9. AbsStep
  <2>1. CASE to = "reading"
    <3>1. Abstract!AcquireRead(t)
      BY <1>2, <1>4, <2>1 DEF Abstract!AcquireRead
    <3> QED
      BY <3>1 DEF AbsStep, Abstract!Next
  <2>2. CASE to = "writing"
    <3>1. Abstract!AcquireWrite(t)
      BY <1>2, <1>4, <2>2 DEF Abstract!AcquireWrite
    <3> QED
      BY <3>1 DEF AbsStep, Abstract!Next
  <2> QED
    BY <2>1, <2>2
<1> QED
  BY <1>5, <1>6, <1>7, <1>8, <1>9 DEF IInv

(* A locker that did not get the semaphore: its bias stays in count until  *)
(* it has queued.                                                          *)
LEMMA FailInv ==
  ASSUME IInv, NEW t \in Tasks, pc[t] = "idle", NEW to \in {"read_failed", "write_failed"},
         pc' = [pc EXCEPT ![t] = to],
         to = "read_failed" => count' = count + ACTIVE_READ_BIAS,
         to = "write_failed" => count' = count + ACTIVE_WRITE_BIAS,
         UNCHANGED <<wait_lock, wait_list, flags, granted, batch, return, tstate>>
  PROVE  IInv' /\ AbsStep
<1>1. to \in Free /\ pc[t] \in Free
  BY DEF Free
<1>2. /\ Readers' \ {t} = Readers \ {t} /\ Writers' \ {t} = Writers \ {t}
      /\ ReadHolders' \ {t} = ReadHolders \ {t} /\ WriteHolders' \ {t} = WriteHolders \ {t}
      /\ Act' \ {t} = Act \ {t} /\ WAct' \ {t} = WAct \ {t}
      /\ Act' \in SUBSET Tasks /\ WAct' \in SUBSET Tasks
      /\ t \notin Readers /\ t \notin Writers /\ t \notin ReadHolders /\ t \notin WriteHolders
      /\ t \notin Readers' /\ t \notin Writers' /\ t \notin ReadHolders' /\ t \notin WriteHolders'
      /\ t \notin Act /\ t \notin WAct /\ t \in Act'
      /\ t \in WAct' <=> to = "write_failed"
      /\ \A u \in Tasks : pc'[u] = IF u = t THEN to ELSE pc[u]
  BY <1>1, FreeStep
<1>3. Readers' = Readers /\ Writers' = Writers /\ ReadHolders' = ReadHolders /\ WriteHolders' = WriteHolders
  BY <1>2
<1>4. CountIsExact' /\ count' \in Int
  <2>1. Moves(Act, Act', t, 1) /\ WAITING_BIAS \in Int /\ count \in Int
    BY <1>2, CountTells, RWSemAssumption DEF Moves, WAITING_BIAS
  <2>2. CASE to = "read_failed"
    <3>1. Moves(WAct, WAct', t, 0)
      BY <1>2, <2>2 DEF Moves
    <3>2. count' = count + 1 + WAITING_BIAS * 0
      BY <2>1, <2>2 DEF ACTIVE_READ_BIAS, ACTIVE_BIAS
    <3> QED
      BY <1>2, <2>1, <3>1, <3>2, MoveCount
  <2>3. CASE to = "write_failed"
    <3>1. Moves(WAct, WAct', t, 1)
      BY <1>2, <2>3 DEF Moves
    <3>2. count' = count + 1 + WAITING_BIAS * 1
      BY <2>1, <2>3 DEF ACTIVE_WRITE_BIAS, ACTIVE_BIAS
    <3> QED
      BY <1>2, <2>1, <3>1, <3>2, MoveCount
  <2> QED
    BY <2>2, <2>3
<1>5. Types' /\ LockIsHeld' /\ ListsAreExact' /\ GrantedIsWoken'
  BY <1>1, <1>4, FreeStep
<1>6. Exclusion'
  BY <1>2, <1>3 DEF IInv, Exclusion, FrontIs
<1>7. QueueIsWatched'
  BY <1>2 DEF QueueIsWatched
<1> QED
  BY <1>3, <1>4, <1>5, <1>6, <1>7 DEF IInv, AbsStep

(* A holder that changes count to give the semaphore back, or to go from   *)
(* writing to reading: if that leaves nobody active and somebody queued,   *)
(* it is the one to look at the queue.                                     *)
LEMMA ReleaseInv ==
  ASSUME IInv, NEW t \in Tasks, __up_read(t) \/ __up_write(t)
  PROVE  IInv' /\ AbsStep
<1> DEFINE to == pc'[t]
<1>1. /\ pc[t] \in {"reading", "writing"} /\ to \in {"idle", "rwsem_wake"}
      /\ pc' = [pc EXCEPT ![t] = to]
      /\ UNCHANGED <<wait_lock, wait_list, flags, granted, batch, return, tstate>>
  BY DEF IInv, Types, __up_read, __up_write, Goto
<1>2. /\ WAITING_BIAS \in Int /\ count \in Int
      /\ pc[t] = "reading" => count' = count - 1
      /\ pc[t] = "writing" => count' = count - (WAITING_BIAS + 1)
  BY CountTells, RWSemAssumption
  DEF __up_read, __up_write, Goto, WAITING_BIAS, ACTIVE_BIAS, ACTIVE_READ_BIAS, ACTIVE_WRITE_BIAS
<1>3. pc[t] \in Free /\ to \in Free
  BY <1>1 DEF Free
<1>4. /\ Readers' \ {t} = Readers \ {t} /\ Writers' \ {t} = Writers \ {t}
      /\ ReadHolders' \ {t} = ReadHolders \ {t} /\ WriteHolders' \ {t} = WriteHolders \ {t}
      /\ Act' \ {t} = Act \ {t} /\ WAct' \ {t} = WAct \ {t}
      /\ Act' \in SUBSET Tasks /\ WAct' \in SUBSET Tasks
      /\ t \notin Readers' /\ t \notin Writers' /\ t \notin ReadHolders' /\ t \notin WriteHolders'
      /\ t \in Act /\ t \notin Act' /\ t \notin WAct'
      /\ t \in Readers <=> pc[t] = "reading"
      /\ t \in Writers <=> pc[t] = "writing"
      /\ t \in WAct <=> pc[t] = "writing"
      /\ \A u \in Tasks : pc'[u] = IF u = t THEN to ELSE pc[u]
  <2> HIDE DEF to
  <2> QED
    BY <1>1, <1>3, FreeStep
<1>5. /\ CountIsExact' /\ count' \in Int
      /\ Active(count') = 0 <=> Act' = {}
      /\ count' >= 0 <=> WAct' = {} /\ wait_list = <<>>
      /\ count' = 0 <=> Act' = {} /\ WAct' = {} /\ wait_list = <<>>
  <2>1. Moves(Act, Act', t, -1)
    BY <1>4 DEF Moves
  <2>2. CASE pc[t] = "reading"
    <3>1. Moves(WAct, WAct', t, 0)
      BY <1>4, <2>2 DEF Moves
    <3>2. count' = count + (-1) + WAITING_BIAS * 0
      BY <1>2, <2>2
    <3> QED
      BY <1>1, <1>4, <2>1, <3>1, <3>2, MoveCount
  <2>3. CASE pc[t] = "writing"
    <3>1. Moves(WAct, WAct', t, -1)
      BY <1>4, <2>3 DEF Moves
    <3>2. count' = count + (-1) + WAITING_BIAS * (-1)
      BY <1>2, <2>3
    <3> QED
      BY <1>1, <1>4, <2>1, <3>1, <3>2, MoveCount
  <2> QED
    BY <1>1, <2>2, <2>3
<1>6. Types' /\ LockIsHeld' /\ ListsAreExact' /\ GrantedIsWoken'
  <2> HIDE DEF to
  <2> QED
    BY <1>1, <1>3, <1>5, FreeStep
<1>7. Exclusion'
  BY <1>1, <1>4 DEF IInv, Exclusion, FrontIs
<1>8. Act' = {} /\ wait_list # <<>> => to = "rwsem_wake"
  <2> SUFFICES ASSUME Act' = {}, wait_list # <<>> PROVE to = "rwsem_wake"
    OBVIOUS
  <2>1. Active(count') = 0 /\ count' < 0 /\ count' # 0
    BY <1>5
  <2>2. CASE pc[t] = "reading"
    <3>1. count' = count - ACTIVE_BIAS
      BY <1>2, <2>2 DEF ACTIVE_BIAS
    <3> QED
      BY <1>1, <2>1, <2>2, <3>1 DEF __up_read, __up_write, Goto, call_rwsem_wake, IInv, Types
  <2>3. CASE pc[t] = "writing"
    <3>1. Active(count - ACTIVE_BIAS) = Active(count')
      <4>1. PICK a \in {0}, h \in Nat : count' = a + WAITING_BIAS * h
        <5>1. Cardinality(Act') = 0 /\ High' \in Nat
          <6>1. Cardinality(Act') = 0 /\ Cardinality(WAct') \in Nat
            BY <1>4, TasksFinite
          <6>2. Len(wait_list') \in Nat
            BY <1>6 DEF Types
          <6> QED
            BY <6>1, <6>2 DEF High
        <5> QED
          BY <1>5, <5>1 DEF CountIsExact
      <4>2. count - ACTIVE_BIAS = a + WAITING_BIAS * (h + 1)
        <5>1. WAITING_BIAS * (h + 1) = WAITING_BIAS * h + WAITING_BIAS /\ WAITING_BIAS * h \in Int
          BY <1>2
        <5> QED
          BY <1>2, <2>3, <4>1, <5>1 DEF ACTIVE_BIAS
      <4>3. a \in 0 .. Cardinality(Tasks) /\ h + 1 \in Nat
        BY TasksFinite
      <4>4. Active(count') = a
        BY <4>1, <4>3, Halves
      <4>5. Active(a + WAITING_BIAS * (h + 1)) = a
        BY <4>3, Halves
      <4> QED
        BY <4>2, <4>4, <4>5
    <3> QED
      BY <1>1, <2>1, <2>3, <3>1 DEF __up_read, __up_write, Goto, call_rwsem_wake, IInv, Types
  <2> QED
    BY <1>1, <2>2, <2>3
<1>9. QueueIsWatched'
  BY <1>1, <1>4, <1>8 DEF IInv, QueueIsWatched
<1>10. AbsStep
  <2>1. CASE pc[t] = "reading"
    <3>1. Abstract!ReleaseRead(t)
      BY <1>4, <2>1 DEF Abstract!ReleaseRead
    <3> QED
      BY <3>1 DEF AbsStep, Abstract!Next
  <2>2. CASE pc[t] = "writing"
    <3>1. Abstract!ReleaseWrite(t)
      BY <1>4, <2>2 DEF Abstract!ReleaseWrite
    <3> QED
      BY <3>1 DEF AbsStep, Abstract!Next
  <2> QED
    BY <1>1, <2>1, <2>2
<1> QED
  BY <1>5, <1>6, <1>7, <1>9, <1>10 DEF IInv

(* __downgrade_write(): the writer becomes a reader. *)
LEMMA DowngradeInv ==
  ASSUME IInv, NEW t \in Tasks, __downgrade_write(t)
  PROVE  IInv' /\ AbsStep
<1>1. PICK to \in {"reading", "downgrade_wake"} :
        /\ pc[t] = "writing" /\ pc' = [pc EXCEPT ![t] = to]
        /\ UNCHANGED <<wait_lock, wait_list, flags, granted, batch, return, tstate>>
  BY DEF __downgrade_write, Goto
<1>2. pc[t] \in Free /\ to \in Free
  BY <1>1 DEF Free
<1>3. /\ Readers' \ {t} = Readers \ {t} /\ Writers' \ {t} = Writers \ {t}
      /\ ReadHolders' \ {t} = ReadHolders \ {t} /\ WriteHolders' \ {t} = WriteHolders \ {t}
      /\ Act' \ {t} = Act \ {t} /\ WAct' \ {t} = WAct \ {t}
      /\ Act' \in SUBSET Tasks /\ WAct' \in SUBSET Tasks
      /\ t \notin Writers' /\ t \in Readers' /\ t \notin WriteHolders' /\ t \in ReadHolders'
      /\ t \in Act /\ t \in Act' /\ t \in WAct /\ t \notin WAct'
      /\ t \in Writers /\ t \in WriteHolders
      /\ \A u \in Tasks : pc'[u] = IF u = t THEN to ELSE pc[u]
  BY <1>1, <1>2, FreeStep
<1>4. CountIsExact' /\ count' \in Int
  <2>1. Moves(Act, Act', t, 0) /\ Moves(WAct, WAct', t, -1)
    BY <1>3 DEF Moves
  <2>2. count' = count + 0 + WAITING_BIAS * (-1)
    BY CountTells, RWSemAssumption DEF __downgrade_write, WAITING_BIAS
  <2> QED
    BY <1>1, <1>3, <2>1, <2>2, MoveCount
<1>5. Types' /\ LockIsHeld' /\ ListsAreExact' /\ GrantedIsWoken'
  BY <1>1, <1>2, <1>4, FreeStep
<1>6. Exclusion'
  BY <1>1, <1>3 DEF IInv, Exclusion, FrontIs
<1>7. QueueIsWatched'
  BY <1>3 DEF QueueIsWatched
<1>8. Abstract!Downgrade(t)
  BY <1>3 DEF Abstract!Downgrade
<1> QED
  BY <1>4, <1>5, <1>6, <1>7, <1>8 DEF IInv, AbsStep, Abstract!Next

(* rwsem_wake() with nobody queued, and rwsem_downgrade_wake() with no     *)
(* reader at the front.                                                    *)
LEMMA NobodyToWakeInv ==
  ASSUME IInv, NEW t \in Tasks,
         \/ wait_list = <<>> /\ Goto(t, "rwsem_wake", "idle")
         \/ Goto(t, "downgrade_wake", "reading"),
         UNCHANGED <<count, wait_lock, wait_list, flags, granted, batch, return, tstate>>
  PROVE  IInv' /\ AbsStep
<1>1. PICK to \in {"idle", "reading"} :
        /\ pc' = [pc EXCEPT ![t] = to]
        /\ \/ pc[t] = "rwsem_wake" /\ to = "idle" /\ wait_list = <<>>
           \/ pc[t] = "downgrade_wake" /\ to = "reading"
  BY DEF Goto
<1>2. pc[t] \in Free /\ to \in Free
  BY <1>1 DEF Free
<1>3. /\ Readers' \ {t} = Readers \ {t} /\ Writers' \ {t} = Writers \ {t}
      /\ ReadHolders' \ {t} = ReadHolders \ {t} /\ WriteHolders' \ {t} = WriteHolders \ {t}
      /\ Act' \ {t} = Act \ {t} /\ WAct' \ {t} = WAct \ {t}
      /\ t \in Readers' <=> t \in Readers
      /\ t \in Writers' <=> t \in Writers
      /\ t \in ReadHolders' <=> t \in ReadHolders
      /\ t \in WriteHolders' <=> t \in WriteHolders
      /\ t \in Act' <=> t \in Act
      /\ t \in WAct' <=> t \in WAct
      /\ \A u \in Tasks : pc'[u] = IF u = t THEN to ELSE pc[u]
  BY <1>1, <1>2, FreeStep
<1>4. /\ Readers' = Readers /\ Writers' = Writers
      /\ ReadHolders' = ReadHolders /\ WriteHolders' = WriteHolders
      /\ Act' = Act /\ WAct' = WAct
  <2>0. ASSUME NEW S, NEW T, S \ {t} = T \ {t}, t \in S <=> t \in T
        PROVE  S = T
    <3>1. ASSUME NEW x PROVE x \in S <=> x \in T
      <4>1. x # t => (x \in S <=> x \in S \ {t}) /\ (x \in T <=> x \in T \ {t})
        OBVIOUS
      <4> QED
        BY <2>0, <4>1
    <3> QED
      BY <3>1
  <2>1. Readers' = Readers /\ Writers' = Writers
    BY <1>3, <2>0
  <2>2. ReadHolders' = ReadHolders /\ WriteHolders' = WriteHolders
    BY <1>3, <2>0
  <2>3. Act' = Act /\ WAct' = WAct
    BY <1>3, <2>0
  <2> QED
    BY <2>1, <2>2, <2>3
<1>5. CountIsExact' /\ count' \in Int
  BY <1>4, CountTells DEF IInv, CountIsExact, High
<1>6. Types' /\ LockIsHeld' /\ ListsAreExact' /\ GrantedIsWoken'
  BY <1>1, <1>2, <1>5, FreeStep
<1>7. Exclusion'
  BY <1>1, <1>3, <1>4 DEF IInv, Exclusion, FrontIs
<1>8. QueueIsWatched'
  BY <1>1, <1>3, <1>4 DEF IInv, QueueIsWatched
<1> QED
  BY <1>4, <1>5, <1>6, <1>7, <1>8 DEF IInv, AbsStep

------------------------------------------------------------------------------
(* rwsem_down_failed_common(): the locker queues, and gives back its share *)
(* of the active part; who finds that nobody is active then wakes the      *)
(* front, itself perhaps.                                                  *)
LEMMA QueueInv ==
  ASSUME IInv, NEW t \in Tasks, rwsem_down_read_failed(t) \/ rwsem_down_write_failed(t)
  PROVE  IInv' /\ AbsStep
<1>0. Types /\ LockIsHeld /\ ListsAreExact /\ GrantedIsWoken
  BY DEF IInv
<1>1. PICK flag \in {"read", "write"}, adjustment \in Int :
        /\ FailedCommon(t, pc[t], flag, adjustment)
        /\ \/ pc[t] = "read_failed" /\ flag = "read" /\ adjustment = WAITING_BIAS - ACTIVE_BIAS
           \/ pc[t] = "write_failed" /\ flag = "write" /\ adjustment = -ACTIVE_BIAS
  <2>0. WAITING_BIAS - ACTIVE_BIAS \in Int /\ -ACTIVE_BIAS \in Int
    BY RWSemAssumption DEF WAITING_BIAS, ACTIVE_BIAS
  <2>1. CASE rwsem_down_read_failed(t)
    BY <2>0, <2>1 DEF rwsem_down_read_failed, FailedCommon, Goto
  <2>2. CASE rwsem_down_write_failed(t)
    BY <2>0, <2>2 DEF rwsem_down_write_failed, FailedCommon, Goto
  <2> QED
    BY <2>1, <2>2
<1>2. /\ wait_lock = Null
      /\ tstate' = [tstate EXCEPT ![t] = TASK_UNINTERRUPTIBLE]
      /\ wait_list' = list_add_tail(wait_list, t)
      /\ flags' = [flags EXCEPT ![t] = flag]
      /\ granted' = [granted EXCEPT ![t] = FALSE]
      /\ count' = count + adjustment
      /\ batch' = batch
  BY <1>1 DEF FailedCommon
<1>3. PICK to \in {"wait", "try_wake"} :
        /\ pc' = [pc EXCEPT ![t] = to]
        /\ to = "try_wake" => Active(count') = 0 /\ wait_lock' = t /\ return' = [return EXCEPT ![t] = "wait"]
        /\ to = "wait" => Active(count') # 0 /\ wait_lock' = Null /\ return' = return
  BY <1>1, <1>2 DEF FailedCommon, Goto
<1>4. \A u \in Tasks : /\ pc'[u] = (IF u = t THEN to ELSE pc[u])
                       /\ flags'[u] = (IF u = t THEN flag ELSE flags[u])
                       /\ granted'[u] = (IF u = t THEN FALSE ELSE granted[u])
                       /\ u # t => return'[u] = return[u]
                       /\ to = "try_wake" => return'[t] = "wait"
  BY <1>0, <1>2, <1>3 DEF Types
<1>5. Promised = {} /\ \A u \in Tasks : ~DoWake(u)
  BY <1>2, LockFacts
<1>6. \A u \in Tasks : u # t => ~DoWake(u)' /\ (u \in Waiting' <=> u \in Waiting)
  BY <1>4, <1>5 DEF DoWake, Waiting
<1>7. t \in Waiting' /\ t \notin Waiting /\ (DoWake(t)' <=> to = "try_wake")
  BY <1>1, <1>4 DEF DoWake, Waiting
<1>8. Waiting' = Waiting \cup {t} /\ Waiting \subseteq Tasks
  BY <1>6, <1>7 DEF Waiting
<1>9. Promised' = {}
  <2>1. \A u \in Tasks : Pend(u)' = {}
    BY <1>3, <1>4, <1>5 DEF Pend, DoWake
  <2> QED
    BY <2>1 DEF Promised
<1>10. Readers' = Readers /\ Writers' = Writers /\ t \notin Readers /\ t \notin Writers
  <2>1. t \notin Readers /\ t \notin Writers /\ t \notin Readers' /\ t \notin Writers'
    BY <1>1, <1>4, <1>5, <1>7 DEF Readers, Writers, DoWake
  <2>2. \A u \in Tasks : u # t => (u \in Readers' <=> u \in Readers) /\ (u \in Writers' <=> u \in Writers)
    BY <1>4, <1>5, <1>6 DEF Readers, Writers
  <2> QED
    BY <2>1, <2>2 DEF Readers, Writers
<1>11. /\ ReadHolders = Readers /\ ReadHolders' = Readers
       /\ WriteHolders = Writers /\ WriteHolders' = Writers
  BY <1>5, <1>9, <1>10 DEF ReadHolders, WriteHolders
<1>12. /\ Act' = Act \ {t} /\ t \in Act
       /\ WAct' = WAct \ {t} /\ (t \in WAct <=> pc[t] = "write_failed")
  <2>1. \A u \in Tasks : ~Tries(u) /\ ~Tries(u)'
    BY <1>3, <1>4, <1>5 DEF Tries, DoWake
  <2> QED
    BY <1>1, <1>4, <1>10, <1>11, <2>1 DEF Act, WAct
<1>13. /\ wait_list' \in Seq(Tasks) /\ wait_list' # <<>> /\ ListOK(wait_list')
       /\ ListEntries(wait_list') = ListEntries(wait_list) \cup {t}
       /\ Len(wait_list') = Len(wait_list) + 1 /\ Len(wait_list) \in Nat
  <2>1. t \notin ListEntries(wait_list)
    BY <1>7, LockFacts
  <2>2. wait_list \in Seq(Tasks) /\ ListOK(wait_list)
    BY <1>0 DEF Types, ListsAreExact
  <2> QED
    BY <1>2, <2>1, <2>2, AddTailFacts DEF list_add_tail
<1>14. /\ CountIsExact' /\ count' \in Int
       /\ Active(count') = 0 <=> Act' = {}
  <2>1. PICK e \in {-1, 0} : Moves(WAct, WAct', t, e) /\ (e = -1 <=> pc[t] = "write_failed")
    BY <1>12 DEF Moves
  <2>2. Moves(Act, Act', t, -1)
    BY <1>12 DEF Moves
  <2>3. Act \in SUBSET Tasks /\ WAct \in SUBSET Tasks /\ Act' \in SUBSET Tasks /\ WAct' \in SUBSET Tasks
    BY <1>12, CountTells
  <2>4. Cardinality(Act') = Cardinality(Act) + (-1) /\ Cardinality(WAct') = Cardinality(WAct) + e
    BY <2>1, <2>2, <2>3, MoveFacts
  <2>5. PICK k \in Int : k = 1 + e
    BY <2>1
  <2>6. count' = count + (-1) + WAITING_BIAS * k
    <3>1. WAITING_BIAS \in Int /\ count \in Int
      BY CountTells, RWSemAssumption DEF WAITING_BIAS
    <3>2. CASE pc[t] = "write_failed"
      BY <1>1, <1>2, <2>1, <2>5, <3>1, <3>2 DEF ACTIVE_BIAS
    <3>3. CASE pc[t] = "read_failed"
      BY <1>1, <1>2, <2>1, <2>5, <3>1, <3>3 DEF ACTIVE_BIAS
    <3> QED
      BY <1>1, <3>2, <3>3
  <2>7. /\ Cardinality(WAct') + Len(wait_list') = Cardinality(WAct) + Len(wait_list) + k
        /\ Len(wait_list') \in Nat
    BY <1>13, <2>4, <2>5, CountTells
  <2>8. /\ count' = Cardinality(Act') + WAITING_BIAS * (Cardinality(WAct') + Len(wait_list'))
        /\ count' \in Int /\ (Active(count') = 0 <=> Act' = {})
    BY <2>3, <2>4, <2>6, <2>7, CountStep
  <2> QED
    BY <2>8 DEF CountIsExact, High
<1>15. Types'
  BY <1>0, <1>2, <1>3, <1>13, <1>14 DEF Types, Label, TaskState, SleepState
<1>16. LockIsHeld'
  <2>1. \A u \in Tasks : wait_lock' = u <=> DoWake(u)'
    BY <1>3, <1>6, <1>7, RWSemAssumption
  <2>2. \A u \in Tasks :
          /\ pc'[u] \notin {"grant", "wake_up"}
          /\ pc'[u] \in {"try_wake", "undo"} => u = t /\ return'[u] # "reading"
          /\ pc'[u] \in {"try_wake", "undo", "wake_readers"} => ~granted'[u]
    <3>1. \A u \in Tasks :
            u # t => pc'[u] \notin {"try_wake", "undo", "grant", "wake_up", "wake_readers"}
      BY <1>4, <1>5 DEF DoWake
    <3>2. pc'[t] = to /\ (to = "try_wake" => return'[t] = "wait") /\ ~granted'[t]
      BY <1>4
    <3> QED
      BY <1>3, <3>1, <3>2
  <2> QED
    BY <1>13, <2>1, <2>2 DEF LockIsHeld
<1>17. ListsAreExact'
  <2>1. NotTold' = NotTold \cup {t}
    BY <1>4, <1>8 DEF NotTold
  <2> QED
    BY <1>0, <1>5, <1>9, <1>13, <2>1 DEF ListsAreExact
<1>18. Exclusion'
  <2>1. \A u \in Tasks : pc'[u] # "wake_readers"
    BY <1>3, <1>4, <1>5 DEF DoWake
  <2> QED
    BY <1>11, <2>1 DEF IInv, Exclusion
<1>19. QueueIsWatched'
  BY <1>3, <1>4, <1>14 DEF QueueIsWatched
<1>20. GrantedIsWoken'
  <2>1. \A u \in Tasks : u # t => tstate'[u] = tstate[u]
    BY <1>0, <1>2 DEF Types
  <2>2. \A u \in Tasks : pc[u] # "wake_up"
    BY <1>5 DEF DoWake
  <2>3. SUFFICES ASSUME NEW u \in Tasks, pc'[u] = "schedule", granted'[u]
                 PROVE  tstate'[u] = TASK_RUNNING
    BY DEF GrantedIsWoken
  <2>4. u # t /\ pc[u] = "schedule" /\ granted[u]
    BY <1>3, <1>4, <2>3
  <2> QED
    BY <1>0, <2>1, <2>2, <2>4 DEF GrantedIsWoken
<1> QED
  BY <1>10, <1>14, <1>15, <1>16, <1>17, <1>18, <1>19, <1>20 DEF IInv, AbsStep

(* A waiter looks whether it was told, sleeps and wakes up. *)
LEMMA SleepInv ==
  ASSUME IInv, NEW t \in Tasks, NEW to \in {"wait", "schedule"}, pc[t] \in {"wait", "schedule"},
         pc' = [pc EXCEPT ![t] = to], to = "schedule" => ~granted[t] \/ tstate'[t] = TASK_RUNNING,
         NEW s \in TaskState, tstate' = [tstate EXCEPT ![t] = s],
         UNCHANGED <<count, wait_lock, wait_list, flags, granted, batch, return>>
  PROVE  IInv' /\ AbsStep
<1>0. Types /\ LockIsHeld /\ ListsAreExact /\ GrantedIsWoken
  BY DEF IInv
<1>1. \A u \in Tasks : /\ pc'[u] = (IF u = t THEN to ELSE pc[u])
                       /\ u # t => tstate'[u] = tstate[u]
  BY <1>0 DEF Types
<1>2. \A u \in Tasks : /\ DoWake(u)' = DoWake(u) /\ Tries(u)' = Tries(u) /\ Pend(u)' = Pend(u)
                       /\ u \in Waiting' <=> u \in Waiting
  BY <1>1 DEF DoWake, Tries, Pend, Waiting
<1>3. Waiting' = Waiting /\ Promised' = Promised
  BY <1>2 DEF Waiting, Promised
<1>4. Readers' = Readers /\ Writers' = Writers
  BY <1>1, <1>2, <1>3 DEF Readers, Writers
<1>5. ReadHolders' = ReadHolders /\ WriteHolders' = WriteHolders
  BY <1>3, <1>4 DEF ReadHolders, WriteHolders
<1>6. Act' = Act /\ WAct' = WAct
  BY <1>1, <1>2, <1>5 DEF Act, WAct
<1>7. Types'
  BY <1>0 DEF Types, Label
<1>8. LockIsHeld'
  BY <1>0, <1>1, <1>2 DEF LockIsHeld
<1>9. ListsAreExact' /\ CountIsExact'
  BY <1>3, <1>6 DEF IInv, ListsAreExact, NotTold, CountIsExact, High
<1>10. Exclusion' /\ QueueIsWatched'
  BY <1>1, <1>5, <1>6 DEF IInv, Exclusion, QueueIsWatched, FrontIs
<1>11. GrantedIsWoken'
  BY <1>0, <1>1 DEF GrantedIsWoken
<1> QED
  BY <1>4, <1>7, <1>8, <1>9, <1>10, <1>11 DEF IInv, AbsStep

(* A waiter that was told returns with the semaphore. *)
LEMMA ToldInv ==
  ASSUME IInv, NEW t \in Tasks, WaitTest(t), granted[t]
  PROVE  IInv' /\ AbsStep
<1>0. Types /\ LockIsHeld /\ ListsAreExact /\ GrantedIsWoken
  BY DEF IInv
<1> DEFINE to == IF flags[t] = "read" THEN "reading" ELSE "writing"
<1>1. /\ pc[t] = "wait" /\ pc' = [pc EXCEPT ![t] = to]
      /\ tstate' = [tstate EXCEPT ![t] = TASK_RUNNING]
      /\ flags' = [flags EXCEPT ![t] = "read"]
      /\ granted' = [granted EXCEPT ![t] = FALSE]
      /\ UNCHANGED <<count, wait_lock, wait_list, batch, return>>
  BY DEF WaitTest, Goto
<1>2. \A u \in Tasks : /\ pc'[u] = (IF u = t THEN to ELSE pc[u])
                       /\ flags'[u] = (IF u = t THEN "read" ELSE flags[u])
                       /\ granted'[u] = (IF u = t THEN FALSE ELSE granted[u])
                       /\ u # t => tstate'[u] = tstate[u]
  BY <1>0, <1>1 DEF Types
<1>3. \A u \in Tasks : /\ DoWake(u)' = DoWake(u) /\ Tries(u)' = Tries(u) /\ Pend(u)' = Pend(u)
                       /\ u # t => (u \in Waiting' <=> u \in Waiting)
  BY <1>1, <1>2 DEF DoWake, Tries, Pend, Waiting
<1>4. /\ Promised' = Promised /\ t \notin Promised /\ Promised \subseteq Tasks
      /\ t \notin ListEntries(wait_list)
  BY <1>3, LockFacts, CountTells DEF Promised
<1>5. t \in Waiting /\ t \notin Waiting' /\ ~DoWake(t)
  <2>1. pc'[t] \in {"reading", "writing"}
    BY <1>2
  <2> HIDE DEF to
  <2> QED
    BY <1>1, <2>1 DEF Waiting, DoWake
<1>6. flags[t] \in {"read", "write"}
  BY <1>0 DEF Types
<1>7. (t \in Readers <=> flags[t] = "read") /\ (t \in Writers <=> flags[t] = "write")
  BY <1>1, <1>5 DEF Readers, Writers
<1>8. (t \in Readers' <=> flags[t] = "read") /\ (t \in Writers' <=> flags[t] = "write")
  BY <1>2, <1>3, <1>5, <1>6 DEF Readers, Writers
<1>9. \A u \in Tasks : u # t => (u \in Readers' <=> u \in Readers) /\ (u \in Writers' <=> u \in Writers)
  BY <1>1, <1>2, <1>3 DEF Readers, Writers
<1>10. Readers' = Readers /\ Writers' = Writers
  BY <1>7, <1>8, <1>9 DEF Readers, Writers
<1>11. ReadHolders' = ReadHolders /\ WriteHolders' = WriteHolders
  BY <1>2, <1>4, <1>10 DEF ReadHolders, WriteHolders
<1>12. Act' = Act /\ WAct' = WAct
  BY <1>1, <1>2, <1>3, <1>11 DEF Act, WAct
<1>13. Types'
  BY <1>0, <1>1 DEF Types, Label, TaskState
<1>14. LockIsHeld'
  BY <1>0, <1>1, <1>2, <1>3 DEF LockIsHeld
<1>15. ListsAreExact' /\ CountIsExact'
  <2>1. NotTold' = NotTold
    BY <1>2, <1>3, <1>5 DEF NotTold, Waiting
  <2> QED
    BY <1>1, <1>4, <1>12, <2>1 DEF IInv, ListsAreExact, CountIsExact, High
<1>16. Exclusion'
  <2>1. \A u \in Tasks : pc'[u] = "wake_readers" => pc[u] = "wake_readers"
    BY <1>2
  <2>2. FrontIs("read") => FrontIs("read")'
    <3>1. wait_list # <<>> => Head(wait_list) \in ListEntries(wait_list) /\ Head(wait_list) \in Tasks
      BY <1>0, FirstFacts DEF Types
    <3> QED
      BY <1>1, <1>2, <1>4, <3>1 DEF FrontIs
  <2> QED
    BY <1>11, <2>1, <2>2 DEF IInv, Exclusion
<1>17. QueueIsWatched'
  BY <1>1, <1>2, <1>12 DEF IInv, QueueIsWatched
<1>18. GrantedIsWoken'
  BY <1>0, <1>1, <1>2 DEF GrantedIsWoken
<1> QED
  BY <1>10, <1>13, <1>14, <1>15, <1>16, <1>17, <1>18 DEF IInv, AbsStep

(* The waiting loop of rwsem_down_failed_common(). *)
LEMMA WaitInv ==
  ASSUME IInv, NEW t \in Tasks, WaitTest(t) \/ Woken(t)
  PROVE  IInv' /\ AbsStep
<1>0. Types
  BY DEF IInv
<1>1. CASE WaitTest(t) /\ granted[t]
  BY <1>1, ToldInv
<1>2. CASE WaitTest(t) /\ ~granted[t]
  <2>1. /\ pc[t] = "wait" /\ pc' = [pc EXCEPT ![t] = "schedule"]
        /\ UNCHANGED <<count, wait_lock, wait_list, flags, granted, batch, return, tstate>>
    BY <1>2 DEF WaitTest, Goto
  <2>2. PICK s \in TaskState : tstate' = [tstate EXCEPT ![t] = s]
    <3>1. tstate' = [tstate EXCEPT ![t] = tstate[t]] /\ tstate[t] \in TaskState
      BY <1>0, <2>1 DEF Types
    <3> QED
      BY <3>1
  <2> QED
    BY <1>2, <2>1, <2>2, SleepInv
<1>3. CASE Woken(t)
  <2>1. /\ pc[t] = "schedule" /\ pc' = [pc EXCEPT ![t] = "wait"]
        /\ tstate' = [tstate EXCEPT ![t] = TASK_UNINTERRUPTIBLE]
        /\ UNCHANGED <<count, wait_lock, wait_list, flags, granted, batch, return>>
    BY <1>3 DEF Woken, Goto
  <2>2. TASK_UNINTERRUPTIBLE \in TaskState
    BY DEF TaskState, SleepState
  <2> QED
    BY <2>1, <2>2, SleepInv
<1> QED
  BY <1>1, <1>2, <1>3

------------------------------------------------------------------------------
(* rwsem_wake() with somebody queued, and rwsem_downgrade_wake() with a    *)
(* reader at the front: into __rwsem_do_wake(), with wait_lock.            *)
LEMMA StartWakeInv ==
  ASSUME IInv, NEW t \in Tasks, wait_lock = Null, wait_lock' = t,
         NEW to \in {"try_wake", "wake_readers"}, NEW r \in {"idle", "reading"},
         \/ pc[t] = "rwsem_wake" /\ to = "try_wake" /\ r = "idle" /\ wait_list # <<>>
         \/ pc[t] = "downgrade_wake" /\ to = "wake_readers" /\ r = "reading" /\ FrontIs("read"),
         pc' = [pc EXCEPT ![t] = to], return' = [return EXCEPT ![t] = r],
         UNCHANGED <<count, wait_list, flags, granted, batch, tstate>>
  PROVE  IInv' /\ AbsStep
<1>0. Types /\ LockIsHeld /\ ListsAreExact /\ GrantedIsWoken
  BY DEF IInv
<1>1. \A u \in Tasks : /\ pc'[u] = (IF u = t THEN to ELSE pc[u])
                       /\ return'[u] = (IF u = t THEN r ELSE return[u])
  BY <1>0 DEF Types
<1>2. Promised = {} /\ \A u \in Tasks : ~DoWake(u)
  BY LockFacts
<1>3. \A u \in Tasks : u # t => ~DoWake(u)' /\ ~Tries(u)'
  BY <1>1, <1>2 DEF DoWake, Tries
<1>4. DoWake(t)' /\ ~Tries(t)' /\ ~Tries(t)
  BY <1>1 DEF DoWake, Tries
<1>5. Waiting' = Waiting
  BY <1>1, <1>2, <1>3, <1>4 DEF Waiting
<1>6. Promised' = {}
  <2>1. \A u \in Tasks : Pend(u)' = {}
    BY <1>1, <1>3 DEF Pend, DoWake
  <2> QED
    BY <2>1 DEF Promised
<1>7. t \notin Waiting
  BY <1>2 DEF Waiting
<1>8. (t \in Readers' <=> t \in Readers) /\ (t \in Writers' <=> t \in Writers)
  BY <1>1, <1>2, <1>4, <1>5, <1>7 DEF Readers, Writers
<1>9. \A u \in Tasks : u # t => (u \in Readers' <=> u \in Readers) /\ (u \in Writers' <=> u \in Writers)
  BY <1>1, <1>2, <1>3, <1>5 DEF Readers, Writers
<1>10. Readers' = Readers /\ Writers' = Writers
  BY <1>8, <1>9 DEF Readers, Writers
<1>11. /\ ReadHolders' = ReadHolders /\ WriteHolders' = WriteHolders
       /\ ReadHolders = Readers /\ WriteHolders = Writers
  BY <1>2, <1>6, <1>10 DEF ReadHolders, WriteHolders
<1>12. Act' = Act /\ WAct' = WAct
  <2>1. \A u \in Tasks : ~Tries(u)
    BY <1>2 DEF Tries, DoWake
  <2> QED
    BY <1>1, <1>3, <1>4, <1>11, <2>1 DEF Act, WAct
<1>13. Types'
  BY <1>0 DEF Types, Label
<1>14. LockIsHeld'
  <2>1. \A u \in Tasks : wait_lock' = u <=> DoWake(u)'
    BY <1>3, <1>4
  <2>2. \A u \in Tasks : u # t =>
           pc'[u] \notin {"try_wake", "undo", "grant", "wake_up", "wake_readers"}
    BY <1>3 DEF DoWake
  <2>3. /\ pc'[t] \notin {"grant", "wake_up"}
        /\ pc'[t] \in {"try_wake", "undo"} => return'[t] # "reading" /\ wait_list' # <<>>
        /\ return'[t] # "wait"
    BY <1>1
  <2> QED
    BY <2>1, <2>2, <2>3 DEF LockIsHeld
<1>15. ListsAreExact' /\ CountIsExact'
  BY <1>2, <1>5, <1>6, <1>12 DEF IInv, ListsAreExact, NotTold, CountIsExact, High
<1>16. Exclusion'
  <2>1. \A u \in Tasks : u # t => pc'[u] # "wake_readers"
    BY <1>3 DEF DoWake
  <2>2. pc'[t] = "wake_readers" => t \in Readers /\ FrontIs("read")'
    BY <1>1 DEF Readers, FrontIs
  <2> QED
    BY <1>11, <2>1, <2>2 DEF IInv, Exclusion
<1>17. QueueIsWatched'
  <2>1. pc[t] = "downgrade_wake" => t \in Act
    BY DEF Act, ReadHolders, Readers
  <2> QED
    BY <1>1, <1>12, <2>1 DEF IInv, QueueIsWatched
<1>18. GrantedIsWoken'
  BY <1>0, <1>1 DEF GrantedIsWoken
<1> QED
  BY <1>10, <1>13, <1>14, <1>15, <1>16, <1>17, <1>18 DEF IInv, AbsStep

(* __rwsem_do_wake() adds its increment to the active part, or takes it    *)
(* back; with the latter it may be done.                                   *)
LEMMA TryStep ==
  ASSUME IInv, NEW t \in Tasks, pc[t] \in {"try_wake", "undo"},
         NEW to \in {"try_wake", "undo", "wake_readers", "idle", "wait"},
         pc' = [pc EXCEPT ![t] = to],
         \/ /\ pc[t] = "try_wake" /\ to \in {"undo", "wake_readers"}
            /\ count' = count + ACTIVE_BIAS
            /\ to = "wake_readers" => Active(count) = 0 /\ FrontIs("read")
            /\ UNCHANGED <<wait_lock, return>>
         \/ /\ pc[t] = "undo" /\ to = "try_wake"
            /\ count' = count - ACTIVE_BIAS
            /\ UNCHANGED <<wait_lock, return>>
         \/ /\ pc[t] = "undo" /\ to = return[t]
            /\ count' = count - ACTIVE_BIAS /\ Active(count') # 0
            /\ wait_lock' = Null /\ return' = [return EXCEPT ![t] = "idle"],
         UNCHANGED <<wait_list, flags, granted, batch, tstate>>
  PROVE  IInv' /\ AbsStep
<1>0. Types /\ LockIsHeld /\ ListsAreExact /\ GrantedIsWoken
  BY DEF IInv
<1>1. \A u \in Tasks : /\ pc'[u] = (IF u = t THEN to ELSE pc[u])
                       /\ u # t => return'[u] = return[u]
  BY <1>0 DEF Types
<1>2. /\ DoWake(t) /\ wait_lock = t /\ \A u \in Tasks : u # t => ~DoWake(u)
      /\ return[t] \in {"idle", "wait"} /\ wait_list # <<>>
      /\ return[t] = "wait" => ~granted[t]
  <2>1. DoWake(t)
    BY DEF DoWake
  <2> QED
    BY <1>0, <2>1, LockFacts DEF LockIsHeld, Types
<1>3. Promised = {}
  BY <1>2, LockFacts DEF Pend
<1>4. to \in {"try_wake", "undo", "wake_readers"} => return' = return /\ wait_lock' = t
  BY <1>2
<1>5. to \in {"idle", "wait"} => to = return[t] /\ wait_lock' = Null
  OBVIOUS
<1>6. \A u \in Tasks : u # t => ~DoWake(u)' /\ ~Tries(u)' /\ ~Tries(u)
  BY <1>1, <1>2 DEF DoWake, Tries
<1>7. /\ DoWake(t)' <=> to \in {"try_wake", "undo", "wake_readers"}
      /\ Tries(t) <=> pc[t] = "undo"
      /\ Tries(t)' <=> to \in {"undo", "wake_readers"}
  BY <1>1, <1>2, <1>4 DEF DoWake, Tries
<1>8. Promised' = {}
  <2>1. \A u \in Tasks : Pend(u)' = {}
    BY <1>1, <1>6 DEF Pend, DoWake
  <2> QED
    BY <2>1 DEF Promised
<1>9. Waiting' = Waiting
  <2>1. \A u \in Tasks : u # t => (u \in Waiting' <=> u \in Waiting)
    BY <1>1, <1>2, <1>6 DEF Waiting
  <2>2. t \in Waiting' <=> t \in Waiting
    BY <1>1, <1>2, <1>4, <1>5, <1>7 DEF Waiting
  <2> QED
    BY <2>1, <2>2 DEF Waiting
<1>10. Readers' = Readers /\ Writers' = Writers
  <2>1. \A u \in Tasks : u # t => (u \in Readers' <=> u \in Readers) /\ (u \in Writers' <=> u \in Writers)
    BY <1>1, <1>2, <1>6, <1>9 DEF Readers, Writers
  <2>2. t \notin Readers /\ t \notin Writers
    BY <1>2 DEF Readers, Writers, Waiting
  <2>3. t \notin Readers' /\ t \notin Writers'
    BY <1>1, <1>2, <1>4, <1>7, <1>9 DEF Readers, Writers, Waiting
  <2> QED
    BY <2>1, <2>2, <2>3 DEF Readers, Writers
<1>11. /\ ReadHolders' = ReadHolders /\ WriteHolders' = WriteHolders
       /\ ReadHolders = Readers /\ WriteHolders = Writers
  BY <1>3, <1>8, <1>10 DEF ReadHolders, WriteHolders
<1>12. /\ Act' \ {t} = Act \ {t} /\ WAct' = WAct
       /\ t \in Act <=> pc[t] = "undo"
       /\ t \in Act' <=> to \in {"undo", "wake_readers"}
  <2>1. t \notin Readers /\ t \notin Writers
    BY <1>2 DEF Readers, Writers, Waiting
  <2> QED
    BY <1>1, <1>6, <1>7, <1>10, <1>11, <2>1 DEF Act, WAct
<1>13. /\ CountIsExact' /\ count' \in Int
       /\ Active(count') = 0 <=> Act' = {}
  <2>1. WAITING_BIAS \in Int /\ count \in Int
    BY CountTells, RWSemAssumption DEF WAITING_BIAS
  <2>2. Act' \in SUBSET Tasks /\ WAct' \in SUBSET Tasks
    BY <1>12, CountTells
  <2>3. Moves(WAct, WAct', t, 0)
    BY <1>12 DEF Moves
  <2>4. CASE pc[t] = "try_wake"
    <3>1. Moves(Act, Act', t, 1)
      BY <1>12, <2>4 DEF Moves
    <3>2. count' = count + 1 + WAITING_BIAS * 0
      BY <2>1, <2>4 DEF ACTIVE_BIAS
    <3> QED
      BY <2>2, <2>3, <3>1, <3>2, MoveCount
  <2>5. CASE pc[t] = "undo"
    <3>1. Moves(Act, Act', t, -1)
      BY <1>2, <1>12, <2>5 DEF Moves
    <3>2. count' = count + (-1) + WAITING_BIAS * 0
      BY <2>1, <2>5 DEF ACTIVE_BIAS
    <3> QED
      BY <2>2, <2>3, <3>1, <3>2, MoveCount
  <2> QED
    BY <2>4, <2>5
<1>14. Types'
  <2>1. return' \in [Tasks -> {"idle", "wait", "reading"}] /\ wait_lock' \in Tasks \cup {Null}
    BY <1>0 DEF Types
  <2> QED
    BY <1>0, <1>13, <2>1 DEF Types, Label
<1>15. LockIsHeld'
  <2>1. \A u \in Tasks : wait_lock' = u <=> DoWake(u)'
    BY <1>4, <1>5, <1>6, <1>7, RWSemAssumption
  <2>2. \A u \in Tasks : u # t =>
           pc'[u] \notin {"try_wake", "undo", "grant", "wake_up", "wake_readers"}
    BY <1>6 DEF DoWake
  <2>3. /\ pc'[t] \notin {"grant", "wake_up"}
        /\ pc'[t] \in {"try_wake", "undo"} => return'[t] # "reading" /\ wait_list' # <<>>
        /\ pc'[t] \in {"try_wake", "undo", "wake_readers"} /\ return'[t] = "wait" => ~granted'[t]
    BY <1>1, <1>2, <1>4
  <2> QED
    BY <2>1, <2>2, <2>3 DEF LockIsHeld
<1>16. ListsAreExact'
  BY <1>3, <1>8, <1>9 DEF IInv, ListsAreExact, NotTold
<1>17. Exclusion'
  <2>1. \A u \in Tasks : u # t => pc'[u] # "wake_readers"
    BY <1>6 DEF DoWake
  <2>2. pc'[t] = "wake_readers" => WriteHolders = {} /\ FrontIs("read")'
    <3>1. pc'[t] = "wake_readers" => Active(count) = 0 /\ FrontIs("read")
      BY <1>1, <1>2
    <3>2. Active(count) = 0 => WriteHolders = {}
      BY CountTells DEF Act
    <3> QED
      BY <3>1, <3>2 DEF FrontIs
  <2> QED
    BY <1>11, <2>1, <2>2 DEF IInv, Exclusion
<1>18. QueueIsWatched'
  <2>1. Act' # {} \/ pc'[t] = "try_wake"
    BY <1>1, <1>12, <1>13
  <2> QED
    BY <2>1 DEF QueueIsWatched
<1>19. GrantedIsWoken'
  BY <1>0, <1>1 DEF GrantedIsWoken
<1> QED
  BY <1>10, <1>13, <1>14, <1>15, <1>16, <1>17, <1>18, <1>19 DEF IInv, AbsStep

(* The active tasks without the promised ones and the waker. *)
Base  == Readers \cup Writers \cup {t \in Tasks : pc[t] \in {"read_failed", "write_failed"}}
WBase == Writers \cup {t \in Tasks : pc[t] = "write_failed"}

(* The first n waiters are taken off the list: they are promised the       *)
(* semaphore, and the waker's increment is one of theirs now.              *)
LEMMA TakeOff ==
  ASSUME IInv, NEW t \in Tasks, pc[t] \in {"try_wake", "wake_readers"},
         NEW n \in 1 .. Len(wait_list),
         batch' = [batch EXCEPT ![t] = SubSeq(wait_list, 1, n)],
         wait_list' = SubSeq(wait_list, n + 1, Len(wait_list)),
         pc' = [pc EXCEPT ![t] = "grant"],
         UNCHANGED <<wait_lock, flags, granted, return, tstate>>
  PROVE  /\ count' \in Int => Types'
         /\ LockIsHeld' /\ ListsAreExact' /\ GrantedIsWoken' /\ QueueIsWatched'
         /\ Readers' = Readers /\ Writers' = Writers
         /\ Promised = {} /\ Promised' = {wait_list[i] : i \in 1 .. n}
         /\ Promised' \in SUBSET Tasks /\ Cardinality(Promised') = n
         /\ Base \in SUBSET Tasks /\ Base \cap Promised' = {}
         /\ Act = Base \cup {u \in {t} : Tries(t)} /\ Act' = Base \cup Promised'
         /\ t \in Base => return[t] = "reading"
         /\ WAct = WBase /\ WAct' = WBase \cup {u \in Promised' : flags[u] = "write"}
         /\ Len(wait_list') = Len(wait_list) - n /\ Len(wait_list) \in Nat
         /\ \A u \in Tasks : pc'[u] # "wake_readers"
<1>0. Types /\ LockIsHeld /\ ListsAreExact /\ GrantedIsWoken
  BY DEF IInv
<1>1. \A u \in Tasks : /\ pc'[u] = (IF u = t THEN "grant" ELSE pc[u])
                       /\ u # t => batch'[u] = batch[u]
  BY <1>0 DEF Types
<1>2. batch'[t] = SubSeq(wait_list, 1, n)
  BY <1>0 DEF Types
<1>3. DoWake(t) /\ wait_lock = t /\ \A u \in Tasks : u # t => ~DoWake(u)
  <2>1. DoWake(t)
    BY DEF DoWake
  <2> QED
    BY <2>1, LockFacts
<1>4. Promised = {}
  BY <1>3, LockFacts DEF Pend
<1>5. DoWake(t)' /\ \A u \in Tasks : u # t => ~DoWake(u)' /\ ~Tries(u) /\ ~Tries(u)'
  BY <1>1, <1>3 DEF DoWake, Tries
<1>6. ~Tries(t)'
  BY <1>1 DEF Tries
<1>7. /\ wait_list \in Seq(Tasks) /\ ListOK(wait_list) /\ n \in 0 .. Len(wait_list)
      /\ n \in Nat \ {0} /\ Len(wait_list) \in Nat
  BY <1>0 DEF Types, ListsAreExact
<1>8. /\ batch'[t] \in Seq(Tasks) /\ wait_list' \in Seq(Tasks)
      /\ ListOK(batch'[t]) /\ ListOK(wait_list')
      /\ Len(batch'[t]) = n /\ Len(wait_list') = Len(wait_list) - n
      /\ ListEntries(batch'[t]) = {wait_list[i] : i \in 1 .. n}
      /\ ListEntries(batch'[t]) \cup ListEntries(wait_list') = ListEntries(wait_list)
      /\ ListEntries(batch'[t]) \cap ListEntries(wait_list') = {}
  <2> DEFINE b == SubSeq(wait_list, 1, n)
             w == SubSeq(wait_list, n + 1, Len(wait_list))
  <2>1. wait_list \in Seq(Tasks) /\ ListOK(wait_list) /\ n \in 0 .. Len(wait_list)
    BY <1>7
  <2>2. /\ b \in Seq(Tasks) /\ w \in Seq(Tasks) /\ ListOK(b) /\ ListOK(w)
        /\ Len(b) = n /\ Len(w) = Len(wait_list) - n
        /\ ListEntries(b) = {wait_list[i] : i \in 1 .. n}
        /\ ListEntries(b) \cup ListEntries(w) = ListEntries(wait_list)
        /\ ListEntries(b) \cap ListEntries(w) = {}
    BY ONLY <2>1, PrefixFacts
  <2>3. b = batch'[t] /\ w = wait_list'
    BY <1>2
  <2> HIDE DEF b, w
  <2> QED
    BY <2>2, <2>3
<1>9. Promised' = ListEntries(batch'[t])
  <2>1. \A u \in Tasks : u # t => Pend(u)' = {}
    BY <1>5 DEF Pend, DoWake
  <2>2. Pend(t)' = ListEntries(batch'[t])
    BY <1>1 DEF Pend
  <2> QED
    BY <2>1, <2>2 DEF Promised
<1>10. Promised' = {wait_list[i] : i \in 1 .. n} /\ Cardinality(Promised') = n
  BY <1>8, <1>9, CountFacts
<1>11. Waiting' = Waiting
  BY <1>1, <1>3, <1>5 DEF Waiting
<1>12. Readers' = Readers /\ Writers' = Writers
  BY <1>1, <1>3, <1>5, <1>11 DEF Readers, Writers
<1>13. Promised' \in SUBSET Tasks /\ \A u \in Promised' : u \in Waiting /\ ~granted[u]
  <2>1. \A u \in Promised' : u \in ListEntries(wait_list)
    BY <1>8, <1>9
  <2> QED
    BY <2>1, LockFacts DEF Waiting
<1>14. Base \in SUBSET Tasks /\ Base \cap Promised' = {}
  <2>1. ASSUME NEW u \in Promised' PROVE u \notin Base
    <3>1. u \in Waiting /\ ~granted[u]
      BY <1>13
    <3>2. pc[u] \notin {"reading", "downgrade_wake", "writing", "read_failed", "write_failed"}
      BY <3>1 DEF Waiting, DoWake
    <3>3. ~(DoWake(u) /\ return[u] = "reading")
      BY <3>1 DEF Waiting, DoWake
    <3> QED
      BY <3>1, <3>2, <3>3 DEF Base, Readers, Writers
  <2> QED
    BY <2>1 DEF Base, Readers, Writers
<1>15. t \in Base => return[t] = "reading"
  <2>1. t \in Waiting => return[t] = "wait" /\ ~granted[t]
    BY <1>0 DEF Waiting, LockIsHeld
  <2> QED
    BY <2>1 DEF Base, Readers, Writers
<1>16. Act = Base \cup {u \in {t} : Tries(t)} /\ Act' = Base \cup Promised'
  <2>1. Act = Base \cup {u \in Tasks : Tries(u)}
    BY <1>4 DEF Act, Base, ReadHolders, WriteHolders
  <2>2. {u \in Tasks : Tries(u)} = {u \in {t} : Tries(t)}
    BY <1>5
  <2>3. \A u \in Promised' : flags[u] \in {"read", "write"}
    BY <1>0, <1>13 DEF Types
  <2>4. ReadHolders' \cup WriteHolders' = Readers \cup Writers \cup Promised'
    BY <1>12, <2>3 DEF ReadHolders, WriteHolders
  <2>5. \A u \in Tasks : ~Tries(u)'
    BY <1>5, <1>6
  <2>6. \A u \in Tasks : pc'[u] \in {"read_failed", "write_failed"}
                         <=> pc[u] \in {"read_failed", "write_failed"}
    BY <1>1
  <2>7. Act' = Base \cup Promised'
    BY <2>4, <2>5, <2>6 DEF Act, Base
  <2> QED
    BY <2>1, <2>2, <2>7
<1>17. WAct = WBase /\ WAct' = WBase \cup {u \in Promised' : flags[u] = "write"}
  BY <1>1, <1>4, <1>12 DEF WAct, WBase, WriteHolders
<1>18. count' \in Int => Types'
  BY <1>0, <1>2, <1>8 DEF Types, Label
<1>19. LockIsHeld'
  <2>1. \A u \in Tasks : wait_lock' = u <=> DoWake(u)'
    BY <1>3, <1>5
  <2>2. \A u \in Tasks : u # t =>
           pc'[u] \notin {"try_wake", "undo", "grant", "wake_up", "wake_readers"}
    BY <1>5 DEF DoWake
  <2>3. pc'[t] = "grant" /\ batch'[t] # <<>> /\ ListOK(batch'[t])
    BY <1>1, <1>7, <1>8
  <2> QED
    BY <2>1, <2>2, <2>3 DEF LockIsHeld
<1>20. ListsAreExact'
  BY <1>0, <1>4, <1>8, <1>9, <1>11 DEF ListsAreExact, NotTold
<1>21. GrantedIsWoken'
  <2>1. \A u \in Tasks : pc[u] # "wake_up"
    BY <1>3 DEF DoWake
  <2> QED
    BY <1>0, <1>1, <2>1 DEF GrantedIsWoken
<1>22. QueueIsWatched'
  <2>1. wait_list[1] \in Promised'
    BY <1>7, <1>10
  <2> QED
    BY <1>16, <2>1 DEF QueueIsWatched
<1>23. \A u \in Tasks : pc'[u] # "wake_readers"
  BY <1>1, <1>5 DEF DoWake
<1> QED
  BY <1>4, <1>7, <1>8, <1>10, <1>12, <1>13, <1>14, <1>15, <1>16, <1>17, <1>18, <1>19, <1>20,
     <1>21, <1>22, <1>23

(* TryWake takes a writer off the list: nobody else is active. *)
LEMMA TakeWriterInv ==
  ASSUME IInv, NEW t \in Tasks, TryWake(t), Active(count) = 0, FrontIs("write")
  PROVE  IInv' /\ AbsStep
<1> DEFINE h == Head(wait_list)
<1>0. wait_list \in Seq(Tasks) /\ wait_list # <<>> /\ batch \in [Tasks -> Seq(Tasks)]
  BY DEF IInv, Types, FrontIs
<1>1. /\ pc[t] = "try_wake" /\ pc' = [pc EXCEPT ![t] = "grant"]
      /\ count' = count + 1
      /\ batch' = [batch EXCEPT ![t] = <<h>>] /\ wait_list' = Tail(wait_list)
      /\ UNCHANGED <<wait_lock, flags, granted, return, tstate>>
  BY DEF TryWake, Goto, FrontIs, ACTIVE_BIAS
<1>2. <<h>> = SubSeq(wait_list, 1, 1) /\ Tail(wait_list) = SubSeq(wait_list, 1 + 1, Len(wait_list))
  BY <1>0
<1>3. 1 \in 1 .. Len(wait_list) /\ {wait_list[i] : i \in 1 .. 1} = {h}
  BY <1>0
<1>4. /\ count' \in Int => Types'
      /\ LockIsHeld' /\ ListsAreExact' /\ GrantedIsWoken' /\ QueueIsWatched'
      /\ Readers' = Readers /\ Writers' = Writers
      /\ Promised' = {wait_list[i] : i \in 1 .. 1} /\ Promised' \in SUBSET Tasks
      /\ Act = Base \cup {u \in {t} : Tries(t)} /\ Act' = Base \cup Promised'
      /\ WAct = WBase /\ WAct' = WBase \cup {u \in Promised' : flags[u] = "write"}
      /\ Len(wait_list') = Len(wait_list) - 1 /\ Len(wait_list) \in Nat
      /\ \A u \in Tasks : pc'[u] # "wake_readers"
  <2> HIDE DEF h
  <2> QED
    BY <1>1, <1>2, <1>3, TakeOff
<1>5. Act = {} /\ WAct = {} /\ Readers = {} /\ Writers = {}
  <2>1. Act = {}
    BY CountTells
  <2> QED
    BY <2>1 DEF Act, WAct, ReadHolders, WriteHolders
<1>6. Promised' = {h} /\ flags[h] = "write" /\ h \in Tasks
  BY <1>3, <1>4 DEF FrontIs
<1> HIDE DEF h
<1>7. Act' = {h} /\ WAct' = {h}
  BY <1>4, <1>5, <1>6
<1>8. ReadHolders' = {} /\ WriteHolders' = {h}
  BY <1>1, <1>4, <1>5, <1>6 DEF ReadHolders, WriteHolders
<1>9. CountIsExact' /\ count' \in Int
  <2>1. Moves(Act, Act', h, 1) /\ Moves(WAct, WAct', h, 1)
    BY <1>5, <1>7 DEF Moves
  <2>2. /\ Act \in SUBSET Tasks /\ WAct \in SUBSET Tasks
        /\ Act' \in SUBSET Tasks /\ WAct' \in SUBSET Tasks
    BY <1>6, <1>7, CountTells
  <2>3. Cardinality(Act') = Cardinality(Act) + 1 /\ Cardinality(WAct') = Cardinality(WAct) + 1
    BY <2>1, <2>2, MoveFacts
  <2>4. PICK k \in {0} : k \in Int
    OBVIOUS
  <2>5. /\ Cardinality(WAct') + Len(wait_list') = Cardinality(WAct) + Len(wait_list) + k
        /\ Len(wait_list') \in Nat
    BY <1>3, <1>4, <2>3, <2>4, CountTells
  <2>6. count' = count + 1 + WAITING_BIAS * k
    BY <1>1, <2>4, CountTells, RWSemAssumption DEF WAITING_BIAS
  <2>7. /\ count' = Cardinality(Act') + WAITING_BIAS * (Cardinality(WAct') + Len(wait_list'))
        /\ count' \in Int
    BY <2>2, <2>3, <2>4, <2>5, <2>6, CountStep
  <2> QED
    BY <2>7 DEF CountIsExact, High
<1>10. Exclusion'
  BY <1>4, <1>8 DEF Exclusion
<1> QED
  BY <1>4, <1>9, <1>10 DEF IInv, AbsStep

(* The number of readers at the front is well defined: the first writer,   *)
(* or the end, comes right behind them.                                    *)
LEMMA LeadingFacts ==
  ASSUME Types, FrontIs("read")
  PROVE  /\ LeadingReaders \in 1 .. Len(wait_list)
         /\ \A i \in 1 .. LeadingReaders : flags[wait_list[i]] = "read"
<1> DEFINE k == Len(wait_list)
           P(n) == /\ \A i \in 1 .. n : flags[wait_list[i]] = "read"
                   /\ n < k => flags[wait_list[n + 1]] = "write"
           W == {i \in 1 .. k : flags[wait_list[i]] = "write"}
<1>1. k \in Nat \ {0} /\ flags[wait_list[1]] = "read"
  BY DEF Types, FrontIs
<1>2. \A i \in 1 .. k : flags[wait_list[i]] = "read" \/ i \in W
  BY DEF Types
<1>3. \E n \in 1 .. k : P(n)
  <2>1. CASE W = {}
    BY <1>1, <1>2, <2>1
  <2>2. CASE W # {}
    <3>1. W \in SUBSET Nat
      BY <1>1
    <3>2. PICK x \in W : \A y \in W : x <= y
      <4> HIDE DEF W
      <4> QED
        BY <2>2, <3>1, LeastNat
    <3>3. x \in 1 .. k /\ x # 1 /\ flags[wait_list[x]] = "write"
      BY <1>1
    <3>4. x - 1 \in 1 .. k /\ (x - 1) + 1 = x
      BY <1>1, <3>3
    <3>5. ASSUME NEW i \in 1 .. x - 1
          PROVE  flags[wait_list[i]] = "read"
      <4>1. i \in 1 .. k /\ ~(x <= i)
        BY <1>1, <3>3
      <4>2. i \notin W
        <5> HIDE DEF W
        <5> QED
          BY <3>2, <4>1
      <4> QED
        BY <1>2, <4>1, <4>2
    <3>6. P(x - 1)
      BY <3>3, <3>4, <3>5
    <3> QED
      BY <3>4, <3>6
  <2> QED
    BY <2>1, <2>2
<1>4. LeadingReaders \in 1 .. k /\ P(LeadingReaders)
  <2>1. LeadingReaders = CHOOSE n \in 1 .. k : P(n)
    BY DEF LeadingReaders
  <2> HIDE DEF P
  <2> QED
    BY <1>3, <2>1
<1> QED
  BY <1>4

(* The readers at the front are taken off the list, all of them counted as *)
(* active before any of them is told.                                      *)
LEMMA TakeReadersInv ==
  ASSUME IInv, NEW t \in Tasks, WakeReaders(t)
  PROVE  IInv' /\ AbsStep
<1>0. Types /\ pc[t] = "wake_readers" /\ WriteHolders = {} /\ FrontIs("read")
  BY DEF IInv, Exclusion, WakeReaders, Goto
<1>1. PICK n \in 1 .. Len(wait_list) :
        n = LeadingReaders /\ \A i \in 1 .. n : flags[wait_list[i]] = "read"
  BY <1>0, LeadingFacts
<1>2. /\ pc' = [pc EXCEPT ![t] = "grant"]
      /\ count' = count + n * (ACTIVE_BIAS - WAITING_BIAS)
                        - (IF return[t] = "reading" THEN 0 ELSE ACTIVE_BIAS)
      /\ batch' = [batch EXCEPT ![t] = SubSeq(wait_list, 1, n)]
      /\ wait_list' = SubSeq(wait_list, n + 1, Len(wait_list))
      /\ UNCHANGED <<wait_lock, flags, granted, return, tstate>>
  BY <1>1 DEF WakeReaders, Goto
<1>3. /\ count' \in Int => Types'
      /\ LockIsHeld' /\ ListsAreExact' /\ GrantedIsWoken' /\ QueueIsWatched'
      /\ Readers' = Readers /\ Writers' = Writers
      /\ Promised = {} /\ Promised' = {wait_list[i] : i \in 1 .. n}
      /\ Promised' \in SUBSET Tasks /\ Cardinality(Promised') = n
      /\ Base \in SUBSET Tasks /\ Base \cap Promised' = {}
      /\ Act = Base \cup {u \in {t} : Tries(t)} /\ Act' = Base \cup Promised'
      /\ t \in Base => return[t] = "reading"
      /\ WAct = WBase /\ WAct' = WBase \cup {u \in Promised' : flags[u] = "write"}
      /\ Len(wait_list') = Len(wait_list) - n /\ Len(wait_list) \in Nat
      /\ \A u \in Tasks : pc'[u] # "wake_readers"
  BY <1>0, <1>2, TakeOff
<1>4. \A u \in Promised' : flags[u] = "read"
  BY <1>1, <1>3
<1>5. WAct' = WAct /\ WriteHolders' = {}
  <2>1. WAct' = WAct
    BY <1>3, <1>4
  <2>2. Writers = {}
    BY <1>0 DEF WriteHolders
  <2> QED
    BY <1>2, <1>3, <1>4, <2>1, <2>2 DEF WriteHolders
<1>6. PICK d \in Int : /\ d = n - (IF return[t] = "reading" THEN 0 ELSE 1)
                       /\ Cardinality(Act') = Cardinality(Act) + d
  <2>1. /\ IsFiniteSet(Base) /\ Cardinality(Base) \in Nat /\ IsFiniteSet(Promised')
        /\ \A x : x \notin Base => Cardinality(Base \cup {x}) = Cardinality(Base) + 1
    BY <1>3, TasksFinite
  <2>2. Cardinality(Act') = Cardinality(Base) + n
    <3>1. Cardinality(Base \cup Promised') = Cardinality(Base) + n - Cardinality({})
      BY <1>3, <2>1, FS_Union
    <3> QED
      BY <1>3, <2>1, <3>1, FS_EmptySet
  <2>3. CASE return[t] = "reading"
    <3>1. Act = Base
      BY <1>0, <1>3, <2>3 DEF Tries
    <3> QED
      BY <2>1, <2>2, <2>3, <3>1
  <2>4. CASE return[t] # "reading"
    <3>1. Act = Base \cup {t} /\ t \notin Base
      BY <1>0, <1>3, <2>4 DEF Tries
    <3> QED
      BY <2>1, <2>2, <2>4, <3>1
  <2> QED
    BY <2>3, <2>4
<1>7. CountIsExact' /\ count' \in Int
  <2>1. /\ Act' \in SUBSET Tasks /\ WAct' \in SUBSET Tasks /\ Cardinality(WAct) \in Nat
        /\ WAITING_BIAS \in Int /\ count \in Int
    BY <1>3, <1>5, CountTells, RWSemAssumption DEF WAITING_BIAS
  <2>2. PICK k \in Int : k = -n
    OBVIOUS
  <2>3. /\ Cardinality(WAct') + Len(wait_list') = Cardinality(WAct) + Len(wait_list) + k
        /\ Len(wait_list') \in Nat
    <3>1. Cardinality(WAct') = Cardinality(WAct)
      BY <1>5
    <3>2. Len(wait_list') = Len(wait_list) - n /\ Len(wait_list) \in Nat
      BY <1>3
    <3> QED
      BY <2>1, <2>2, <3>1, <3>2
  <2>4. count' = count + d + WAITING_BIAS * k
    <3>1. n * (1 - WAITING_BIAS) = n + WAITING_BIAS * k /\ WAITING_BIAS * k \in Int
      BY <2>1, <2>2
    <3>2. count' = count + n * (1 - WAITING_BIAS) - (IF return[t] = "reading" THEN 0 ELSE 1)
      BY <1>2 DEF ACTIVE_BIAS
    <3> QED
      BY <1>6, <2>1, <3>1, <3>2
  <2>5. /\ count' = Cardinality(Act') + WAITING_BIAS * (Cardinality(WAct') + Len(wait_list'))
        /\ count' \in Int
    <3>1. PICK A \in SUBSET Tasks, B \in SUBSET Tasks, l \in Nat :
            A = Act' /\ B = WAct' /\ l = Len(wait_list')
      BY <2>1, <2>3
    <3>2. /\ Cardinality(A) = Cardinality(Act) + d
          /\ Cardinality(B) + l = Cardinality(WAct) + Len(wait_list) + k
      BY <1>6, <2>3, <3>1
    <3>3. /\ count' = Cardinality(A) + WAITING_BIAS * (Cardinality(B) + l)
          /\ count' \in Int
      BY <2>4, <3>2, CountStep
    <3> QED
      BY <3>1, <3>3
  <2> QED
    BY <2>5 DEF CountIsExact, High
<1>8. Exclusion'
  BY <1>3, <1>5 DEF Exclusion
<1> QED
  BY <1>3, <1>7, <1>8 DEF IInv, AbsStep

(* waiter->task = NULL: the first of the batch has the semaphore. *)
LEMMA GrantInv ==
  ASSUME IInv, NEW t \in Tasks, Grant(t)
  PROVE  IInv' /\ AbsStep
<1>0. Types /\ LockIsHeld /\ ListsAreExact /\ GrantedIsWoken
  BY DEF IInv
<1>1. /\ pc[t] = "grant" /\ pc' = [pc EXCEPT ![t] = "wake_up"]
      /\ granted' = [granted EXCEPT ![Head(batch[t])] = TRUE]
      /\ UNCHANGED <<count, wait_lock, wait_list, flags, batch, return, tstate>>
  BY DEF Grant, Goto
<1>2. /\ DoWake(t) /\ wait_lock = t /\ (\A u \in Tasks : u # t => ~DoWake(u))
      /\ Promised = ListEntries(batch[t])
  <2>1. DoWake(t)
    BY <1>1 DEF DoWake
  <2> QED
    BY <1>1, <2>1, LockFacts DEF Pend
<1>3. PICK h \in Tasks : h = Head(batch[t]) /\ h \in Promised
  <2>1. batch[t] \in Seq(Tasks) /\ batch[t] # <<>>
    BY <1>0, <1>1 DEF Types, LockIsHeld
  <2> QED
    BY <1>2, <2>1, FirstFacts
<1>4. h \in Waiting /\ ~granted[h]
  BY <1>3, LockFacts
<1>5. \A u \in Tasks : /\ pc'[u] = (IF u = t THEN "wake_up" ELSE pc[u])
                       /\ granted'[u] = (IF u = h THEN TRUE ELSE granted[u])
  BY <1>0, <1>1, <1>3 DEF Types
<1>6. DoWake(t)' /\ \A u \in Tasks : u # t => ~DoWake(u)'
  BY <1>2, <1>5 DEF DoWake
<1>7. Promised' = Promised \ {h}
  <2>1. \A u \in Tasks : u # t => Pend(u)' = {}
    BY <1>6 DEF Pend, DoWake
  <2>2. Pend(t)' = ListEntries(batch[t]) \ {h}
    <3>1. pc'[t] = "wake_up" /\ batch' = batch
      BY <1>1, <1>5
    <3> QED
      BY <1>3, <3>1 DEF Pend
  <2> QED
    BY <1>2, <2>1, <2>2 DEF Promised
<1>8. Waiting' = Waiting
  BY <1>1, <1>2, <1>5, <1>6 DEF Waiting
<1>9. \A u \in Tasks : u # h => (u \in Readers' <=> u \in Readers) /\ (u \in Writers' <=> u \in Writers)
  <2> SUFFICES ASSUME NEW u \in Tasks, u # h
               PROVE  (u \in Readers' <=> u \in Readers) /\ (u \in Writers' <=> u \in Writers)
    OBVIOUS
  <2>1. /\ granted'[u] = granted[u] /\ flags'[u] = flags[u] /\ return'[u] = return[u]
        /\ u \in Waiting' <=> u \in Waiting
        /\ DoWake(u)' <=> DoWake(u)
    BY <1>1, <1>2, <1>5, <1>6, <1>8
  <2>2. /\ pc'[u] \in {"reading", "downgrade_wake"} <=> pc[u] \in {"reading", "downgrade_wake"}
        /\ pc'[u] = "writing" <=> pc[u] = "writing"
    BY <1>1, <1>5
  <2> QED
    BY <2>1, <2>2 DEF Readers, Writers
<1>10. h \notin Readers /\ h \notin Writers
  <2>1. /\ pc[h] \notin {"reading", "downgrade_wake", "writing"}
        /\ ~(DoWake(h) /\ return[h] = "reading")
    BY <1>4 DEF Waiting, DoWake
  <2> QED
    BY <1>4, <2>1 DEF Readers, Writers
<1>11. (h \in Readers' <=> flags[h] = "read") /\ (h \in Writers' <=> flags[h] = "write")
  <2>1. /\ pc'[h] \notin {"reading", "downgrade_wake", "writing"}
        /\ ~(DoWake(h)' /\ return'[h] = "reading") /\ h \in Waiting' /\ granted'[h]
    BY <1>1, <1>4, <1>5, <1>6, <1>8 DEF Waiting, DoWake
  <2> QED
    BY <1>1, <2>1 DEF Readers, Writers
<1>12. /\ Readers' = Readers \cup {u \in {h} : flags[h] = "read"}
       /\ Writers' = Writers \cup {u \in {h} : flags[h] = "write"}
       /\ flags[h] \in {"read", "write"}
  <2>1. /\ Readers \subseteq Tasks /\ Writers \subseteq Tasks
        /\ Readers' \subseteq Tasks /\ Writers' \subseteq Tasks
    BY DEF Readers, Writers
  <2>2. flags[h] \in {"read", "write"}
    BY <1>0 DEF Types
  <2> QED
    BY <1>9, <1>10, <1>11, <2>1, <2>2
<1>13. ReadHolders' = ReadHolders /\ WriteHolders' = WriteHolders
  BY <1>1, <1>3, <1>7, <1>12 DEF ReadHolders, WriteHolders
<1>14. Act' = Act /\ WAct' = WAct
  <2>1. \A u \in Tasks : Tries(u)' = Tries(u)
    BY <1>1, <1>5 DEF Tries
  <2> QED
    BY <1>1, <1>5, <1>13, <2>1 DEF Act, WAct
<1>15. Types'
  BY <1>0, <1>1 DEF Types, Label
<1>16. LockIsHeld'
  <2>1. \A u \in Tasks : wait_lock' = u <=> DoWake(u)'
    BY <1>1, <1>2, <1>6
  <2>2. \A u \in Tasks : u # t =>
           pc'[u] \notin {"try_wake", "undo", "grant", "wake_up", "wake_readers"}
    BY <1>6 DEF DoWake
  <2>3. pc'[t] = "wake_up" /\ batch'[t] # <<>> /\ ListOK(batch'[t])
    BY <1>0, <1>1, <1>5 DEF LockIsHeld
  <2> QED
    BY <2>1, <2>2, <2>3 DEF LockIsHeld
<1>17. ListsAreExact' /\ CountIsExact'
  <2>1. NotTold' = NotTold \ {h}
    BY <1>5, <1>8 DEF NotTold, Waiting
  <2>2. h \notin ListEntries(wait_list)
    BY <1>0, <1>3 DEF ListsAreExact
  <2> QED
    BY <1>1, <1>7, <1>14, <2>1, <2>2 DEF IInv, ListsAreExact, CountIsExact, High
<1>18. Exclusion' /\ QueueIsWatched'
  BY <1>1, <1>5, <1>13, <1>14 DEF IInv, Exclusion, QueueIsWatched, FrontIs
<1>19. GrantedIsWoken'
  <2>1. \A u \in Tasks : pc[u] # "wake_up"
    BY <1>1, <1>2 DEF DoWake
  <2>2. pc'[t] = "wake_up" /\ Head(batch'[t]) = h
    BY <1>1, <1>3, <1>5
  <2> QED
    BY <1>0, <1>1, <1>5, <2>1, <2>2 DEF GrantedIsWoken
<1>20. AbsStep
  <2>1. CASE flags[h] = "read"
    <3>1. h \in ReadHolders
      BY <1>3, <2>1 DEF ReadHolders
    <3>2. Writers = {}
      BY <3>1 DEF IInv, Exclusion, WriteHolders
    <3>3. Abstract!AcquireRead(h)
      BY <1>10, <1>12, <2>1, <3>2 DEF Abstract!AcquireRead
    <3> QED
      BY <3>3 DEF AbsStep, Abstract!Next
  <2>2. CASE flags[h] = "write"
    <3>1. h \in WriteHolders
      BY <1>3, <2>2 DEF WriteHolders
    <3>2. ReadHolders = {} /\ WriteHolders = {h}
      BY <3>1 DEF IInv, Exclusion
    <3>3. Readers = {} /\ Writers = {}
      BY <1>10, <3>2 DEF ReadHolders, WriteHolders
    <3>4. Abstract!AcquireWrite(h)
      BY <1>12, <2>2, <3>3 DEF Abstract!AcquireWrite
    <3> QED
      BY <3>4 DEF AbsStep, Abstract!Next
  <2> QED
    BY <1>12, <2>1, <2>2
<1> QED
  BY <1>15, <1>16, <1>17, <1>18, <1>19, <1>20 DEF IInv

(* wake_up_process(): the waker goes on with the batch, or drops wait_lock *)
(* and goes where it came from.                                            *)
LEMMA WakeUpInv ==
  ASSUME IInv, NEW t \in Tasks, WakeUp(t)
  PROVE  IInv' /\ AbsStep
<1> DEFINE h == Head(batch[t])
<1>0. Types /\ LockIsHeld /\ ListsAreExact /\ GrantedIsWoken
  BY DEF IInv
<1>1. /\ pc[t] = "wake_up" /\ tstate' = [tstate EXCEPT ![h] = TASK_RUNNING]
      /\ batch' = [batch EXCEPT ![t] = Tail(batch[t])]
      /\ UNCHANGED <<count, wait_list, flags, granted>>
  BY DEF WakeUp, wake_up_process
<1>2. PICK to \in {"grant", "idle", "wait", "reading"} :
        /\ pc' = [pc EXCEPT ![t] = to]
        /\ \/ to = "grant" /\ Len(batch[t]) > 1 /\ UNCHANGED <<wait_lock, return>>
           \/ /\ to = return[t] /\ to # "grant" /\ Len(batch[t]) = 1
              /\ wait_lock' = Null /\ return' = [return EXCEPT ![t] = "idle"]
  <2>1. return[t] \in {"idle", "wait", "reading"}
    BY <1>0 DEF Types
  <2> QED
    BY <2>1 DEF WakeUp, ReturnFrom, Goto
<1>3. /\ DoWake(t) /\ wait_lock = t /\ (\A u \in Tasks : u # t => ~DoWake(u))
      /\ Promised = ListEntries(batch[t]) \ {h}
  <2>1. DoWake(t)
    BY <1>1 DEF DoWake
  <2> QED
    BY <1>1, <2>1, LockFacts DEF Pend
<1>4. /\ batch[t] \in Seq(Tasks) /\ batch[t] # <<>> /\ ListOK(batch[t]) /\ batch \in [Tasks -> Seq(Tasks)]
  BY <1>0, <1>1 DEF Types, LockIsHeld
<1>5. /\ h \in Tasks /\ Tail(batch[t]) \in Seq(Tasks) /\ ListOK(Tail(batch[t]))
      /\ ListEntries(Tail(batch[t])) = Promised
  BY <1>3, <1>4, FirstFacts
<1>6. /\ Len(batch[t]) > 1 => Tail(batch[t]) # <<>>
      /\ Len(batch[t]) = 1 => Promised = {}
  <2>1. /\ Len(batch[t]) > 1 => Tail(batch[t]) # <<>>
        /\ Len(batch[t]) = 1 => ListEntries(Tail(batch[t])) = {}
    BY <1>4, RestFacts
  <2> QED
    BY <1>5, <2>1
<1> HIDE DEF h
<1>7. \A u \in Tasks : /\ pc'[u] = (IF u = t THEN to ELSE pc[u])
                       /\ tstate'[u] = (IF u = h THEN TASK_RUNNING ELSE tstate[u])
                       /\ u # t => return'[u] = return[u]
                       /\ to = "grant" => return'[u] = return[u]
                       /\ batch'[u] = (IF u = t THEN Tail(batch[t]) ELSE batch[u])
  BY <1>0, <1>1, <1>2, <1>5 DEF Types
<1>8. (DoWake(t)' <=> to = "grant") /\ \A u \in Tasks : u # t => ~DoWake(u)'
  BY <1>3, <1>7 DEF DoWake
<1>9. Promised' = Promised
  <2>1. \A u \in Tasks : u # t => Pend(u)' = {}
    BY <1>8 DEF Pend, DoWake
  <2>2. CASE to = "grant"
    <3>1. pc'[t] = "grant" /\ batch'[t] = Tail(batch[t])
      BY <1>7, <2>2
    <3>2. Pend(t)' = Promised
      BY <1>5, <3>1 DEF Pend
    <3> QED
      BY <2>1, <3>2 DEF Promised
  <2>3. CASE to # "grant"
    <3>1. Promised = {}
      BY <1>2, <1>6, <2>3
    <3>2. Pend(t)' = {}
      BY <1>2, <1>7, <2>3 DEF Pend
    <3> QED
      BY <2>1, <3>1, <3>2 DEF Promised
  <2> QED
    BY <2>2, <2>3
<1>10. Waiting' = Waiting
  <2>1. \A u \in Tasks : u # t => (u \in Waiting' <=> u \in Waiting)
    BY <1>3, <1>7, <1>8 DEF Waiting
  <2>2. t \in Waiting <=> return[t] = "wait"
    BY <1>1, <1>3 DEF Waiting
  <2>3. t \in Waiting' <=> return[t] = "wait"
    BY <1>2, <1>7, <1>8 DEF Waiting
  <2> QED
    BY <2>1, <2>2, <2>3 DEF Waiting
<1>11. Readers' = Readers /\ Writers' = Writers
  <2>1. \A u \in Tasks : u # t => (u \in Readers' <=> u \in Readers) /\ (u \in Writers' <=> u \in Writers)
    BY <1>1, <1>3, <1>7, <1>8, <1>10 DEF Readers, Writers
  <2>2. t \in Readers' <=> t \in Readers
    <3>1. t \in Readers <=> return[t] = "reading" \/ (t \in Waiting /\ granted[t] /\ flags[t] = "read")
      BY <1>1, <1>3 DEF Readers
    <3>2. t \in Readers' <=> return[t] = "reading" \/ (t \in Waiting /\ granted[t] /\ flags[t] = "read")
      BY <1>1, <1>2, <1>7, <1>8, <1>10 DEF Readers
    <3> QED
      BY <3>1, <3>2
  <2>3. t \in Writers' <=> t \in Writers
    BY <1>1, <1>2, <1>7, <1>10 DEF Writers
  <2> QED
    BY <2>1, <2>2, <2>3 DEF Readers, Writers
<1>12. ReadHolders' = ReadHolders /\ WriteHolders' = WriteHolders
  BY <1>1, <1>9, <1>11 DEF ReadHolders, WriteHolders
<1>13. Act' = Act /\ WAct' = WAct
  <2>1. \A u \in Tasks : Tries(u)' = Tries(u)
    BY <1>1, <1>7 DEF Tries
  <2>2. \A u \in Tasks :
          /\ pc'[u] \in {"read_failed", "write_failed"} <=> pc[u] \in {"read_failed", "write_failed"}
          /\ pc'[u] = "write_failed" <=> pc[u] = "write_failed"
    BY <1>1, <1>7
  <2> QED
    BY <1>12, <2>1, <2>2 DEF Act, WAct
<1>14. Types'
  <2>1. return' \in [Tasks -> {"idle", "wait", "reading"}] /\ wait_lock' \in Tasks \cup {Null}
    BY <1>0, <1>2 DEF Types
  <2>2. tstate' \in [Tasks -> TaskState] /\ batch' \in [Tasks -> Seq(Tasks)]
    BY <1>0, <1>1, <1>5 DEF Types, TaskState
  <2> QED
    BY <1>0, <1>1, <1>2, <2>1, <2>2 DEF Types, Label
<1>15. LockIsHeld'
  <2>1. \A u \in Tasks : wait_lock' = u <=> DoWake(u)'
    BY <1>2, <1>3, <1>8, RWSemAssumption
  <2>2. \A u \in Tasks : u # t =>
           pc'[u] \notin {"try_wake", "undo", "grant", "wake_up", "wake_readers"}
    BY <1>8 DEF DoWake
  <2>3. /\ pc'[t] \in {"grant", "wake_up"} => batch'[t] # <<>> /\ ListOK(batch'[t])
        /\ pc'[t] \notin {"try_wake", "undo", "wake_readers"}
    BY <1>2, <1>5, <1>6, <1>7
  <2> QED
    BY <2>1, <2>2, <2>3 DEF LockIsHeld
<1>16. ListsAreExact' /\ CountIsExact'
  BY <1>1, <1>9, <1>10, <1>13 DEF IInv, ListsAreExact, NotTold, CountIsExact, High
<1>17. Exclusion' /\ QueueIsWatched'
  BY <1>1, <1>7, <1>12, <1>13 DEF IInv, Exclusion, QueueIsWatched, FrontIs
<1>18. GrantedIsWoken'
  <2> SUFFICES ASSUME NEW u \in Tasks, pc'[u] = "schedule", granted'[u]
               PROVE  tstate'[u] = TASK_RUNNING
    BY DEF GrantedIsWoken
  <2>1. u # t /\ pc[u] = "schedule" /\ granted[u]
    BY <1>1, <1>7
  <2>2. \A v \in Tasks : pc[v] = "wake_up" => v = t
    BY <1>3 DEF DoWake
  <2>3. tstate[u] = TASK_RUNNING \/ u = h
    BY <1>0, <2>1, <2>2 DEF GrantedIsWoken, h
  <2> QED
    BY <1>7, <2>3
<1> QED
  BY <1>11, <1>14, <1>15, <1>16, <1>17, <1>18 DEF IInv, AbsStep

------------------------------------------------------------------------------
(* The fast paths of down_*(). *)
LEMMA CallInv ==
  ASSUME IInv, NEW t \in Tasks, Call(t)
  PROVE  IInv' /\ AbsStep
<1>0. count \in Int /\ (count >= 0 => count + 1 >= 0) /\ (count = 0 => count + ACTIVE_WRITE_BIAS = ACTIVE_WRITE_BIAS)
  BY CountTells, RWSemAssumption DEF ACTIVE_WRITE_BIAS, WAITING_BIAS, ACTIVE_BIAS
<1>1. CASE __down_read(t)
  <2>1. /\ pc[t] = "idle" /\ count' = count + ACTIVE_READ_BIAS
        /\ UNCHANGED <<wait_lock, wait_list, flags, granted, batch, return, tstate>>
    BY <1>1 DEF __down_read, Goto
  <2>2. CASE count + 1 >= 0
    <3>1. pc' = [pc EXCEPT ![t] = "reading"]
      BY <1>1, <2>2 DEF __down_read, Goto, ACTIVE_READ_BIAS, ACTIVE_BIAS
    <3> QED
      BY <2>1, <2>2, <3>1, AcquireInv
  <2>3. CASE ~(count + 1 >= 0)
    <3>1. pc' = [pc EXCEPT ![t] = "read_failed"]
      BY <1>1, <2>3 DEF __down_read, Goto, ACTIVE_READ_BIAS, ACTIVE_BIAS
    <3> QED
      BY <2>1, <3>1, FailInv
  <2> QED
    BY <2>2, <2>3
<1>2. CASE __down_read_trylock(t)
  BY <1>0, <1>2, AcquireInv DEF __down_read_trylock, Goto
<1>3. CASE __down_write(t)
  <2>1. /\ pc[t] = "idle" /\ count' = count + ACTIVE_WRITE_BIAS
        /\ UNCHANGED <<wait_lock, wait_list, flags, granted, batch, return, tstate>>
    BY <1>3 DEF __down_write, Goto
  <2>2. CASE count = 0
    <3>1. pc' = [pc EXCEPT ![t] = "writing"]
      BY <1>3, <2>2 DEF __down_write, Goto
    <3> QED
      BY <2>1, <2>2, <3>1, AcquireInv
  <2>3. CASE count # 0
    <3>1. pc' = [pc EXCEPT ![t] = "write_failed"]
      BY <1>3, <2>3 DEF __down_write, Goto
    <3> QED
      BY <2>1, <3>1, FailInv
  <2> QED
    BY <2>2, <2>3
<1>4. CASE __down_write_trylock(t)
  BY <1>0, <1>4, AcquireInv DEF __down_write_trylock, Goto
<1> QED
  BY <1>1, <1>2, <1>3, <1>4 DEF Call

(* try_again: and undo: of __rwsem_do_wake(). *)
LEMMA TryInv ==
  ASSUME IInv, NEW t \in Tasks, TryWake(t) \/ Undo(t)
  PROVE  IInv' /\ AbsStep
<1>1. CASE TryWake(t) /\ Active(count) = 0 /\ FrontIs("write")
  BY <1>1, TakeWriterInv
<1>2. CASE TryWake(t) /\ ~(Active(count) = 0 /\ FrontIs("write"))
  <2>1. /\ pc[t] = "try_wake" /\ count' = count + ACTIVE_BIAS
        /\ UNCHANGED <<wait_lock, return, wait_list, flags, granted, batch, tstate>>
    BY <1>2 DEF TryWake
  <2>2. \/ pc' = [pc EXCEPT ![t] = "undo"]
        \/ pc' = [pc EXCEPT ![t] = "wake_readers"] /\ Active(count) = 0 /\ FrontIs("read")
    BY <1>2 DEF TryWake, Goto
  <2> QED
    BY <2>1, <2>2, TryStep
<1>3. CASE Undo(t)
  <2>1. /\ pc[t] = "undo" /\ count' = count - ACTIVE_BIAS
        /\ UNCHANGED <<wait_list, flags, granted, batch, tstate>>
    BY <1>3 DEF Undo, ReturnFrom, Goto
  <2>2. return[t] \in {"idle", "wait"}
    BY <2>1 DEF IInv, Types, LockIsHeld
  <2>3. CASE Active(count') = 0
    <3>1. pc' = [pc EXCEPT ![t] = "try_wake"] /\ UNCHANGED <<wait_lock, return>>
      BY <1>3, <2>3 DEF Undo, Goto
    <3> QED
      BY <2>1, <3>1, TryStep
  <2>4. CASE Active(count') # 0
    <3>1. /\ pc' = [pc EXCEPT ![t] = return[t]] /\ wait_lock' = Null
          /\ return' = [return EXCEPT ![t] = "idle"]
      BY <1>3, <2>4 DEF Undo, ReturnFrom, Goto
    <3> QED
      BY <2>1, <2>2, <2>4, <3>1, TryStep
  <2> QED
    BY <2>3, <2>4
<1> QED
  BY <1>1, <1>2, <1>3

(* rwsem_wake() and rwsem_downgrade_wake(). *)
LEMMA WakeInv ==
  ASSUME IInv, NEW t \in Tasks, rwsem_wake(t) \/ rwsem_downgrade_wake(t)
  PROVE  IInv' /\ AbsStep
<1>1. CASE rwsem_wake(t) /\ wait_list = <<>>
  BY <1>1, NobodyToWakeInv DEF rwsem_wake
<1>2. CASE rwsem_wake(t) /\ wait_list # <<>>
  <2>1. /\ wait_lock = Null /\ wait_lock' = t /\ pc[t] = "rwsem_wake"
        /\ pc' = [pc EXCEPT ![t] = "try_wake"] /\ return' = [return EXCEPT ![t] = "idle"]
        /\ UNCHANGED <<count, wait_list, flags, granted, batch, tstate>>
    BY <1>2 DEF rwsem_wake, Goto
  <2> QED
    BY <1>2, <2>1, StartWakeInv
<1>3. CASE rwsem_downgrade_wake(t) /\ ~FrontIs("read")
  BY <1>3, NobodyToWakeInv DEF rwsem_downgrade_wake
<1>4. CASE rwsem_downgrade_wake(t) /\ FrontIs("read")
  <2>1. /\ wait_lock = Null /\ wait_lock' = t /\ pc[t] = "downgrade_wake"
        /\ pc' = [pc EXCEPT ![t] = "wake_readers"] /\ return' = [return EXCEPT ![t] = "reading"]
        /\ UNCHANGED <<count, wait_list, flags, granted, batch, tstate>>
    BY <1>4 DEF rwsem_downgrade_wake, Goto
  <2> QED
    BY <1>4, <2>1, StartWakeInv
<1> QED
  BY <1>1, <1>2, <1>3, <1>4

(* Every step keeps the invariant and implements the abstract lock. *)
LEMMA NextInv == IInv /\ [Next]_vars => IInv' /\ AbsStep
<1> SUFFICES ASSUME IInv, [Next]_vars PROVE IInv' /\ AbsStep
  OBVIOUS
<1>1. ASSUME NEW t \in Tasks, Call(t) \/ Release(t) \/ __downgrade_write(t)
      PROVE  IInv' /\ AbsStep
  BY <1>1, CallInv, ReleaseInv, DowngradeInv DEF Release
<1>2. ASSUME NEW t \in Tasks, Step(t) PROVE IInv' /\ AbsStep
  BY <1>2, WaitInv, TryInv, TakeReadersInv, GrantInv, WakeUpInv DEF Step
<1>3. ASSUME NEW t \in Tasks, SpinLockStep(t) PROVE IInv' /\ AbsStep
  BY <1>3, QueueInv, WakeInv DEF SpinLockStep
<1>4. CASE UNCHANGED vars
  <2> USE <1>4 DEF vars
  <2>1. \A u \in Tasks : /\ DoWake(u)' = DoWake(u) /\ Pend(u)' = Pend(u) /\ Tries(u)' = Tries(u)
    BY DEF DoWake, Pend, Tries
  <2>2. Waiting' = Waiting /\ Promised' = Promised
    BY <2>1 DEF Waiting, Promised
  <2>3. Readers' = Readers /\ Writers' = Writers
    BY <2>1, <2>2 DEF Readers, Writers
  <2>4. ReadHolders' = ReadHolders /\ WriteHolders' = WriteHolders
    BY <2>2, <2>3 DEF ReadHolders, WriteHolders
  <2>5. Act' = Act /\ WAct' = WAct
    BY <2>1, <2>4 DEF Act, WAct
  <2>6. Types' /\ LockIsHeld' /\ GrantedIsWoken'
    BY <2>1 DEF IInv, Types, LockIsHeld, GrantedIsWoken
  <2>7. ListsAreExact' /\ CountIsExact' /\ Exclusion' /\ QueueIsWatched'
    BY <2>2, <2>4, <2>5 DEF IInv, ListsAreExact, NotTold, CountIsExact, High, Exclusion,
                            QueueIsWatched, FrontIs
  <2> QED
    BY <2>3, <2>6, <2>7 DEF IInv, AbsStep
<1> QED
  BY <1>1, <1>2, <1>3, <1>4 DEF Next

------------------------------------------------------------------------------
(* Every reachable state satisfies IInv: in particular count is worth      *)
(* exactly what the operations under way have added to it.                 *)
THEOREM InvariantHolds == Spec => []IInv
  BY InitInv, NextInv, PTL DEF Spec

(* Types and, with them, the bounds of count: its high part never counts a *)
(* task twice, as whoever is queued is not an active writer.               *)
THEOREM TypeCorrect == Spec => []TypeOK
<1>1. ASSUME IInv PROVE TypeOK
  <2>1. /\ Act \in SUBSET Tasks /\ WAct \in SUBSET Tasks
        /\ Cardinality(Act) \in 0 .. Cardinality(Tasks) /\ High \in Nat
    BY <1>1, CountTells
  <2>2. WAct \cap ListEntries(wait_list) = {}
    <3>1. ASSUME NEW u \in ListEntries(wait_list) PROVE u \notin WAct
      <4>1. u \in Waiting /\ ~granted[u] /\ u \notin Promised
        BY <1>1, LockFacts
      <4>2. pc[u] \notin {"writing", "write_failed"}
        BY <4>1 DEF Waiting, DoWake
      <4> QED
        BY <4>1, <4>2 DEF WAct, WriteHolders, Writers
    <3> QED
      BY <3>1
  <2>3. wait_list \in Seq(Tasks) /\ ListOK(wait_list) /\ ListEntries(wait_list) \in SUBSET Tasks
    BY <1>1 DEF IInv, Types, ListsAreExact, ListEntries
  <2>4. High <= Cardinality(Tasks)
    <3>1. IsFiniteSet(WAct) /\ Cardinality(WAct) \in Nat
      BY <2>1, TasksFinite
    <3>2. IsFiniteSet(ListEntries(wait_list)) /\ Cardinality(ListEntries(wait_list)) = Len(wait_list)
      BY <2>3, CountFacts
    <3>3. Cardinality(WAct \cup ListEntries(wait_list))
            = Cardinality(WAct) + Len(wait_list) - Cardinality({})
      BY <2>2, <3>1, <3>2, FS_Union
    <3>4. Cardinality(WAct \cup ListEntries(wait_list)) <= Cardinality(Tasks)
      <4>1. WAct \cup ListEntries(wait_list) \in SUBSET Tasks
        BY <2>1, <2>3
      <4> QED
        BY <4>1, TasksFinite
    <3>5. Cardinality({}) = 0 /\ Len(wait_list) \in Nat
      BY <2>3, FS_EmptySet
    <3> QED
      BY <3>1, <3>3, <3>4, <3>5 DEF High
  <2>5. count \in Cardinality(Tasks) * WAITING_BIAS .. Cardinality(Tasks)
    <3>1. count = Cardinality(Act) + WAITING_BIAS * High
      BY <1>1 DEF IInv, CountIsExact
    <3>2. PICK a \in 0 .. Cardinality(Tasks), h \in Nat : a = Cardinality(Act) /\ h = High
      BY <2>1
    <3>3. a + WAITING_BIAS * h \in Cardinality(Tasks) * WAITING_BIAS .. Cardinality(Tasks)
      BY <2>4, <3>2, Halves
    <3> QED
      BY <3>1, <3>2, <3>3
  <2>6. Cardinality(Tasks) * ACTIVE_BIAS = Cardinality(Tasks)
    BY RWSemAssumption, FS_CardinalityType DEF ACTIVE_BIAS
  <2> QED
    BY <1>1, <2>5, <2>6 DEF IInv, Types, TypeOK
<1> QED
  BY <1>1, InvariantHolds, PTL

(* A writer is alone. *)
THEOREM WritersAreAlone == Spec => []WriterIsAlone
<1>1. IInv => WriterIsAlone
  BY DEF IInv, Exclusion, WriterIsAlone, ReadHolders, WriteHolders
<1> QED
  BY <1>1, InvariantHolds, PTL

(* The packing that asm/rwsem.h describes holds whenever no operation is   *)
(* between two changes of count.                                           *)
THEOREM CountHolds == Spec => []CountIsAccurate
<1>1. ASSUME IInv, Quiet
      PROVE  count = Cardinality(Readers) + Cardinality(Writers)
                     + WAITING_BIAS * (Cardinality(Writers) + Len(wait_list))
  <2>1. \A t \in Tasks : ~DoWake(t) /\ pc[t] \notin {"read_failed", "write_failed"}
    BY <1>1 DEF Quiet, DoWake
  <2>2. Promised = {}
    <3>1. \A t \in Tasks : Pend(t) = {}
      BY <2>1 DEF Pend, DoWake
    <3> QED
      BY <3>1 DEF Promised
  <2>3. Act = Readers \cup Writers /\ WAct = Writers
    BY <2>1, <2>2 DEF Act, WAct, ReadHolders, WriteHolders, Tries, DoWake
  <2>4. Readers \in SUBSET Tasks /\ Writers \in SUBSET Tasks /\ Readers \cap Writers = {}
    BY <1>1 DEF IInv, Exclusion, ReadHolders, WriteHolders, Readers, Writers
  <2>5. Cardinality(Act) = Cardinality(Readers) + Cardinality(Writers)
    <3>1. /\ IsFiniteSet(Readers) /\ IsFiniteSet(Writers)
          /\ Cardinality(Readers) \in Nat /\ Cardinality(Writers) \in Nat
      BY <2>4, TasksFinite
    <3>2. Cardinality(Readers \cup Writers)
            = Cardinality(Readers) + Cardinality(Writers) - Cardinality({})
      BY <2>4, <3>1, FS_Union
    <3> QED
      BY <2>3, <3>1, <3>2, FS_EmptySet
  <2> QED
    BY <1>1, <2>3, <2>5 DEF IInv, CountIsExact, High
<1>2. IInv => CountIsAccurate
  BY <1>1 DEF CountIsAccurate
<1> QED
  BY <1>2, InvariantHolds, PTL

(* Nobody is queued without a holder or a task on its way to wake it: the  *)
(* window between the fast path and the queue loses no waiter.             *)
THEOREM NobodyIsForgotten == Spec => []NobodyForgotten
<1>1. ASSUME IInv, wait_list # <<>>
      PROVE  \/ Readers \cup Writers # {}
             \/ \E t \in Tasks : pc[t] \notin {"idle", "wait", "schedule"}
  <2>1. CASE \E t \in Tasks : pc[t] \in {"rwsem_wake", "try_wake"}
    BY <2>1
  <2>2. CASE Act # {}
    <3>1. CASE Promised # {}
      <4>1. PICK u \in Tasks : Pend(u) # {}
        BY <3>1 DEF Promised
      <4> QED
        BY <4>1 DEF Pend
    <3>2. CASE Promised = {}
      BY <2>2, <3>2 DEF Act, ReadHolders, WriteHolders, Tries
    <3> QED
      BY <3>1, <3>2
  <2> QED
    BY <1>1, <2>1, <2>2 DEF IInv, QueueIsWatched
<1>2. IInv => NobodyForgotten
  BY <1>1 DEF NobodyForgotten
<1> QED
  BY <1>2, InvariantHolds, PTL

(* No waiter that was granted the semaphore sleeps on. *)
THEOREM GrantedAreWoken == Spec => []GrantedIsWoken
<1>1. IInv => GrantedIsWoken
  BY DEF IInv
<1> QED
  BY <1>1, InvariantHolds, PTL

(* The semaphore implements the abstract reader/writer lock. *)
THEOREM Implements == Spec => IsRWLock
<1>1. Init => Abstract!Init
  BY DEF Init, Abstract!Init, Readers, Writers, Waiting, DoWake
<1>2. IInv /\ [Next]_vars => [Abstract!Next]_<<Readers, Writers>>
  BY NextInv DEF AbsStep
<1> QED
  BY <1>1, <1>2, InvariantHolds, PTL DEF Spec, IsRWLock, Abstract!Spec
=============================================================================
