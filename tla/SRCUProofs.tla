----------------------------- MODULE SRCUProofs -----------------------------
(***************************************************************************)
(* synchronize_srcu() gives a full grace period, for any number of         *)
(* readers, updaters and CPUs and whatever the missing barriers reorder.   *)
(*                                                                         *)
(* Two arguments meet.  The first is about one grace period: its holder    *)
(* waits, stage by stage, until every reader it has to wait for counts in  *)
(* the old rank, has left it, and is done.  The second is about the early  *)
(* exit: of two flips seen by an updater the later one belongs to a grace  *)
(* period that began after its update could be seen.                       *)
(***************************************************************************)
EXTENDS SRCU, KListProofs, FiniteSetTheorems, TLAPS

(* Flips that u has seen since it read completed, modulo IntRange. *)
Flips(u) == Minus(completed, idx[u])

BeforeFlip == {"sync1", "sync1_wait"}
AfterFlip  == {"sync2", "sync2_wait", "scan", "sync3", "sync3_wait"}

(* The rank that no reader enters any more. *)
OldRank == 1 - (completed % 2)

(* sp->mutex is held from mutex_lock() to mutex_unlock(). *)
MutexIsHeld == \A u \in Updaters : mutex = u <=> pc[u] \in BeforeFlip \cup AfterFlip

(* A reader has a rank from reading completed to the decrement; an updater *)
(* keeps completed until the flip and the old rank after it.               *)
IdxIsSet ==
  /\ \A r \in Readers : pc[r] \in {"count", "section"} => idx[r] \in {0, 1}
  /\ \A u \in Updaters :
       /\ pc[u] \in {"publish", "mutex_lock"} \cup BeforeFlip => idx[u] \in Ints
       /\ pc[u] \in AfterFlip => idx[u] = OldRank

(* Who is waited for uses the data; an idle reader does not, and one that  *)
(* has left its rank has nothing else left to do.                          *)
UsersAreInside ==
  \A r \in Readers :
    /\ pc[r] = "idle" => ~using[r]
    /\ pc[r] = "unlock" => using[r]
    /\ ~using[r] => \A u \in Updaters : r \notin waitfor[u]

(* The old rank is entered only by readers that read completed before the  *)
(* flip, and the second sync_func() waits for those; it is empty when the  *)
(* scan has ended.                                                         *)
OldRankDrains ==
  \A r \in Readers :
    pc[r] \in {"count", "section"} /\ idx[r] = OldRank =>
      \E h \in Updaters :
        \/ pc[h] = "sync2"
        \/ pc[h] = "sync2_wait" /\ (pc[r] = "count" => r \in pending)
        \/ pc[h] = "scan" /\ pc[r] = "section"

(* An update that has not shown yet has seen one flip at most, and that    *)
(* one only while the second sync_func() of the flipper waits for it.      *)
UpdateShowsInTime ==
  \A u \in Updaters :
    pc[u] = "publish" =>
      \/ Flips(u) = 0
      \/ /\ Flips(u) = 1
         /\ \E h \in Updaters : pc[h] = "sync2" \/ (pc[h] = "sync2_wait" /\ u \in pending)

(* The grace period of h is one for u too: u has shown its update before   *)
(* the first sync_func() of h began.                                       *)
Covers(h, u) ==
  \/ u = h
  \/ pc[u] = "mutex_lock" /\ pc[h] \in BeforeFlip /\ Flips(u) = 1
  \/ pc[u] = "mutex_lock" /\ pc[h] \in AfterFlip /\ Flips(u) = 2

(* How far h has come with the readers that u waits for. *)
Progress ==
  \A h, u \in Updaters : Covers(h, u) =>
    \A r \in waitfor[u] :
      /\ pc[h] = "sync1_wait" /\ pc[r] \in {"lock", "count"} => r \in pending
      /\ pc[h] \in {"sync2", "sync2_wait", "scan"} =>
           \/ pc[r] = "unlock"
           \/ pc[r] = "section" /\ idx[r] = idx[h]
      /\ pc[h] \in {"sync3", "sync3_wait"} => pc[r] = "unlock"
      /\ pc[h] = "sync3_wait" => r \in pending

(* Two flips are enough, once the second grace period is over. *)
EarlyExitIsSafe ==
  \A u \in Updaters :
    pc[u] = "mutex_lock" /\ Flips(u) >= 2 =>
      \/ waitfor[u] = {}
      \/ Flips(u) = 2 /\ \E h \in Updaters : pc[h] \in AfterFlip

(* The readers in rank i, and the counters of that rank. *)
Rank(i) == {r \in Readers : pc[r] = "section" /\ idx[r] = i}

(* s[n] is the sum, not wrapped, of the first n of the counters of rank i; *)
(* they add up to k.                                                       *)
AddUp(s, i, k) ==
  /\ s \in [0 .. NCPU -> Int]
  /\ s[0] = 0 /\ s[NCPU] = k
  /\ \A n \in CPUs : c[n][i] = (s[n] - s[n - 1]) % CntRange

(* The counters of a rank add up to the readers in it. *)
RanksAddUp ==
  \A i \in {0, 1} : \E s \in [0 .. NCPU -> Int] : AddUp(s, i, Cardinality(Rank(i)))

(* During the scan, sum is what the counters visited add up to and the d   *)
(* readers that left them since; d and the readers still in the rank do    *)
(* not exceed all readers.                                                 *)
ScanIsExact ==
  /\ \A u \in Updaters :
       pc[u] = "scan" =>
         \E s \in [0 .. NCPU -> Int], d \in Nat :
           /\ AddUp(s, idx[u], Cardinality(Rank(idx[u])))
           /\ d + Cardinality(Rank(idx[u])) <= Cardinality(Readers)
           /\ sum = (s[cpu] + d) % CntRange
  /\ (\A u \in Updaters : pc[u] # "scan") => cpu = 0 /\ sum = 0

IInv ==
  /\ TypeOK
  /\ MutexIsHeld
  /\ IdxIsSet
  /\ UsersAreInside
  /\ OldRankDrains
  /\ UpdateShowsInTime
  /\ Progress
  /\ EarlyExitIsSafe
  /\ RanksAddUp
  /\ ScanIsExact
  /\ GracePeriod

------------------------------------------------------------------------------
(* What is computed modulo n can be computed without wrapping first: the   *)
(* counters and completed are added to as unsigned numbers.                *)
LEMMA ModIsUnique ==
  ASSUME NEW n \in Nat \ {0}, NEW a \in Int, NEW q \in Int, NEW b \in 0 .. n - 1,
         a = q * n + b
  PROVE  a % n = b
  OBVIOUS

(* A number and its remainder differ by a multiple. *)
LEMMA ModSplit ==
  ASSUME NEW n \in Nat \ {0}, NEW a \in Int
  PROVE  /\ a % n \in 0 .. n - 1
         /\ \E q \in Int : a = q * n + (a % n)
<1>1. a % n \in 0 .. n - 1 /\ a \div n \in Int
  OBVIOUS
<1>2. a = (a \div n) * n + (a % n)
  OBVIOUS
<1> QED BY <1>1, <1>2

(* An operand of a sum may be reduced before or after the addition. *)
LEMMA ModOfSum ==
  ASSUME NEW n \in Nat \ {0}, NEW a \in Int, NEW b \in Int
  PROVE  ((a % n) + b) % n = (a + b) % n
<1> DEFINE x == a % n
           y == (x + b) % n
<1>1. PICK p \in Int : a = p * n + x
  BY ModSplit
<1>2. x \in Int /\ x + b \in Int /\ a + b \in Int
  BY ModSplit
<1>3. PICK q \in Int : x + b = q * n + y
  BY <1>2, ModSplit
<1>4. y \in 0 .. n - 1
  BY <1>2, ModSplit
<1>5. a + b = (p + q) * n + y
  <2> HIDE DEF x, y
  <2> QED BY <1>1, <1>2, <1>3, <1>4
<1>6. (a + b) % n = y
  <2> HIDE DEF x, y
  <2>1. p + q \in Int
    OBVIOUS
  <2> QED BY <1>2, <1>4, <1>5, <2>1, ModIsUnique
<1> QED BY <1>6

(* The difference of two ints, as synchronize_srcu() computes it, is zero  *)
(* for equal ones, and one step of the first adds one to it, or takes it   *)
(* from the greatest int to the least.                                     *)
LEMMA FlipCounts ==
  ASSUME NEW x \in Ints, NEW y \in Ints
  PROVE  /\ Minus(x, x) = 0
         /\ Minus(x, y) \in Int
         /\ (x + 1) % IntRange \in Ints
         /\ ((x + 1) % IntRange) % 2 = 1 - (x % 2)
         /\ \/ Minus((x + 1) % IntRange, y) = Minus(x, y) + 1
            \/ Minus(x, y) >= 2 /\ Minus((x + 1) % IntRange, y) < 0
<1> USE SRCUAssumption DEF Ints
<1>1. \A a \in 0 .. IntRange - 1 : a % IntRange = a
  OBVIOUS
<1>2. \A a \in (-IntRange) .. -1 : a % IntRange = a + IntRange
  OBVIOUS
<1>3. IntRange % IntRange = 0
  OBVIOUS
<1>4. Minus(x, x) = 0
  BY <1>1 DEF Minus
<1>5. (x + 1) % IntRange = IF x + 1 = IntRange THEN 0 ELSE x + 1
  BY <1>1, <1>3
<1>6. ((x + 1) % IntRange) % 2 = 1 - (x % 2)
  BY <1>5
<1>7. (x - y) % IntRange = IF x >= y THEN x - y ELSE x - y + IntRange
  BY <1>1, <1>2
<1>8. (((x + 1) % IntRange) - y) % IntRange =
        IF x + 1 = IntRange THEN IF y = 0 THEN 0 ELSE IntRange - y
        ELSE IF x + 1 >= y THEN x + 1 - y ELSE x + 1 - y + IntRange
  <2>1. CASE x + 1 = IntRange
    BY <2>1, <1>1, <1>2, <1>5
  <2>2. CASE x + 1 # IntRange
    BY <2>2, <1>1, <1>2, <1>5
  <2> QED BY <2>1, <2>2
<1> QED BY <1>4, <1>5, <1>6, <1>7, <1>8 DEF Minus

(* One counter of a rank changes by d, and so does the sum: from CPU n on  *)
(* the partial sums change by d.                                           *)
Shift(s, n, d) == [m \in 0 .. NCPU |-> IF m >= n THEN s[m] + d ELSE s[m]]

LEMMA CounterStep ==
  ASSUME TypeOK, NEW i \in {0, 1}, NEW k \in Int, NEW s, AddUp(s, i, k),
         NEW n \in CPUs, NEW d \in Int, Add(n, i, d)
  PROVE  AddUp(Shift(s, n, d), i, k + d)'
<1> DEFINE s2 == Shift(s, n, d)
<1>1. /\ NCPU \in Nat \ {0} /\ CntRange \in Nat \ {0}
      /\ s \in [0 .. NCPU -> Int]
      /\ s2 \in [0 .. NCPU -> Int]
  BY SRCUAssumption, FS_CardinalityType DEF AddUp, Shift, CPUs
<1>2. s2[0] = 0 /\ s2[NCPU] = k + d
  BY <1>1 DEF AddUp, Shift, CPUs
<1>3. ASSUME NEW m \in CPUs
      PROVE  c'[m][i] = (s2[m] - s2[m - 1]) % CntRange
  <2>1. m \in 0 .. NCPU /\ m - 1 \in 0 .. NCPU /\ m \in Int
    BY <1>1 DEF CPUs
  <2>2. c[m][i] = (s[m] - s[m - 1]) % CntRange
    BY DEF AddUp
  <2>3. CASE m = n
    <3>1. c'[m][i] = (c[m][i] + d) % CntRange
      BY <2>3 DEF Add, TypeOK
    <3>2. s2[m] - s2[m - 1] = (s[m] - s[m - 1]) + d
      BY <1>1, <2>1, <2>3 DEF Shift, CPUs
    <3>3. s[m] - s[m - 1] \in Int
      BY <1>1, <2>1
    <3> QED BY <1>1, <2>2, <3>1, <3>2, <3>3, ModOfSum
  <2>4. CASE m # n
    <3>1. c'[m][i] = c[m][i]
      BY <2>4 DEF Add, TypeOK
    <3>2. s2[m] - s2[m - 1] = s[m] - s[m - 1]
      BY <1>1, <2>1, <2>4 DEF Shift, CPUs
    <3> QED BY <2>2, <3>1, <3>2
  <2> QED BY <2>3, <2>4
<1> QED BY <1>1, <1>2, <1>3 DEF AddUp

(* A rank is a finite set of readers. *)
LEMMA RankFacts ==
  ASSUME NEW i
  PROVE  /\ IsFiniteSet(Rank(i)) /\ Cardinality(Rank(i)) \in Nat
         /\ Cardinality(Rank(i)) <= Cardinality(Readers)
<1>1. Rank(i) \in SUBSET Readers
  BY DEF Rank
<1> QED BY <1>1, SRCUAssumption, FS_Subset, FS_CardinalityType

(* The first state: nothing is counted, nobody is inside. *)
LEMMA InitInv == Init => IInv
<1> SUFFICES ASSUME Init PROVE IInv
  OBVIOUS
<1> USE SRCUAssumption DEF Init, Tasks
<1>0. /\ CntRange \in Nat \ {0} /\ 0 \in Cnts /\ 0 \in Ints /\ 0 \in 0 .. NCPU
      /\ 0 % CntRange = 0
  BY FS_CardinalityType DEF Cnts, Ints
<1>1. TypeOK
  BY <1>0 DEF TypeOK
<1>2. MutexIsHeld /\ IdxIsSet /\ UsersAreInside /\ GracePeriod
  BY DEF MutexIsHeld, IdxIsSet, UsersAreInside, GracePeriod, BeforeFlip, AfterFlip
<1>3. OldRankDrains /\ UpdateShowsInTime /\ Progress /\ EarlyExitIsSafe
  <2>1. \A r \in Readers : pc[r] = "idle"
    OBVIOUS
  <2>2. \A u \in Updaters : pc[u] = "idle" /\ waitfor[u] = {}
    OBVIOUS
  <2> QED BY <2>1, <2>2 DEF OldRankDrains, UpdateShowsInTime, Progress, EarlyExitIsSafe
<1>4. RanksAddUp
  <2> SUFFICES ASSUME NEW i \in {0, 1}
               PROVE  \E s \in [0 .. NCPU -> Int] : AddUp(s, i, Cardinality(Rank(i)))
    BY DEF RanksAddUp
  <2>1. Cardinality(Rank(i)) = 0
    <3>1. Rank(i) = {}
      BY DEF Rank
    <3> QED BY <3>1, FS_EmptySet
  <2> DEFINE s == [m \in 0 .. NCPU |-> 0]
  <2>2. s \in [0 .. NCPU -> Int]
    OBVIOUS
  <2>3. \A n \in CPUs : c[n][i] = (s[n] - s[n - 1]) % CntRange
    BY <1>0 DEF CPUs
  <2> WITNESS s \in [0 .. NCPU -> Int]
  <2> QED BY <2>1, <2>2, <2>3 DEF AddUp
<1>5. ScanIsExact
  BY DEF ScanIsExact
<1> QED BY <1>1, <1>2, <1>3, <1>4, <1>5 DEF IInv

------------------------------------------------------------------------------
(* Types, who holds the mutex, what idx is, and who uses the data.         *)
Basic == TypeOK /\ MutexIsHeld /\ IdxIsSet /\ UsersAreInside

LEMMA BasicInv == IInv /\ Next => Basic'
<1> SUFFICES ASSUME IInv, Next PROVE Basic'
  OBVIOUS
<1> USE SRCUAssumption DEF Goto, Tasks, BeforeFlip, AfterFlip
<1>0. completed \in Ints /\ users' = users
  BY DEF IInv, TypeOK, Next
<1>a. completed % 2 \in {0, 1} /\ OldRank \in {0, 1}
  BY <1>0 DEF Ints, OldRank
<1>b. CntRange \in Nat \ {0} /\ 0 \in Cnts
  BY FS_CardinalityType DEF Cnts
<1>c. \A a \in Int : a % CntRange \in Cnts
  BY <1>b, ModSplit DEF Cnts
<1>1. TypeOK /\ MutexIsHeld /\ IdxIsSet /\ UsersAreInside
  BY DEF IInv
<1>2. ASSUME NEW r \in Readers, srcu_read_lock(r) \/ Access(r) \/ EndAccess(r) \/ ReadIdx(r)
      PROVE  Basic'
  <2>1. TypeOK'
    <3>1. CASE srcu_read_lock(r)
      BY <1>0, <1>1, <3>1 DEF TypeOK, srcu_read_lock
    <3>b. CASE Access(r)
      BY <1>0, <1>1, <3>b DEF TypeOK, Access
    <3>a. CASE EndAccess(r)
      <4>1. waitfor' \in [Updaters -> SUBSET Readers] /\ pending' \subseteq Tasks
        BY <1>1, <3>a DEF TypeOK, EndAccess, Settled
      <4>2. using' \in [Readers -> BOOLEAN]
        BY <1>1, <3>a DEF TypeOK, EndAccess
      <4> QED BY <1>0, <1>1, <3>a, <4>1, <4>2 DEF TypeOK, EndAccess
    <3>2. CASE ReadIdx(r)
      BY <1>0, <1>a, <1>1, <3>2 DEF TypeOK, ReadIdx
    <3> QED BY <1>2, <3>1, <3>a, <3>b, <3>2
  <2>2. MutexIsHeld' /\ IdxIsSet'
    BY <1>a, <1>1, <1>2 DEF TypeOK, MutexIsHeld, IdxIsSet, OldRank, srcu_read_lock, Access,
         EndAccess, ReadIdx
  <2>3. UsersAreInside'
    BY <1>1, <1>2 DEF TypeOK, UsersAreInside, srcu_read_lock, Access, EndAccess, ReadIdx
  <2> QED BY <2>1, <2>2, <2>3 DEF Basic
<1>3. ASSUME NEW r \in Readers, NEW n \in CPUs, Count(r, n) \/ srcu_read_unlock(r, n)
      PROVE  Basic'
  <2>1. c' \in [CPUs -> [{0, 1} -> Cnts]]
    <3>1. c \in [CPUs -> [{0, 1} -> Cnts]] /\ idx[r] \in {0, 1}
      BY <1>1, <1>3 DEF TypeOK, IdxIsSet, Count, srcu_read_unlock
    <3>2. c[n][idx[r]] + 1 \in Int /\ c[n][idx[r]] + (-1) \in Int
      BY <1>b, <3>1 DEF Cnts
    <3> QED BY <1>c, <1>3, <3>1, <3>2 DEF Count, srcu_read_unlock, Add
  <2>2. TypeOK'
    <3>1. CASE Count(r, n)
      BY <1>0, <1>1, <2>1, <3>1 DEF TypeOK, Count, Settled
    <3>2. CASE srcu_read_unlock(r, n)
      BY <1>0, <1>1, <2>1, <3>2 DEF TypeOK, srcu_read_unlock
    <3> QED BY <1>3, <3>1, <3>2
  <2>3. MutexIsHeld' /\ IdxIsSet'
    BY <1>0, <1>1, <1>3 DEF TypeOK, MutexIsHeld, IdxIsSet, OldRank, Count, srcu_read_unlock
  <2>4. UsersAreInside'
    BY <1>1, <1>3 DEF TypeOK, UsersAreInside, Count, srcu_read_unlock
  <2> QED BY <2>2, <2>3, <2>4 DEF Basic
<1>4. ASSUME NEW u \in Updaters,
             \/ Publish(u, "idle", "read") \/ ReadCompleted(u, "idle", "publish")
             \/ ReadCompleted(u, "read", "mutex_lock") \/ Publish(u, "publish", "mutex_lock")
             \/ MutexLock(u) \/ MutexUnlock(u) \/ Return(u)
      PROVE  Basic'
  <2>1. TypeOK'
    BY <1>0, <1>1, <1>4 DEF TypeOK, Publish, ReadCompleted, MutexLock, MutexUnlock, Return, Settled
  <2>2. MutexIsHeld'
    BY <1>1, <1>4 DEF TypeOK, MutexIsHeld, Publish, ReadCompleted, MutexLock, MutexUnlock, Return
  <2>3. IdxIsSet'
    BY <1>0, <1>1, <1>4 DEF TypeOK, IdxIsSet, OldRank, Publish, ReadCompleted, MutexLock,
         MutexUnlock, Return
  <2>4. UsersAreInside'
    BY <1>1, <1>4 DEF TypeOK, UsersAreInside, Publish, ReadCompleted, MutexLock, MutexUnlock, Return
  <2> QED BY <2>1, <2>2, <2>3, <2>4 DEF Basic
<1>5. ASSUME NEW u \in Updaters, Flip(u)
      PROVE  Basic'
  <2>1. completed' \in Ints /\ OldRank' = completed % 2
    BY <1>0, <1>a, <1>5, FlipCounts DEF Flip, OldRank
  <2>2. completed % 2 \in Ints
    BY <1>0 DEF Ints
  <2>3. TypeOK'
    BY <1>0, <1>1, <1>5, <2>1, <2>2 DEF TypeOK, Flip
  <2>4. \A v \in Updaters : pc[v] \in BeforeFlip \cup AfterFlip => v = u
    BY <1>1, <1>5 DEF MutexIsHeld, Flip
  <2>5. MutexIsHeld' /\ IdxIsSet'
    BY <1>0, <1>1, <1>5, <2>1, <2>2, <2>4 DEF TypeOK, MutexIsHeld, IdxIsSet, Flip
  <2>6. UsersAreInside'
    BY <1>1, <1>5 DEF TypeOK, UsersAreInside, Flip
  <2> QED BY <2>3, <2>5, <2>6 DEF Basic
<1>6. ASSUME NEW u \in Updaters,
             \/ sync_func(u, "sync1", "sync1_wait") \/ sync_func(u, "sync2", "sync2_wait")
             \/ sync_func(u, "sync3", "sync3_wait")
             \/ StartScan(u) \/ Scan(u) \/ ScanEnds(u)
      PROVE  Basic'
  <2>1. cpu' \in 0 .. NCPU /\ sum' \in Cnts
    <3>1. CASE Scan(u)
      <4>1. idx[u] \in {0, 1}
        BY <1>a, <1>1, <3>1 DEF IdxIsSet, Scan
      <4>2. cpu + 1 \in CPUs /\ cpu' \in 0 .. NCPU
        BY <1>1, <3>1 DEF TypeOK, Scan, CPUs
      <4>3. sum + c[cpu + 1][idx[u]] \in Int
        BY <1>b, <1>1, <4>1, <4>2 DEF TypeOK, Cnts
      <4> QED BY <1>c, <3>1, <4>3, <4>1, <4>2 DEF Scan
    <3>2. CASE ~Scan(u)
      BY <1>b, <1>1, <1>6, <3>2 DEF TypeOK, sync_func, StartScan, ScanEnds
    <3> QED BY <3>1, <3>2
  <2>2. TypeOK'
    BY <1>0, <1>1, <1>6, <2>1 DEF TypeOK, sync_func, StartScan, Scan, ScanEnds, Unsettled
  <2>3. MutexIsHeld'
    BY <1>1, <1>6 DEF TypeOK, MutexIsHeld, sync_func, StartScan, Scan, ScanEnds
  <2>4. IdxIsSet' /\ UsersAreInside'
    BY <1>1, <1>6 DEF TypeOK, IdxIsSet, OldRank, UsersAreInside, sync_func, StartScan, Scan, ScanEnds
  <2> QED BY <2>2, <2>3, <2>4 DEF Basic
<1> QED BY <1>2, <1>3, <1>4, <1>5, <1>6 DEF Next, ReadSide, UpdateSide, synchronize_srcu

------------------------------------------------------------------------------
(* One updater at most is between mutex_lock() and mutex_unlock(); after   *)
(* the flip its idx is the old rank.                                       *)
LEMMA HolderFacts ==
  ASSUME IInv
  PROVE  /\ \A u, v \in Updaters :
              pc[u] \in BeforeFlip \cup AfterFlip /\ pc[v] \in BeforeFlip \cup AfterFlip => u = v
         /\ OldRank \in {0, 1}
         /\ \A u \in Updaters : pc[u] \in AfterFlip => idx[u] = OldRank
<1>1. completed % 2 \in {0, 1}
  BY SRCUAssumption DEF IInv, TypeOK, Ints
<1> QED BY <1>1 DEF IInv, MutexIsHeld, IdxIsSet, OldRank

(* The sums are about the readers in their sections and about the scan:    *)
(* steps that touch neither preserve them.                                 *)
LEMMA CountFrame ==
  ASSUME IInv, UNCHANGED <<c, cpu, sum>>,
         \A i \in {0, 1} : Rank(i)' = Rank(i),
         \A u \in Updaters : /\ pc'[u] = "scan" <=> pc[u] = "scan"
                             /\ pc[u] = "scan" => idx'[u] = idx[u]
  PROVE  RanksAddUp' /\ ScanIsExact'
<1>1. ASSUME NEW s, NEW i \in {0, 1}, AddUp(s, i, Cardinality(Rank(i)))
      PROVE  AddUp(s, i, Cardinality(Rank(i)))'
  BY <1>1 DEF AddUp
<1>2. RanksAddUp'
  BY <1>1 DEF IInv, RanksAddUp
<1>3. ASSUME NEW u \in Updaters, pc'[u] = "scan"
      PROVE  \E s \in [0 .. NCPU -> Int], d \in Nat :
               /\ AddUp(s, idx[u], Cardinality(Rank(idx[u])))'
               /\ d + Cardinality(Rank(idx[u])') <= Cardinality(Readers)
               /\ sum' = (s[cpu'] + d) % CntRange
  <2>1. idx[u] \in {0, 1} /\ idx'[u] = idx[u] /\ pc[u] = "scan"
    BY <1>3, HolderFacts DEF AfterFlip
  <2>2. PICK s \in [0 .. NCPU -> Int], d \in Nat :
           /\ AddUp(s, idx[u], Cardinality(Rank(idx[u])))
           /\ d + Cardinality(Rank(idx[u])) <= Cardinality(Readers)
           /\ sum = (s[cpu] + d) % CntRange
    BY <2>1 DEF IInv, ScanIsExact
  <2>3. AddUp(s, idx[u], Cardinality(Rank(idx[u])))' /\ Rank(idx[u])' = Rank(idx[u])
    <3>1. PICK j \in {0, 1} : idx[u] = j
      BY <2>1
    <3>2. AddUp(s, j, Cardinality(Rank(j)))' /\ Rank(j)' = Rank(j)
      BY <1>1, <2>2, <3>1
    <3>3. idx[u]' = j
      BY <2>1, <3>1
    <3> QED BY <3>1, <3>2, <3>3 DEF AddUp, Rank
  <2> QED BY <2>2, <2>3
<1>4. ScanIsExact'
  BY <1>3 DEF IInv, ScanIsExact
<1> QED BY <1>2, <1>4

(* The reader r enters or leaves the rank i, and counts d = 1 or -1 on CPU *)
(* n for it; if it enters, no scan of that rank is under way.              *)
LEMMA RankStep ==
  ASSUME IInv, NEW r \in Readers, NEW n \in CPUs, NEW i \in {0, 1}, NEW d \in {1, -1},
         Add(n, i, d), UNCHANGED <<cpu, sum>>,
         Cardinality(Rank(i)') = Cardinality(Rank(i)) + d,
         Rank(1 - i)' = Rank(1 - i),
         \A u \in Updaters : /\ pc'[u] = pc[u] /\ idx'[u] = idx[u]
                             /\ pc[u] = "scan" /\ d = 1 => idx[u] # i
  PROVE  RanksAddUp' /\ ScanIsExact'
<1>1. TypeOK /\ Cardinality(Rank(i)) \in Int /\ d \in Int
  BY RankFacts DEF IInv
<1>2. ASSUME NEW s, AddUp(s, 1 - i, Cardinality(Rank(1 - i)))
      PROVE  AddUp(s, 1 - i, Cardinality(Rank(1 - i)))'
  <2>1. \A m \in CPUs : c'[m][1 - i] = c[m][1 - i]
    BY <1>1 DEF TypeOK, Add
  <2> QED BY <1>2, <2>1 DEF AddUp
<1>3. ASSUME NEW s, AddUp(s, i, Cardinality(Rank(i)))
      PROVE  /\ Shift(s, n, d) \in [0 .. NCPU -> Int]
             /\ AddUp(Shift(s, n, d), i, Cardinality(Rank(i)))'
  <2>1. PICK k \in Int : k = Cardinality(Rank(i))
    BY <1>1
  <2>2. AddUp(s, i, k) /\ k + d = Cardinality(Rank(i)')
    BY <1>3, <2>1
  <2>3. AddUp(Shift(s, n, d), i, k + d)'
    BY <1>1, <2>2, CounterStep
  <2>4. AddUp(Shift(s, n, d), i, Cardinality(Rank(i)))'
    BY <2>2, <2>3 DEF AddUp
  <2> QED BY <2>4 DEF AddUp
<1>4. RanksAddUp'
  <2>1. PICK s \in [0 .. NCPU -> Int] : AddUp(s, i, Cardinality(Rank(i)))
    BY DEF IInv, RanksAddUp
  <2>2. PICK t \in [0 .. NCPU -> Int] : AddUp(t, 1 - i, Cardinality(Rank(1 - i)))
    BY DEF IInv, RanksAddUp
  <2>3. \A j \in {0, 1} : j = i \/ j = 1 - i
    OBVIOUS
  <2> QED BY <1>2, <1>3, <2>1, <2>2, <2>3 DEF RanksAddUp
<1>5. ASSUME NEW u \in Updaters, pc[u] = "scan"
      PROVE  \E s \in [0 .. NCPU -> Int], e \in Nat :
               /\ AddUp(s, idx[u], Cardinality(Rank(idx[u])))'
               /\ e + Cardinality(Rank(idx[u])') <= Cardinality(Readers)
               /\ sum = (s[cpu] + e) % CntRange
  <2>1. PICK s \in [0 .. NCPU -> Int], e \in Nat :
           /\ AddUp(s, idx[u], Cardinality(Rank(idx[u])))
           /\ e + Cardinality(Rank(idx[u])) <= Cardinality(Readers)
           /\ sum = (s[cpu] + e) % CntRange
    BY <1>5 DEF IInv, ScanIsExact
  <2>2. CASE idx[u] = i
    <3>1. d = -1
      BY <1>5, <2>2
    <3>2. /\ Shift(s, n, d) \in [0 .. NCPU -> Int]
          /\ AddUp(Shift(s, n, d), idx[u], Cardinality(Rank(idx[u])))'
      <4>1. idx[u]' = i
        BY <2>2
      <4>2. AddUp(s, i, Cardinality(Rank(i)))
        BY <2>1, <2>2
      <4>3. AddUp(Shift(s, n, d), i, Cardinality(Rank(i)))'
        BY <1>3, <4>2
      <4> QED BY <1>3, <4>1, <4>2, <4>3
    <3>3. Cardinality(Rank(idx[u])') = Cardinality(Rank(i)) - 1
      BY <2>2, <3>1 DEF Rank
    <3>4. cpu \in 0 .. NCPU /\ n \in Int /\ Cardinality(Readers) \in Nat
      BY <1>1, SRCUAssumption, FS_CardinalityType DEF TypeOK, CPUs
    <3>5. CASE n <= cpu
      <4>1. Shift(s, n, d)[cpu] + (e + 1) = s[cpu] + e
        BY <3>1, <3>4, <3>5 DEF Shift
      <4>2. e + 1 \in Nat /\ (e + 1) + Cardinality(Rank(idx[u])') <= Cardinality(Readers)
        BY <1>1, <2>1, <2>2, <3>3, <3>4
      <4> QED BY <2>1, <3>2, <4>1, <4>2
    <3>6. CASE ~(n <= cpu)
      <4>1. Shift(s, n, d)[cpu] + e = s[cpu] + e
        BY <3>1, <3>4, <3>6 DEF Shift
      <4>2. e + Cardinality(Rank(idx[u])') <= Cardinality(Readers)
        BY <1>1, <2>1, <2>2, <3>3, <3>4
      <4> QED BY <2>1, <3>2, <4>1, <4>2
    <3> QED BY <3>5, <3>6
  <2>3. CASE idx[u] # i
    <3>1. idx[u] = 1 - i /\ idx'[u] = 1 - i
      BY <1>5, <2>3, HolderFacts DEF AfterFlip
    <3>2. AddUp(s, idx[u], Cardinality(Rank(idx[u])))'
      <4>1. AddUp(s, 1 - i, Cardinality(Rank(1 - i)))
        BY <2>1, <3>1
      <4>2. AddUp(s, 1 - i, Cardinality(Rank(1 - i)))'
        BY <1>2, <4>1
      <4> QED BY <3>1, <4>2
    <3>3. Rank(idx[u])' = Rank(idx[u])
      BY <3>1 DEF Rank
    <3> QED BY <2>1, <3>2, <3>3
  <2> QED BY <2>2, <2>3
<1>6. ScanIsExact'
  BY <1>5 DEF IInv, ScanIsExact
<1> QED BY <1>4, <1>6

(* Every step keeps the sums exact: those of the counters, and the one     *)
(* that srcu_readers_active_idx() is adding up.                            *)
LEMMA CountInv == IInv /\ Next => RanksAddUp' /\ ScanIsExact'
<1> SUFFICES ASSUME IInv, Next PROVE RanksAddUp' /\ ScanIsExact'
  OBVIOUS
<1> USE DEF Goto, Tasks, BeforeFlip, AfterFlip
<1>0. TypeOK /\ MutexIsHeld /\ IdxIsSet /\ OldRankDrains /\ Readers \cap Updaters = {}
  BY SRCUAssumption DEF IInv
<1>a. CntRange \in Nat \ {0} /\ 0 % CntRange = 0
  BY SRCUAssumption, FS_CardinalityType
<1>1. ASSUME NEW r \in Readers, srcu_read_lock(r) \/ Access(r) \/ EndAccess(r) \/ ReadIdx(r)
      PROVE  RanksAddUp' /\ ScanIsExact'
  <2>1. \A i \in {0, 1} : Rank(i)' = Rank(i)
    BY <1>0, <1>1 DEF TypeOK, Rank, srcu_read_lock, Access, EndAccess, ReadIdx
  <2>2. UNCHANGED <<c, cpu, sum>>
    BY <1>1 DEF srcu_read_lock, Access, EndAccess, ReadIdx
  <2>3. \A u \in Updaters : pc'[u] = pc[u] /\ idx'[u] = idx[u]
    BY <1>0, <1>1 DEF TypeOK, srcu_read_lock, Access, EndAccess, ReadIdx
  <2> QED BY <2>1, <2>2, <2>3, CountFrame
<1>2. ASSUME NEW r \in Readers, NEW n \in CPUs, Count(r, n)
      PROVE  RanksAddUp' /\ ScanIsExact'
  <2>1. PICK i \in {0, 1} : i = idx[r]
    BY <1>0, <1>2 DEF IdxIsSet, Count
  <2>2. Cardinality(Rank(i)') = Cardinality(Rank(i)) + 1
    <3>1. Rank(i)' = Rank(i) \cup {r} /\ r \notin Rank(i)
      BY <1>0, <1>2, <2>1 DEF TypeOK, Rank, Count
    <3> QED BY <3>1, RankFacts, FS_AddElement
  <2>3. Rank(1 - i)' = Rank(1 - i)
    BY <1>0, <1>2, <2>1 DEF TypeOK, Rank, Count
  <2>4. \A u \in Updaters : pc'[u] = pc[u] /\ idx'[u] = idx[u]
    BY <1>0, <1>2 DEF TypeOK, Count
  <2>5. \A u \in Updaters : pc[u] = "scan" => idx[u] # i
    BY <1>0, <1>2, <2>1, HolderFacts DEF OldRankDrains, Count
  <2>6. Add(n, i, 1) /\ UNCHANGED <<cpu, sum>>
    BY <1>2, <2>1 DEF Count
  <2> QED BY <2>2, <2>3, <2>4, <2>5, <2>6, RankStep
<1>3. ASSUME NEW r \in Readers, NEW n \in CPUs, srcu_read_unlock(r, n)
      PROVE  RanksAddUp' /\ ScanIsExact'
  <2>1. PICK i \in {0, 1} : i = idx[r]
    BY <1>0, <1>3 DEF IdxIsSet, srcu_read_unlock
  <2>2. Cardinality(Rank(i)') = Cardinality(Rank(i)) + (-1)
    <3>1. Rank(i)' = Rank(i) \ {r} /\ r \in Rank(i)
      BY <1>0, <1>3, <2>1 DEF TypeOK, Rank, srcu_read_unlock
    <3> QED BY <3>1, RankFacts, FS_RemoveElement
  <2>3. Rank(1 - i)' = Rank(1 - i)
    BY <1>0, <1>3, <2>1 DEF TypeOK, Rank, srcu_read_unlock
  <2>4. \A u \in Updaters : pc'[u] = pc[u] /\ idx'[u] = idx[u]
    BY <1>0, <1>3 DEF TypeOK, srcu_read_unlock
  <2>5. Add(n, i, -1) /\ UNCHANGED <<cpu, sum>>
    BY <1>3, <2>1 DEF srcu_read_unlock
  <2> QED BY <2>2, <2>3, <2>4, <2>5, RankStep
<1>4. ASSUME NEW u \in Updaters,
             \/ Publish(u, "idle", "read") \/ ReadCompleted(u, "idle", "publish")
             \/ ReadCompleted(u, "read", "mutex_lock") \/ Publish(u, "publish", "mutex_lock")
             \/ MutexLock(u) \/ MutexUnlock(u) \/ Return(u) \/ Flip(u)
             \/ sync_func(u, "sync1", "sync1_wait") \/ sync_func(u, "sync2", "sync2_wait")
             \/ sync_func(u, "sync3", "sync3_wait")
      PROVE  RanksAddUp' /\ ScanIsExact'
  <2>1. \A r \in Readers : pc'[r] = pc[r] /\ idx'[r] = idx[r]
    BY <1>0, <1>4 DEF TypeOK, Publish, ReadCompleted, MutexLock, MutexUnlock, Return, Flip, sync_func
  <2>2. \A i \in {0, 1} : Rank(i)' = Rank(i)
    BY <2>1 DEF Rank
  <2>3. UNCHANGED <<c, cpu, sum>>
    BY <1>4 DEF Publish, ReadCompleted, MutexLock, MutexUnlock, Return, Flip, sync_func
  <2>4. \A v \in Updaters : /\ pc'[v] = "scan" <=> pc[v] = "scan"
                            /\ pc[v] = "scan" => idx'[v] = idx[v]
    BY <1>0, <1>4 DEF TypeOK, Publish, ReadCompleted, MutexLock, MutexUnlock, Return, Flip, sync_func
  <2> QED BY <2>2, <2>3, <2>4, CountFrame
<1>5. ASSUME NEW u \in Updaters, StartScan(u) \/ Scan(u) \/ ScanEnds(u)
      PROVE  RanksAddUp' /\ ScanIsExact'
  <2>1. UNCHANGED <<c, idx>> /\ \A r \in Readers : pc'[r] = pc[r]
    BY <1>0, <1>5 DEF TypeOK, StartScan, Scan, ScanEnds
  <2>2. ASSUME NEW i PROVE Rank(i)' = Rank(i)
    BY <2>1 DEF Rank
  <2>3. ASSUME NEW s, NEW i \in {0, 1}, AddUp(s, i, Cardinality(Rank(i)))
        PROVE  AddUp(s, i, Cardinality(Rank(i)))'
    BY <2>1, <2>2, <2>3 DEF AddUp
  <2>4. RanksAddUp'
    BY <2>3 DEF IInv, RanksAddUp
  <2>5. PICK i \in {0, 1} : i = idx[u] /\ i = idx'[u]
    BY <1>5, <2>1, HolderFacts DEF StartScan, Scan, ScanEnds
  <2>6. /\ pc[u] \in BeforeFlip \cup AfterFlip
        /\ \A v \in Updaters : v # u => pc'[v] = pc[v] /\ pc[v] # "scan"
    BY <1>0, <1>5, HolderFacts DEF TypeOK, StartScan, Scan, ScanEnds
  <2>7. Cardinality(Rank(i)) \in Nat /\ Cardinality(Rank(i)) <= Cardinality(Readers)
        /\ Cardinality(Readers) \in Nat
    BY RankFacts, SRCUAssumption, FS_CardinalityType
  <2>8. SUFFICES ASSUME pc'[u] = "scan"
                 PROVE  \E s \in [0 .. NCPU -> Int], d \in Nat :
                          /\ AddUp(s, i, Cardinality(Rank(i)))'
                          /\ d + Cardinality(Rank(i)) <= Cardinality(Readers)
                          /\ sum' = (s[cpu'] + d) % CntRange
    <3>1. pc'[u] # "scan" => cpu' = 0 /\ sum' = 0
      BY <1>0, <1>5 DEF TypeOK, StartScan, Scan, ScanEnds
    <3>2. Rank(idx[u])' = Rank(i)
      BY <2>2, <2>5
    <3> QED BY <2>4, <2>5, <2>6, <3>1, <3>2 DEF ScanIsExact
  <2>9. CASE StartScan(u) \/ ScanEnds(u)
    <3>1. PICK s \in [0 .. NCPU -> Int] : AddUp(s, i, Cardinality(Rank(i)))
      BY DEF IInv, RanksAddUp
    <3>2. cpu' = 0 /\ sum' = 0
      <4>1. CASE ScanEnds(u)
        BY <4>1 DEF ScanEnds
      <4>2. CASE StartScan(u)
        BY <2>6, <4>2 DEF StartScan, IInv, ScanIsExact
      <4> QED BY <2>9, <4>1, <4>2
    <3>3. AddUp(s, i, Cardinality(Rank(i)))'
      BY <2>3, <3>1
    <3>4. (s[cpu'] + 0) % CntRange = 0 /\ 0 + Cardinality(Rank(i)) <= Cardinality(Readers)
      BY <1>a, <2>7, <3>1, <3>2 DEF AddUp
    <3> QED BY <3>1, <3>2, <3>3, <3>4
  <2>10. CASE Scan(u)
    <3>1. PICK s \in [0 .. NCPU -> Int], d \in Nat :
             /\ AddUp(s, i, Cardinality(Rank(i)))
             /\ d + Cardinality(Rank(i)) <= Cardinality(Readers)
             /\ sum = (s[cpu] + d) % CntRange
      BY <2>5, <2>10 DEF IInv, ScanIsExact, Scan
    <3>2. cpu' = cpu + 1 /\ cpu \in 0 .. NCPU /\ cpu + 1 \in 0 .. NCPU /\ cpu + 1 \in CPUs
      BY <1>0, <2>10, SRCUAssumption DEF TypeOK, Scan, CPUs
    <3>3. /\ sum' = (sum + c[cpu + 1][i]) % CntRange
          /\ c[cpu + 1][i] = (s[cpu + 1] - s[cpu]) % CntRange
      <4>1. (cpu + 1) - 1 = cpu
        BY <3>2
      <4> QED BY <2>5, <2>10, <3>1, <3>2, <4>1 DEF Scan, AddUp
    <3>4. PICK a \in Int, b \in Int : a = s[cpu] + d /\ b = s[cpu + 1] - s[cpu]
      <4>1. s[cpu] \in Int /\ s[cpu + 1] \in Int /\ d \in Int
        BY <3>1, <3>2
      <4> QED BY <4>1
    <3>5. ((a % CntRange) + (b % CntRange)) % CntRange = (a + b) % CntRange
      <4>1. a % CntRange \in Int /\ b % CntRange \in Int
        BY <1>a, ModSplit
      <4>2. ((a % CntRange) + (b % CntRange)) % CntRange = (a + (b % CntRange)) % CntRange
        BY <1>a, <4>1, ModOfSum
      <4>3. ((b % CntRange) + a) % CntRange = (b + a) % CntRange
        BY <1>a, ModOfSum
      <4>4. (b % CntRange) + a = a + (b % CntRange) /\ b + a = a + b
        BY <4>1
      <4> QED BY <4>2, <4>3, <4>4
    <3>6. a + b = s[cpu'] + d
      <4>1. s[cpu] \in Int /\ s[cpu + 1] \in Int /\ d \in Int
        BY <3>1, <3>2
      <4> QED BY <3>2, <3>4, <4>1
    <3>7. sum' = (s[cpu'] + d) % CntRange
      BY <3>1, <3>3, <3>4, <3>5, <3>6
    <3>8. AddUp(s, i, Cardinality(Rank(i)))'
      BY <2>3, <3>1
    <3> QED BY <3>1, <3>7, <3>8
  <2> QED BY <1>5, <2>9, <2>10
<1> QED BY <1>1, <1>2, <1>3, <1>4, <1>5 DEF Next, ReadSide, UpdateSide, synchronize_srcu

------------------------------------------------------------------------------
(* A sum of zero means what synchronize_srcu() takes it for: the old rank  *)
(* is empty, although the counters were not read at one moment.            *)
LEMMA ScanFindsAll ==
  ASSUME IInv, NEW u \in Updaters, pc[u] = "scan", cpu = NCPU, sum = 0
  PROVE  \A r \in Readers : ~(pc[r] = "section" /\ idx[r] = OldRank)
<1>1. idx[u] = OldRank
  BY HolderFacts DEF AfterFlip
<1>2. PICK s \in [0 .. NCPU -> Int], d \in Nat :
         /\ AddUp(s, idx[u], Cardinality(Rank(idx[u])))
         /\ d + Cardinality(Rank(idx[u])) <= Cardinality(Readers)
         /\ 0 = (s[NCPU] + d) % CntRange
  BY DEF IInv, ScanIsExact
<1>3. s[NCPU] = Cardinality(Rank(idx[u])) /\ Cardinality(Rank(idx[u])) \in Nat
  BY <1>2, RankFacts DEF AddUp
<1>4. CntRange \in Nat \ {0} /\ Cardinality(Readers) \in Nat /\ Cardinality(Readers) < CntRange
  BY SRCUAssumption, FS_CardinalityType
<1>5. s[NCPU] + d \in 0 .. CntRange - 1
  BY <1>2, <1>3, <1>4
<1>6. (s[NCPU] + d) % CntRange = s[NCPU] + d
  BY <1>4, <1>5
<1>7. Cardinality(Rank(idx[u])) = 0
  BY <1>2, <1>3, <1>6
<1>8. Rank(idx[u]) = {}
  BY <1>7, RankFacts, FS_EmptySet
<1> QED BY <1>1, <1>8 DEF Rank

(* The old rank drains, and every update shows in time: what the first two *)
(* sync_func() are for.                                                    *)
LEMMA DrainInv == IInv /\ Next => OldRankDrains' /\ UpdateShowsInTime'
<1> SUFFICES ASSUME IInv, Next PROVE OldRankDrains' /\ UpdateShowsInTime'
  OBVIOUS
<1> USE DEF Goto, Tasks, BeforeFlip, AfterFlip
<1>0. TypeOK /\ IdxIsSet /\ OldRankDrains /\ UpdateShowsInTime /\ Readers \cap Updaters = {}
  BY SRCUAssumption DEF IInv
<1>a. completed % 2 \in {0, 1} /\ completed \in Ints
  BY SRCUAssumption, <1>0 DEF TypeOK, Ints
<1>1. ASSUME NEW r \in Readers, NEW n \in CPUs,
             \/ srcu_read_lock(r) \/ Access(r) \/ EndAccess(r) \/ ReadIdx(r)
             \/ Count(r, n) \/ srcu_read_unlock(r, n)
      PROVE  OldRankDrains' /\ UpdateShowsInTime'
  <2>1. \A u \in Updaters : /\ pc'[u] = pc[u] /\ idx'[u] = idx[u]
                            /\ u \in pending => u \in pending'
    BY <1>0, <1>1 DEF TypeOK, srcu_read_lock, Access, EndAccess, ReadIdx, Count,
         srcu_read_unlock, Settled
  <2>2. completed' = completed
    BY <1>1 DEF srcu_read_lock, Access, EndAccess, ReadIdx, Count, srcu_read_unlock
  <2>3. UpdateShowsInTime'
    BY <1>0, <2>1, <2>2 DEF UpdateShowsInTime, Flips
  <2>4. \A q \in Readers \ {r} : /\ pc'[q] = pc[q] /\ idx'[q] = idx[q]
                                 /\ q \in pending => q \in pending'
    BY <1>0, <1>1 DEF TypeOK, srcu_read_lock, Access, EndAccess, ReadIdx, Count,
         srcu_read_unlock, Settled
  <2>5. \/ pc'[r] \notin {"count", "section"}
        \/ pc'[r] = "count" /\ idx'[r] = completed % 2
        \/ pc[r] = "count" /\ pc'[r] = "section" /\ idx'[r] = idx[r]
        \/ pc'[r] = pc[r] /\ idx'[r] = idx[r] /\ pending' = pending
        \/ pc'[r] = pc[r] /\ idx'[r] = idx[r] /\ pc[r] = "section"
    BY <1>0, <1>1 DEF TypeOK, srcu_read_lock, Access, EndAccess, ReadIdx, Count, srcu_read_unlock
  <2>6. OldRankDrains'
    <3>1. OldRank' = OldRank /\ completed % 2 # OldRank
      BY <1>a, <2>2 DEF OldRank
    <3>2. ASSUME NEW q \in Readers \ {r}, pc'[q] \in {"count", "section"}, idx'[q] = OldRank
          PROVE  \E h \in Updaters :
                   \/ pc'[h] = "sync2"
                   \/ pc'[h] = "sync2_wait" /\ (pc'[q] = "count" => q \in pending')
                   \/ pc'[h] = "scan" /\ pc'[q] = "section"
      BY <1>0, <2>1, <2>4, <3>2 DEF OldRankDrains
    <3>3. ASSUME pc'[r] \in {"count", "section"}, idx'[r] = OldRank
          PROVE  \E h \in Updaters :
                   \/ pc'[h] = "sync2"
                   \/ pc'[h] = "sync2_wait" /\ (pc'[r] = "count" => r \in pending')
                   \/ pc'[h] = "scan" /\ pc'[r] = "section"
      <4>1. pc[r] \in {"count", "section"} /\ idx[r] = OldRank
        BY <2>5, <3>1, <3>3
      <4>2. PICK h \in Updaters :
               \/ pc[h] = "sync2"
               \/ pc[h] = "sync2_wait" /\ (pc[r] = "count" => r \in pending)
               \/ pc[h] = "scan" /\ pc[r] = "section"
        BY <1>0, <4>1 DEF OldRankDrains
      <4> QED BY <2>1, <2>5, <3>1, <3>3, <4>2
    <3> QED BY <3>1, <3>2, <3>3 DEF OldRankDrains
  <2> QED BY <2>3, <2>6
<1>2. ASSUME NEW u \in Updaters,
             \/ Publish(u, "idle", "read") \/ ReadCompleted(u, "idle", "publish")
             \/ ReadCompleted(u, "read", "mutex_lock") \/ Publish(u, "publish", "mutex_lock")
             \/ MutexLock(u) \/ Return(u)
      PROVE  OldRankDrains' /\ UpdateShowsInTime'
  <2>1. /\ completed' = completed
        /\ pc[u] \notin {"sync2", "sync2_wait", "scan"}
        /\ pc'[u] = "publish" => idx'[u] = completed
    BY <1>0, <1>2 DEF TypeOK, Publish, ReadCompleted, MutexLock, Return
  <2>2. \A t \in Tasks \ {u} : /\ pc'[t] = pc[t] /\ idx'[t] = idx[t]
                               /\ t \in pending => t \in pending'
    BY <1>0, <1>2 DEF TypeOK, Publish, ReadCompleted, MutexLock, Return, Settled
  <2>3. OldRank' = OldRank
    BY <2>1 DEF OldRank
  <2>4. OldRankDrains'
    BY <1>0, <2>1, <2>2, <2>3 DEF OldRankDrains
  <2>5. pc'[u] = "publish" => Flips(u)' = 0
    BY <1>a, <2>1, FlipCounts DEF Flips
  <2>6. \A v \in Updaters \ {u} : Flips(v)' = Flips(v)
    BY <2>1, <2>2 DEF Flips
  <2> QED BY <1>0, <2>1, <2>2, <2>4, <2>5, <2>6 DEF UpdateShowsInTime
<1>3. ASSUME NEW u \in Updaters,
             \/ sync_func(u, "sync1", "sync1_wait") \/ sync_func(u, "sync3", "sync3_wait")
             \/ MutexUnlock(u)
      PROVE  OldRankDrains' /\ UpdateShowsInTime'
  <2>1. \A h \in Updaters : pc[h] \notin {"sync2", "sync2_wait", "scan"}
    BY <1>3, HolderFacts DEF sync_func, MutexUnlock
  <2>2. /\ \A t \in Tasks \ {u} : pc'[t] = pc[t]
        /\ idx' = idx /\ completed' = completed /\ pc'[u] # "publish"
    BY <1>0, <1>3 DEF TypeOK, sync_func, MutexUnlock
  <2>3. OldRank' = OldRank /\ \A v \in Updaters : Flips(v)' = Flips(v)
    BY <2>2 DEF OldRank, Flips
  <2>4. OldRankDrains'
    BY <1>0, <2>1, <2>2, <2>3 DEF OldRankDrains
  <2> QED BY <1>0, <2>1, <2>2, <2>3, <2>4 DEF UpdateShowsInTime
<1>4. ASSUME NEW u \in Updaters, sync_func(u, "sync2", "sync2_wait")
      PROVE  OldRankDrains' /\ UpdateShowsInTime'
  <2>1. \A h \in Updaters : pc[h] \in {"sync2", "sync2_wait", "scan"} => h = u
    BY <1>4, HolderFacts DEF sync_func
  <2>2. /\ \A t \in Tasks \ {u} : pc'[t] = pc[t]
        /\ idx' = idx /\ completed' = completed /\ pc'[u] = "sync2_wait"
    BY <1>0, <1>4 DEF TypeOK, sync_func
  <2>3. OldRank' = OldRank /\ \A v \in Updaters : Flips(v)' = Flips(v)
    BY <2>2 DEF OldRank, Flips
  <2>4. /\ \A r \in Readers : pc[r] = "count" => r \in pending'
        /\ \A v \in Updaters : pc[v] = "publish" => v \in pending'
    BY <1>4 DEF sync_func, Unsettled
  <2>5. OldRankDrains'
    BY <1>0, <2>2, <2>3, <2>4 DEF OldRankDrains
  <2> QED BY <1>0, <2>2, <2>3, <2>4, <2>5 DEF UpdateShowsInTime
<1>5. ASSUME NEW u \in Updaters, Flip(u)
      PROVE  OldRankDrains' /\ UpdateShowsInTime'
  <2>1. \A h \in Updaters : pc[h] \notin {"sync2", "sync2_wait", "scan"}
    BY <1>5, HolderFacts DEF Flip
  <2>2. /\ \A t \in Tasks \ {u} : pc'[t] = pc[t] /\ idx'[t] = idx[t]
        /\ pc'[u] = "sync2" /\ completed' = (completed + 1) % IntRange
    BY <1>0, <1>5 DEF TypeOK, Flip
  <2>3. OldRankDrains'
    BY <2>2 DEF OldRankDrains
  <2>4. ASSUME NEW v \in Updaters, pc'[v] = "publish"
        PROVE  Flips(v)' = 1
    <3>1. v # u /\ pc[v] = "publish" /\ idx[v] \in Ints /\ idx'[v] = idx[v]
      BY <1>0, <2>2, <2>4 DEF IdxIsSet
    <3>2. Minus(completed, idx[v]) = 0
      BY <1>0, <2>1, <3>1 DEF UpdateShowsInTime, Flips
    <3> QED BY <1>a, <2>2, <3>1, <3>2, FlipCounts DEF Flips
  <2> QED BY <2>2, <2>3, <2>4 DEF UpdateShowsInTime
<1>6. ASSUME NEW u \in Updaters, StartScan(u) \/ Scan(u) \/ ScanEnds(u)
      PROVE  OldRankDrains' /\ UpdateShowsInTime'
  <2>1. \A h \in Updaters : pc[h] \in {"sync2", "sync2_wait", "scan"} => h = u
    BY <1>6, HolderFacts DEF StartScan, Scan, ScanEnds
  <2>2. /\ \A t \in Tasks \ {u} : pc'[t] = pc[t]
        /\ idx' = idx /\ completed' = completed /\ pending' = pending
        /\ pc[u] # "publish" /\ pc'[u] # "publish" /\ pc[u] # "sync2"
        /\ pc[u] = "sync2_wait" => pending = {}
    BY <1>0, <1>6 DEF TypeOK, StartScan, Scan, ScanEnds
  <2>3. OldRank' = OldRank /\ \A v \in Updaters : Flips(v)' = Flips(v)
    BY <2>2 DEF OldRank, Flips
  <2>4. UpdateShowsInTime'
    BY <1>0, <2>1, <2>2, <2>3 DEF UpdateShowsInTime
  <2>5. ASSUME NEW r \in Readers, pc[r] \in {"count", "section"}, idx[r] = OldRank
        PROVE  pc'[u] = "scan" /\ pc[r] = "section"
    <3>1. pc[r] = "section"
      BY <1>0, <2>1, <2>2, <2>5 DEF OldRankDrains
    <3>2. CASE StartScan(u) \/ Scan(u)
      BY <1>0, <3>1, <3>2 DEF TypeOK, StartScan, Scan
    <3>3. CASE ScanEnds(u)
      BY <1>0, <2>5, <3>1, <3>3, ScanFindsAll DEF TypeOK, ScanEnds
    <3> QED BY <1>6, <3>1, <3>2, <3>3
  <2>6. OldRankDrains'
    BY <1>0, <2>2, <2>3, <2>5 DEF OldRankDrains
  <2> QED BY <2>4, <2>6
<1> QED
  <2>1. 1 \in CPUs
    BY SRCUAssumption DEF CPUs
  <2> QED BY <1>1, <1>2, <1>3, <1>4, <1>5, <1>6, <2>1 DEF Next, ReadSide, UpdateSide, synchronize_srcu

(* Every step keeps the holder's promises to the updaters it covers, and   *)
(* the grace period is over when one of them is done.                      *)
LEMMA ProgressInv == IInv /\ Next => Progress' /\ EarlyExitIsSafe' /\ GracePeriod'
<1> SUFFICES ASSUME IInv, Next PROVE Progress' /\ EarlyExitIsSafe' /\ GracePeriod'
  OBVIOUS
<1> USE DEF Goto, Tasks, BeforeFlip, AfterFlip
<1>0. /\ TypeOK /\ MutexIsHeld /\ IdxIsSet /\ UsersAreInside /\ OldRankDrains /\ UpdateShowsInTime
      /\ Progress /\ EarlyExitIsSafe /\ GracePeriod
      /\ Readers \cap Updaters = {}
  BY SRCUAssumption DEF IInv
<1>a. completed % 2 \in {0, 1} /\ completed \in Ints
  BY SRCUAssumption, <1>0 DEF TypeOK, Ints
<1>1. ASSUME NEW r \in Readers, NEW n \in CPUs,
             \/ srcu_read_lock(r) \/ Access(r) \/ EndAccess(r) \/ ReadIdx(r)
             \/ Count(r, n) \/ srcu_read_unlock(r, n)
      PROVE  Progress' /\ EarlyExitIsSafe' /\ GracePeriod'
  <2>1. /\ \A u \in Updaters : pc'[u] = pc[u] /\ idx'[u] = idx[u] /\ waitfor'[u] \subseteq waitfor[u]
        /\ completed' = completed
    BY <1>0, <1>1 DEF TypeOK, srcu_read_lock, Access, EndAccess, ReadIdx, Count, srcu_read_unlock
  <2>2. /\ \A u \in Updaters : Flips(u)' = Flips(u)
        /\ \A h, u \in Updaters : Covers(h, u)' <=> Covers(h, u)
    BY <2>1 DEF Flips, Covers
  <2>3. EarlyExitIsSafe' /\ GracePeriod'
    BY <1>0, <2>1, <2>2 DEF EarlyExitIsSafe, GracePeriod
  <2>4. \A q \in Readers \ {r} : /\ pc'[q] = pc[q] /\ idx'[q] = idx[q]
                                 /\ q \in pending => q \in pending'
    BY <1>0, <1>1 DEF TypeOK, srcu_read_lock, Access, EndAccess, ReadIdx, Count,
         srcu_read_unlock, Settled
  <2>5. ASSUME NEW u \in Updaters, r \in waitfor'[u]
        PROVE  \/ pc[r] = "lock" /\ pc'[r] = "count" /\ pending' = pending
               \/ pc[r] = "count" /\ pc'[r] = "section"
               \/ pc[r] = "section" /\ pc'[r] = "unlock"
    <3>1. r \in waitfor[u] /\ using[r] /\ pc[r] # "idle"
      BY <1>0, <2>1, <2>5 DEF UsersAreInside, TypeOK
    <3>2. ~EndAccess(r)
      BY <2>5 DEF EndAccess
    <3> QED BY <1>0, <1>1, <3>1, <3>2 DEF TypeOK, srcu_read_lock, Access, ReadIdx, Count,
              srcu_read_unlock
  <2>6. ASSUME NEW h \in Updaters, NEW u \in Updaters, Covers(h, u)', NEW q \in waitfor'[u]
        PROVE  /\ pc'[h] = "sync1_wait" /\ pc'[q] \in {"lock", "count"} => q \in pending'
               /\ pc'[h] \in {"sync2", "sync2_wait", "scan"} =>
                    \/ pc'[q] = "unlock"
                    \/ pc'[q] = "section" /\ idx'[q] = idx'[h]
               /\ pc'[h] \in {"sync3", "sync3_wait"} => pc'[q] = "unlock"
               /\ pc'[h] = "sync3_wait" => q \in pending'
    <3>1. /\ Covers(h, u) /\ q \in waitfor[u] /\ q \in Readers
          /\ pc'[h] = pc[h] /\ idx'[h] = idx[h]
      BY <1>0, <2>1, <2>2, <2>6 DEF TypeOK
    <3>2. /\ pc[h] = "sync1_wait" /\ pc[q] \in {"lock", "count"} => q \in pending
          /\ pc[h] \in {"sync2", "sync2_wait", "scan"} =>
                    \/ pc[q] = "unlock"
                    \/ pc[q] = "section" /\ idx[q] = idx[h]
          /\ pc[h] \in {"sync3", "sync3_wait"} => pc[q] = "unlock"
          /\ pc[h] = "sync3_wait" => q \in pending
      BY <1>0, <3>1 DEF Progress
    <3>3. CASE q # r
      BY <2>4, <3>1, <3>2, <3>3
    <3>4. CASE q = r
      BY <2>5, <2>6, <3>1, <3>2, <3>4
    <3> QED BY <3>3, <3>4
  <2>7. Progress'
    BY <2>6 DEF Progress
  <2> QED BY <2>3, <2>7
<1>2. ASSUME NEW u \in Updaters,
             \/ Publish(u, "idle", "read") \/ ReadCompleted(u, "idle", "publish")
             \/ ReadCompleted(u, "read", "mutex_lock") \/ Publish(u, "publish", "mutex_lock")
             \/ MutexLock(u) \/ MutexUnlock(u) \/ Return(u)
      PROVE  Progress' /\ EarlyExitIsSafe' /\ GracePeriod'
  <2>1. /\ \A t \in Tasks \ {u} : pc'[t] = pc[t] /\ idx'[t] = idx[t]
        /\ \A v \in Updaters \ {u} : waitfor'[v] = waitfor[v]
        /\ \A r \in Readers : r \in pending => r \in pending'
        /\ completed' = completed
        /\ pc'[u] \in {"idle", "read", "publish", "mutex_lock", "done", "sync1"}
    BY <1>0, <1>2 DEF TypeOK, Publish, ReadCompleted, MutexLock, MutexUnlock, Return, Settled
  <2>2. \A v \in Updaters \ {u} : Flips(v)' = Flips(v)
    BY <2>1 DEF Flips
  <2>3. pc'[u] = "mutex_lock" =>
          \/ Flips(u)' = 0
          \/ Flips(u)' = 1 /\ \E h \in Updaters : pc[h] \in AfterFlip
    <3>1. CASE Publish(u, "publish", "mutex_lock")
      BY <1>0, <3>1 DEF UpdateShowsInTime, Publish, Flips
    <3>2. CASE ReadCompleted(u, "read", "mutex_lock")
      BY <1>0, <1>a, <3>2, FlipCounts DEF TypeOK, ReadCompleted, Flips
    <3>3. CASE pc'[u] # "mutex_lock"
      BY <3>3
    <3> QED BY <1>0, <1>2, <3>1, <3>2, <3>3 DEF TypeOK, Publish, ReadCompleted, MutexLock,
              MutexUnlock, Return
  <2>4. ASSUME NEW h \in Updaters, NEW w \in Updaters, Covers(h, w)', pc'[h] \in BeforeFlip \cup AfterFlip
        PROVE  h = u \/ (Covers(h, w) /\ w # u)
    <3>1. CASE h # u /\ w # u
      BY <2>1, <2>2, <2>4, <3>1 DEF Covers
    <3>2. CASE h # u /\ w = u
      BY <2>1, <2>3, <2>4, <3>2, HolderFacts DEF Covers
    <3> QED BY <3>1, <3>2
  <2>5. Progress'
    <3> SUFFICES ASSUME NEW h \in Updaters, NEW w \in Updaters, Covers(h, w)', NEW q \in waitfor'[w],
                        pc'[h] \in {"sync1_wait", "sync2", "sync2_wait", "scan", "sync3", "sync3_wait"}
                 PROVE  /\ pc'[h] = "sync1_wait" /\ pc'[q] \in {"lock", "count"} => q \in pending'
                        /\ pc'[h] \in {"sync2", "sync2_wait", "scan"} =>
                             \/ pc'[q] = "unlock"
                             \/ pc'[q] = "section" /\ idx'[q] = idx'[h]
                        /\ pc'[h] \in {"sync3", "sync3_wait"} => pc'[q] = "unlock"
                        /\ pc'[h] = "sync3_wait" => q \in pending'
      BY DEF Progress
    <3>1. Covers(h, w) /\ w # u /\ h # u /\ pc'[h] = pc[h] /\ idx'[h] = idx[h]
      BY <2>1, <2>4
    <3>2. q \in waitfor[w] /\ q \in Readers /\ pc'[q] = pc[q] /\ idx'[q] = idx[q]
      BY <1>0, <2>1, <3>1 DEF TypeOK
    <3> QED BY <1>0, <2>1, <3>1, <3>2 DEF Progress
  <2>6. CASE MutexUnlock(u)
    <3>1. pc[u] = "sync3_wait" /\ pending = {} /\ pc'[u] = "done" /\ waitfor' = waitfor
      BY <1>0, <2>6 DEF TypeOK, MutexUnlock
    <3>2. waitfor[u] = {}
      BY <1>0, <3>1 DEF Progress, Covers
    <3>3. ASSUME NEW v \in Updaters, v # u, pc[v] = "mutex_lock", Flips(v) >= 2
          PROVE  waitfor[v] = {}
      BY <1>0, <3>1, <3>3, HolderFacts DEF EarlyExitIsSafe, Progress, Covers
    <3> QED BY <1>0, <2>1, <2>2, <2>5, <3>1, <3>2, <3>3 DEF EarlyExitIsSafe, GracePeriod
  <2>7. CASE ~MutexUnlock(u)
    <3>1. pc[u] \notin AfterFlip
      BY <1>2, <2>7 DEF Publish, ReadCompleted, MutexLock, Return
    <3>2. EarlyExitIsSafe'
      BY <1>0, <2>1, <2>2, <2>3, <3>1 DEF EarlyExitIsSafe
    <3>3. ASSUME pc'[u] = "done"
          PROVE  waitfor'[u] = {}
      <4>1. MutexLock(u) /\ pc[u] = "mutex_lock" /\ Flips(u) >= 2 /\ mutex = Null /\ waitfor' = waitfor
        BY <1>0, <1>2, <2>7, <3>3 DEF TypeOK, Publish, ReadCompleted, MutexLock, Return,
             SomeoneElseDidIt, Flips
      <4>2. \A h \in Updaters : pc[h] \notin AfterFlip
        BY <1>0, <4>1, SRCUAssumption DEF MutexIsHeld
      <4> QED BY <1>0, <4>1, <4>2 DEF EarlyExitIsSafe
    <3>4. GracePeriod'
      BY <1>0, <2>1, <3>3 DEF GracePeriod
    <3> QED BY <2>5, <3>2, <3>4
  <2> QED BY <2>6, <2>7
<1>3. ASSUME NEW u \in Updaters,
             \/ sync_func(u, "sync1", "sync1_wait") \/ sync_func(u, "sync2", "sync2_wait")
             \/ sync_func(u, "sync3", "sync3_wait")
             \/ StartScan(u) \/ Scan(u) \/ ScanEnds(u)
      PROVE  Progress' /\ EarlyExitIsSafe' /\ GracePeriod'
  <2>1. /\ \A t \in Tasks \ {u} : pc'[t] = pc[t]
        /\ idx' = idx /\ waitfor' = waitfor /\ completed' = completed
        /\ pc[u] \in BeforeFlip <=> pc'[u] \in BeforeFlip
        /\ pc[u] \in AfterFlip <=> pc'[u] \in AfterFlip
        /\ pc[u] \in BeforeFlip \cup AfterFlip
    BY <1>0, <1>3 DEF TypeOK, sync_func, StartScan, Scan, ScanEnds
  <2>2. /\ \A v \in Updaters : Flips(v)' = Flips(v)
        /\ \A h, v \in Updaters : Covers(h, v)' => Covers(h, v)
        /\ \A h \in Updaters : pc[h] \in BeforeFlip \cup AfterFlip => h = u
    BY <2>1, HolderFacts DEF Flips, Covers
  <2>3. EarlyExitIsSafe' /\ GracePeriod'
    BY <1>0, <2>1, <2>2 DEF EarlyExitIsSafe, GracePeriod
  <2>4. ASSUME NEW w \in Updaters, Covers(u, w)', NEW q \in waitfor[w]
        PROVE  /\ pc'[u] = "sync1_wait" /\ pc[q] \in {"lock", "count"} => q \in pending'
               /\ pc'[u] \in {"sync2", "sync2_wait", "scan"} =>
                    \/ pc[q] = "unlock"
                    \/ pc[q] = "section" /\ idx[q] = idx[u]
               /\ pc'[u] \in {"sync3", "sync3_wait"} => pc[q] = "unlock"
               /\ pc'[u] = "sync3_wait" => q \in pending'
    <3>1. q \in Readers /\ Covers(u, w)
      BY <1>0, <2>2, <2>4 DEF TypeOK
    <3>2. CASE sync_func(u, "sync1", "sync1_wait")
      BY <1>0, <3>1, <3>2 DEF TypeOK, sync_func, Unsettled
    <3>3. CASE sync_func(u, "sync2", "sync2_wait") \/ StartScan(u) \/ Scan(u)
      BY <1>0, <2>1, <3>1, <3>3 DEF TypeOK, sync_func, StartScan, Scan, Progress
    <3>4. CASE sync_func(u, "sync3", "sync3_wait")
      BY <1>0, <3>1, <3>4 DEF TypeOK, sync_func, Unsettled, Progress
    <3>5. CASE ScanEnds(u)
      <4>1. pc[u] = "scan" /\ pc'[u] = (IF sum = 0 THEN "sync3" ELSE "scan") /\ cpu = NCPU
        BY <1>0, <3>5 DEF TypeOK, ScanEnds
      <4>2. pc[q] = "unlock" \/ (pc[q] = "section" /\ idx[q] = idx[u])
        BY <1>0, <3>1, <4>1 DEF Progress
      <4>3. idx[u] = OldRank
        BY <4>1, HolderFacts
      <4>4. CASE sum = 0
        BY <3>1, <4>1, <4>2, <4>3, <4>4, ScanFindsAll
      <4>5. CASE sum # 0
        BY <4>1, <4>2, <4>5
      <4> QED BY <4>4, <4>5
    <3> QED BY <1>3, <3>2, <3>3, <3>4, <3>5
  <2>5. Progress'
    <3>1. \A w \in Updaters : \A q \in waitfor[w] : pc'[q] = pc[q] /\ idx'[q] = idx[q]
      BY <1>0, <2>1 DEF TypeOK
    <3>2. \A h \in Updaters : pc'[h] \in BeforeFlip \cup AfterFlip => h = u
      BY <2>1, <2>2
    <3> QED BY <2>1, <2>4, <3>1, <3>2 DEF Progress
  <2> QED BY <2>3, <2>5
<1>4. ASSUME NEW u \in Updaters, Flip(u)
      PROVE  Progress' /\ EarlyExitIsSafe' /\ GracePeriod'
  <2>1. /\ \A t \in Tasks \ {u} : pc'[t] = pc[t] /\ idx'[t] = idx[t]
        /\ waitfor' = waitfor /\ completed' = (completed + 1) % IntRange
        /\ pc[u] = "sync1_wait" /\ pc'[u] = "sync2" /\ idx'[u] = completed % 2 /\ pending = {}
    BY <1>0, <1>4 DEF TypeOK, Flip
  <2>2. \A h \in Updaters : pc[h] \in BeforeFlip \cup AfterFlip => h = u
    BY <2>1, HolderFacts
  <2>3. ASSUME NEW v \in Updaters, v # u, pc[v] = "mutex_lock", Flips(v)' >= 2
        PROVE  Flips(v)' = Flips(v) + 1 /\ Flips(v) \in Int
    <3>1. idx[v] \in Ints /\ idx'[v] = idx[v]
      BY <1>0, <2>1, <2>3 DEF IdxIsSet
    <3>2. /\ Flips(v)' = Minus((completed + 1) % IntRange, idx[v])
          /\ Flips(v) = Minus(completed, idx[v])
      BY <2>1, <3>1 DEF Flips
    <3>3. Flips(v) \in Int /\ (Flips(v)' = Flips(v) + 1 \/ Flips(v)' < 0)
      BY <1>a, <3>1, <3>2, FlipCounts
    <3>4. Flips(v)' = Flips(v) + 1 => Flips(v)' \in Int
      BY <3>3
    <3>5. Flips(v)' \in Int
      BY <1>a, <3>1, <3>2, FlipCounts
    <3> QED BY <2>3, <3>3, <3>5
  <2>4. EarlyExitIsSafe'
    <3> SUFFICES ASSUME NEW v \in Updaters, pc'[v] = "mutex_lock", Flips(v)' >= 2
                 PROVE  waitfor[v] = {} \/ Flips(v)' = 2
      BY <2>1 DEF EarlyExitIsSafe
    <3>1. v # u /\ pc[v] = "mutex_lock"
      BY <2>1
    <3>2. Flips(v) >= 2 \/ Flips(v)' = 2
      BY <2>3, <3>1
    <3> QED BY <1>0, <2>1, <2>2, <3>1, <3>2 DEF EarlyExitIsSafe
  <2>5. GracePeriod'
    BY <1>0, <2>1 DEF GracePeriod
  <2>6. ASSUME NEW w \in Updaters, Covers(u, w)', NEW q \in waitfor[w]
        PROVE  pc[q] = "unlock" \/ (pc[q] = "section" /\ idx[q] = completed % 2)
    <3>1. Covers(u, w)
      BY <2>1, <2>3, <2>6 DEF Covers
    <3>2. q \in Readers /\ pc[q] \notin {"lock", "count", "idle"}
      BY <1>0, <2>1, <3>1 DEF TypeOK, Progress, UsersAreInside
    <3>3. pc[q] = "section" => idx[q] \in {0, 1} /\ idx[q] # OldRank
      BY <1>0, <2>1, <2>2, <3>2 DEF IdxIsSet, OldRankDrains
    <3> QED BY <1>0, <1>a, <3>2, <3>3 DEF TypeOK, OldRank
  <2>7. Progress'
    <3>1. \A w \in Updaters : \A q \in waitfor[w] : pc'[q] = pc[q] /\ idx'[q] = idx[q]
      BY <1>0, <2>1 DEF TypeOK
    <3>2. \A h \in Updaters : pc'[h] \in BeforeFlip \cup AfterFlip => h = u
      BY <2>1, <2>2
    <3> QED BY <2>1, <2>6, <3>1, <3>2 DEF Progress
  <2> QED BY <2>4, <2>5, <2>7
<1> QED
  <2>1. 1 \in CPUs
    BY SRCUAssumption DEF CPUs
  <2> QED BY <1>1, <1>2, <1>3, <1>4, <2>1 DEF Next, ReadSide, UpdateSide, synchronize_srcu

------------------------------------------------------------------------------
(* IInv is inductive. *)
LEMMA NextInv == IInv /\ [Next]_vars => IInv'
<1>1. IInv /\ Next => IInv'
  BY BasicInv, CountInv, DrainInv, ProgressInv DEF Basic, IInv
<1>2. ASSUME IInv, UNCHANGED vars PROVE IInv'
  <2> USE <1>2 DEF vars
  <2>1. TypeOK' /\ MutexIsHeld' /\ IdxIsSet' /\ UsersAreInside' /\ GracePeriod'
    BY DEF IInv, TypeOK, MutexIsHeld, IdxIsSet, OldRank, UsersAreInside, GracePeriod
  <2>2. OldRankDrains' /\ UpdateShowsInTime'
    BY DEF IInv, OldRankDrains, OldRank, UpdateShowsInTime, Flips
  <2>3. Progress' /\ EarlyExitIsSafe'
    BY DEF IInv, Progress, Covers, Flips, EarlyExitIsSafe
  <2>4. RanksAddUp' /\ ScanIsExact'
    <3>1. \A i \in {0, 1} : Rank(i)' = Rank(i)
      BY DEF Rank
    <3> QED BY <3>1, CountFrame
  <2> QED BY <2>1, <2>2, <2>3, <2>4 DEF IInv
<1> QED BY <1>1, <1>2

(* Every reachable state satisfies IInv. *)
THEOREM InvariantHolds == Spec => []IInv
  BY InitInv, NextInv, PTL DEF Spec

(* Types: completed and the counters stay within the range of their C      *)
(* types, and idx selects one of the two counters.                         *)
THEOREM TypeCorrect == Spec => []TypeOK
<1>1. IInv => TypeOK
  BY DEF IInv
<1> QED BY <1>1, InvariantHolds, PTL

(* synchronize_srcu(), early exit or not, returns only when no reader uses *)
(* what it found before the update: for any number of readers, updaters    *)
(* and CPUs, and however completed and the counters wrap.                  *)
THEOREM GracePeriodHolds == Spec => []GracePeriod
<1>1. IInv => GracePeriod
  BY DEF IInv
<1> QED BY <1>1, InvariantHolds, PTL

(* While the old rank's counters are summed up nobody is about to enter    *)
(* it, so that reading them one by one is right.                           *)
THEOREM OldRankIsClosed == Spec => []OldRankOnlyDrains
<1>1. IInv => OldRankOnlyDrains
  <2> SUFFICES ASSUME IInv, NEW u \in Updaters, NEW r \in Readers,
                      pc[u] \in {"scan", "sync3", "sync3_wait"}, pc[r] = "count"
               PROVE  idx[r] # idx[u]
    BY DEF OldRankOnlyDrains
  <2> QED BY HolderFacts DEF IInv, OldRankDrains, BeforeFlip, AfterFlip
<1> QED BY <1>1, InvariantHolds, PTL

(* Though a reader may decrement the counter of another CPU than it        *)
(* incremented, the counters of a rank add up, modulo their range, to the  *)
(* readers in it.                                                          *)
THEOREM CountersAreExact == Spec => []CountersAddUp
<1>1. IInv => CountersAddUp
  <2> SUFFICES ASSUME IInv, NEW i \in {0, 1}
               PROVE  Total(i) = Cardinality(Rank(i))
    BY DEF CountersAddUp, Rank
  <2>1. PICK s \in [0 .. NCPU -> Int] : AddUp(s, i, Cardinality(Rank(i)))
    BY DEF IInv, RanksAddUp
  <2>2. /\ NCPU \in Nat \ {0} /\ CntRange \in Nat \ {0}
        /\ Cardinality(Rank(i)) \in 0 .. CntRange - 1
    BY SRCUAssumption, RankFacts, FS_CardinalityType
  <2> DEFINE Sums(f) == [n \in 0 .. NCPU |->
                           IF n = 0 THEN 0 ELSE (f[n - 1] + c[n][i]) % CntRange]
             upto == CHOOSE f : f = Sums(f)
             g == [n \in 0 .. NCPU |-> s[n] % CntRange]
  <2>3. g = Sums(g)
    <3>1. g[0] = 0
      BY <2>1, <2>2 DEF AddUp
    <3>2. ASSUME NEW n \in 1 .. NCPU
          PROVE  g[n] = (g[n - 1] + c[n][i]) % CntRange
      <4>1. n \in 0 .. NCPU /\ n - 1 \in 0 .. NCPU /\ n \in CPUs
        BY <2>2 DEF CPUs
      <4>2. PICK a \in Int, b \in Int : a = s[n - 1] /\ b = s[n] - s[n - 1] /\ s[n] = b + a
        BY <2>1, <4>1
      <4>3. c[n][i] = b % CntRange /\ g[n - 1] = a % CntRange /\ g[n] = (b + a) % CntRange
        BY <2>1, <4>1, <4>2 DEF AddUp
      <4>4. a % CntRange \in Int /\ b % CntRange \in Int
        BY <2>2, ModSplit
      <4>5. ((a % CntRange) + (b % CntRange)) % CntRange = (a + (b % CntRange)) % CntRange
        BY <2>2, <4>4, ModOfSum
      <4>6. ((b % CntRange) + a) % CntRange = (b + a) % CntRange
        BY <2>2, ModOfSum
      <4>7. (b % CntRange) + a = a + (b % CntRange)
        BY <4>4
      <4> QED BY <4>3, <4>5, <4>6, <4>7
    <3>3. \A n \in 0 .. NCPU : n = 0 \/ n \in 1 .. NCPU
      BY <2>2
    <3>4. \A n \in 0 .. NCPU : g[n] = IF n = 0 THEN 0 ELSE (g[n - 1] + c[n][i]) % CntRange
      BY <3>1, <3>2, <3>3
    <3>5. g = [n \in 0 .. NCPU |-> g[n]]
      OBVIOUS
    <3> HIDE DEF g
    <3> QED BY <3>4, <3>5
  <2>4. upto = Sums(upto)
    <3> HIDE DEF Sums, g
    <3> QED BY <2>3
  <2>5. upto[NCPU] = g[NCPU]
    <3> HIDE DEF upto, g
    <3> DEFINE T == {n \in 0 .. NCPU : upto[n] # g[n]}
    <3>1. SUFFICES ASSUME T # {} PROVE FALSE
      BY <2>2
    <3>2. PICK n \in T : \A m \in T : n <= m
      <4>1. T \in SUBSET Nat
        OBVIOUS
      <4> HIDE DEF T
      <4> QED BY <3>1, <4>1, LeastNat
    <3>3. n # 0
      BY <2>3, <2>4, <3>2
    <3>4. n \in 0 .. NCPU /\ n - 1 \in 0 .. NCPU /\ ~(n <= n - 1)
      BY <2>2, <3>3
    <3>5. n - 1 \notin T
      <4> HIDE DEF T
      <4> QED BY <3>2, <3>4
    <3> QED BY <2>3, <2>4, <3>2, <3>3, <3>4, <3>5
  <2>6. Total(i) = upto[NCPU]
    BY DEF Total
  <2>7. g[NCPU] = Cardinality(Rank(i))
    <3>1. NCPU \in 0 .. NCPU /\ s[NCPU] = Cardinality(Rank(i))
      BY <2>1, <2>2 DEF AddUp
    <3>a. \A k \in 0 .. CntRange - 1 : k % CntRange = k
      BY <2>2
    <3>2. Cardinality(Rank(i)) % CntRange = Cardinality(Rank(i))
      BY <2>2, <3>a
    <3> QED BY <3>1, <3>2
  <2> QED BY <2>5, <2>6, <2>7
<1> QED BY <1>1, InvariantHolds, PTL
=============================================================================
