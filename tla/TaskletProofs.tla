---------------------------- MODULE TaskletProofs ----------------------------
(***************************************************************************)
(* Tasklets, for any number of CPUs, tasklets and tasks: a tasklet that is *)
(* scheduled is in exactly one place, it never runs twice at a time nor    *)
(* after tasklet_disable() or tasklet_kill() returned, and no list of      *)
(* tasklets is left behind by the softirq code or by a CPU that goes.      *)
(*                                                                         *)
(* The lists are chains of pointers.  The invariant says that there are    *)
(* sequences, one for each head, which the chains spell out; what the code *)
(* does to the pointers is followed on the sequences.                      *)
(***************************************************************************)
EXTENDS Tasklet, KListProofs, FiniteSetTheorems, TLAPS

(* The links nx lead from x through the entries of q, in that order. *)
IsList(nx, x, q) ==
  /\ ListOK(q)
  /\ q = <<>> => x = Null
  /\ q # <<>> => x = q[1] /\ nx[q[Len(q)]] = Null
  /\ \A i \in 1 .. Len(q) - 1 : nx[q[i]] = q[i + 1]

------------------------------------------------------------------------------
(* What is known about a list of tasklets. *)
LEMMA ListFacts ==
  ASSUME NEW q \in Seq(Tasklets)
  PROVE  /\ Len(q) \in Nat /\ (q = <<>> <=> Len(q) = 0)
         /\ \A i \in 1 .. Len(q) : q[i] \in Tasklets /\ q[i] \in ListEntries(q) /\ q[i] # Null
         /\ ListEntries(q) \subseteq Tasklets
         /\ q # <<>> => Len(q) \in 1 .. Len(q)
<1>1. Len(q) \in Nat /\ (q = <<>> <=> Len(q) = 0) /\ \A i \in 1 .. Len(q) : q[i] \in Tasklets
  OBVIOUS
<1>2. Null \notin Tasklets
  BY TaskletAssumption
<1> QED
  BY <1>1, <1>2 DEF ListEntries

(* Links of other tasklets do not matter. *)
LEMMA SameLinks ==
  ASSUME NEW q \in Seq(Tasklets), NEW nx, NEW ny, NEW x, IsList(nx, x, q),
         \A t \in ListEntries(q) : ny[t] = nx[t]
  PROVE  IsList(ny, x, q)
<1>1. /\ Len(q) \in Nat /\ (q # <<>> => Len(q) \in 1 .. Len(q))
      /\ \A i \in 1 .. Len(q) : q[i] \in ListEntries(q)
  BY ListFacts
<1>2. q # <<>> => ny[q[Len(q)]] = nx[q[Len(q)]]
  BY <1>1
<1>3. \A i \in 1 .. Len(q) - 1 : ny[q[i]] = nx[q[i]]
  BY <1>1
<1> QED
  BY <1>2, <1>3 DEF IsList

(* The entries of two lists together. *)
LEMMA ConcatEntries ==
  ASSUME NEW q \in Seq(Tasklets), NEW r \in Seq(Tasklets)
  PROVE  ListEntries(q \o r) = ListEntries(q) \cup ListEntries(r)
<1> DEFINE s == q \o r
           m == Len(q)
           n == Len(r)
<1>1. m \in Nat /\ n \in Nat
  OBVIOUS
<1>2. /\ s \in Seq(Tasklets) /\ Len(s) = m + n
      /\ \A i \in 1 .. m : s[i] = q[i]
      /\ \A i \in 1 .. n : s[m + i] = r[i]
  <2>1. s \in Seq(Tasklets) /\ Len(s) = m + n
    OBVIOUS
  <2>2. \A i \in 1 .. m + n : s[i] = IF i <= m THEN q[i] ELSE r[i - m]
    OBVIOUS
  <2>3. \A i \in 1 .. m : i \in 1 .. m + n /\ i <= m
    BY <1>1
  <2>4. \A i \in 1 .. n : m + i \in 1 .. m + n /\ ~(m + i <= m) /\ (m + i) - m = i
    BY <1>1
  <2> HIDE DEF s, m, n
  <2> QED
    BY <2>1, <2>2, <2>3, <2>4
<1>3. \A i \in 1 .. m + n : i \in 1 .. m \/ \E j \in 1 .. n : i = m + j
  <2> TAKE i \in 1 .. m + n
  <2>1. i \notin 1 .. m => i - m \in 1 .. n /\ i = m + (i - m)
    BY <1>1
  <2> QED
    BY <2>1
<1> HIDE DEF s, m, n
<1>4. ListEntries(s) = ListEntries(q) \cup ListEntries(r)
  <2>1. \A i \in 1 .. m : i \in 1 .. m + n
    BY <1>1
  <2>2. \A i \in 1 .. n : m + i \in 1 .. m + n
    BY <1>1
  <2>3. /\ ListEntries(s) = {s[i] : i \in 1 .. m + n}
        /\ ListEntries(q) = {q[i] : i \in 1 .. m}
        /\ ListEntries(r) = {r[i] : i \in 1 .. n}
    BY <1>2 DEF ListEntries, m, n
  <2>4. ASSUME NEW e \in ListEntries(s) PROVE e \in ListEntries(q) \cup ListEntries(r)
    <3>1. PICK i \in 1 .. m + n : e = s[i]
      BY <2>3
    <3>2. CASE i \in 1 .. m
      BY <1>2, <2>3, <3>1, <3>2
    <3>3. CASE i \notin 1 .. m
      <4>1. PICK j \in 1 .. n : i = m + j
        BY <1>3, <3>3
      <4> QED
        BY <1>2, <2>3, <3>1, <4>1
    <3> QED
      BY <3>2, <3>3
  <2>5. ASSUME NEW e \in ListEntries(q) PROVE e \in ListEntries(s)
    BY <1>2, <2>1, <2>3
  <2>6. ASSUME NEW e \in ListEntries(r) PROVE e \in ListEntries(s)
    BY <1>2, <2>2, <2>3
  <2> QED
    BY <2>4, <2>5, <2>6
<1> QED
  BY <1>4 DEF s

(* A list is appended to another one: its last link is changed. *)
LEMMA Concat ==
  ASSUME NEW q \in Seq(Tasklets), NEW r \in Seq(Tasklets), NEW nx, NEW ny, NEW x, NEW y,
         IsList(nx, x, q), IsList(ny, y, r), r # <<>>,
         ListEntries(q) \cap ListEntries(r) = {},
         q # <<>> => ny[q[Len(q)]] = y,
         \A t \in ListEntries(q) : t # q[Len(q)] => ny[t] = nx[t]
  PROVE  /\ IsList(ny, IF q = <<>> THEN y ELSE x, q \o r)
         /\ q \o r \in Seq(Tasklets) /\ q \o r # <<>>
         /\ ListEntries(q \o r) = ListEntries(q) \cup ListEntries(r)
         /\ (q \o r)[Len(q \o r)] = r[Len(r)]
<1> DEFINE s == q \o r
           m == Len(q)
           n == Len(r)
<1>1. /\ m \in Nat /\ n \in Nat \ {0} /\ (q = <<>> <=> m = 0)
      /\ \A i \in 1 .. m : q[i] \in ListEntries(q)
      /\ \A i \in 1 .. n : r[i] \in ListEntries(r)
  BY ListFacts
<1>2. /\ s \in Seq(Tasklets) /\ Len(s) = m + n
      /\ \A i \in 1 .. m : s[i] = q[i]
      /\ \A i \in 1 .. n : s[m + i] = r[i]
  <2>1. s \in Seq(Tasklets) /\ Len(s) = m + n
    OBVIOUS
  <2>2. \A i \in 1 .. m + n : s[i] = IF i <= m THEN q[i] ELSE r[i - m]
    OBVIOUS
  <2>3. \A i \in 1 .. m : i \in 1 .. m + n /\ i <= m
    BY <1>1
  <2>4. \A i \in 1 .. n : m + i \in 1 .. m + n /\ ~(m + i <= m) /\ (m + i) - m = i
    BY <1>1
  <2> HIDE DEF s, m, n
  <2> QED
    BY <2>1, <2>2, <2>3, <2>4
<1>3. \A i \in 1 .. m + n : i \in 1 .. m \/ \E j \in 1 .. n : i = m + j
  <2> TAKE i \in 1 .. m + n
  <2>1. i \notin 1 .. m => i - m \in 1 .. n /\ i = m + (i - m)
    BY <1>1
  <2> QED
    BY <2>1
<1> HIDE DEF s, m, n
<1>4. ListEntries(s) = ListEntries(q) \cup ListEntries(r)
  BY ConcatEntries DEF s
<1>5. ListOK(s)
  <2> SUFFICES ASSUME NEW i \in 1 .. m + n, NEW j \in 1 .. m + n, i # j
               PROVE  s[i] # s[j]
    BY <1>2 DEF ListOK
  <2>1. CASE i \in 1 .. m /\ j \in 1 .. m
    <3>1. q[i] # q[j]
      BY <2>1 DEF IsList, ListOK, m
    <3> QED
      BY <1>2, <2>1, <3>1
  <2>2. CASE i \in 1 .. m /\ j \notin 1 .. m
    <3>1. PICK k \in 1 .. n : j = m + k
      BY <1>3, <2>2
    <3> QED
      BY <1>1, <1>2, <2>2, <3>1
  <2>3. CASE i \notin 1 .. m /\ j \in 1 .. m
    <3>1. PICK k \in 1 .. n : i = m + k
      BY <1>3, <2>3
    <3> QED
      BY <1>1, <1>2, <2>3, <3>1
  <2>4. CASE i \notin 1 .. m /\ j \notin 1 .. m
    <3>1. PICK k \in 1 .. n, l \in 1 .. n : i = m + k /\ j = m + l
      BY <1>3, <2>4
    <3>2. r[k] # r[l]
      BY <3>1 DEF IsList, ListOK, n
    <3> QED
      BY <1>2, <3>1, <3>2
  <2> QED
    BY <2>1, <2>2, <2>3, <2>4
<1>6. s # <<>> /\ s[Len(s)] = r[n]
  <2>1. n \in 1 .. n /\ m + n # 0
    BY <1>1
  <2>2. s = <<>> => Len(s) = 0
    OBVIOUS
  <2> QED
    BY <1>2, <2>1, <2>2
<1>7. s[1] = IF q = <<>> THEN y ELSE x
  <2>1. CASE q = <<>>
    <3>1. m + 1 = 1 /\ 1 \in 1 .. n /\ y = r[1]
      BY <1>1, <2>1 DEF IsList
    <3> QED
      BY <1>2, <2>1, <3>1
  <2>2. CASE q # <<>>
    <3>1. 1 \in 1 .. m /\ x = q[1]
      BY <1>1, <2>2 DEF IsList
    <3> QED
      BY <1>2, <2>2, <3>1
  <2> QED
    BY <2>1, <2>2
<1>8. ny[s[Len(s)]] = Null
  BY <1>6 DEF IsList, n
<1>9. ASSUME NEW i \in 1 .. Len(s) - 1
      PROVE  ny[s[i]] = s[i + 1]
  <2>1. CASE i \in 1 .. m - 1
    <3>1. i \in 1 .. m /\ i + 1 \in 1 .. m /\ m \in 1 .. m /\ i # m
      BY <1>1, <2>1
    <3>2. q[i] # q[m] /\ q[i] \in ListEntries(q)
      BY <1>1, <3>1 DEF IsList, ListOK, m
    <3>3. ny[q[i]] = nx[q[i]]
      BY <3>2 DEF m
    <3>4. nx[q[i]] = q[i + 1]
      BY <2>1 DEF IsList, m
    <3> QED
      BY <1>2, <3>1, <3>3, <3>4
  <2>2. CASE i = m
    <3>1. i \in 1 .. m /\ q # <<>> /\ 1 \in 1 .. n /\ i + 1 = m + 1
      BY <1>1, <2>2
    <3>2. ny[q[m]] = y /\ y = r[1]
      BY <3>1 DEF IsList, m
    <3> QED
      BY <1>2, <2>2, <3>1, <3>2
  <2>3. CASE i > m
    <3>1. PICK k \in 1 .. n - 1 : i = m + k
      <4>1. i - m \in 1 .. n - 1 /\ i = m + (i - m)
        BY <1>1, <1>2, <2>3
      <4> QED
        BY <4>1
    <3>2. k \in 1 .. n /\ k + 1 \in 1 .. n /\ i + 1 = m + (k + 1)
      BY <1>1, <3>1
    <3>3. ny[r[k]] = r[k + 1]
      BY DEF IsList, n
    <3> QED
      BY <1>2, <3>1, <3>2, <3>3
  <2> QED
    BY <1>1, <1>2, <2>1, <2>2, <2>3
<1>10. IsList(ny, IF q = <<>> THEN y ELSE x, s)
  BY <1>5, <1>6, <1>7, <1>8, <1>9 DEF IsList
<1> QED
  BY <1>2, <1>4, <1>6, <1>10 DEF s, n

(* The first entry is taken off a list. *)
LEMMA TakeFirst ==
  ASSUME NEW q \in Seq(Tasklets), NEW nx, NEW ny, NEW x, IsList(nx, x, q), x # Null,
         \A t \in ListEntries(q) : t # x => ny[t] = nx[t]
  PROVE  /\ q # <<>> /\ x \in ListEntries(q) /\ x \in Tasklets
         /\ Tail(q) \in Seq(Tasklets) /\ IsList(ny, nx[x], Tail(q))
         /\ ListEntries(Tail(q)) = ListEntries(q) \ {x}
<1>1. q # <<>> /\ x = q[1] /\ x = Head(q)
  BY DEF IsList
<1>2. /\ x \in ListEntries(q) /\ x \in Tasklets
      /\ Tail(q) \in Seq(Tasklets)
      /\ ListEntries(Tail(q)) = ListEntries(q) \ {x} /\ ListOK(Tail(q))
  BY <1>1, FirstFacts DEF IsList
<1> DEFINE n == Len(q)
           r == Tail(q)
<1>3. /\ n \in Nat \ {0} /\ Len(r) = n - 1
      /\ \A i \in 1 .. n - 1 : r[i] = q[i + 1]
      /\ (r = <<>> <=> n = 1)
  <2>1. n \in Nat \ {0} /\ Len(r) = n - 1 /\ (\A i \in 1 .. n - 1 : r[i] = q[i + 1])
    BY <1>1
  <2>2. r = <<>> <=> Len(r) = 0
    BY <1>2, ListFacts
  <2> HIDE DEF n, r
  <2> QED
    BY <2>1, <2>2
<1> HIDE DEF r
<1>4. \A i \in 1 .. n - 1 : r[i] \in ListEntries(q) /\ r[i] # x
  <2>1. \A i \in 1 .. n - 1 : r[i] \in ListEntries(r)
    BY <1>3 DEF ListEntries
  <2> QED
    BY <1>2, <2>1 DEF r
<1>5. r = <<>> => nx[x] = Null
  BY <1>1, <1>3 DEF IsList
<1>6. r # <<>> => nx[x] = r[1] /\ ny[r[Len(r)]] = Null
  <2> SUFFICES ASSUME r # <<>> PROVE nx[x] = r[1] /\ ny[r[Len(r)]] = Null
    OBVIOUS
  <2>1. n - 1 \in 1 .. n - 1 /\ 1 \in 1 .. n - 1 /\ (n - 1) + 1 = n
    BY <1>3
  <2>2. r[n - 1] = q[n] /\ r[1] = q[1 + 1]
    BY <1>3, <2>1
  <2>3. nx[q[1]] = q[1 + 1] /\ nx[q[n]] = Null
    BY <1>1, <2>1 DEF IsList
  <2>4. ny[r[n - 1]] = nx[r[n - 1]]
    BY <1>4, <2>1
  <2> QED
    BY <1>1, <1>3, <2>2, <2>3, <2>4
<1>7. ASSUME NEW i \in 1 .. Len(r) - 1
      PROVE  ny[r[i]] = r[i + 1]
  <2>1. i \in 1 .. n - 1 /\ i + 1 \in 1 .. n - 1
    BY <1>3
  <2>2. nx[q[i + 1]] = q[(i + 1) + 1]
    BY <2>1 DEF IsList
  <2>3. ny[r[i]] = nx[r[i]]
    BY <1>4, <2>1
  <2> QED
    BY <1>3, <2>1, <2>2, <2>3
<1>8. IsList(ny, nx[x], r)
  BY <1>2, <1>5, <1>6, <1>7 DEF IsList, r
<1> QED
  BY <1>1, <1>2, <1>8 DEF r

(* What is reached from the head of a list are its entries.  The function  *)
(* in Chain is defined by recursion: it is compared with the entries, step *)
(* by step, up to the first difference.                                    *)
LEMMA ChainIsEntries ==
  ASSUME NEW q \in Seq(Tasklets), NEW x, IsList(next, x, q)
  PROVE  Chain(x) = ListEntries(q)
<1> DEFINE k == Len(q)
           m == Cardinality(Tasklets)
           Sums(f) == [n \in Nat |->
                         IF n = 0 THEN {x} \ {Null}
                         ELSE f[n - 1] \cup ({next[s] : s \in f[n - 1]} \ {Null})]
           reach == CHOOSE f : f = Sums(f)
           First(n) == {q[i] : i \in {j \in 1 .. k : j <= n + 1}}
           g == [n \in Nat |-> First(n)]
<1>1. /\ k \in Nat /\ (q = <<>> <=> k = 0)
      /\ \A i \in 1 .. k : q[i] \in Tasklets /\ q[i] # Null
  BY ListFacts
<1>2. First(0) = {x} \ {Null}
  <2>1. CASE k = 0
    <3>1. {j \in 1 .. k : j <= 0 + 1} = {} /\ x = Null
      BY <1>1, <2>1 DEF IsList
    <3> QED BY <3>1
  <2>2. CASE k # 0
    <3>1. {j \in 1 .. k : j <= 0 + 1} = {1} /\ x = q[1] /\ x # Null
      BY <1>1, <2>2 DEF IsList
    <3> QED BY <3>1
  <2> QED BY <2>1, <2>2
<1>3. ASSUME NEW n \in Nat
      PROVE  First(n + 1) = First(n) \cup ({next[s] : s \in First(n)} \ {Null})
  <2>1. ASSUME NEW i \in 1 .. k, i <= n + 1
        PROVE  next[q[i]] = Null \/ (i + 1 \in 1 .. k /\ i + 1 <= (n + 1) + 1 /\ next[q[i]] = q[i + 1])
    <3>1. CASE i = k
      BY <1>1, <3>1 DEF IsList
    <3>2. CASE i # k
      <4>1. i \in 1 .. k - 1 /\ i + 1 \in 1 .. k /\ i + 1 <= (n + 1) + 1
        BY <1>1, <2>1, <3>2
      <4> QED BY <4>1 DEF IsList
    <3> QED BY <3>1, <3>2
  <2>2. ASSUME NEW i \in 1 .. k, i <= (n + 1) + 1, ~(i <= n + 1)
        PROVE  i - 1 \in 1 .. k /\ i - 1 <= n + 1 /\ next[q[i - 1]] = q[i]
    <3>1. i - 1 \in 1 .. k - 1 /\ i - 1 \in 1 .. k /\ i - 1 <= n + 1 /\ (i - 1) + 1 = i
      BY <1>1, <2>2
    <3>2. next[q[i - 1]] = q[(i - 1) + 1]
      BY <3>1 DEF IsList
    <3> QED BY <3>1, <3>2
  <2>3. \A i \in 1 .. k : i <= n + 1 => i <= (n + 1) + 1
    BY <1>1
  <2> HIDE DEF k
  <2>4. ASSUME NEW e \in First(n + 1)
        PROVE  e \in First(n) \cup ({next[s] : s \in First(n)} \ {Null})
    <3>1. PICK i \in 1 .. k : i <= (n + 1) + 1 /\ e = q[i]
      OBVIOUS
    <3>2. CASE i <= n + 1
      BY <3>1, <3>2
    <3>3. CASE ~(i <= n + 1)
      <4>1. i - 1 \in 1 .. k /\ i - 1 <= n + 1 /\ next[q[i - 1]] = q[i]
        BY <2>2, <3>1, <3>3
      <4>2. q[i - 1] \in First(n)
        BY <4>1
      <4> QED BY <1>1, <3>1, <4>1, <4>2
    <3> QED BY <3>2, <3>3
  <2>5. ASSUME NEW e \in First(n)
        PROVE  e \in First(n + 1)
    BY <2>3
  <2>6. ASSUME NEW e \in First(n), next[e] # Null
        PROVE  next[e] \in First(n + 1)
    <3>1. PICK i \in 1 .. k : i <= n + 1 /\ e = q[i]
      OBVIOUS
    <3>2. i + 1 \in 1 .. k /\ i + 1 <= (n + 1) + 1 /\ next[e] = q[i + 1]
      BY <2>1, <2>6, <3>1
    <3> QED BY <3>2
  <2> HIDE DEF First
  <2> QED BY <2>4, <2>5, <2>6
<1> HIDE DEF First
<1>4. g = Sums(g)
  <2>1. ASSUME NEW n \in Nat, n # 0
        PROVE  g[n] = g[n - 1] \cup ({next[s] : s \in g[n - 1]} \ {Null})
    <3>1. PICK l \in Nat : n = l + 1 /\ n - 1 = l
      <4>1. n - 1 \in Nat /\ n = (n - 1) + 1
        BY <2>1
      <4> QED BY <4>1
    <3>2. g[n] = First(l + 1) /\ g[n - 1] = First(l)
      BY <3>1
    <3> HIDE DEF g
    <3> QED BY <1>3, <3>2
  <2>2. g[0] = {x} \ {Null}
    BY <1>2
  <2>3. \A n \in Nat : g[n] = IF n = 0 THEN {x} \ {Null}
                              ELSE g[n - 1] \cup ({next[s] : s \in g[n - 1]} \ {Null})
    BY <2>1, <2>2
  <2>4. g = [n \in Nat |-> g[n]]
    OBVIOUS
  <2> HIDE DEF g
  <2> QED BY <2>3, <2>4
<1>5. reach = Sums(reach)
  <2> HIDE DEF Sums, g
  <2> QED BY <1>4
<1>6. m \in Nat
  BY TaskletAssumption, FS_CardinalityType
<1>7. reach[m] = g[m]
  <2> HIDE DEF reach, g, m
  <2> DEFINE T == {n \in Nat : reach[n] # g[n]}
  <2>1. SUFFICES ASSUME T # {} PROVE FALSE
    BY <1>6
  <2>2. PICK n \in T : \A l \in T : n <= l
    <3>1. T \in SUBSET Nat
      OBVIOUS
    <3> HIDE DEF T
    <3> QED BY <2>1, <3>1, LeastNat
  <2>3. n # 0
    BY <1>4, <1>5, <2>2
  <2>4. n \in Nat /\ n - 1 \in Nat /\ ~(n <= n - 1)
    BY <2>3
  <2>5. n - 1 \notin T
    <3> HIDE DEF T
    <3> QED BY <2>2, <2>4
  <2>6. reach[n] = reach[n - 1] \cup ({next[s] : s \in reach[n - 1]} \ {Null})
    BY <1>5, <2>3, <2>4
  <2>7. g[n] = g[n - 1] \cup ({next[s] : s \in g[n - 1]} \ {Null})
    BY <1>4, <2>3, <2>4
  <2>8. reach[n - 1] = g[n - 1]
    BY <2>4, <2>5
  <2>9. reach[n] # g[n]
    BY <2>2
  <2> HIDE DEF T, Sums
  <2> QED BY <2>6, <2>7, <2>8, <2>9
<1>8. Chain(x) = reach[m]
  BY DEF Chain
<1>9. k <= m
  <2>1. ListOK(q) /\ ListEntries(q) \subseteq Tasklets /\ IsFiniteSet(Tasklets)
    BY ListFacts, TaskletAssumption DEF IsList
  <2>2. Cardinality(ListEntries(q)) = k
    BY <2>1, CountFacts
  <2> QED BY <2>1, <2>2, FS_Subset
<1>10. g[m] = ListEntries(q)
  <2>1. g[m] = First(m)
    BY <1>6
  <2>2. {j \in 1 .. k : j <= m + 1} = 1 .. k
    <3> HIDE DEF k, m
    <3> QED BY <1>1, <1>6, <1>9
  <2>3. First(m) = {q[i] : i \in 1 .. k}
    BY <2>2 DEF First
  <2> QED BY <2>1, <2>3 DEF ListEntries
<1> QED BY <1>7, <1>8, <1>10

------------------------------------------------------------------------------
(* Where a tasklet can be linked: the two vectors of every CPU, and the    *)
(* list that tasklet_action() took.                                        *)
Places == CPUs \X {"hi", "normal", "list"}

Taken(c) == <<c, "list">>

(* The chains of pointers that begin at the heads spell the sequences Q,   *)
(* nothing is on two of them, and the tails point to the last links.       *)
Lists(Q, nx, hd, tl, ls) ==
  /\ \A v \in Vecs : IsList(nx, hd[v], Q[v])
  /\ \A c \in CPUs : IsList(nx, ls[c], Q[Taken(c)])
  /\ \A p, r \in Places : p # r => ListEntries(Q[p]) \cap ListEntries(Q[r]) = {}
  /\ \A v \in Vecs : tl[v] = IF Q[v] = <<>> THEN v ELSE Q[v][Len(Q[v])]

(* The function g is f, on the set S, but for its value y at x. *)
Changed(f, S, x, y, g) == g[x] = y /\ \A z \in S : z # x => g[z] = f[z]

(* The assignment *v.tail = y, to the head or to the last tasklet's next. *)
StoreAtTail(nx, hd, tl, v, y, ny, hs) ==
  \/ tl[v] \in Vecs /\ Changed(hd, Vecs, tl[v], y, hs) /\ ny = nx
  \/ tl[v] \in Tasklets /\ Changed(nx, Tasklets, tl[v], y, ny) /\ hs = hd

(* The vectors are places, the private lists are the others. *)
LEMMA PlaceFacts ==
  /\ \A v \in Vecs : v \in Places
  /\ \A c \in CPUs : Taken(c) \in Places /\ Taken(c) \notin Vecs
  /\ \A c, d \in CPUs : c # d => Taken(c) # Taken(d)
  /\ \A p \in Places : p \in Vecs \/ \E c \in CPUs : p = Taken(c)
  /\ \A c \in CPUs, p \in Prio : <<c, p>> \in Vecs /\ <<c, p>> \in Places
BY DEF Places, Vecs, Prio, Taken

(* The whole list of a vector is cut off. *)
LEMMA CutList ==
  ASSUME NEW Q \in [Places -> Seq(Tasklets)], NEW nx, NEW hd, NEW tl, NEW ls,
         Lists(Q, nx, hd, tl, ls), NEW v \in Vecs,
         NEW R, Changed(Q, Places, v, <<>>, R),
         NEW ho, Changed(hd, Vecs, v, Null, ho), NEW to, Changed(tl, Vecs, v, v, to)
  PROVE  /\ Lists(R, nx, ho, to, ls)
         /\ \A p \in Places : ListEntries(R[p]) = IF p = v THEN {} ELSE ListEntries(Q[p])
         /\ \A p \in Places : ListEntries(R[p]) \cap ListEntries(Q[v]) = {}
<1>1. v \in Places /\ R[v] = <<>> /\ \A p \in Places : p # v => R[p] = Q[p]
  BY PlaceFacts DEF Changed
<1>2. ListEntries(<<>>) = {}
  BY DEF ListEntries
<1>3. \A p \in Places : ListEntries(R[p]) = IF p = v THEN {} ELSE ListEntries(Q[p])
  BY <1>1, <1>2
<1>4. \A p \in Places : ListEntries(R[p]) \cap ListEntries(Q[v]) = {}
  BY <1>1, <1>3 DEF Lists
<1>5. IsList(nx, Null, <<>>)
  BY DEF IsList, ListOK
<1>6. \A w \in Vecs : IsList(nx, ho[w], R[w])
  BY <1>1, <1>5, PlaceFacts DEF Lists, Changed
<1>7. \A c \in CPUs : IsList(nx, ls[c], R[Taken(c)])
  <2>1. \A c \in CPUs : Taken(c) \in Places /\ Taken(c) # v
    BY PlaceFacts
  <2> QED BY <1>1, <2>1 DEF Lists
<1>8. \A p, r \in Places : p # r => ListEntries(R[p]) \cap ListEntries(R[r]) = {}
  BY <1>3 DEF Lists
<1>9. \A w \in Vecs : to[w] = IF R[w] = <<>> THEN w ELSE R[w][Len(R[w])]
  BY <1>1, PlaceFacts DEF Lists, Changed
<1>10. Lists(R, nx, ho, to, ls)
  BY <1>6, <1>7, <1>8, <1>9 DEF Lists
<1> QED BY <1>1, <1>3, <1>4, <1>10

(* Another list takes the place of the private one of a CPU. *)
LEMMA ReplaceList ==
  ASSUME NEW Q \in [Places -> Seq(Tasklets)], NEW nx, NEW hd, NEW tl, NEW ls,
         Lists(Q, nx, hd, tl, ls), NEW c \in CPUs,
         NEW r \in Seq(Tasklets), NEW y, IsList(nx, y, r),
         \A p \in Places : p # Taken(c) => ListEntries(Q[p]) \cap ListEntries(r) = {},
         NEW R, Changed(Q, Places, Taken(c), r, R), NEW lo, Changed(ls, CPUs, c, y, lo)
  PROVE  Lists(R, nx, hd, tl, lo)
<1>1. Taken(c) \in Places /\ R[Taken(c)] = r /\ \A p \in Places : p # Taken(c) => R[p] = Q[p]
  BY PlaceFacts DEF Changed
<1>2. \A p \in Places : ListEntries(R[p]) =
                          IF p = Taken(c) THEN ListEntries(r) ELSE ListEntries(Q[p])
  BY <1>1
<1>3. \A w \in Vecs : R[w] = Q[w]
  BY <1>1, PlaceFacts
<1>4. \A w \in Vecs : IsList(nx, hd[w], R[w])
  BY <1>3 DEF Lists
<1>5. \A d \in CPUs : IsList(nx, lo[d], R[Taken(d)])
  <2>1. \A d \in CPUs : d # c => Taken(d) \in Places /\ Taken(d) # Taken(c)
    BY PlaceFacts
  <2> QED BY <1>1, <2>1 DEF Lists, Changed
<1>6. ASSUME NEW p \in Places, NEW s \in Places, p # s
      PROVE  ListEntries(R[p]) \cap ListEntries(R[s]) = {}
  <2>1. CASE p = Taken(c)
    BY <1>2, <1>6, <2>1
  <2>2. CASE s = Taken(c)
    BY <1>2, <1>6, <2>2
  <2>3. CASE p # Taken(c) /\ s # Taken(c)
    BY <1>2, <1>6, <2>3 DEF Lists
  <2> QED BY <2>1, <2>2, <2>3
<1>7. \A w \in Vecs : tl[w] = IF R[w] = <<>> THEN w ELSE R[w][Len(R[w])]
  BY <1>3 DEF Lists
<1> QED BY <1>4, <1>5, <1>6, <1>7 DEF Lists

(* The link of a tasklet that is on no list does not matter. *)
LEMMA Relink ==
  ASSUME NEW Q \in [Places -> Seq(Tasklets)], NEW nx, NEW hd, NEW tl, NEW ls,
         Lists(Q, nx, hd, tl, ls), NEW t, \A p \in Places : t \notin ListEntries(Q[p]),
         NEW y, NEW ny, Changed(nx, Tasklets, t, y, ny)
  PROVE  Lists(Q, ny, hd, tl, ls)
<1>1. ASSUME NEW p \in Places, NEW x, IsList(nx, x, Q[p])
      PROVE  IsList(ny, x, Q[p])
  <2>1. Q[p] \in Seq(Tasklets)
    OBVIOUS
  <2>2. \A e \in ListEntries(Q[p]) : ny[e] = nx[e]
    BY <2>1, ListFacts DEF Changed
  <2> QED BY <1>1, <2>1, <2>2, SameLinks
<1>2. \A v \in Vecs : IsList(ny, hd[v], Q[v])
  BY <1>1, PlaceFacts DEF Lists
<1>3. \A c \in CPUs : IsList(ny, ls[c], Q[Taken(c)])
  BY <1>1, PlaceFacts DEF Lists
<1> QED BY <1>2, <1>3 DEF Lists

(* A list is appended to that of a vector, through its tail pointer. *)
LEMMA AppendList ==
  ASSUME NEW Q \in [Places -> Seq(Tasklets)], NEW nx, NEW hd, NEW tl, NEW ls,
         Lists(Q, nx, hd, tl, ls), NEW v \in Vecs,
         NEW r \in Seq(Tasklets), NEW y, r # <<>>, IsList(nx, y, r),
         \A p \in Places : ListEntries(Q[p]) \cap ListEntries(r) = {},
         NEW ny, NEW hs, StoreAtTail(nx, hd, tl, v, y, ny, hs),
         NEW to, Changed(tl, Vecs, v, r[Len(r)], to),
         NEW q, q = Q[v], NEW R, Changed(Q, Places, v, q \o r, R)
  PROVE  Lists(R, ny, hs, to, ls)
<1>1. /\ v \in Places /\ q \in Seq(Tasklets)
      /\ R[v] = q \o r /\ \A p \in Places : p # v => R[p] = Q[p]
  BY PlaceFacts DEF Changed
<1> DEFINE last == q[Len(q)]
<1>2. /\ IsList(nx, hd[v], q)
      /\ tl[v] = IF q = <<>> THEN v ELSE last
  BY DEF Lists
<1>3. q # <<>> => last \in Tasklets /\ last \in ListEntries(q)
  BY <1>1, ListFacts
<1>4. /\ q = <<>> => ny = nx /\ Changed(hd, Vecs, v, y, hs)
      /\ q # <<>> => Changed(nx, Tasklets, last, y, ny) /\ hs = hd
  <2>1. \A x : ~(x \in Vecs /\ x \in Tasklets)
    BY TaskletAssumption
  <2> HIDE DEF last
  <2> QED BY <1>2, <1>3, <2>1 DEF StoreAtTail
<1> HIDE DEF last
<1>5. ASSUME NEW t \in Tasklets, q # <<>> => t # last
      PROVE  ny[t] = nx[t]
  BY <1>4, <1>5 DEF Changed
<1>6. ListEntries(q) \cap ListEntries(r) = {}
  BY <1>1
<1>7. IsList(ny, y, r)
  <2>1. \A t \in ListEntries(r) : ny[t] = nx[t]
    BY <1>3, <1>5, <1>6, ListFacts
  <2> QED BY <2>1, SameLinks
<1>8. /\ IsList(ny, IF q = <<>> THEN y ELSE hd[v], q \o r)
      /\ q \o r # <<>> /\ ListEntries(q \o r) = ListEntries(q) \cup ListEntries(r)
      /\ (q \o r)[Len(q \o r)] = r[Len(r)]
  <2>1. q # <<>> => ny[q[Len(q)]] = y
    BY <1>3, <1>4 DEF last, Changed
  <2>2. \A t \in ListEntries(q) : t # q[Len(q)] => ny[t] = nx[t]
    BY <1>1, <1>5, ListFacts DEF last
  <2>3. q \in Seq(Tasklets) /\ r \in Seq(Tasklets) /\ r # <<>> /\ IsList(nx, hd[v], q)
    BY <1>1, <1>2
  <2> QED BY ONLY <1>6, <1>7, <2>1, <2>2, <2>3, Concat
<1>9. ASSUME NEW p \in Places, p # v, NEW x, IsList(nx, x, Q[p])
      PROVE  IsList(ny, x, R[p])
  <2>1. Q[p] \in Seq(Tasklets) /\ R[p] = Q[p]
    BY <1>1, <1>9
  <2>2. ListEntries(Q[p]) \cap ListEntries(q) = {}
    BY <1>1, <1>9 DEF Lists
  <2>3. \A t \in ListEntries(Q[p]) : ny[t] = nx[t]
    BY <1>3, <1>5, <2>1, <2>2, ListFacts
  <2> QED BY <1>9, <2>1, <2>3, SameLinks
<1>10. ASSUME NEW w \in Vecs PROVE IsList(ny, hs[w], R[w])
  <2>1. CASE w = v
    <3>1. hs[v] = IF q = <<>> THEN y ELSE hd[v]
      BY <1>4 DEF Changed
    <3> QED BY <1>1, <1>8, <2>1, <3>1
  <2>2. CASE w # v
    <3>1. hs[w] = hd[w] /\ IsList(nx, hd[w], Q[w]) /\ w \in Places
      BY <1>4, <2>2, PlaceFacts DEF Lists, Changed
    <3> QED BY <1>9, <2>2, <3>1
  <2> QED BY <2>1, <2>2
<1>11. \A c \in CPUs : IsList(ny, ls[c], R[Taken(c)])
  BY <1>9, PlaceFacts DEF Lists
<1>12. \A p \in Places : ListEntries(R[p]) =
         IF p = v THEN ListEntries(q) \cup ListEntries(r) ELSE ListEntries(Q[p])
  BY <1>1, <1>8
<1>13. ASSUME NEW p \in Places, NEW p2 \in Places, p # p2
       PROVE  ListEntries(R[p]) \cap ListEntries(R[p2]) = {}
  <2>0. ListEntries(Q[p]) \cap ListEntries(Q[p2]) = {}
    BY <1>13 DEF Lists
  <2>1. CASE p = v
    BY <1>12, <1>13, <2>0, <2>1
  <2>2. CASE p2 = v
    BY <1>12, <1>13, <2>0, <2>2
  <2>3. CASE p # v /\ p2 # v
    BY <1>12, <2>0, <2>3
  <2> QED BY <2>1, <2>2, <2>3
<1>14. \A w \in Vecs : to[w] = IF R[w] = <<>> THEN w ELSE R[w][Len(R[w])]
  BY <1>1, <1>8, PlaceFacts DEF Lists, Changed
<1> QED BY <1>10, <1>11, <1>13, <1>14 DEF Lists

------------------------------------------------------------------------------
(* The actor has the SCHED bit of its tasklet in its hands: the softirq    *)
(* code has unlinked it, a task is about to link it or to kill it.         *)
Holding(a) ==
  IF a \in CPUs THEN pc[a] \in {"locked", "clear", "disabled", "readd"}
                ELSE pc[a] \in {"schedule", "schedule_first", "kill_wait", "killed"}

Hands == Tasks \cup CPUs

Hand == [a \in Hands |-> IF Holding(a) THEN this[a] ELSE Null]

On(Q, t) == \E p \in Places : t \in ListEntries(Q[p])

Linked(Q) == {t \in Tasklets : On(Q, t)}

(* The pointers make lists, and the tasklets on them are S. *)
Linking(nx, hd, tl, ls, S) ==
  \E Q \in [Places -> Seq(Tasklets)] : Lists(Q, nx, hd, tl, ls) /\ Linked(Q) = S

(* The SCHED bit is set just for the tasklets that are on a list or in     *)
(* hand, one that is in hand is on no list and in no other hand.           *)
Owned(S, sc, H) ==
  \A t \in Tasklets :
    /\ sc[t] <=> t \in S \/ \E a \in Hands : H[a] = t
    /\ \A a, b \in Hands : H[a] = t /\ H[b] = t => a = b
    /\ \A a \in Hands : H[a] = t => t \notin S

SchedOwned == \E S \in SUBSET Tasklets : Linking(next, head, tail, list, S) /\ Owned(S, sched, Hand)

(* The softirq code of c is between tasklet_trylock() and tasklet_unlock(). *)
Locks(c, t) == this[c] = t /\ pc[c] \in {"locked", "clear", "func", "disabled"}

(* The RUN bit is a lock: it is set just when a CPU has it, and only one    *)
(* has.                                                                     *)
RunIsLock ==
  \A t \in Tasklets :
    /\ run[t] <=> \E c \in CPUs : Locks(c, t)
    /\ \A c, d \in CPUs : Locks(c, t) /\ Locks(d, t) => c = d

Disabling(t) == {u \in Tasks : this[u] = t /\ pc[u] \in {"nosync", "disable", "disabled"}}

(* count counts those who have disabled the tasklet. *)
CountIsExact == \A t \in Tasklets : count[t] = Cardinality(Disabling(t))

(* TypeOK without the bounds of count, which follow from CountIsExact. *)
Types ==
  /\ sched \in [Tasklets -> BOOLEAN]
  /\ run \in [Tasklets -> BOOLEAN]
  /\ count \in [Tasklets -> Int]
  /\ next \in [Tasklets -> Tasklets \cup {Null}]
  /\ head \in [Vecs -> Tasklets \cup {Null}]
  /\ tail \in [Vecs -> Tasklets \cup Vecs]
  /\ raised \in [CPUs -> SUBSET Prio]
  /\ todo \in [CPUs -> SUBSET Prio]
  /\ DOMAIN pc = Actors
  /\ \A u \in Tasks : pc[u] \in TaskLabel
  /\ \A c \in CPUs : pc[c] \in SoftirqLabel
  /\ pc[Hotplug] \in {"idle", "dead", "dead_hi", "down"}
  /\ this \in [Actors -> Tasklets \cup {Null}]
  /\ prio \in [Actors -> Prio]
  /\ list \in [CPUs -> Tasklets \cup {Null}]
  /\ online \in SUBSET CPUs
  /\ program \in Programs

(* Who deals with a tasklet has one; the softirq code that is not in the   *)
(* loop has an empty list, and nothing to do when it has ended.            *)
Busy ==
  /\ \A u \in Tasks : pc[u] # "idle" => this[u] \in Tasklets
  /\ \A c \in CPUs : pc[c] \in {"locked", "clear", "func", "disabled", "readd"}
                       => this[c] \in Tasklets
  /\ \A c \in CPUs : pc[c] \in {"idle", "softirq"} => list[c] = Null
  /\ \A c \in CPUs : pc[c] = "idle" => todo[c] = {}

(* At most one CPU is away; no softirq runs there, and takeover_tasklets() *)
(* leaves nothing behind.                                                  *)
OneIsAway ==
  /\ pc[Hotplug] = "idle" => online = CPUs
  /\ \A c, d \in CPUs \ online : c = d
  /\ \A c \in CPUs \ online : /\ pc[c] = "idle"
                              /\ pc[Hotplug] \in {"dead_hi", "down"} => head[<<c, "normal">>] = Null
                              /\ pc[Hotplug] = "down" => head[<<c, "hi">>] = Null

IInv ==
  /\ Types /\ SchedOwned /\ RunIsLock /\ CountIsExact /\ Busy /\ OneIsAway
  /\ Serialized /\ NothingStranded

------------------------------------------------------------------------------
(* Null is no tasklet, and the CPUs, the tasks and Hotplug are different.  *)
LEMMA Actor ==
  /\ Null \notin Tasklets
  /\ \A u \in Tasks : u \notin CPUs /\ u # Hotplug /\ u \in Actors /\ u \in Hands
  /\ \A c \in CPUs : c \notin Tasks /\ c # Hotplug /\ c \in Actors /\ c \in Hands
  /\ Hotplug \in Actors /\ Hotplug \notin Hands
BY TaskletAssumption DEF Actors, Hands

(* The SCHED bit is set: the tasklet is in the hand of who set it. *)
LEMMA OwnedTake ==
  ASSUME NEW S, NEW sc \in [Tasklets -> BOOLEAN], NEW H, DOMAIN H = Hands, Owned(S, sc, H),
         NEW a \in Hands, NEW t \in Tasklets, ~sc[t], H[a] = Null
  PROVE  Owned(S, [sc EXCEPT ![t] = TRUE], [H EXCEPT ![a] = t])
BY Actor DEF Owned

(* The SCHED bit is cleared by who has the tasklet in hand. *)
LEMMA OwnedDrop ==
  ASSUME NEW S, NEW sc \in [Tasklets -> BOOLEAN], NEW H, DOMAIN H = Hands, Owned(S, sc, H),
         NEW a \in Hands, NEW t \in Tasklets, H[a] = t
  PROVE  Owned(S, [sc EXCEPT ![t] = FALSE], [H EXCEPT ![a] = Null])
<1>1. ASSUME NEW s \in Tasklets
      PROVE  [sc EXCEPT ![t] = FALSE][s] <=>
               s \in S \/ \E b \in Hands : [H EXCEPT ![a] = Null][b] = s
  <2>1. CASE s = t
    BY <2>1, Actor DEF Owned
  <2>2. CASE s # t
    BY <2>2, Actor DEF Owned
  <2> QED BY <2>1, <2>2
<1> QED BY <1>1, Actor DEF Owned

(* A tasklet goes from a hand to a list. *)
LEMMA OwnedPut ==
  ASSUME NEW S, NEW U, NEW sc \in [Tasklets -> BOOLEAN], NEW H, DOMAIN H = Hands,
         Owned(S, sc, H), NEW a \in Hands, NEW t \in Tasklets, H[a] = t,
         U = S \cup {t}
  PROVE  Owned(U, sc, [H EXCEPT ![a] = Null])
<1>1. ASSUME NEW s \in Tasklets
      PROVE  sc[s] <=> s \in U \/ \E b \in Hands : [H EXCEPT ![a] = Null][b] = s
  <2>1. CASE s = t
    BY <2>1 DEF Owned
  <2>2. CASE s # t
    BY <2>2, Actor DEF Owned
  <2> QED BY <2>1, <2>2
<1>2. ASSUME NEW s \in Tasklets, NEW b \in Hands, [H EXCEPT ![a] = Null][b] = s
      PROVE  s \notin U
  BY <1>2, Actor DEF Owned
<1> QED BY <1>1, <1>2, Actor DEF Owned

(* A tasklet goes from a list to a hand. *)
LEMMA OwnedGet ==
  ASSUME NEW S, NEW U, NEW sc \in [Tasklets -> BOOLEAN], NEW H, DOMAIN H = Hands,
         Owned(S, sc, H), NEW a \in Hands, NEW t \in Tasklets, H[a] = Null, t \in S,
         U = S \ {t}
  PROVE  Owned(U, sc, [H EXCEPT ![a] = t])
<1>1. ASSUME NEW s \in Tasklets
      PROVE  sc[s] <=> s \in U \/ \E b \in Hands : [H EXCEPT ![a] = t][b] = s
  <2>1. CASE s = t
    BY <2>1 DEF Owned
  <2>2. CASE s # t
    BY <2>2, Actor DEF Owned
  <2> QED BY <2>1, <2>2
<1>2. ASSUME NEW s \in Tasklets, NEW b \in Hands, [H EXCEPT ![a] = t][b] = s
      PROVE  s \notin U
  BY <1>2, Actor DEF Owned
<1>3. ASSUME NEW s \in Tasklets, NEW b \in Hands, NEW d \in Hands,
             [H EXCEPT ![a] = t][b] = s, [H EXCEPT ![a] = t][d] = s
      PROVE  b = d
  BY <1>3, Actor DEF Owned
<1> QED BY <1>1, <1>2, <1>3 DEF Owned

(* What a step of one actor does to the hands. *)
LEMMA HandStep ==
  ASSUME NEW a \in Hands,
         \A b \in Hands : b # a => pc'[b] = pc[b] /\ this'[b] = this[b]
  PROVE  /\ Holding(a)' => Hand' = [Hand EXCEPT ![a] = this'[a]]
         /\ ~Holding(a)' => Hand' = [Hand EXCEPT ![a] = Null]
         /\ Hand[a] = IF Holding(a) THEN this[a] ELSE Null
         /\ DOMAIN Hand = Hands /\ DOMAIN Hand' = Hands
<1>1. \A b \in Hands : b # a => (Holding(b)' <=> Holding(b))
  BY DEF Holding
<1>2. DOMAIN Hand = Hands /\ DOMAIN Hand' = Hands
  BY DEF Hand
<1>3. \A b \in Hands : Hand[b] = IF Holding(b) THEN this[b] ELSE Null
  BY DEF Hand
<1>4. \A b \in Hands : Hand'[b] = IF Holding(b)' THEN this'[b] ELSE Null
  BY DEF Hand
<1>5. \A b \in Hands : b # a => Hand'[b] = Hand[b]
  BY <1>1, <1>3, <1>4
<1>6. \A x : Hand'[a] = x => Hand' = [Hand EXCEPT ![a] = x]
  <2> SUFFICES ASSUME NEW x, Hand'[a] = x
               PROVE  Hand' = [Hand EXCEPT ![a] = x]
    OBVIOUS
  <2>1. Hand' = [b \in Hands |-> Hand'[b]] /\ Hand = [b \in Hands |-> Hand[b]]
    BY DEF Hand
  <2> QED BY <1>5, <2>1
<1> QED BY <1>2, <1>3, <1>4, <1>6

(* The actor gets nothing and loses nothing. *)
LEMMA HandSame ==
  ASSUME NEW a \in Hands,
         \A b \in Hands : b # a => pc'[b] = pc[b] /\ this'[b] = this[b],
         Holding(a)' <=> Holding(a), Holding(a) => this'[a] = this[a]
  PROVE  Hand' = Hand
<1>1. \A b \in Hands : Holding(b)' <=> Holding(b)
  BY DEF Holding
<1>2. \A b \in Hands : Hand'[b] = Hand[b]
  BY <1>1 DEF Hand
<1>3. Hand' = [b \in Hands |-> Hand'[b]] /\ Hand = [b \in Hands |-> Hand[b]]
  BY DEF Hand
<1> QED BY <1>2, <1>3

------------------------------------------------------------------------------
(* AddLast(): a tasklet that is on no list is put at the end of one. *)
LEMMA PutLast ==
  ASSUME NEW S, NEW nx, NEW hd, NEW tl, NEW ls,
         Linking(nx, hd, tl, ls, S), NEW v \in Vecs, NEW t \in Tasklets, t \notin S,
         NEW cut, Changed(nx, Tasklets, t, Null, cut),
         NEW ny, NEW hs, StoreAtTail(cut, hd, tl, v, t, ny, hs),
         NEW to, Changed(tl, Vecs, v, t, to)
  PROVE  Linking(ny, hs, to, ls, S \cup {t})
<1>0. PICK Q \in [Places -> Seq(Tasklets)] : Lists(Q, nx, hd, tl, ls) /\ Linked(Q) = S
  BY DEF Linking
<1> DEFINE r == <<t>>
<1>1. \A p \in Places : t \notin ListEntries(Q[p])
  BY <1>0 DEF On, Linked
<1>2. Lists(Q, cut, hd, tl, ls)
  BY <1>0, <1>1, Relink
<1>3. cut[t] = Null
  BY DEF Changed
<1>4. r \in Seq(Tasklets) /\ r # <<>> /\ Len(r) = 1 /\ r[1] = t
  OBVIOUS
<1>5. ListEntries(r) = {t}
  BY <1>4 DEF ListEntries
<1> HIDE DEF r
<1>6. IsList(cut, t, r)
  BY <1>3, <1>4 DEF IsList, ListOK
<1>8. \A p \in Places : ListEntries(Q[p]) \cap ListEntries(r) = {}
  BY <1>1, <1>5
<1> DEFINE s == Q[v] \o r
           R == [Q EXCEPT ![v] = s]
<1>a. R \in [Places -> Seq(Tasklets)] /\ Changed(Q, Places, v, s, R)
  <2>1. v \in Places /\ s \in Seq(Tasklets)
    BY <1>4, PlaceFacts
  <2> HIDE DEF s
  <2> QED BY <1>4, <2>1 DEF Changed
<1> HIDE DEF R
<1>9. Lists(R, ny, hs, to, ls)
  <2>1. /\ Q \in [Places -> Seq(Tasklets)] /\ v \in Vecs /\ r \in Seq(Tasklets) /\ r # <<>>
        /\ s = Q[v] \o r /\ t = r[Len(r)]
        /\ Changed(Q, Places, v, s, R) /\ Changed(tl, Vecs, v, t, to)
        /\ StoreAtTail(cut, hd, tl, v, t, ny, hs)
    BY <1>4, <1>a
  <2> HIDE DEF s
  <2> QED BY ONLY <1>2, <1>6, <1>8, <2>1, AppendList
<1>10. \A x \in Tasklets : On(R, x) <=> On(Q, x) \/ x = t
  <2>1. v \in Places /\ \A p \in Places : p # v => R[p] = Q[p]
    BY <1>a, PlaceFacts DEF Changed
  <2>2. ListEntries(R[v]) = ListEntries(Q[v]) \cup ListEntries(r)
    <3>1. R[v] = Q[v] \o r /\ Q[v] \in Seq(Tasklets)
      BY <1>a, <2>1 DEF Changed
    <3> QED BY <1>4, <3>1, ConcatEntries
  <2> QED BY <1>5, <2>1, <2>2 DEF On
<1>11. Linked(R) = S \cup {t}
  BY <1>0, <1>10 DEF Linked
<1> QED BY <1>9, <1>11, <1>a DEF Linking

(* tasklet_action() takes a whole list. *)
LEMMA TakeAll ==
  ASSUME NEW S, NEW nx, NEW hd, NEW tl, NEW ls,
         Linking(nx, hd, tl, ls, S), NEW v \in Vecs, NEW c \in CPUs, ls[c] = Null,
         NEW ho, Changed(hd, Vecs, v, Null, ho), NEW to, Changed(tl, Vecs, v, v, to),
         NEW y, y = hd[v], NEW lo, Changed(ls, CPUs, c, y, lo)
  PROVE  Linking(nx, ho, to, lo, S)
<1>0. PICK Q \in [Places -> Seq(Tasklets)] : Lists(Q, nx, hd, tl, ls) /\ Linked(Q) = S
  BY DEF Linking
<1> DEFINE O == [Q EXCEPT ![v] = <<>>]
           r == Q[v]
<1>a. O \in [Places -> Seq(Tasklets)] /\ Changed(Q, Places, v, <<>>, O)
  <2>1. v \in Places /\ <<>> \in Seq(Tasklets)
    BY PlaceFacts
  <2> QED BY <2>1 DEF Changed
<1> HIDE DEF O
<1> DEFINE R == [O EXCEPT ![Taken(c)] = r]
<1>b. R \in [Places -> Seq(Tasklets)] /\ Changed(O, Places, Taken(c), r, R)
  <2>1. Taken(c) \in Places /\ r \in Seq(Tasklets)
    BY PlaceFacts
  <2> QED BY <1>a, <2>1 DEF Changed
<1> HIDE DEF R
<1>1. /\ Lists(O, nx, ho, to, ls)
      /\ \A p \in Places : ListEntries(O[p]) = IF p = v THEN {} ELSE ListEntries(Q[p])
      /\ \A p \in Places : ListEntries(O[p]) \cap ListEntries(Q[v]) = {}
  BY <1>0, <1>a, CutList
<1>2. r \in Seq(Tasklets) /\ IsList(nx, hd[v], r)
  BY <1>0, PlaceFacts DEF Lists
<1>3. ListEntries(Q[Taken(c)]) = {}
  <2>1. IsList(nx, Null, Q[Taken(c)]) /\ Q[Taken(c)] \in Seq(Tasklets)
    BY <1>0, PlaceFacts DEF Lists
  <2>2. Q[Taken(c)] = <<>>
    BY <2>1, ListFacts DEF IsList
  <2> QED BY <2>2 DEF ListEntries
<1>4. Lists(R, nx, ho, to, lo)
  <2>1. /\ O \in [Places -> Seq(Tasklets)] /\ Lists(O, nx, ho, to, ls) /\ c \in CPUs
        /\ r \in Seq(Tasklets) /\ IsList(nx, hd[v], r)
        /\ Changed(O, Places, Taken(c), r, R) /\ Changed(ls, CPUs, c, hd[v], lo)
        /\ \A p \in Places : p # Taken(c) => ListEntries(O[p]) \cap ListEntries(r) = {}
    BY <1>1, <1>2, <1>a, <1>b
  <2> HIDE DEF r
  <2> QED BY ONLY <2>1, ReplaceList
<1>5. \A s \in Tasklets : On(R, s) <=> On(Q, s)
  <2>1. v \in Places /\ Taken(c) \in Places /\ v # Taken(c)
    BY PlaceFacts
  <2>2. R[Taken(c)] = Q[v] /\ \A p \in Places : p # Taken(c) => R[p] = O[p]
    BY <1>b DEF Changed
  <2> QED BY <1>1, <1>3, <2>1, <2>2 DEF On
<1>6. Linked(R) = S
  BY <1>0, <1>5 DEF Linked
<1> QED BY <1>4, <1>6, <1>b DEF Linking

(* tasklet_action() takes the first tasklet off its list. *)
LEMMA Unlink ==
  ASSUME NEW S, NEW nx, NEW hd, NEW tl, NEW ls,
         Linking(nx, hd, tl, ls, S), NEW c \in CPUs, NEW t, t = ls[c], t # Null,
         NEW ny, Changed(nx, Tasklets, t, Null, ny),
         NEW y, y = nx[t], NEW lo, Changed(ls, CPUs, c, y, lo)
  PROVE  t \in Tasklets /\ t \in S /\ Linking(ny, hd, tl, lo, S \ {t})
<1>0. PICK Q \in [Places -> Seq(Tasklets)] : Lists(Q, nx, hd, tl, ls) /\ Linked(Q) = S
  BY DEF Linking
<1> DEFINE q == Q[Taken(c)]
           r == Tail(q)
<1>1. q \in Seq(Tasklets) /\ IsList(nx, t, q) /\ Taken(c) \in Places
  BY <1>0, PlaceFacts DEF Lists
<1>2. /\ t \in ListEntries(q) /\ t \in Tasklets
      /\ r \in Seq(Tasklets) /\ IsList(nx, nx[t], r)
      /\ ListEntries(r) = ListEntries(q) \ {t}
  <2> HIDE DEF q
  <2> QED BY <1>1, TakeFirst
<1>3. \A p \in Places : p # Taken(c) => ListEntries(Q[p]) \cap ListEntries(q) = {}
  BY <1>0, <1>1 DEF Lists
<1> HIDE DEF q, r
<1>4. \A p \in Places : p # Taken(c) => ListEntries(Q[p]) \cap ListEntries(r) = {}
  BY <1>2, <1>3
<1> DEFINE R == [Q EXCEPT ![Taken(c)] = r]
<1>a. R \in [Places -> Seq(Tasklets)] /\ Changed(Q, Places, Taken(c), r, R)
  BY <1>1, <1>2 DEF Changed
<1> HIDE DEF R
<1>b. R[Taken(c)] = r /\ \A p \in Places : p # Taken(c) => R[p] = Q[p]
  BY <1>a DEF Changed
<1>5. Lists(R, nx, hd, tl, lo)
  <2>1. /\ Q \in [Places -> Seq(Tasklets)] /\ Lists(Q, nx, hd, tl, ls) /\ c \in CPUs
        /\ r \in Seq(Tasklets) /\ IsList(nx, nx[t], r)
        /\ Changed(Q, Places, Taken(c), r, R) /\ Changed(ls, CPUs, c, nx[t], lo)
    BY <1>0, <1>2, <1>a
  <2> QED BY ONLY <1>4, <2>1, ReplaceList
<1>6. \A p \in Places : t \notin ListEntries(R[p])
  BY <1>2, <1>3, <1>b
<1>7. Lists(R, ny, hd, tl, lo)
  BY <1>5, <1>6, <1>a, Relink
<1>8. ASSUME NEW s \in Tasklets
      PROVE  On(R, s) <=> On(Q, s) /\ s # t
  BY <1>1, <1>2, <1>6, <1>b DEF On, q
<1>9. On(Q, t)
  BY <1>1, <1>2 DEF On, q
<1>10. t \in S /\ Linked(R) = S \ {t}
  BY <1>0, <1>2, <1>8, <1>9 DEF Linked
<1> QED BY <1>2, <1>7, <1>10, <1>a DEF Linking

(* MoveList(): the list of one vector is appended to that of another. *)
LEMMA MoveAll ==
  ASSUME NEW S, NEW nx, NEW hd, NEW tl, NEW ls,
         Linking(nx, hd, tl, ls, S), NEW v \in Vecs, NEW w \in Vecs, v # w, tl[v] # v,
         NEW ho, Changed(hd, Vecs, v, Null, ho), NEW to, Changed(tl, Vecs, v, v, to),
         NEW y, y = hd[v], NEW ny, NEW hs, StoreAtTail(nx, ho, to, w, y, ny, hs),
         NEW e, e = tl[v], NEW tm, Changed(to, Vecs, w, e, tm)
  PROVE  Linking(ny, hs, tm, ls, S)
<1>0. PICK Q \in [Places -> Seq(Tasklets)] : Lists(Q, nx, hd, tl, ls) /\ Linked(Q) = S
  BY DEF Linking
<1> DEFINE O == [Q EXCEPT ![v] = <<>>]
           r == Q[v]
<1>a. O \in [Places -> Seq(Tasklets)] /\ Changed(Q, Places, v, <<>>, O)
  <2>1. v \in Places /\ <<>> \in Seq(Tasklets)
    BY PlaceFacts
  <2> QED BY <2>1 DEF Changed
<1> HIDE DEF O
<1>1. /\ Lists(O, nx, ho, to, ls)
      /\ \A p \in Places : ListEntries(O[p]) = IF p = v THEN {} ELSE ListEntries(Q[p])
      /\ \A p \in Places : ListEntries(O[p]) \cap ListEntries(Q[v]) = {}
  BY <1>0, <1>a, CutList
<1>2. r \in Seq(Tasklets) /\ IsList(nx, hd[v], r)
  BY <1>0, PlaceFacts DEF Lists
<1>3. r # <<>> /\ tl[v] = r[Len(r)]
  BY <1>0 DEF Lists
<1> HIDE DEF r
<1> DEFINE s == O[w] \o r
           R == [O EXCEPT ![w] = s]
<1>b. R \in [Places -> Seq(Tasklets)] /\ Changed(O, Places, w, s, R)
  <2>1. w \in Places
    BY PlaceFacts
  <2>2. s \in Seq(Tasklets)
    BY <1>2, <1>a, <2>1
  <2> HIDE DEF s
  <2> QED BY <1>a, <2>1, <2>2 DEF Changed
<1> HIDE DEF R
<1>7. Lists(R, ny, hs, tm, ls)
  <2>1. \A p \in Places : ListEntries(O[p]) \cap ListEntries(r) = {}
    BY <1>1 DEF r
  <2>2. /\ O \in [Places -> Seq(Tasklets)] /\ w \in Vecs /\ r \in Seq(Tasklets) /\ r # <<>>
        /\ Lists(O, nx, ho, to, ls) /\ IsList(nx, hd[v], r)
        /\ StoreAtTail(nx, ho, to, w, hd[v], ny, hs) /\ s = O[w] \o r /\ tl[v] = r[Len(r)]
        /\ Changed(O, Places, w, s, R) /\ Changed(to, Vecs, w, tl[v], tm)
    BY <1>1, <1>2, <1>3, <1>a, <1>b
  <2> HIDE DEF s
  <2> QED BY ONLY <2>1, <2>2, AppendList
<1>8. \A x \in Tasklets : On(R, x) <=> On(Q, x)
  <2>1. v \in Places /\ w \in Places
    BY PlaceFacts
  <2>2. \A p \in Places : p # w => R[p] = O[p]
    BY <1>b DEF Changed
  <2>3. ListEntries(R[w]) = ListEntries(O[w]) \cup ListEntries(r)
    <3>1. R[w] = O[w] \o r /\ O[w] \in Seq(Tasklets)
      BY <1>a, <1>b, <2>1 DEF Changed
    <3> QED BY <1>2, <3>1, ConcatEntries
  <2> QED BY <1>1, <2>1, <2>2, <2>3 DEF On, r
<1>9. Linked(R) = S
  BY <1>0, <1>8 DEF Linked
<1> QED BY <1>7, <1>9, <1>b DEF Linking

------------------------------------------------------------------------------
(* The steps, one by one. *)
LEMMA StepCases ==
  ASSUME Next
  PROVE  \/ \E u \in Tasks :
              \/ \E t \in Tasklets, p \in Prio : TestAndSetSched(u, t, p, "schedule")
              \/ \E t \in Tasklets, to \in {"nosync", "disable"} : tasklet_disable_nosync(u, t, to)
              \/ \E t \in Tasklets : tasklet_kill(u, t)
              \/ \E c \in CPUs : __tasklet_schedule(u, c)
              \/ tasklet_unlock_wait(u, "disable", "disabled")
              \/ tasklet_unlock_wait(u, "kill_wait", "killed")
              \/ \E from \in {"disabled", "nosync"} : tasklet_enable(u, from)
              \/ KillGrabs(u) \/ KillClears(u)
         \/ \E c \in CPUs :
              \/ __do_softirq(c) \/ SoftirqEnds(c) \/ tasklet_action(c) \/ ListEmpty(c)
              \/ tasklet_trylock(c) \/ TestCount(c) \/ TestAndClearSched(c)
              \/ tasklet_unlock(c, "func", "loop") \/ tasklet_unlock(c, "disabled", "readd")
              \/ Readd(c) \/ cpu_down(c) \/ cpu_up(c)
         \/ \E c, to \in CPUs : \/ takeover_tasklets(c, to, "normal", "dead", "dead_hi")
                                \/ takeover_tasklets(c, to, "hi", "dead_hi", "down")
<1>1. ASSUME NEW u \in Tasks, Call(u)
      PROVE  \/ \E t \in Tasklets, p \in Prio : TestAndSetSched(u, t, p, "schedule")
             \/ \E t \in Tasklets, to \in {"nosync", "disable"} : tasklet_disable_nosync(u, t, to)
             \/ \E t \in Tasklets : tasklet_kill(u, t)
  <2>1. "hi" \in Prio /\ "normal" \in Prio
    BY DEF Prio
  <2> QED BY <1>1, <2>1 DEF Call, tasklet_schedule, tasklet_hi_schedule
<1>2. ASSUME NEW u \in Tasks, Step(u)
      PROVE  \/ \E c \in CPUs : __tasklet_schedule(u, c)
             \/ tasklet_unlock_wait(u, "disable", "disabled")
             \/ tasklet_unlock_wait(u, "kill_wait", "killed")
             \/ \E from \in {"disabled", "nosync"} : tasklet_enable(u, from)
             \/ KillGrabs(u) \/ KillClears(u)
  BY <1>2 DEF Step
<1> QED
  BY <1>1, <1>2 DEF Next, Softirq, HotplugStarts, Takeover

(* No step changes what the actors may call. *)
LEMMA ProgramSame ==
  ASSUME Next PROVE program' = program
BY DEF Next, Call, Step, Softirq, HotplugStarts, Takeover

(* A tail points to its own head just when the list is empty. *)
LEMMA HeadTail ==
  ASSUME SchedOwned, NEW v \in Vecs
  PROVE  (tail[v] \in Vecs => tail[v] = v) /\ (tail[v] = v <=> head[v] = Null)
<1>1. PICK Q \in [Places -> Seq(Tasklets)] : Lists(Q, next, head, tail, list)
  BY DEF SchedOwned, Linking
<1>2. Q[v] \in Seq(Tasklets) /\ IsList(next, head[v], Q[v])
  BY <1>1, PlaceFacts DEF Lists
<1>3. Q[v] # <<>> => tail[v] \in Tasklets /\ tail[v] \notin Vecs
  BY <1>1, <1>2, ListFacts, TaskletAssumption DEF Lists
<1>4. Q[v] # <<>> => head[v] = Q[v][1] /\ head[v] # Null
  BY <1>2, ListFacts DEF IsList
<1>5. Q[v] = <<>> => tail[v] = v /\ head[v] = Null
  BY <1>1, <1>2 DEF Lists, IsList
<1> QED
  BY <1>3, <1>4, <1>5

(* A step that does not touch the lists, the SCHED bits and the hands. *)
LEMMA SchedSame ==
  ASSUME SchedOwned, UNCHANGED <<next, head, tail, list, sched>>, Hand' = Hand
  PROVE  SchedOwned'
BY DEF SchedOwned

(* Whatever step is made, the lists stay lists and every scheduled tasklet *)
(* has one owner.                                                          *)
LEMMA SchedOwnedStep ==
  ASSUME Types, Busy, SchedOwned, Next
  PROVE  SchedOwned'
<1>1. ASSUME NEW u \in Tasks, NEW t \in Tasklets, NEW p \in Prio, TestAndSetSched(u, t, p,
        "schedule")
      PROVE  SchedOwned'
  <2>1. PICK S \in SUBSET Tasklets : Linking(next, head, tail, list, S) /\ Owned(S, sched, Hand)
    BY DEF SchedOwned
  <2>2. \A b \in Hands : b # u => pc'[b] = pc[b] /\ this'[b] = this[b]
    BY <1>1, Actor DEF TestAndSetSched, Goto, vectors, Types, Hands, Actors
  <2>3. Hand' = [Hand EXCEPT ![u] = t] /\ Hand[u] = Null /\ DOMAIN Hand = Hands
    BY <1>1, <2>2, Actor, HandStep DEF TestAndSetSched, Goto, vectors, Holding, Types
  <2>4. sched' = [sched EXCEPT ![t] = TRUE] /\ ~sched[t] /\ u \in Hands
    BY <1>1, Actor DEF TestAndSetSched
  <2>5. Owned(S, sched', Hand')
    BY <2>1, <2>3, <2>4, OwnedTake DEF Types
  <2>6. UNCHANGED <<next, head, tail, list>>
    BY <1>1 DEF TestAndSetSched, vectors
  <2> QED BY <2>1, <2>5, <2>6 DEF SchedOwned
<1>2. ASSUME NEW u \in Tasks, NEW t \in Tasklets, NEW to \in {"nosync", "disable"},
             tasklet_disable_nosync(u, t, to)
      PROVE  SchedOwned'
  <2>1. \A b \in Hands : b # u => pc'[b] = pc[b] /\ this'[b] = this[b]
    BY <1>2, Actor DEF tasklet_disable_nosync, Goto, vectors, Types, Hands, Actors
  <2>2. u \in Hands /\ (Holding(u)' <=> Holding(u)) /\ (Holding(u) => this'[u] = this[u])
    BY <1>2, Actor DEF tasklet_disable_nosync, Goto, vectors, Types, Holding
  <2>3. Hand' = Hand
    BY <2>1, <2>2, HandSame
  <2>4. UNCHANGED <<next, head, tail, list, sched>>
    BY <1>2 DEF tasklet_disable_nosync, Goto, vectors
  <2> QED BY <2>3, <2>4, SchedSame
<1>3. ASSUME NEW u \in Tasks, NEW t \in Tasklets, tasklet_kill(u, t)
      PROVE  SchedOwned'
  <2>1. \A b \in Hands : b # u => pc'[b] = pc[b] /\ this'[b] = this[b]
    BY <1>3, Actor DEF tasklet_kill, Goto, bits, vectors, Types, Hands, Actors
  <2>2. u \in Hands /\ (Holding(u)' <=> Holding(u)) /\ (Holding(u) => this'[u] = this[u])
    BY <1>3, Actor DEF tasklet_kill, Goto, bits, vectors, Types, Holding
  <2>3. Hand' = Hand
    BY <2>1, <2>2, HandSame
  <2>4. UNCHANGED <<next, head, tail, list, sched>>
    BY <1>3 DEF tasklet_kill, Goto, bits, vectors
  <2> QED BY <2>3, <2>4, SchedSame
<1>4. ASSUME NEW u \in Tasks, NEW c \in CPUs, __tasklet_schedule(u, c)
      PROVE  SchedOwned'
  <2>1. PICK S \in SUBSET Tasklets : Linking(next, head, tail, list, S) /\ Owned(S, sched, Hand)
    BY DEF SchedOwned
  <2>2. \A b \in Hands : b # u => pc'[b] = pc[b] /\ this'[b] = this[b]
    BY <1>4, Actor DEF __tasklet_schedule, AddLast, raise_softirq_irqoff, Leave, Goto, bits,
       Types, Hands, Actors
  <2>a. PICK t \in Tasklets, v \in Vecs : t = this[u] /\ v = <<c, prio[u]>>
    <3>1. this[u] \in Tasklets
      BY <1>4 DEF __tasklet_schedule, AddLast, raise_softirq_irqoff, Leave, Goto, bits, Busy
    <3>2. <<c, prio[u]>> \in Vecs
      BY Actor, PlaceFacts DEF Types
    <3> QED BY <3>1, <3>2
  <2>3. Hand' = [Hand EXCEPT ![u] = Null] /\ Hand[u] = t /\ DOMAIN Hand = Hands
    BY <1>4, <2>2, Actor, HandStep, <2>a DEF __tasklet_schedule, AddLast, raise_softirq_irqoff,
       Leave, Goto, bits, Holding, Types
  <2>4. sched' = sched /\ list' = list /\ u \in Hands
    BY <1>4, Actor DEF __tasklet_schedule, bits
  <2>5. t \notin S
    BY <2>1, <2>3, <2>4 DEF Owned
  <2>6. PICK cut : cut = [next EXCEPT ![t] = Null]
    OBVIOUS
  <2>b. /\ tail' = [tail EXCEPT ![v] = t]
        /\ \/ /\ tail[v] \in Vecs /\ head' = [head EXCEPT ![tail[v]] = t]
              /\ next' = cut
           \/ /\ tail[v] \in Tasklets /\ next' = [cut EXCEPT ![tail[v]] = t]
              /\ head' = head
    BY <1>4, <2>6, <2>a DEF __tasklet_schedule, AddLast
  <2>7. /\ Changed(next, Tasklets, t, Null, cut) /\ Changed(tail, Vecs, v, t, tail')
        /\ StoreAtTail(cut, head, tail, v, t, next', head')
    BY <2>6, <2>b DEF Types, Changed, StoreAtTail
  <2>8. Linking(next', head', tail', list', S \cup {t})
    BY <2>1, <2>4, <2>5, <2>7, PutLast
  <2>9. Owned(S \cup {t}, sched', Hand')
    BY <2>1, <2>3, <2>4, OwnedPut DEF Types
  <2>10. S \cup {t} \in SUBSET Tasklets
    OBVIOUS
  <2> QED BY <2>8, <2>9, <2>10 DEF SchedOwned
<1>5. ASSUME NEW u \in Tasks, tasklet_unlock_wait(u, "disable", "disabled")
      PROVE  SchedOwned'
  <2>1. \A b \in Hands : b # u => pc'[b] = pc[b] /\ this'[b] = this[b]
    BY <1>5, Actor DEF tasklet_unlock_wait, Goto, bits, vectors, Types, Hands, Actors
  <2>2. u \in Hands /\ (Holding(u)' <=> Holding(u)) /\ (Holding(u) => this'[u] = this[u])
    BY <1>5, Actor DEF tasklet_unlock_wait, Goto, bits, vectors, Types, Holding
  <2>3. Hand' = Hand
    BY <2>1, <2>2, HandSame
  <2>4. UNCHANGED <<next, head, tail, list, sched>>
    BY <1>5 DEF tasklet_unlock_wait, Goto, bits, vectors
  <2> QED BY <2>3, <2>4, SchedSame
<1>6. ASSUME NEW u \in Tasks, tasklet_unlock_wait(u, "kill_wait", "killed")
      PROVE  SchedOwned'
  <2>1. \A b \in Hands : b # u => pc'[b] = pc[b] /\ this'[b] = this[b]
    BY <1>6, Actor DEF tasklet_unlock_wait, Goto, bits, vectors, Types, Hands, Actors
  <2>2. u \in Hands /\ (Holding(u)' <=> Holding(u)) /\ (Holding(u) => this'[u] = this[u])
    BY <1>6, Actor DEF tasklet_unlock_wait, Goto, bits, vectors, Types, Holding
  <2>3. Hand' = Hand
    BY <2>1, <2>2, HandSame
  <2>4. UNCHANGED <<next, head, tail, list, sched>>
    BY <1>6 DEF tasklet_unlock_wait, Goto, bits, vectors
  <2> QED BY <2>3, <2>4, SchedSame
<1>7. ASSUME NEW u \in Tasks, NEW from \in {"disabled", "nosync"}, tasklet_enable(u, from)
      PROVE  SchedOwned'
  <2>1. \A b \in Hands : b # u => pc'[b] = pc[b] /\ this'[b] = this[b]
    BY <1>7, Actor DEF tasklet_enable, Leave, Goto, vectors, Types, Hands, Actors
  <2>2. u \in Hands /\ (Holding(u)' <=> Holding(u)) /\ (Holding(u) => this'[u] = this[u])
    BY <1>7, Actor DEF tasklet_enable, Leave, Goto, vectors, Types, Holding
  <2>3. Hand' = Hand
    BY <2>1, <2>2, HandSame
  <2>4. UNCHANGED <<next, head, tail, list, sched>>
    BY <1>7 DEF tasklet_enable, Leave, Goto, vectors
  <2> QED BY <2>3, <2>4, SchedSame
<1>8. ASSUME NEW u \in Tasks, KillGrabs(u)
      PROVE  SchedOwned'
  <2>1. PICK S \in SUBSET Tasklets : Linking(next, head, tail, list, S) /\ Owned(S, sched, Hand)
    BY DEF SchedOwned
  <2>2. \A b \in Hands : b # u => pc'[b] = pc[b] /\ this'[b] = this[b]
    BY <1>8, Actor DEF KillGrabs, Goto, vectors, Types, Hands, Actors
  <2>a. PICK t \in Tasklets : t = this[u]
    BY <1>8 DEF KillGrabs, Goto, Busy
  <2>3. Hand' = [Hand EXCEPT ![u] = t] /\ Hand[u] = Null /\ DOMAIN Hand = Hands
    BY <1>8, <2>2, Actor, HandStep, <2>a DEF KillGrabs, Goto, vectors, Holding, Types
  <2>4. sched' = [sched EXCEPT ![t] = TRUE] /\ ~sched[t] /\ u \in Hands
    BY <1>8, <2>a, Actor DEF KillGrabs
  <2>5. Owned(S, sched', Hand')
    BY <2>1, <2>3, <2>4, OwnedTake DEF Types
  <2>6. UNCHANGED <<next, head, tail, list>>
    BY <1>8 DEF KillGrabs, vectors
  <2> QED BY <2>1, <2>5, <2>6 DEF SchedOwned
<1>9. ASSUME NEW u \in Tasks, KillClears(u)
      PROVE  SchedOwned'
  <2>1. PICK S \in SUBSET Tasklets : Linking(next, head, tail, list, S) /\ Owned(S, sched, Hand)
    BY DEF SchedOwned
  <2>2. \A b \in Hands : b # u => pc'[b] = pc[b] /\ this'[b] = this[b]
    BY <1>9, Actor DEF KillClears, Leave, Goto, vectors, Types, Hands, Actors
  <2>a. PICK t \in Tasklets : t = this[u]
    BY <1>9 DEF KillClears, Leave, Goto, vectors, Busy
  <2>3. Hand' = [Hand EXCEPT ![u] = Null] /\ Hand[u] = t /\ DOMAIN Hand = Hands
    BY <1>9, <2>2, Actor, HandStep, <2>a DEF KillClears, Leave, Goto, vectors, Holding, Types
  <2>4. sched' = [sched EXCEPT ![t] = FALSE] /\ u \in Hands
    BY <1>9, <2>a, Actor DEF KillClears
  <2>5. Owned(S, sched', Hand')
    BY <2>1, <2>3, <2>4, OwnedDrop DEF Types
  <2>6. UNCHANGED <<next, head, tail, list>>
    BY <1>9 DEF KillClears, vectors
  <2> QED BY <2>1, <2>5, <2>6 DEF SchedOwned
<1>10. ASSUME NEW c \in CPUs, __do_softirq(c)
      PROVE  SchedOwned'
  <2>1. \A b \in Hands : b # c => pc'[b] = pc[b] /\ this'[b] = this[b]
    BY <1>10, Actor DEF __do_softirq, Goto, bits, Types, Hands, Actors
  <2>2. c \in Hands /\ (Holding(c)' <=> Holding(c)) /\ (Holding(c) => this'[c] = this[c])
    BY <1>10, Actor DEF __do_softirq, Goto, bits, Types, Holding
  <2>3. Hand' = Hand
    BY <2>1, <2>2, HandSame
  <2>4. UNCHANGED <<next, head, tail, list, sched>>
    BY <1>10 DEF __do_softirq, Goto, bits
  <2> QED BY <2>3, <2>4, SchedSame
<1>11. ASSUME NEW c \in CPUs, SoftirqEnds(c)
      PROVE  SchedOwned'
  <2>1. \A b \in Hands : b # c => pc'[b] = pc[b] /\ this'[b] = this[b]
    BY <1>11, Actor DEF SoftirqEnds, Goto, bits, vectors, Types, Hands, Actors
  <2>2. c \in Hands /\ (Holding(c)' <=> Holding(c)) /\ (Holding(c) => this'[c] = this[c])
    BY <1>11, Actor DEF SoftirqEnds, Goto, bits, vectors, Types, Holding
  <2>3. Hand' = Hand
    BY <2>1, <2>2, HandSame
  <2>4. UNCHANGED <<next, head, tail, list, sched>>
    BY <1>11 DEF SoftirqEnds, Goto, bits, vectors
  <2> QED BY <2>3, <2>4, SchedSame
<1>12. ASSUME NEW c \in CPUs, tasklet_action(c)
      PROVE  SchedOwned'
  <2>1. PICK S \in SUBSET Tasklets : Linking(next, head, tail, list, S) /\ Owned(S, sched, Hand)
    BY DEF SchedOwned
  <2>2. \A b \in Hands : b # c => pc'[b] = pc[b] /\ this'[b] = this[b]
    BY <1>12, Actor DEF tasklet_action, Goto, Types, Hands, Actors
  <2>3. c \in Hands /\ ~Holding(c)' /\ ~Holding(c)
    BY <1>12, Actor DEF tasklet_action, Goto, Types, Holding
  <2>4. Hand' = Hand /\ sched' = sched /\ next' = next
    BY <1>12, <2>2, <2>3, HandSame DEF tasklet_action, bits
  <2>5. PICK p \in Prio : /\ list' = [list EXCEPT ![c] = head[<<c, p>>]]
                         /\ head' = [head EXCEPT ![<<c, p>>] = Null]
                         /\ tail' = [tail EXCEPT ![<<c, p>>] = <<c, p>>]
    <3>1. (IF "hi" \in todo[c] THEN "hi" ELSE "normal") \in Prio
      BY DEF Prio
    <3> QED BY <1>12, <3>1 DEF tasklet_action
  <2>6. PICK v \in Vecs : v = <<c, p>>
    BY PlaceFacts
  <2>7. list[c] = Null
    BY <1>12 DEF tasklet_action, Goto, Busy
  <2>8. PICK y : y = head[v]
    OBVIOUS
  <2>9. /\ Changed(head, Vecs, v, Null, head') /\ Changed(tail, Vecs, v, v, tail')
        /\ Changed(list, CPUs, c, y, list')
    BY <2>5, <2>6, <2>8 DEF Types, Changed
  <2>10. Linking(next', head', tail', list', S)
    BY <2>1, <2>4, <2>7, <2>8, <2>9, TakeAll
  <2> QED BY <2>1, <2>4, <2>10 DEF SchedOwned
<1>13. ASSUME NEW c \in CPUs, ListEmpty(c)
      PROVE  SchedOwned'
  <2>1. \A b \in Hands : b # c => pc'[b] = pc[b] /\ this'[b] = this[b]
    BY <1>13, Actor DEF ListEmpty, Goto, bits, vectors, Types, Hands, Actors
  <2>2. c \in Hands /\ (Holding(c)' <=> Holding(c)) /\ (Holding(c) => this'[c] = this[c])
    BY <1>13, Actor DEF ListEmpty, Goto, bits, vectors, Types, Holding
  <2>3. Hand' = Hand
    BY <2>1, <2>2, HandSame
  <2>4. UNCHANGED <<next, head, tail, list, sched>>
    BY <1>13 DEF ListEmpty, Goto, bits, vectors
  <2> QED BY <2>3, <2>4, SchedSame
<1>14. ASSUME NEW c \in CPUs, tasklet_trylock(c)
      PROVE  SchedOwned'
  <2>1. PICK S \in SUBSET Tasklets : Linking(next, head, tail, list, S) /\ Owned(S, sched, Hand)
    BY DEF SchedOwned
  <2>2. \A b \in Hands : b # c => pc'[b] = pc[b] /\ this'[b] = this[b]
    BY <1>14, Actor DEF tasklet_trylock, Goto, Types, Hands, Actors
  <2>a. PICK t : t = list[c] /\ t # Null
    BY <1>14 DEF tasklet_trylock
  <2>3. Hand' = [Hand EXCEPT ![c] = t] /\ Hand[c] = Null /\ DOMAIN Hand = Hands
    BY <1>14, <2>2, Actor, HandStep, <2>a DEF tasklet_trylock, Goto, Holding, Types
  <2>b. PICK y : y = next[t]
    OBVIOUS
  <2>4. /\ UNCHANGED <<head, tail, sched>> /\ c \in Hands
        /\ Changed(next, Tasklets, t, Null, next') /\ Changed(list, CPUs, c, y, list')
    BY <1>14, <2>a, <2>b, Actor DEF tasklet_trylock, Types, Changed
  <2>5. t \in Tasklets /\ t \in S /\ Linking(next', head', tail', list', S \ {t})
    BY <2>1, <2>4, <2>a, <2>b, Unlink
  <2>6. Owned(S \ {t}, sched', Hand')
    BY <2>1, <2>3, <2>4, <2>5, OwnedGet DEF Types
  <2>7. S \ {t} \in SUBSET Tasklets
    OBVIOUS
  <2> QED BY <2>5, <2>6, <2>7 DEF SchedOwned
<1>15. ASSUME NEW c \in CPUs, TestCount(c)
      PROVE  SchedOwned'
  <2>1. \A b \in Hands : b # c => pc'[b] = pc[b] /\ this'[b] = this[b]
    BY <1>15, Actor DEF TestCount, Goto, bits, vectors, Types, Hands, Actors
  <2>2. c \in Hands /\ (Holding(c)' <=> Holding(c)) /\ (Holding(c) => this'[c] = this[c])
    BY <1>15, Actor DEF TestCount, Goto, bits, vectors, Types, Holding
  <2>3. Hand' = Hand
    BY <2>1, <2>2, HandSame
  <2>4. UNCHANGED <<next, head, tail, list, sched>>
    BY <1>15 DEF TestCount, Goto, bits, vectors
  <2> QED BY <2>3, <2>4, SchedSame
<1>16. ASSUME NEW c \in CPUs, TestAndClearSched(c)
      PROVE  SchedOwned'
  <2>1. PICK S \in SUBSET Tasklets : Linking(next, head, tail, list, S) /\ Owned(S, sched, Hand)
    BY DEF SchedOwned
  <2>2. \A b \in Hands : b # c => pc'[b] = pc[b] /\ this'[b] = this[b]
    BY <1>16, Actor DEF TestAndClearSched, Goto, vectors, Types, Hands, Actors
  <2>a. PICK t \in Tasklets : t = this[c]
    BY <1>16 DEF TestAndClearSched, Goto, vectors, Busy
  <2>3. Hand' = [Hand EXCEPT ![c] = Null] /\ Hand[c] = t /\ DOMAIN Hand = Hands
    BY <1>16, <2>2, Actor, HandStep, <2>a DEF TestAndClearSched, Goto, vectors, Holding, Types
  <2>4. sched' = [sched EXCEPT ![t] = FALSE] /\ c \in Hands
    BY <1>16, <2>a, Actor DEF TestAndClearSched
  <2>5. Owned(S, sched', Hand')
    BY <2>1, <2>3, <2>4, OwnedDrop DEF Types
  <2>6. UNCHANGED <<next, head, tail, list>>
    BY <1>16 DEF TestAndClearSched, vectors
  <2> QED BY <2>1, <2>5, <2>6 DEF SchedOwned
<1>17. ASSUME NEW c \in CPUs, tasklet_unlock(c, "func", "loop")
      PROVE  SchedOwned'
  <2>1. \A b \in Hands : b # c => pc'[b] = pc[b] /\ this'[b] = this[b]
    BY <1>17, Actor DEF tasklet_unlock, Goto, vectors, Types, Hands, Actors
  <2>2. c \in Hands /\ (Holding(c)' <=> Holding(c)) /\ (Holding(c) => this'[c] = this[c])
    BY <1>17, Actor DEF tasklet_unlock, Goto, vectors, Types, Holding
  <2>3. Hand' = Hand
    BY <2>1, <2>2, HandSame
  <2>4. UNCHANGED <<next, head, tail, list, sched>>
    BY <1>17 DEF tasklet_unlock, Goto, vectors
  <2> QED BY <2>3, <2>4, SchedSame
<1>18. ASSUME NEW c \in CPUs, tasklet_unlock(c, "disabled", "readd")
      PROVE  SchedOwned'
  <2>1. \A b \in Hands : b # c => pc'[b] = pc[b] /\ this'[b] = this[b]
    BY <1>18, Actor DEF tasklet_unlock, Goto, vectors, Types, Hands, Actors
  <2>2. c \in Hands /\ (Holding(c)' <=> Holding(c)) /\ (Holding(c) => this'[c] = this[c])
    BY <1>18, Actor DEF tasklet_unlock, Goto, vectors, Types, Holding
  <2>3. Hand' = Hand
    BY <2>1, <2>2, HandSame
  <2>4. UNCHANGED <<next, head, tail, list, sched>>
    BY <1>18 DEF tasklet_unlock, Goto, vectors
  <2> QED BY <2>3, <2>4, SchedSame
<1>19. ASSUME NEW c \in CPUs, Readd(c)
      PROVE  SchedOwned'
  <2>1. PICK S \in SUBSET Tasklets : Linking(next, head, tail, list, S) /\ Owned(S, sched, Hand)
    BY DEF SchedOwned
  <2>2. \A b \in Hands : b # c => pc'[b] = pc[b] /\ this'[b] = this[b]
    BY <1>19, Actor DEF Readd, AddLast, raise_softirq_irqoff, Goto, bits, Types, Hands, Actors
  <2>a. PICK t \in Tasklets, v \in Vecs : t = this[c] /\ v = <<c, prio[c]>>
    <3>1. this[c] \in Tasklets
      BY <1>19 DEF Readd, AddLast, raise_softirq_irqoff, Goto, bits, Busy
    <3>2. <<c, prio[c]>> \in Vecs
      BY Actor, PlaceFacts DEF Types
    <3> QED BY <3>1, <3>2
  <2>3. Hand' = [Hand EXCEPT ![c] = Null] /\ Hand[c] = t /\ DOMAIN Hand = Hands
    BY <1>19, <2>2, Actor, HandStep, <2>a DEF Readd, AddLast, raise_softirq_irqoff, Goto, bits,
       Holding, Types
  <2>4. sched' = sched /\ list' = list /\ c \in Hands
    BY <1>19, Actor DEF Readd, bits
  <2>5. t \notin S
    BY <2>1, <2>3, <2>4 DEF Owned
  <2>6. PICK cut : cut = [next EXCEPT ![t] = Null]
    OBVIOUS
  <2>b. /\ tail' = [tail EXCEPT ![v] = t]
        /\ \/ /\ tail[v] \in Vecs /\ head' = [head EXCEPT ![tail[v]] = t]
              /\ next' = cut
           \/ /\ tail[v] \in Tasklets /\ next' = [cut EXCEPT ![tail[v]] = t]
              /\ head' = head
    BY <1>19, <2>6, <2>a DEF Readd, AddLast
  <2>7. /\ Changed(next, Tasklets, t, Null, cut) /\ Changed(tail, Vecs, v, t, tail')
        /\ StoreAtTail(cut, head, tail, v, t, next', head')
    BY <2>6, <2>b DEF Types, Changed, StoreAtTail
  <2>8. Linking(next', head', tail', list', S \cup {t})
    BY <2>1, <2>4, <2>5, <2>7, PutLast
  <2>9. Owned(S \cup {t}, sched', Hand')
    BY <2>1, <2>3, <2>4, OwnedPut DEF Types
  <2>10. S \cup {t} \in SUBSET Tasklets
    OBVIOUS
  <2> QED BY <2>8, <2>9, <2>10 DEF SchedOwned
<1>20. ASSUME NEW c \in CPUs, cpu_down(c)
      PROVE  SchedOwned'
  <2>1. \A b \in Hands : pc'[b] = pc[b] /\ this'[b] = this[b]
    BY <1>20, Actor DEF cpu_down, Goto, bits, vectors, Types
  <2>2. c \in Hands /\ (Holding(c)' <=> Holding(c))
    BY <2>1, Actor DEF Holding
  <2>3. Hand' = Hand
    BY <2>1, <2>2, HandSame
  <2>4. UNCHANGED <<next, head, tail, list, sched>>
    BY <1>20 DEF cpu_down, Goto, bits, vectors
  <2> QED BY <2>3, <2>4, SchedSame
<1>21. ASSUME NEW c \in CPUs, cpu_up(c)
      PROVE  SchedOwned'
  <2>1. \A b \in Hands : pc'[b] = pc[b] /\ this'[b] = this[b]
    BY <1>21, Actor DEF cpu_up, Goto, bits, vectors, Types
  <2>2. c \in Hands /\ (Holding(c)' <=> Holding(c))
    BY <2>1, Actor DEF Holding
  <2>3. Hand' = Hand
    BY <2>1, <2>2, HandSame
  <2>4. UNCHANGED <<next, head, tail, list, sched>>
    BY <1>21 DEF cpu_up, Goto, bits, vectors
  <2> QED BY <2>3, <2>4, SchedSame
<1>22. ASSUME NEW c \in CPUs, NEW to \in CPUs, takeover_tasklets(c, to, "normal", "dead", "dead_hi")
      PROVE  SchedOwned'
  <2>1. PICK S \in SUBSET Tasklets : Linking(next, head, tail, list, S) /\ Owned(S, sched, Hand)
    BY DEF SchedOwned
  <2>2. \A b \in Hands : pc'[b] = pc[b] /\ this'[b] = this[b]
    BY <1>22, Actor DEF takeover_tasklets, MoveList, raise_softirq_irqoff, Goto, bits, Types
  <2>3. c \in Hands /\ (Holding(c)' <=> Holding(c))
    BY <2>2, Actor DEF Holding
  <2>4. Hand' = Hand /\ sched' = sched /\ list' = list
    BY <1>22, <2>2, <2>3, HandSame DEF takeover_tasklets, bits
  <2>5. PICK v \in Vecs, w \in Vecs : v = <<c, "normal">> /\ w = <<to, "normal">> /\ v # w
    BY <1>22 DEF takeover_tasklets, Vecs, Prio
  <2>6. CASE UNCHANGED <<next, head, tail>>
    BY <2>1, <2>4, <2>6 DEF SchedOwned
  <2>7. CASE ~ UNCHANGED <<next, head, tail>>
    <3>1. /\ tail[v] # v
          /\ tail' = [tail EXCEPT ![w] = tail[v], ![v] = v]
          /\ \/ /\ tail[w] \in Vecs /\ head' = [head EXCEPT ![tail[w]] = head[v], ![v] = Null]
                /\ next' = next
             \/ /\ tail[w] \in Tasklets /\ next' = [next EXCEPT ![tail[w]] = head[v]]
                /\ head' = [head EXCEPT ![v] = Null]
      BY <1>22, <2>5, <2>7 DEF takeover_tasklets, MoveList
    <3>a. PICK ho, tc : ho = [head EXCEPT ![v] = Null] /\ tc = [tail EXCEPT ![v] = v]
      OBVIOUS
    <3>b. PICK y, e : y = head[v] /\ e = tail[v]
      OBVIOUS
    <3>2. /\ Changed(head, Vecs, v, Null, ho) /\ Changed(tail, Vecs, v, v, tc)
          /\ Changed(tc, Vecs, w, e, tail')
      BY <2>5, <3>1, <3>a, <3>b DEF Types, Changed
    <3>3. tail[w] \in Vecs => tail[w] = w
      BY HeadTail
    <3>4. StoreAtTail(next, ho, tc, w, y, next', head')
      BY <2>5, <3>1, <3>3, <3>a, <3>b DEF Types, Changed, StoreAtTail
    <3>5. Linking(next', head', tail', list', S)
      BY <2>1, <2>4, <2>5, <3>1, <3>2, <3>4, <3>b, MoveAll
    <3> QED BY <2>1, <2>4, <3>5 DEF SchedOwned
  <2> QED BY <2>6, <2>7
<1>23. ASSUME NEW c \in CPUs, NEW to \in CPUs, takeover_tasklets(c, to, "hi", "dead_hi", "down")
      PROVE  SchedOwned'
  <2>1. PICK S \in SUBSET Tasklets : Linking(next, head, tail, list, S) /\ Owned(S, sched, Hand)
    BY DEF SchedOwned
  <2>2. \A b \in Hands : pc'[b] = pc[b] /\ this'[b] = this[b]
    BY <1>23, Actor DEF takeover_tasklets, MoveList, raise_softirq_irqoff, Goto, bits, Types
  <2>3. c \in Hands /\ (Holding(c)' <=> Holding(c))
    BY <2>2, Actor DEF Holding
  <2>4. Hand' = Hand /\ sched' = sched /\ list' = list
    BY <1>23, <2>2, <2>3, HandSame DEF takeover_tasklets, bits
  <2>5. PICK v \in Vecs, w \in Vecs : v = <<c, "hi">> /\ w = <<to, "hi">> /\ v # w
    BY <1>23 DEF takeover_tasklets, Vecs, Prio
  <2>6. CASE UNCHANGED <<next, head, tail>>
    BY <2>1, <2>4, <2>6 DEF SchedOwned
  <2>7. CASE ~ UNCHANGED <<next, head, tail>>
    <3>1. /\ tail[v] # v
          /\ tail' = [tail EXCEPT ![w] = tail[v], ![v] = v]
          /\ \/ /\ tail[w] \in Vecs /\ head' = [head EXCEPT ![tail[w]] = head[v], ![v] = Null]
                /\ next' = next
             \/ /\ tail[w] \in Tasklets /\ next' = [next EXCEPT ![tail[w]] = head[v]]
                /\ head' = [head EXCEPT ![v] = Null]
      BY <1>23, <2>5, <2>7 DEF takeover_tasklets, MoveList
    <3>a. PICK ho, tc : ho = [head EXCEPT ![v] = Null] /\ tc = [tail EXCEPT ![v] = v]
      OBVIOUS
    <3>b. PICK y, e : y = head[v] /\ e = tail[v]
      OBVIOUS
    <3>2. /\ Changed(head, Vecs, v, Null, ho) /\ Changed(tail, Vecs, v, v, tc)
          /\ Changed(tc, Vecs, w, e, tail')
      BY <2>5, <3>1, <3>a, <3>b DEF Types, Changed
    <3>3. tail[w] \in Vecs => tail[w] = w
      BY HeadTail
    <3>4. StoreAtTail(next, ho, tc, w, y, next', head')
      BY <2>5, <3>1, <3>3, <3>a, <3>b DEF Types, Changed, StoreAtTail
    <3>5. Linking(next', head', tail', list', S)
      BY <2>1, <2>4, <2>5, <3>1, <3>2, <3>4, <3>b, MoveAll
    <3> QED BY <2>1, <2>4, <3>5 DEF SchedOwned
  <2> QED BY <2>6, <2>7
<1> QED
  BY <1>1, <1>2, <1>3, <1>4, <1>5, <1>6, <1>7, <1>8, <1>9, <1>10, <1>11, <1>12, <1>13, <1>14,
     <1>15, <1>16, <1>17, <1>18, <1>19, <1>20, <1>21, <1>22, <1>23, StepCases

(* The types are kept. *)
LEMMA TypesStep ==
  ASSUME Types, Busy, Next
  PROVE  Types'
<1>0. program' = program
  BY ProgramSame
<1>1. ASSUME NEW u \in Tasks, NEW t \in Tasklets, NEW p \in Prio, TestAndSetSched(u, t, p,
        "schedule")
      PROVE  Types'
  BY <1>0, <1>1, Actor, PlaceFacts DEF TestAndSetSched, Goto, vectors, Types, Busy, TaskLabel,
     SoftirqLabel, Prio
<1>2. ASSUME NEW u \in Tasks, NEW t \in Tasklets, NEW to \in {"nosync", "disable"},
             tasklet_disable_nosync(u, t, to)
      PROVE  Types'
  BY <1>0, <1>2, Actor, PlaceFacts DEF tasklet_disable_nosync, Goto, vectors, Types, Busy,
     TaskLabel, SoftirqLabel, Prio
<1>3. ASSUME NEW u \in Tasks, NEW t \in Tasklets, tasklet_kill(u, t)
      PROVE  Types'
  BY <1>0, <1>3, Actor, PlaceFacts DEF tasklet_kill, Goto, bits, vectors, Types, Busy, TaskLabel,
     SoftirqLabel, Prio
<1>4. ASSUME NEW u \in Tasks, NEW c \in CPUs, __tasklet_schedule(u, c)
      PROVE  Types'
  BY <1>0, <1>4, Actor, PlaceFacts DEF __tasklet_schedule, AddLast, raise_softirq_irqoff, Leave,
     Goto, bits, Types, Busy, TaskLabel, SoftirqLabel, Prio
<1>5. ASSUME NEW u \in Tasks, tasklet_unlock_wait(u, "disable", "disabled")
      PROVE  Types'
  BY <1>0, <1>5, Actor, PlaceFacts DEF tasklet_unlock_wait, Goto, bits, vectors, Types, Busy,
     TaskLabel, SoftirqLabel, Prio
<1>6. ASSUME NEW u \in Tasks, tasklet_unlock_wait(u, "kill_wait", "killed")
      PROVE  Types'
  BY <1>0, <1>6, Actor, PlaceFacts DEF tasklet_unlock_wait, Goto, bits, vectors, Types, Busy,
     TaskLabel, SoftirqLabel, Prio
<1>7. ASSUME NEW u \in Tasks, NEW from \in {"disabled", "nosync"}, tasklet_enable(u, from)
      PROVE  Types'
  BY <1>0, <1>7, Actor, PlaceFacts DEF tasklet_enable, Leave, Goto, vectors, Types, Busy,
     TaskLabel, SoftirqLabel, Prio
<1>8. ASSUME NEW u \in Tasks, KillGrabs(u)
      PROVE  Types'
  BY <1>0, <1>8, Actor, PlaceFacts DEF KillGrabs, Goto, vectors, Types, Busy, TaskLabel,
     SoftirqLabel, Prio
<1>9. ASSUME NEW u \in Tasks, KillClears(u)
      PROVE  Types'
  BY <1>0, <1>9, Actor, PlaceFacts DEF KillClears, Leave, Goto, vectors, Types, Busy, TaskLabel,
     SoftirqLabel, Prio
<1>10. ASSUME NEW c \in CPUs, __do_softirq(c)
      PROVE  Types'
  BY <1>0, <1>10, Actor, PlaceFacts DEF __do_softirq, Goto, bits, Types, Busy, TaskLabel,
     SoftirqLabel, Prio
<1>11. ASSUME NEW c \in CPUs, SoftirqEnds(c)
      PROVE  Types'
  BY <1>0, <1>11, Actor, PlaceFacts DEF SoftirqEnds, Goto, bits, vectors, Types, Busy, TaskLabel,
     SoftirqLabel, Prio
<1>12. ASSUME NEW c \in CPUs, tasklet_action(c)
      PROVE  Types'
  BY <1>0, <1>12, Actor, PlaceFacts DEF tasklet_action, Goto, bits, Types, Busy, TaskLabel,
     SoftirqLabel, Prio
<1>13. ASSUME NEW c \in CPUs, ListEmpty(c)
      PROVE  Types'
  BY <1>0, <1>13, Actor, PlaceFacts DEF ListEmpty, Goto, bits, vectors, Types, Busy, TaskLabel,
     SoftirqLabel, Prio
<1>14. ASSUME NEW c \in CPUs, tasklet_trylock(c)
      PROVE  Types'
  BY <1>0, <1>14, Actor, PlaceFacts DEF tasklet_trylock, Goto, Types, Busy, TaskLabel,
     SoftirqLabel, Prio
<1>15. ASSUME NEW c \in CPUs, TestCount(c)
      PROVE  Types'
  BY <1>0, <1>15, Actor, PlaceFacts DEF TestCount, Goto, bits, vectors, Types, Busy, TaskLabel,
     SoftirqLabel, Prio
<1>16. ASSUME NEW c \in CPUs, TestAndClearSched(c)
      PROVE  Types'
  BY <1>0, <1>16, Actor, PlaceFacts DEF TestAndClearSched, Goto, vectors, Types, Busy, TaskLabel,
     SoftirqLabel, Prio
<1>17. ASSUME NEW c \in CPUs, tasklet_unlock(c, "func", "loop")
      PROVE  Types'
  BY <1>0, <1>17, Actor, PlaceFacts DEF tasklet_unlock, Goto, vectors, Types, Busy, TaskLabel,
     SoftirqLabel, Prio
<1>18. ASSUME NEW c \in CPUs, tasklet_unlock(c, "disabled", "readd")
      PROVE  Types'
  BY <1>0, <1>18, Actor, PlaceFacts DEF tasklet_unlock, Goto, vectors, Types, Busy, TaskLabel,
     SoftirqLabel, Prio
<1>19. ASSUME NEW c \in CPUs, Readd(c)
      PROVE  Types'
  BY <1>0, <1>19, Actor, PlaceFacts DEF Readd, AddLast, raise_softirq_irqoff, Goto, bits, Types,
     Busy, TaskLabel, SoftirqLabel, Prio
<1>20. ASSUME NEW c \in CPUs, cpu_down(c)
      PROVE  Types'
  BY <1>0, <1>20, Actor, PlaceFacts DEF cpu_down, Goto, bits, vectors, Types, Busy, TaskLabel,
     SoftirqLabel, Prio
<1>21. ASSUME NEW c \in CPUs, cpu_up(c)
      PROVE  Types'
  BY <1>0, <1>21, Actor, PlaceFacts DEF cpu_up, Goto, bits, vectors, Types, Busy, TaskLabel,
     SoftirqLabel, Prio
<1>22. ASSUME NEW c \in CPUs, NEW to \in CPUs, takeover_tasklets(c, to, "normal", "dead", "dead_hi")
      PROVE  Types'
  <2>1. PICK v \in Vecs, w \in Vecs : v = <<c, "normal">> /\ w = <<to, "normal">>
    BY PlaceFacts DEF Prio
  <2>2. MoveList(v, w)
    BY <1>22, <2>1 DEF takeover_tasklets
  <2>3. /\ next' \in [Tasklets -> Tasklets \cup {Null}] /\ head' \in [Vecs -> Tasklets \cup {Null}]
        /\ tail' \in [Vecs -> Tasklets \cup Vecs]
    BY <2>2 DEF MoveList, Types
  <2>4. raised' \in [CPUs -> SUBSET Prio]
    BY <1>22 DEF takeover_tasklets, raise_softirq_irqoff, Types, Prio
  <2>5. UNCHANGED <<sched, run, count, todo, this, prio, list, online>>
    BY <1>22 DEF takeover_tasklets, bits
  <2>6. /\ DOMAIN pc' = Actors /\ pc'[Hotplug] \in {"idle", "dead", "dead_hi", "down"}
        /\ \A a \in Hands : pc'[a] = pc[a]
    BY <1>22, Actor DEF takeover_tasklets, Goto, Types
  <2> QED BY <1>0, <2>3, <2>4, <2>5, <2>6, Actor DEF Types
<1>23. ASSUME NEW c \in CPUs, NEW to \in CPUs, takeover_tasklets(c, to, "hi", "dead_hi", "down")
      PROVE  Types'
  <2>1. PICK v \in Vecs, w \in Vecs : v = <<c, "hi">> /\ w = <<to, "hi">>
    BY PlaceFacts DEF Prio
  <2>2. MoveList(v, w)
    BY <1>23, <2>1 DEF takeover_tasklets
  <2>3. /\ next' \in [Tasklets -> Tasklets \cup {Null}] /\ head' \in [Vecs -> Tasklets \cup {Null}]
        /\ tail' \in [Vecs -> Tasklets \cup Vecs]
    BY <2>2 DEF MoveList, Types
  <2>4. raised' \in [CPUs -> SUBSET Prio]
    BY <1>23 DEF takeover_tasklets, raise_softirq_irqoff, Types, Prio
  <2>5. UNCHANGED <<sched, run, count, todo, this, prio, list, online>>
    BY <1>23 DEF takeover_tasklets, bits
  <2>6. /\ DOMAIN pc' = Actors /\ pc'[Hotplug] \in {"idle", "dead", "dead_hi", "down"}
        /\ \A a \in Hands : pc'[a] = pc[a]
    BY <1>23, Actor DEF takeover_tasklets, Goto, Types
  <2> QED BY <1>0, <2>3, <2>4, <2>5, <2>6, Actor DEF Types
<1> QED
  BY <1>1, <1>2, <1>3, <1>4, <1>5, <1>6, <1>7, <1>8, <1>9, <1>10, <1>11, <1>12, <1>13, <1>14,
     <1>15, <1>16, <1>17, <1>18, <1>19, <1>20, <1>21, <1>22, <1>23, StepCases

(* Who is at work has a tasklet, and the softirq code ends with nothing    *)
(* left to do.                                                             *)
LEMMA BusyStep ==
  ASSUME Types, Busy, Next
  PROVE  Busy'
<1>1. ASSUME NEW u \in Tasks, NEW t \in Tasklets, NEW p \in Prio, TestAndSetSched(u, t, p,
        "schedule")
      PROVE  Busy'
  BY <1>1, Actor DEF TestAndSetSched, Goto, vectors, Types, Busy
<1>2. ASSUME NEW u \in Tasks, NEW t \in Tasklets, NEW to \in {"nosync", "disable"},
             tasklet_disable_nosync(u, t, to)
      PROVE  Busy'
  BY <1>2, Actor DEF tasklet_disable_nosync, Goto, vectors, Types, Busy
<1>3. ASSUME NEW u \in Tasks, NEW t \in Tasklets, tasklet_kill(u, t)
      PROVE  Busy'
  BY <1>3, Actor DEF tasklet_kill, Goto, bits, vectors, Types, Busy
<1>4. ASSUME NEW u \in Tasks, NEW c \in CPUs, __tasklet_schedule(u, c)
      PROVE  Busy'
  BY <1>4, Actor DEF __tasklet_schedule, AddLast, raise_softirq_irqoff, Leave, Goto, bits, Types,
     Busy
<1>5. ASSUME NEW u \in Tasks, tasklet_unlock_wait(u, "disable", "disabled")
      PROVE  Busy'
  BY <1>5, Actor DEF tasklet_unlock_wait, Goto, bits, vectors, Types, Busy
<1>6. ASSUME NEW u \in Tasks, tasklet_unlock_wait(u, "kill_wait", "killed")
      PROVE  Busy'
  BY <1>6, Actor DEF tasklet_unlock_wait, Goto, bits, vectors, Types, Busy
<1>7. ASSUME NEW u \in Tasks, NEW from \in {"disabled", "nosync"}, tasklet_enable(u, from)
      PROVE  Busy'
  BY <1>7, Actor DEF tasklet_enable, Leave, Goto, vectors, Types, Busy
<1>8. ASSUME NEW u \in Tasks, KillGrabs(u)
      PROVE  Busy'
  BY <1>8, Actor DEF KillGrabs, Goto, vectors, Types, Busy
<1>9. ASSUME NEW u \in Tasks, KillClears(u)
      PROVE  Busy'
  BY <1>9, Actor DEF KillClears, Leave, Goto, vectors, Types, Busy
<1>10. ASSUME NEW c \in CPUs, __do_softirq(c)
      PROVE  Busy'
  BY <1>10, Actor DEF __do_softirq, Goto, bits, Types, Busy
<1>11. ASSUME NEW c \in CPUs, SoftirqEnds(c)
      PROVE  Busy'
  BY <1>11, Actor DEF SoftirqEnds, Goto, bits, vectors, Types, Busy
<1>12. ASSUME NEW c \in CPUs, tasklet_action(c)
      PROVE  Busy'
  BY <1>12, Actor DEF tasklet_action, Goto, bits, Types, Busy
<1>13. ASSUME NEW c \in CPUs, ListEmpty(c)
      PROVE  Busy'
  BY <1>13, Actor DEF ListEmpty, Goto, bits, vectors, Types, Busy
<1>14. ASSUME NEW c \in CPUs, tasklet_trylock(c)
      PROVE  Busy'
  BY <1>14, Actor DEF tasklet_trylock, Goto, Types, Busy
<1>15. ASSUME NEW c \in CPUs, TestCount(c)
      PROVE  Busy'
  BY <1>15, Actor DEF TestCount, Goto, bits, vectors, Types, Busy
<1>16. ASSUME NEW c \in CPUs, TestAndClearSched(c)
      PROVE  Busy'
  BY <1>16, Actor DEF TestAndClearSched, Goto, vectors, Types, Busy
<1>17. ASSUME NEW c \in CPUs, tasklet_unlock(c, "func", "loop")
      PROVE  Busy'
  BY <1>17, Actor DEF tasklet_unlock, Goto, vectors, Types, Busy
<1>18. ASSUME NEW c \in CPUs, tasklet_unlock(c, "disabled", "readd")
      PROVE  Busy'
  BY <1>18, Actor DEF tasklet_unlock, Goto, vectors, Types, Busy
<1>19. ASSUME NEW c \in CPUs, Readd(c)
      PROVE  Busy'
  BY <1>19, Actor DEF Readd, AddLast, raise_softirq_irqoff, Goto, bits, Types, Busy
<1>20. ASSUME NEW c \in CPUs, cpu_down(c)
      PROVE  Busy'
  BY <1>20, Actor DEF cpu_down, Goto, bits, vectors, Types, Busy
<1>21. ASSUME NEW c \in CPUs, cpu_up(c)
      PROVE  Busy'
  BY <1>21, Actor DEF cpu_up, Goto, bits, vectors, Types, Busy
<1>22. ASSUME NEW c \in CPUs, NEW to \in CPUs, takeover_tasklets(c, to, "normal", "dead", "dead_hi")
      PROVE  Busy'
  BY <1>22, Actor DEF takeover_tasklets, MoveList, raise_softirq_irqoff, Goto, bits, Types, Busy
<1>23. ASSUME NEW c \in CPUs, NEW to \in CPUs, takeover_tasklets(c, to, "hi", "dead_hi", "down")
      PROVE  Busy'
  BY <1>23, Actor DEF takeover_tasklets, MoveList, raise_softirq_irqoff, Goto, bits, Types, Busy
<1> QED
  BY <1>1, <1>2, <1>3, <1>4, <1>5, <1>6, <1>7, <1>8, <1>9, <1>10, <1>11, <1>12, <1>13, <1>14,
     <1>15, <1>16, <1>17, <1>18, <1>19, <1>20, <1>21, <1>22, <1>23, StepCases

(* tasklet_trylock() and tasklet_unlock() keep the RUN bit a lock. *)
LEMMA RunIsLockStep ==
  ASSUME Types, Busy, RunIsLock, Next
  PROVE  RunIsLock'
<1>1. ASSUME NEW u \in Tasks, NEW t \in Tasklets, NEW p \in Prio, TestAndSetSched(u, t, p,
        "schedule")
      PROVE  RunIsLock'
  <2>1. run' = run /\ \A c1 \in CPUs, t1 \in Tasklets : Locks(c1, t1)' <=> Locks(c1, t1)
    BY <1>1, Actor DEF TestAndSetSched, Goto, vectors, Types, Locks, SoftirqLabel
  <2> QED BY <2>1 DEF RunIsLock
<1>2. ASSUME NEW u \in Tasks, NEW t \in Tasklets, NEW to \in {"nosync", "disable"},
             tasklet_disable_nosync(u, t, to)
      PROVE  RunIsLock'
  <2>1. run' = run /\ \A c1 \in CPUs, t1 \in Tasklets : Locks(c1, t1)' <=> Locks(c1, t1)
    BY <1>2, Actor DEF tasklet_disable_nosync, Goto, vectors, Types, Locks, SoftirqLabel
  <2> QED BY <2>1 DEF RunIsLock
<1>3. ASSUME NEW u \in Tasks, NEW t \in Tasklets, tasklet_kill(u, t)
      PROVE  RunIsLock'
  <2>1. run' = run /\ \A c1 \in CPUs, t1 \in Tasklets : Locks(c1, t1)' <=> Locks(c1, t1)
    BY <1>3, Actor DEF tasklet_kill, Goto, bits, vectors, Types, Locks, SoftirqLabel
  <2> QED BY <2>1 DEF RunIsLock
<1>4. ASSUME NEW u \in Tasks, NEW c \in CPUs, __tasklet_schedule(u, c)
      PROVE  RunIsLock'
  <2>1. run' = run /\ \A c1 \in CPUs, t1 \in Tasklets : Locks(c1, t1)' <=> Locks(c1, t1)
    BY <1>4, Actor DEF __tasklet_schedule, AddLast, raise_softirq_irqoff, Leave, Goto, bits,
       Types, Locks, SoftirqLabel
  <2> QED BY <2>1 DEF RunIsLock
<1>5. ASSUME NEW u \in Tasks, tasklet_unlock_wait(u, "disable", "disabled")
      PROVE  RunIsLock'
  <2>1. run' = run /\ \A c1 \in CPUs, t1 \in Tasklets : Locks(c1, t1)' <=> Locks(c1, t1)
    BY <1>5, Actor DEF tasklet_unlock_wait, Goto, bits, vectors, Types, Locks, SoftirqLabel
  <2> QED BY <2>1 DEF RunIsLock
<1>6. ASSUME NEW u \in Tasks, tasklet_unlock_wait(u, "kill_wait", "killed")
      PROVE  RunIsLock'
  <2>1. run' = run /\ \A c1 \in CPUs, t1 \in Tasklets : Locks(c1, t1)' <=> Locks(c1, t1)
    BY <1>6, Actor DEF tasklet_unlock_wait, Goto, bits, vectors, Types, Locks, SoftirqLabel
  <2> QED BY <2>1 DEF RunIsLock
<1>7. ASSUME NEW u \in Tasks, NEW from \in {"disabled", "nosync"}, tasklet_enable(u, from)
      PROVE  RunIsLock'
  <2>1. run' = run /\ \A c1 \in CPUs, t1 \in Tasklets : Locks(c1, t1)' <=> Locks(c1, t1)
    BY <1>7, Actor DEF tasklet_enable, Leave, Goto, vectors, Types, Locks, SoftirqLabel
  <2> QED BY <2>1 DEF RunIsLock
<1>8. ASSUME NEW u \in Tasks, KillGrabs(u)
      PROVE  RunIsLock'
  <2>1. run' = run /\ \A c1 \in CPUs, t1 \in Tasklets : Locks(c1, t1)' <=> Locks(c1, t1)
    BY <1>8, Actor DEF KillGrabs, Goto, vectors, Types, Locks, SoftirqLabel
  <2> QED BY <2>1 DEF RunIsLock
<1>9. ASSUME NEW u \in Tasks, KillClears(u)
      PROVE  RunIsLock'
  <2>1. run' = run /\ \A c1 \in CPUs, t1 \in Tasklets : Locks(c1, t1)' <=> Locks(c1, t1)
    BY <1>9, Actor DEF KillClears, Leave, Goto, vectors, Types, Locks, SoftirqLabel
  <2> QED BY <2>1 DEF RunIsLock
<1>10. ASSUME NEW c \in CPUs, __do_softirq(c)
      PROVE  RunIsLock'
  <2>1. run' = run /\ \A c1 \in CPUs, t1 \in Tasklets : Locks(c1, t1)' <=> Locks(c1, t1)
    BY <1>10, Actor DEF __do_softirq, Goto, bits, Types, Locks, SoftirqLabel
  <2> QED BY <2>1 DEF RunIsLock
<1>11. ASSUME NEW c \in CPUs, SoftirqEnds(c)
      PROVE  RunIsLock'
  <2>1. run' = run /\ \A c1 \in CPUs, t1 \in Tasklets : Locks(c1, t1)' <=> Locks(c1, t1)
    BY <1>11, Actor DEF SoftirqEnds, Goto, bits, vectors, Types, Locks, SoftirqLabel
  <2> QED BY <2>1 DEF RunIsLock
<1>12. ASSUME NEW c \in CPUs, tasklet_action(c)
      PROVE  RunIsLock'
  <2>1. run' = run /\ \A c1 \in CPUs, t1 \in Tasklets : Locks(c1, t1)' <=> Locks(c1, t1)
    BY <1>12, Actor DEF tasklet_action, Goto, bits, Types, Locks, SoftirqLabel
  <2> QED BY <2>1 DEF RunIsLock
<1>13. ASSUME NEW c \in CPUs, ListEmpty(c)
      PROVE  RunIsLock'
  <2>1. run' = run /\ \A c1 \in CPUs, t1 \in Tasklets : Locks(c1, t1)' <=> Locks(c1, t1)
    BY <1>13, Actor DEF ListEmpty, Goto, bits, vectors, Types, Locks, SoftirqLabel
  <2> QED BY <2>1 DEF RunIsLock
<1>14. ASSUME NEW c \in CPUs, tasklet_trylock(c)
      PROVE  RunIsLock'
  <2>1. PICK s \in Tasklets : s = list[c]
    BY <1>14 DEF tasklet_trylock, Types
  <2>2. \A d \in CPUs, x \in Tasklets : d # c => (Locks(d, x)' <=> Locks(d, x))
    BY <1>14, Actor DEF tasklet_trylock, Goto, Types, Locks
  <2>3. \A x \in Tasklets : ~Locks(c, x) /\ (Locks(c, x)' <=> x = s /\ ~run[s])
    BY <1>14, <2>1, Actor DEF tasklet_trylock, Goto, Types, Locks
  <2>4. run' = [run EXCEPT ![s] = TRUE]
    BY <1>14, <2>1 DEF tasklet_trylock
  <2>5. \A x \in Tasklets : run'[x] <=> x = s \/ run[x]
    BY <2>4 DEF Types
  <2> QED BY <2>2, <2>3, <2>5 DEF RunIsLock
<1>15. ASSUME NEW c \in CPUs, TestCount(c)
      PROVE  RunIsLock'
  <2>1. run' = run /\ \A c1 \in CPUs, t1 \in Tasklets : Locks(c1, t1)' <=> Locks(c1, t1)
    BY <1>15, Actor DEF TestCount, Goto, bits, vectors, Types, Locks, SoftirqLabel
  <2> QED BY <2>1 DEF RunIsLock
<1>16. ASSUME NEW c \in CPUs, TestAndClearSched(c)
      PROVE  RunIsLock'
  <2>1. run' = run /\ \A c1 \in CPUs, t1 \in Tasklets : Locks(c1, t1)' <=> Locks(c1, t1)
    BY <1>16, Actor DEF TestAndClearSched, Goto, vectors, Types, Locks, SoftirqLabel
  <2> QED BY <2>1 DEF RunIsLock
<1>17. ASSUME NEW c \in CPUs, tasklet_unlock(c, "func", "loop")
      PROVE  RunIsLock'
  <2>1. PICK s \in Tasklets : s = this[c] /\ Locks(c, s)
    BY <1>17 DEF tasklet_unlock, Goto, Busy, Locks
  <2>2. \A d \in CPUs, x \in Tasklets : d # c => (Locks(d, x)' <=> Locks(d, x))
    BY <1>17, Actor DEF tasklet_unlock, Goto, Types, Locks
  <2>3. \A x \in Tasklets : (Locks(c, x) => x = s) /\ ~Locks(c, x)'
    BY <1>17, <2>1, Actor DEF tasklet_unlock, Goto, Types, Locks
  <2>4. run' = [run EXCEPT ![s] = FALSE]
    BY <1>17, <2>1 DEF tasklet_unlock
  <2>5. \A x \in Tasklets : run'[x] <=> x # s /\ run[x]
    BY <2>4 DEF Types
  <2> QED BY <2>1, <2>2, <2>3, <2>5 DEF RunIsLock
<1>18. ASSUME NEW c \in CPUs, tasklet_unlock(c, "disabled", "readd")
      PROVE  RunIsLock'
  <2>1. PICK s \in Tasklets : s = this[c] /\ Locks(c, s)
    BY <1>18 DEF tasklet_unlock, Goto, Busy, Locks
  <2>2. \A d \in CPUs, x \in Tasklets : d # c => (Locks(d, x)' <=> Locks(d, x))
    BY <1>18, Actor DEF tasklet_unlock, Goto, Types, Locks
  <2>3. \A x \in Tasklets : (Locks(c, x) => x = s) /\ ~Locks(c, x)'
    BY <1>18, <2>1, Actor DEF tasklet_unlock, Goto, Types, Locks
  <2>4. run' = [run EXCEPT ![s] = FALSE]
    BY <1>18, <2>1 DEF tasklet_unlock
  <2>5. \A x \in Tasklets : run'[x] <=> x # s /\ run[x]
    BY <2>4 DEF Types
  <2> QED BY <2>1, <2>2, <2>3, <2>5 DEF RunIsLock
<1>19. ASSUME NEW c \in CPUs, Readd(c)
      PROVE  RunIsLock'
  <2>1. run' = run /\ \A c1 \in CPUs, t1 \in Tasklets : Locks(c1, t1)' <=> Locks(c1, t1)
    BY <1>19, Actor DEF Readd, AddLast, raise_softirq_irqoff, Goto, bits, Types, Locks, SoftirqLabel
  <2> QED BY <2>1 DEF RunIsLock
<1>20. ASSUME NEW c \in CPUs, cpu_down(c)
      PROVE  RunIsLock'
  <2>1. run' = run /\ \A c1 \in CPUs, t1 \in Tasklets : Locks(c1, t1)' <=> Locks(c1, t1)
    BY <1>20, Actor DEF cpu_down, Goto, bits, vectors, Types, Locks, SoftirqLabel
  <2> QED BY <2>1 DEF RunIsLock
<1>21. ASSUME NEW c \in CPUs, cpu_up(c)
      PROVE  RunIsLock'
  <2>1. run' = run /\ \A c1 \in CPUs, t1 \in Tasklets : Locks(c1, t1)' <=> Locks(c1, t1)
    BY <1>21, Actor DEF cpu_up, Goto, bits, vectors, Types, Locks, SoftirqLabel
  <2> QED BY <2>1 DEF RunIsLock
<1>22. ASSUME NEW c \in CPUs, NEW to \in CPUs, takeover_tasklets(c, to, "normal", "dead", "dead_hi")
      PROVE  RunIsLock'
  <2>1. run' = run /\ \A c1 \in CPUs, t1 \in Tasklets : Locks(c1, t1)' <=> Locks(c1, t1)
    BY <1>22, Actor DEF takeover_tasklets, MoveList, raise_softirq_irqoff, Goto, bits, Types,
       Locks, SoftirqLabel
  <2> QED BY <2>1 DEF RunIsLock
<1>23. ASSUME NEW c \in CPUs, NEW to \in CPUs, takeover_tasklets(c, to, "hi", "dead_hi", "down")
      PROVE  RunIsLock'
  <2>1. run' = run /\ \A c1 \in CPUs, t1 \in Tasklets : Locks(c1, t1)' <=> Locks(c1, t1)
    BY <1>23, Actor DEF takeover_tasklets, MoveList, raise_softirq_irqoff, Goto, bits, Types,
       Locks, SoftirqLabel
  <2> QED BY <2>1 DEF RunIsLock
<1> QED
  BY <1>1, <1>2, <1>3, <1>4, <1>5, <1>6, <1>7, <1>8, <1>9, <1>10, <1>11, <1>12, <1>13, <1>14,
     <1>15, <1>16, <1>17, <1>18, <1>19, <1>20, <1>21, <1>22, <1>23, StepCases

(* tasklet_disable() and tasklet_enable() keep the count exact. *)
LEMMA CountIsExactStep ==
  ASSUME Types, Busy, CountIsExact, Next
  PROVE  CountIsExact'
<1>1. ASSUME NEW u \in Tasks, NEW t \in Tasklets, NEW p \in Prio, TestAndSetSched(u, t, p,
        "schedule")
      PROVE  CountIsExact'
  <2>1. count' = count /\ \A s \in Tasklets : Disabling(s)' = Disabling(s)
    BY <1>1, Actor DEF TestAndSetSched, Goto, vectors, Types, Disabling
  <2> QED BY <2>1 DEF CountIsExact
<1>2. ASSUME NEW u \in Tasks, NEW t \in Tasklets, NEW to \in {"nosync", "disable"},
             tasklet_disable_nosync(u, t, to)
      PROVE  CountIsExact'
  <2>1. PICK D \in SUBSET Tasks : D = Disabling(t) /\ u \notin D
    <3>1. Disabling(t) \in SUBSET Tasks
      BY DEF Disabling
    <3>2. u \notin Disabling(t)
      BY <1>2 DEF tasklet_disable_nosync, Goto, Disabling
    <3> QED BY <3>1, <3>2
  <2>2. Disabling(t)' = D \cup {u}
    BY <1>2, <2>1, Actor DEF tasklet_disable_nosync, Goto, Types, Disabling
  <2>3. \A s \in Tasklets : s # t => Disabling(s)' = Disabling(s)
    BY <1>2, Actor DEF tasklet_disable_nosync, Goto, Types, Disabling
  <2>4. IsFiniteSet(D) /\ Cardinality(D) \in Nat /\ Cardinality(D \cup {u}) = Cardinality(D) + 1
    BY <2>1, FS_Subset, FS_AddElement, FS_CardinalityType, TaskletAssumption
  <2>5. count' = [count EXCEPT ![t] = count[t] + 1]
    BY <1>2 DEF tasklet_disable_nosync
  <2>6. count[t] = Cardinality(D)
    BY <2>1 DEF CountIsExact
  <2>7. count'[t] = Cardinality(D \cup {u}) /\ \A s \in Tasklets : s # t => count'[s] = count[s]
    BY <2>4, <2>5, <2>6 DEF Types
  <2> QED BY <2>2, <2>3, <2>7 DEF CountIsExact
<1>3. ASSUME NEW u \in Tasks, NEW t \in Tasklets, tasklet_kill(u, t)
      PROVE  CountIsExact'
  <2>1. count' = count /\ \A s \in Tasklets : Disabling(s)' = Disabling(s)
    BY <1>3, Actor DEF tasklet_kill, Goto, bits, vectors, Types, Disabling
  <2> QED BY <2>1 DEF CountIsExact
<1>4. ASSUME NEW u \in Tasks, NEW c \in CPUs, __tasklet_schedule(u, c)
      PROVE  CountIsExact'
  <2>1. count' = count /\ \A s \in Tasklets : Disabling(s)' = Disabling(s)
    BY <1>4, Actor DEF __tasklet_schedule, AddLast, raise_softirq_irqoff, Leave, Goto, bits,
       Types, Disabling
  <2> QED BY <2>1 DEF CountIsExact
<1>5. ASSUME NEW u \in Tasks, tasklet_unlock_wait(u, "disable", "disabled")
      PROVE  CountIsExact'
  <2>1. count' = count /\ \A s \in Tasklets : Disabling(s)' = Disabling(s)
    BY <1>5, Actor DEF tasklet_unlock_wait, Goto, bits, vectors, Types, Disabling
  <2> QED BY <2>1 DEF CountIsExact
<1>6. ASSUME NEW u \in Tasks, tasklet_unlock_wait(u, "kill_wait", "killed")
      PROVE  CountIsExact'
  <2>1. count' = count /\ \A s \in Tasklets : Disabling(s)' = Disabling(s)
    BY <1>6, Actor DEF tasklet_unlock_wait, Goto, bits, vectors, Types, Disabling
  <2> QED BY <2>1 DEF CountIsExact
<1>7. ASSUME NEW u \in Tasks, NEW from \in {"disabled", "nosync"}, tasklet_enable(u, from)
      PROVE  CountIsExact'
  <2>0. PICK t \in Tasklets : t = this[u]
    BY <1>7 DEF tasklet_enable, Leave, Goto, Busy
  <2>1. PICK D \in SUBSET Tasks : D = Disabling(t) /\ u \in D
    BY <1>7, <2>0 DEF tasklet_enable, Leave, Goto, Disabling
  <2>2. Disabling(t)' = D \ {u}
    BY <1>7, <2>0, <2>1, Actor DEF tasklet_enable, Leave, Goto, Types, Disabling
  <2>3. \A s \in Tasklets : s # t => Disabling(s)' = Disabling(s)
    BY <1>7, <2>0, Actor DEF tasklet_enable, Leave, Goto, Types, Disabling
  <2>4. IsFiniteSet(D) /\ Cardinality(D) \in Nat /\ Cardinality(D \ {u}) = Cardinality(D) - 1
    BY <2>1, FS_Subset, FS_RemoveElement, FS_CardinalityType, TaskletAssumption
  <2>5. count' = [count EXCEPT ![t] = count[t] - 1]
    BY <1>7, <2>0 DEF tasklet_enable
  <2>6. count[t] = Cardinality(D)
    BY <2>1 DEF CountIsExact
  <2>7. count'[t] = Cardinality(D \ {u}) /\ \A s \in Tasklets : s # t => count'[s] = count[s]
    BY <2>4, <2>5, <2>6 DEF Types
  <2> QED BY <2>2, <2>3, <2>7 DEF CountIsExact
<1>8. ASSUME NEW u \in Tasks, KillGrabs(u)
      PROVE  CountIsExact'
  <2>1. count' = count /\ \A s \in Tasklets : Disabling(s)' = Disabling(s)
    BY <1>8, Actor DEF KillGrabs, Goto, vectors, Types, Disabling
  <2> QED BY <2>1 DEF CountIsExact
<1>9. ASSUME NEW u \in Tasks, KillClears(u)
      PROVE  CountIsExact'
  <2>1. count' = count /\ \A s \in Tasklets : Disabling(s)' = Disabling(s)
    BY <1>9, Actor DEF KillClears, Leave, Goto, vectors, Types, Disabling
  <2> QED BY <2>1 DEF CountIsExact
<1>10. ASSUME NEW c \in CPUs, __do_softirq(c)
      PROVE  CountIsExact'
  <2>1. count' = count /\ \A s \in Tasklets : Disabling(s)' = Disabling(s)
    BY <1>10, Actor DEF __do_softirq, Goto, bits, Types, Disabling
  <2> QED BY <2>1 DEF CountIsExact
<1>11. ASSUME NEW c \in CPUs, SoftirqEnds(c)
      PROVE  CountIsExact'
  <2>1. count' = count /\ \A s \in Tasklets : Disabling(s)' = Disabling(s)
    BY <1>11, Actor DEF SoftirqEnds, Goto, bits, vectors, Types, Disabling
  <2> QED BY <2>1 DEF CountIsExact
<1>12. ASSUME NEW c \in CPUs, tasklet_action(c)
      PROVE  CountIsExact'
  <2>1. count' = count /\ \A s \in Tasklets : Disabling(s)' = Disabling(s)
    BY <1>12, Actor DEF tasklet_action, Goto, bits, Types, Disabling
  <2> QED BY <2>1 DEF CountIsExact
<1>13. ASSUME NEW c \in CPUs, ListEmpty(c)
      PROVE  CountIsExact'
  <2>1. count' = count /\ \A s \in Tasklets : Disabling(s)' = Disabling(s)
    BY <1>13, Actor DEF ListEmpty, Goto, bits, vectors, Types, Disabling
  <2> QED BY <2>1 DEF CountIsExact
<1>14. ASSUME NEW c \in CPUs, tasklet_trylock(c)
      PROVE  CountIsExact'
  <2>1. count' = count /\ \A s \in Tasklets : Disabling(s)' = Disabling(s)
    BY <1>14, Actor DEF tasklet_trylock, Goto, Types, Disabling
  <2> QED BY <2>1 DEF CountIsExact
<1>15. ASSUME NEW c \in CPUs, TestCount(c)
      PROVE  CountIsExact'
  <2>1. count' = count /\ \A s \in Tasklets : Disabling(s)' = Disabling(s)
    BY <1>15, Actor DEF TestCount, Goto, bits, vectors, Types, Disabling
  <2> QED BY <2>1 DEF CountIsExact
<1>16. ASSUME NEW c \in CPUs, TestAndClearSched(c)
      PROVE  CountIsExact'
  <2>1. count' = count /\ \A s \in Tasklets : Disabling(s)' = Disabling(s)
    BY <1>16, Actor DEF TestAndClearSched, Goto, vectors, Types, Disabling
  <2> QED BY <2>1 DEF CountIsExact
<1>17. ASSUME NEW c \in CPUs, tasklet_unlock(c, "func", "loop")
      PROVE  CountIsExact'
  <2>1. count' = count /\ \A s \in Tasklets : Disabling(s)' = Disabling(s)
    BY <1>17, Actor DEF tasklet_unlock, Goto, vectors, Types, Disabling
  <2> QED BY <2>1 DEF CountIsExact
<1>18. ASSUME NEW c \in CPUs, tasklet_unlock(c, "disabled", "readd")
      PROVE  CountIsExact'
  <2>1. count' = count /\ \A s \in Tasklets : Disabling(s)' = Disabling(s)
    BY <1>18, Actor DEF tasklet_unlock, Goto, vectors, Types, Disabling
  <2> QED BY <2>1 DEF CountIsExact
<1>19. ASSUME NEW c \in CPUs, Readd(c)
      PROVE  CountIsExact'
  <2>1. count' = count /\ \A s \in Tasklets : Disabling(s)' = Disabling(s)
    BY <1>19, Actor DEF Readd, AddLast, raise_softirq_irqoff, Goto, bits, Types, Disabling
  <2> QED BY <2>1 DEF CountIsExact
<1>20. ASSUME NEW c \in CPUs, cpu_down(c)
      PROVE  CountIsExact'
  <2>1. count' = count /\ \A s \in Tasklets : Disabling(s)' = Disabling(s)
    BY <1>20, Actor DEF cpu_down, Goto, bits, vectors, Types, Disabling
  <2> QED BY <2>1 DEF CountIsExact
<1>21. ASSUME NEW c \in CPUs, cpu_up(c)
      PROVE  CountIsExact'
  <2>1. count' = count /\ \A s \in Tasklets : Disabling(s)' = Disabling(s)
    BY <1>21, Actor DEF cpu_up, Goto, bits, vectors, Types, Disabling
  <2> QED BY <2>1 DEF CountIsExact
<1>22. ASSUME NEW c \in CPUs, NEW to \in CPUs, takeover_tasklets(c, to, "normal", "dead", "dead_hi")
      PROVE  CountIsExact'
  <2>1. count' = count /\ \A s \in Tasklets : Disabling(s)' = Disabling(s)
    BY <1>22, Actor DEF takeover_tasklets, MoveList, raise_softirq_irqoff, Goto, bits, Types,
       Disabling
  <2> QED BY <2>1 DEF CountIsExact
<1>23. ASSUME NEW c \in CPUs, NEW to \in CPUs, takeover_tasklets(c, to, "hi", "dead_hi", "down")
      PROVE  CountIsExact'
  <2>1. count' = count /\ \A s \in Tasklets : Disabling(s)' = Disabling(s)
    BY <1>23, Actor DEF takeover_tasklets, MoveList, raise_softirq_irqoff, Goto, bits, Types,
       Disabling
  <2> QED BY <2>1 DEF CountIsExact
<1> QED
  BY <1>1, <1>2, <1>3, <1>4, <1>5, <1>6, <1>7, <1>8, <1>9, <1>10, <1>11, <1>12, <1>13, <1>14,
     <1>15, <1>16, <1>17, <1>18, <1>19, <1>20, <1>21, <1>22, <1>23, StepCases

------------------------------------------------------------------------------
(* A tasklet is in the hands of one actor only, and then it is not the     *)
(* next one of a list that is being worked off.                            *)
LEMMA Alone ==
  ASSUME Types, SchedOwned
  PROVE  /\ \A a, b \in Hands : Holding(a) /\ Holding(b) /\ this[a] = this[b] /\ this[a] \in Tasklets
                                => a = b
         /\ \A c \in CPUs, a \in Hands : list[c] # Null /\ Holding(a) => this[a] # list[c]
<1>1. PICK S \in SUBSET Tasklets : Linking(next, head, tail, list, S) /\ Owned(S, sched, Hand)
  BY DEF SchedOwned
<1>2. PICK Q \in [Places -> Seq(Tasklets)] : Lists(Q, next, head, tail, list) /\ Linked(Q) = S
  BY <1>1 DEF Linking
<1>3. \A a \in Hands : Holding(a) => Hand[a] = this[a]
  BY DEF Hand
<1>4. ASSUME NEW c \in CPUs, list[c] # Null
      PROVE  list[c] \in S
  <2>1. Q[Taken(c)] \in Seq(Tasklets) /\ IsList(next, list[c], Q[Taken(c)]) /\ Taken(c) \in Places
    BY <1>2, PlaceFacts DEF Lists
  <2>2. Q[Taken(c)] # <<>> /\ list[c] = Q[Taken(c)][1]
    BY <1>4, <2>1 DEF IsList
  <2>3. list[c] \in ListEntries(Q[Taken(c)]) /\ list[c] \in Tasklets
    BY <2>1, <2>2, ListFacts
  <2> QED BY <1>2, <2>1, <2>3 DEF Linked, On
<1> QED
  BY <1>1, <1>3, <1>4 DEF Owned

(* A CPU that goes leaves no softirq and, in the end, no tasklet behind. *)
LEMMA OneIsAwayStep ==
  ASSUME Types, SchedOwned, OneIsAway, Next
  PROVE  OneIsAway'
<1>1. ASSUME NEW u \in Tasks, NEW t \in Tasklets, NEW p \in Prio, TestAndSetSched(u, t, p,
        "schedule")
      PROVE  OneIsAway'
  BY <1>1, Actor, PlaceFacts DEF TestAndSetSched, Goto, vectors, Types, OneIsAway, Prio
<1>2. ASSUME NEW u \in Tasks, NEW t \in Tasklets, NEW to \in {"nosync", "disable"},
             tasklet_disable_nosync(u, t, to)
      PROVE  OneIsAway'
  BY <1>2, Actor, PlaceFacts DEF tasklet_disable_nosync, Goto, vectors, Types, OneIsAway, Prio
<1>3. ASSUME NEW u \in Tasks, NEW t \in Tasklets, tasklet_kill(u, t)
      PROVE  OneIsAway'
  BY <1>3, Actor, PlaceFacts DEF tasklet_kill, Goto, bits, vectors, Types, OneIsAway, Prio
<1>4. ASSUME NEW u \in Tasks, NEW c \in CPUs, __tasklet_schedule(u, c)
      PROVE  OneIsAway'
  <2>1. PICK v \in Vecs : v = <<c, prio[u]>>
    BY Actor, PlaceFacts DEF Types
  <2>2. \A w \in Vecs : w # v => head'[w] = head[w]
    BY <1>4, <2>1, HeadTail DEF __tasklet_schedule, AddLast, Types
  <2>3. c \in online /\ online' = online /\ pc'[Hotplug] = pc[Hotplug]
    BY <1>4, Actor DEF __tasklet_schedule, AddLast, raise_softirq_irqoff, Leave, Goto, bits,
       Types, OneIsAway
  <2>4. \A d \in CPUs \ online : pc[d] = "idle" => pc'[d] = "idle"
    BY <1>4, <2>3, Actor DEF __tasklet_schedule, AddLast, raise_softirq_irqoff, Leave, Goto,
       bits, Types
  <2>5. \A d \in CPUs \ online, p \in Prio : head'[<<d, p>>] = head[<<d, p>>]
    BY <2>1, <2>2, <2>3, PlaceFacts
  <2> QED BY <2>3, <2>4, <2>5 DEF OneIsAway, Prio
<1>5. ASSUME NEW u \in Tasks, tasklet_unlock_wait(u, "disable", "disabled")
      PROVE  OneIsAway'
  BY <1>5, Actor, PlaceFacts DEF tasklet_unlock_wait, Goto, bits, vectors, Types, OneIsAway, Prio
<1>6. ASSUME NEW u \in Tasks, tasklet_unlock_wait(u, "kill_wait", "killed")
      PROVE  OneIsAway'
  BY <1>6, Actor, PlaceFacts DEF tasklet_unlock_wait, Goto, bits, vectors, Types, OneIsAway, Prio
<1>7. ASSUME NEW u \in Tasks, NEW from \in {"disabled", "nosync"}, tasklet_enable(u, from)
      PROVE  OneIsAway'
  BY <1>7, Actor, PlaceFacts DEF tasklet_enable, Leave, Goto, vectors, Types, OneIsAway, Prio
<1>8. ASSUME NEW u \in Tasks, KillGrabs(u)
      PROVE  OneIsAway'
  BY <1>8, Actor, PlaceFacts DEF KillGrabs, Goto, vectors, Types, OneIsAway, Prio
<1>9. ASSUME NEW u \in Tasks, KillClears(u)
      PROVE  OneIsAway'
  BY <1>9, Actor, PlaceFacts DEF KillClears, Leave, Goto, vectors, Types, OneIsAway, Prio
<1>10. ASSUME NEW c \in CPUs, __do_softirq(c)
      PROVE  OneIsAway'
  BY <1>10, Actor, PlaceFacts DEF __do_softirq, Goto, bits, Types, OneIsAway, Prio
<1>11. ASSUME NEW c \in CPUs, SoftirqEnds(c)
      PROVE  OneIsAway'
  BY <1>11, Actor, PlaceFacts DEF SoftirqEnds, Goto, bits, vectors, Types, OneIsAway, Prio
<1>12. ASSUME NEW c \in CPUs, tasklet_action(c)
      PROVE  OneIsAway'
  BY <1>12, Actor, PlaceFacts DEF tasklet_action, Goto, bits, Types, OneIsAway, Prio
<1>13. ASSUME NEW c \in CPUs, ListEmpty(c)
      PROVE  OneIsAway'
  BY <1>13, Actor, PlaceFacts DEF ListEmpty, Goto, bits, vectors, Types, OneIsAway, Prio
<1>14. ASSUME NEW c \in CPUs, tasklet_trylock(c)
      PROVE  OneIsAway'
  BY <1>14, Actor, PlaceFacts DEF tasklet_trylock, Goto, Types, OneIsAway, Prio
<1>15. ASSUME NEW c \in CPUs, TestCount(c)
      PROVE  OneIsAway'
  BY <1>15, Actor, PlaceFacts DEF TestCount, Goto, bits, vectors, Types, OneIsAway, Prio
<1>16. ASSUME NEW c \in CPUs, TestAndClearSched(c)
      PROVE  OneIsAway'
  BY <1>16, Actor, PlaceFacts DEF TestAndClearSched, Goto, vectors, Types, OneIsAway, Prio
<1>17. ASSUME NEW c \in CPUs, tasklet_unlock(c, "func", "loop")
      PROVE  OneIsAway'
  BY <1>17, Actor, PlaceFacts DEF tasklet_unlock, Goto, vectors, Types, OneIsAway, Prio
<1>18. ASSUME NEW c \in CPUs, tasklet_unlock(c, "disabled", "readd")
      PROVE  OneIsAway'
  BY <1>18, Actor, PlaceFacts DEF tasklet_unlock, Goto, vectors, Types, OneIsAway, Prio
<1>19. ASSUME NEW c \in CPUs, Readd(c)
      PROVE  OneIsAway'
  <2>1. PICK v \in Vecs : v = <<c, prio[c]>>
    BY Actor, PlaceFacts DEF Types
  <2>2. \A w \in Vecs : w # v => head'[w] = head[w]
    BY <1>19, <2>1, HeadTail DEF Readd, AddLast, Types
  <2>3. c \in online /\ online' = online /\ pc'[Hotplug] = pc[Hotplug]
    BY <1>19, Actor DEF Readd, AddLast, raise_softirq_irqoff, Goto, bits, Types, OneIsAway
  <2>4. \A d \in CPUs \ online : pc[d] = "idle" => pc'[d] = "idle"
    BY <1>19, <2>3, Actor DEF Readd, AddLast, raise_softirq_irqoff, Goto, bits, Types
  <2>5. \A d \in CPUs \ online, p \in Prio : head'[<<d, p>>] = head[<<d, p>>]
    BY <2>1, <2>2, <2>3, PlaceFacts
  <2> QED BY <2>3, <2>4, <2>5 DEF OneIsAway, Prio
<1>20. ASSUME NEW c \in CPUs, cpu_down(c)
      PROVE  OneIsAway'
  BY <1>20, Actor, PlaceFacts DEF cpu_down, Goto, bits, vectors, Types, OneIsAway, Prio
<1>21. ASSUME NEW c \in CPUs, cpu_up(c)
      PROVE  OneIsAway'
  BY <1>21, Actor, PlaceFacts DEF cpu_up, Goto, bits, vectors, Types, OneIsAway, Prio
<1>22. ASSUME NEW c \in CPUs, NEW to \in CPUs, takeover_tasklets(c, to, "normal", "dead", "dead_hi")
      PROVE  OneIsAway'
  <2>1. PICK v \in Vecs, w \in Vecs : v = <<c, "normal">> /\ w = <<to, "normal">>
    BY PlaceFacts DEF Prio
  <2>2. c \notin online /\ to \in online /\ MoveList(v, w)
    BY <1>22, <2>1 DEF takeover_tasklets
  <2>3. head'[v] = Null
    BY <2>2, HeadTail DEF MoveList, Types
  <2>4. \A x \in Vecs : x # w => head'[x] = head[x] \/ head'[x] = Null
    BY <2>2, HeadTail DEF MoveList, Types
  <2>5. \A d \in CPUs, p \in Prio : d # to => head'[<<d, p>>] = head[<<d, p>>] \/ head'[<<d,
          p>>] = Null
    BY <2>1, <2>4, PlaceFacts
  <2>6. /\ online' = online /\ \A d \in CPUs : pc'[d] = pc[d]
        /\ pc[Hotplug] = "dead" /\ pc'[Hotplug] = "dead_hi"
    BY <1>22, Actor DEF takeover_tasklets, Goto, Types
  <2> QED BY <2>1, <2>2, <2>3, <2>5, <2>6 DEF OneIsAway, Prio
<1>23. ASSUME NEW c \in CPUs, NEW to \in CPUs, takeover_tasklets(c, to, "hi", "dead_hi", "down")
      PROVE  OneIsAway'
  <2>1. PICK v \in Vecs, w \in Vecs : v = <<c, "hi">> /\ w = <<to, "hi">>
    BY PlaceFacts DEF Prio
  <2>2. c \notin online /\ to \in online /\ MoveList(v, w)
    BY <1>23, <2>1 DEF takeover_tasklets
  <2>3. head'[v] = Null
    BY <2>2, HeadTail DEF MoveList, Types
  <2>4. \A x \in Vecs : x # w => head'[x] = head[x] \/ head'[x] = Null
    BY <2>2, HeadTail DEF MoveList, Types
  <2>5. \A d \in CPUs, p \in Prio : d # to => head'[<<d, p>>] = head[<<d, p>>] \/ head'[<<d,
          p>>] = Null
    BY <2>1, <2>4, PlaceFacts
  <2>6. /\ online' = online /\ \A d \in CPUs : pc'[d] = pc[d]
        /\ pc[Hotplug] = "dead_hi" /\ pc'[Hotplug] = "down"
    BY <1>23, Actor DEF takeover_tasklets, Goto, Types
  <2> QED BY <2>1, <2>2, <2>3, <2>5, <2>6 DEF OneIsAway, Prio
<1> QED
  BY <1>1, <1>2, <1>3, <1>4, <1>5, <1>6, <1>7, <1>8, <1>9, <1>10, <1>11, <1>12, <1>13, <1>14,
     <1>15, <1>16, <1>17, <1>18, <1>19, <1>20, <1>21, <1>22, <1>23, StepCases

(* A tasklet begins to run only when nobody has disabled or killed it, and *)
(* no other CPU runs it.                                                   *)
LEMMA SerializedStep ==
  ASSUME Types, Busy, SchedOwned, RunIsLock, CountIsExact, Serialized, Next
  PROVE  Serialized'
<1>1. ASSUME NEW u \in Tasks, NEW t \in Tasklets, NEW p \in Prio, TestAndSetSched(u, t, p,
        "schedule")
      PROVE  Serialized'
  <2>1. \A d \in CPUs, s \in Tasklets : Runs(d, s)' => Runs(d, s)
    BY <1>1, Actor DEF TestAndSetSched, Goto, vectors, Types, Runs
  <2>2. \A x \in Tasks : pc'[x] \in {"disabled", "killed"} => pc'[x] = pc[x] /\ this'[x] = this[x]
    BY <1>1, Actor DEF TestAndSetSched, Goto, vectors, Types
  <2> QED BY <2>1, <2>2 DEF Serialized
<1>2. ASSUME NEW u \in Tasks, NEW t \in Tasklets, NEW to \in {"nosync", "disable"},
             tasklet_disable_nosync(u, t, to)
      PROVE  Serialized'
  <2>1. \A d \in CPUs, s \in Tasklets : Runs(d, s)' => Runs(d, s)
    BY <1>2, Actor DEF tasklet_disable_nosync, Goto, vectors, Types, Runs
  <2>2. \A x \in Tasks : pc'[x] \in {"disabled", "killed"} => pc'[x] = pc[x] /\ this'[x] = this[x]
    BY <1>2, Actor DEF tasklet_disable_nosync, Goto, vectors, Types
  <2> QED BY <2>1, <2>2 DEF Serialized
<1>3. ASSUME NEW u \in Tasks, NEW t \in Tasklets, tasklet_kill(u, t)
      PROVE  Serialized'
  <2>1. \A d \in CPUs, s \in Tasklets : Runs(d, s)' => Runs(d, s)
    BY <1>3, Actor DEF tasklet_kill, Goto, bits, vectors, Types, Runs
  <2>2. \A x \in Tasks : pc'[x] \in {"disabled", "killed"} => pc'[x] = pc[x] /\ this'[x] = this[x]
    BY <1>3, Actor DEF tasklet_kill, Goto, bits, vectors, Types
  <2> QED BY <2>1, <2>2 DEF Serialized
<1>4. ASSUME NEW u \in Tasks, NEW c \in CPUs, __tasklet_schedule(u, c)
      PROVE  Serialized'
  <2>1. \A d \in CPUs, s \in Tasklets : Runs(d, s)' => Runs(d, s)
    BY <1>4, Actor DEF __tasklet_schedule, AddLast, raise_softirq_irqoff, Leave, Goto, bits,
       Types, Runs
  <2>2. \A x \in Tasks : pc'[x] \in {"disabled", "killed"} => pc'[x] = pc[x] /\ this'[x] = this[x]
    BY <1>4, Actor DEF __tasklet_schedule, AddLast, raise_softirq_irqoff, Leave, Goto, bits, Types
  <2> QED BY <2>1, <2>2 DEF Serialized
<1>5. ASSUME NEW u \in Tasks, tasklet_unlock_wait(u, "disable", "disabled")
      PROVE  Serialized'
  <2>1. PICK s \in Tasklets : s = this[u] /\ ~run[s]
    BY <1>5 DEF tasklet_unlock_wait, Goto, Busy
  <2>2. \A c \in CPUs : ~Runs(c, s)
    BY <2>1 DEF RunIsLock, Locks, Runs
  <2>3. \A c \in CPUs, t \in Tasklets : Runs(c, t)' <=> Runs(c, t)
    BY <1>5, Actor DEF tasklet_unlock_wait, Goto, bits, vectors, Types, Runs
  <2>4. this' = this /\ \A x \in Tasks : x # u => pc'[x] = pc[x]
    BY <1>5, Actor DEF tasklet_unlock_wait, Goto, Types
  <2> QED BY <2>1, <2>2, <2>3, <2>4 DEF Serialized
<1>6. ASSUME NEW u \in Tasks, tasklet_unlock_wait(u, "kill_wait", "killed")
      PROVE  Serialized'
  <2>1. PICK s \in Tasklets : s = this[u] /\ ~run[s]
    BY <1>6 DEF tasklet_unlock_wait, Goto, Busy
  <2>2. \A c \in CPUs : ~Runs(c, s)
    BY <2>1 DEF RunIsLock, Locks, Runs
  <2>3. \A c \in CPUs, t \in Tasklets : Runs(c, t)' <=> Runs(c, t)
    BY <1>6, Actor DEF tasklet_unlock_wait, Goto, bits, vectors, Types, Runs
  <2>4. this' = this /\ \A x \in Tasks : x # u => pc'[x] = pc[x]
    BY <1>6, Actor DEF tasklet_unlock_wait, Goto, Types
  <2> QED BY <2>1, <2>2, <2>3, <2>4 DEF Serialized
<1>7. ASSUME NEW u \in Tasks, NEW from \in {"disabled", "nosync"}, tasklet_enable(u, from)
      PROVE  Serialized'
  <2>1. \A d \in CPUs, s \in Tasklets : Runs(d, s)' => Runs(d, s)
    BY <1>7, Actor DEF tasklet_enable, Leave, Goto, vectors, Types, Runs
  <2>2. \A x \in Tasks : pc'[x] \in {"disabled", "killed"} => pc'[x] = pc[x] /\ this'[x] = this[x]
    BY <1>7, Actor DEF tasklet_enable, Leave, Goto, vectors, Types
  <2> QED BY <2>1, <2>2 DEF Serialized
<1>8. ASSUME NEW u \in Tasks, KillGrabs(u)
      PROVE  Serialized'
  <2>1. \A d \in CPUs, s \in Tasklets : Runs(d, s)' => Runs(d, s)
    BY <1>8, Actor DEF KillGrabs, Goto, vectors, Types, Runs
  <2>2. \A x \in Tasks : pc'[x] \in {"disabled", "killed"} => pc'[x] = pc[x] /\ this'[x] = this[x]
    BY <1>8, Actor DEF KillGrabs, Goto, vectors, Types
  <2> QED BY <2>1, <2>2 DEF Serialized
<1>9. ASSUME NEW u \in Tasks, KillClears(u)
      PROVE  Serialized'
  <2>1. \A d \in CPUs, s \in Tasklets : Runs(d, s)' => Runs(d, s)
    BY <1>9, Actor DEF KillClears, Leave, Goto, vectors, Types, Runs
  <2>2. \A x \in Tasks : pc'[x] \in {"disabled", "killed"} => pc'[x] = pc[x] /\ this'[x] = this[x]
    BY <1>9, Actor DEF KillClears, Leave, Goto, vectors, Types
  <2> QED BY <2>1, <2>2 DEF Serialized
<1>10. ASSUME NEW c \in CPUs, __do_softirq(c)
      PROVE  Serialized'
  <2>1. \A d \in CPUs, s \in Tasklets : Runs(d, s)' => Runs(d, s)
    BY <1>10, Actor DEF __do_softirq, Goto, bits, Types, Runs
  <2>2. \A x \in Tasks : pc'[x] \in {"disabled", "killed"} => pc'[x] = pc[x] /\ this'[x] = this[x]
    BY <1>10, Actor DEF __do_softirq, Goto, bits, Types
  <2> QED BY <2>1, <2>2 DEF Serialized
<1>11. ASSUME NEW c \in CPUs, SoftirqEnds(c)
      PROVE  Serialized'
  <2>1. \A d \in CPUs, s \in Tasklets : Runs(d, s)' => Runs(d, s)
    BY <1>11, Actor DEF SoftirqEnds, Goto, bits, vectors, Types, Runs
  <2>2. \A x \in Tasks : pc'[x] \in {"disabled", "killed"} => pc'[x] = pc[x] /\ this'[x] = this[x]
    BY <1>11, Actor DEF SoftirqEnds, Goto, bits, vectors, Types
  <2> QED BY <2>1, <2>2 DEF Serialized
<1>12. ASSUME NEW c \in CPUs, tasklet_action(c)
      PROVE  Serialized'
  <2>1. \A d \in CPUs, s \in Tasklets : Runs(d, s)' => Runs(d, s)
    BY <1>12, Actor DEF tasklet_action, Goto, bits, Types, Runs
  <2>2. \A x \in Tasks : pc'[x] \in {"disabled", "killed"} => pc'[x] = pc[x] /\ this'[x] = this[x]
    BY <1>12, Actor DEF tasklet_action, Goto, bits, Types
  <2> QED BY <2>1, <2>2 DEF Serialized
<1>13. ASSUME NEW c \in CPUs, ListEmpty(c)
      PROVE  Serialized'
  <2>1. \A d \in CPUs, s \in Tasklets : Runs(d, s)' => Runs(d, s)
    BY <1>13, Actor DEF ListEmpty, Goto, bits, vectors, Types, Runs
  <2>2. \A x \in Tasks : pc'[x] \in {"disabled", "killed"} => pc'[x] = pc[x] /\ this'[x] = this[x]
    BY <1>13, Actor DEF ListEmpty, Goto, bits, vectors, Types
  <2> QED BY <2>1, <2>2 DEF Serialized
<1>14. ASSUME NEW c \in CPUs, tasklet_trylock(c)
      PROVE  Serialized'
  <2>1. \A d \in CPUs, s \in Tasklets : Runs(d, s)' => Runs(d, s)
    BY <1>14, Actor DEF tasklet_trylock, Goto, Types, Runs
  <2>2. \A x \in Tasks : pc'[x] \in {"disabled", "killed"} => pc'[x] = pc[x] /\ this'[x] = this[x]
    BY <1>14, Actor DEF tasklet_trylock, Goto, Types
  <2> QED BY <2>1, <2>2 DEF Serialized
<1>15. ASSUME NEW c \in CPUs, TestCount(c)
      PROVE  Serialized'
  <2>1. PICK s \in Tasklets : s = this[c]
    BY <1>15 DEF TestCount, Busy
  <2>2. /\ this' = this /\ \A u \in Tasks : pc'[u] = pc[u]
        /\ \A d \in CPUs : d # c => pc'[d] = pc[d]
    BY <1>15, Actor DEF TestCount, Goto, Types
  <2>3. \A d \in CPUs, t \in Tasklets : d # c => (Runs(d, t)' <=> Runs(d, t))
    BY <2>2 DEF Runs
  <2>4. \A t \in Tasklets : Runs(c, t)' => t = s /\ count[s] = 0
    BY <1>15, <2>1, Actor DEF TestCount, Goto, bits, Types, Runs
  <2>5. Locks(c, s) /\ Holding(c)
    BY <1>15, <2>1 DEF TestCount, Locks, Holding
  <2>6. \A d \in CPUs : Runs(d, s) => d = c
    <3>1. \A d \in CPUs : Runs(d, s) => Locks(d, s)
      BY DEF Runs, Locks
    <3> QED BY <2>5, <3>1 DEF RunIsLock
  <2>7. ASSUME NEW u \in Tasks, pc[u] \in {"disabled", "killed"}, this[u] = s
        PROVE  count[s] # 0
    <3>1. CASE pc[u] = "disabled"
      <4>1. u \in Disabling(s) /\ Disabling(s) \subseteq Tasks
        BY <2>7, <3>1 DEF Disabling
      <4>2. Cardinality(Disabling(s)) # 0
        BY <4>1, FS_Subset, FS_EmptySet, TaskletAssumption
      <4> QED BY <4>2 DEF CountIsExact
    <3>2. CASE pc[u] = "killed"
      <4>1. Holding(u) /\ u \in Hands /\ c \in Hands /\ u # c
        BY <3>2, Actor DEF Holding
      <4> QED BY <2>1, <2>5, <2>7, <4>1, Alone
    <3> QED BY <2>7, <3>1, <3>2
  <2>8. \A t \in Tasklets : \A d, e \in CPUs : Runs(d, t)' /\ Runs(e, t)' => d = e
    BY <2>3, <2>4, <2>6 DEF Serialized
  <2>9. ASSUME NEW t \in Tasklets, NEW u \in Tasks, pc'[u] \in {"disabled", "killed"},
               this'[u] = t, NEW d \in CPUs
        PROVE  ~Runs(d, t)'
    <3>1. CASE d = c
      BY <2>2, <2>4, <2>7, <2>9, <3>1
    <3>2. CASE d # c
      BY <2>2, <2>3, <2>9, <3>2 DEF Serialized
    <3> QED BY <3>1, <3>2
  <2> QED BY <2>8, <2>9 DEF Serialized
<1>16. ASSUME NEW c \in CPUs, TestAndClearSched(c)
      PROVE  Serialized'
  <2>1. \A d \in CPUs, s \in Tasklets : Runs(d, s)' => Runs(d, s)
    BY <1>16, Actor DEF TestAndClearSched, Goto, vectors, Types, Runs
  <2>2. \A x \in Tasks : pc'[x] \in {"disabled", "killed"} => pc'[x] = pc[x] /\ this'[x] = this[x]
    BY <1>16, Actor DEF TestAndClearSched, Goto, vectors, Types
  <2> QED BY <2>1, <2>2 DEF Serialized
<1>17. ASSUME NEW c \in CPUs, tasklet_unlock(c, "func", "loop")
      PROVE  Serialized'
  <2>1. \A d \in CPUs, s \in Tasklets : Runs(d, s)' => Runs(d, s)
    BY <1>17, Actor DEF tasklet_unlock, Goto, vectors, Types, Runs
  <2>2. \A x \in Tasks : pc'[x] \in {"disabled", "killed"} => pc'[x] = pc[x] /\ this'[x] = this[x]
    BY <1>17, Actor DEF tasklet_unlock, Goto, vectors, Types
  <2> QED BY <2>1, <2>2 DEF Serialized
<1>18. ASSUME NEW c \in CPUs, tasklet_unlock(c, "disabled", "readd")
      PROVE  Serialized'
  <2>1. \A d \in CPUs, s \in Tasklets : Runs(d, s)' => Runs(d, s)
    BY <1>18, Actor DEF tasklet_unlock, Goto, vectors, Types, Runs
  <2>2. \A x \in Tasks : pc'[x] \in {"disabled", "killed"} => pc'[x] = pc[x] /\ this'[x] = this[x]
    BY <1>18, Actor DEF tasklet_unlock, Goto, vectors, Types
  <2> QED BY <2>1, <2>2 DEF Serialized
<1>19. ASSUME NEW c \in CPUs, Readd(c)
      PROVE  Serialized'
  <2>1. \A d \in CPUs, s \in Tasklets : Runs(d, s)' => Runs(d, s)
    BY <1>19, Actor DEF Readd, AddLast, raise_softirq_irqoff, Goto, bits, Types, Runs
  <2>2. \A x \in Tasks : pc'[x] \in {"disabled", "killed"} => pc'[x] = pc[x] /\ this'[x] = this[x]
    BY <1>19, Actor DEF Readd, AddLast, raise_softirq_irqoff, Goto, bits, Types
  <2> QED BY <2>1, <2>2 DEF Serialized
<1>20. ASSUME NEW c \in CPUs, cpu_down(c)
      PROVE  Serialized'
  <2>1. \A d \in CPUs, s \in Tasklets : Runs(d, s)' => Runs(d, s)
    BY <1>20, Actor DEF cpu_down, Goto, bits, vectors, Types, Runs
  <2>2. \A x \in Tasks : pc'[x] \in {"disabled", "killed"} => pc'[x] = pc[x] /\ this'[x] = this[x]
    BY <1>20, Actor DEF cpu_down, Goto, bits, vectors, Types
  <2> QED BY <2>1, <2>2 DEF Serialized
<1>21. ASSUME NEW c \in CPUs, cpu_up(c)
      PROVE  Serialized'
  <2>1. \A d \in CPUs, s \in Tasklets : Runs(d, s)' => Runs(d, s)
    BY <1>21, Actor DEF cpu_up, Goto, bits, vectors, Types, Runs
  <2>2. \A x \in Tasks : pc'[x] \in {"disabled", "killed"} => pc'[x] = pc[x] /\ this'[x] = this[x]
    BY <1>21, Actor DEF cpu_up, Goto, bits, vectors, Types
  <2> QED BY <2>1, <2>2 DEF Serialized
<1>22. ASSUME NEW c \in CPUs, NEW to \in CPUs, takeover_tasklets(c, to, "normal", "dead", "dead_hi")
      PROVE  Serialized'
  <2>1. \A d \in CPUs, s \in Tasklets : Runs(d, s)' => Runs(d, s)
    BY <1>22, Actor DEF takeover_tasklets, MoveList, raise_softirq_irqoff, Goto, bits, Types, Runs
  <2>2. \A x \in Tasks : pc'[x] \in {"disabled", "killed"} => pc'[x] = pc[x] /\ this'[x] = this[x]
    BY <1>22, Actor DEF takeover_tasklets, MoveList, raise_softirq_irqoff, Goto, bits, Types
  <2> QED BY <2>1, <2>2 DEF Serialized
<1>23. ASSUME NEW c \in CPUs, NEW to \in CPUs, takeover_tasklets(c, to, "hi", "dead_hi", "down")
      PROVE  Serialized'
  <2>1. \A d \in CPUs, s \in Tasklets : Runs(d, s)' => Runs(d, s)
    BY <1>23, Actor DEF takeover_tasklets, MoveList, raise_softirq_irqoff, Goto, bits, Types, Runs
  <2>2. \A x \in Tasks : pc'[x] \in {"disabled", "killed"} => pc'[x] = pc[x] /\ this'[x] = this[x]
    BY <1>23, Actor DEF takeover_tasklets, MoveList, raise_softirq_irqoff, Goto, bits, Types
  <2> QED BY <2>1, <2>2 DEF Serialized
<1> QED
  BY <1>1, <1>2, <1>3, <1>4, <1>5, <1>6, <1>7, <1>8, <1>9, <1>10, <1>11, <1>12, <1>13, <1>14,
     <1>15, <1>16, <1>17, <1>18, <1>19, <1>20, <1>21, <1>22, <1>23, StepCases

(* Whoever puts a tasklet on a list raises its softirq, and the softirq     *)
(* code looks at the list before it forgets that.                          *)
LEMMA NothingStrandedStep ==
  ASSUME Types, Busy, SchedOwned, OneIsAway, OneIsAway', NothingStranded, Next
  PROVE  NothingStranded'
<1>1. ASSUME NEW u \in Tasks, NEW t \in Tasklets, NEW p \in Prio, TestAndSetSched(u, t, p,
        "schedule")
      PROVE  NothingStranded'
  <2>1. UNCHANGED <<head, raised, todo, online>> /\ pc'[Hotplug] = pc[Hotplug]
    BY <1>1, Actor DEF TestAndSetSched, Goto, vectors, Types
  <2> QED BY <2>1 DEF NothingStranded
<1>2. ASSUME NEW u \in Tasks, NEW t \in Tasklets, NEW to \in {"nosync", "disable"},
             tasklet_disable_nosync(u, t, to)
      PROVE  NothingStranded'
  <2>1. UNCHANGED <<head, raised, todo, online>> /\ pc'[Hotplug] = pc[Hotplug]
    BY <1>2, Actor DEF tasklet_disable_nosync, Goto, vectors, Types
  <2> QED BY <2>1 DEF NothingStranded
<1>3. ASSUME NEW u \in Tasks, NEW t \in Tasklets, tasklet_kill(u, t)
      PROVE  NothingStranded'
  <2>1. UNCHANGED <<head, raised, todo, online>> /\ pc'[Hotplug] = pc[Hotplug]
    BY <1>3, Actor DEF tasklet_kill, Goto, bits, vectors, Types
  <2> QED BY <2>1 DEF NothingStranded
<1>4. ASSUME NEW u \in Tasks, NEW c \in CPUs, __tasklet_schedule(u, c)
      PROVE  NothingStranded'
  <2>1. PICK v \in Vecs : v = <<c, prio[u]>>
    BY Actor, PlaceFacts DEF Types
  <2>2. \A w \in Vecs : w # v => head'[w] = head[w]
    BY <1>4, <2>1, HeadTail DEF __tasklet_schedule, AddLast, Types
  <2>3. /\ raised' = [raised EXCEPT ![c] = raised[c] \cup {prio[u]}] /\ todo' = todo
        /\ online' = online /\ pc'[Hotplug] = pc[Hotplug]
    BY <1>4, Actor DEF __tasklet_schedule, AddLast, raise_softirq_irqoff, Leave, Goto, bits, Types
  <2>4. \A d \in CPUs : raised[d] \subseteq raised'[d]
    BY <2>3 DEF Types
  <2>5. prio[u] \in raised'[c] /\ v[1] = c /\ v[2] = prio[u]
    BY <2>1, <2>3 DEF Types
  <2>6. \A w \in Vecs : w[1] \in CPUs
    BY DEF Vecs
  <2> QED BY <2>2, <2>3, <2>4, <2>5, <2>6 DEF NothingStranded
<1>5. ASSUME NEW u \in Tasks, tasklet_unlock_wait(u, "disable", "disabled")
      PROVE  NothingStranded'
  <2>1. UNCHANGED <<head, raised, todo, online>> /\ pc'[Hotplug] = pc[Hotplug]
    BY <1>5, Actor DEF tasklet_unlock_wait, Goto, bits, vectors, Types
  <2> QED BY <2>1 DEF NothingStranded
<1>6. ASSUME NEW u \in Tasks, tasklet_unlock_wait(u, "kill_wait", "killed")
      PROVE  NothingStranded'
  <2>1. UNCHANGED <<head, raised, todo, online>> /\ pc'[Hotplug] = pc[Hotplug]
    BY <1>6, Actor DEF tasklet_unlock_wait, Goto, bits, vectors, Types
  <2> QED BY <2>1 DEF NothingStranded
<1>7. ASSUME NEW u \in Tasks, NEW from \in {"disabled", "nosync"}, tasklet_enable(u, from)
      PROVE  NothingStranded'
  <2>1. UNCHANGED <<head, raised, todo, online>> /\ pc'[Hotplug] = pc[Hotplug]
    BY <1>7, Actor DEF tasklet_enable, Leave, Goto, vectors, Types
  <2> QED BY <2>1 DEF NothingStranded
<1>8. ASSUME NEW u \in Tasks, KillGrabs(u)
      PROVE  NothingStranded'
  <2>1. UNCHANGED <<head, raised, todo, online>> /\ pc'[Hotplug] = pc[Hotplug]
    BY <1>8, Actor DEF KillGrabs, Goto, vectors, Types
  <2> QED BY <2>1 DEF NothingStranded
<1>9. ASSUME NEW u \in Tasks, KillClears(u)
      PROVE  NothingStranded'
  <2>1. UNCHANGED <<head, raised, todo, online>> /\ pc'[Hotplug] = pc[Hotplug]
    BY <1>9, Actor DEF KillClears, Leave, Goto, vectors, Types
  <2> QED BY <2>1 DEF NothingStranded
<1>10. ASSUME NEW c \in CPUs, __do_softirq(c)
      PROVE  NothingStranded'
  <2>1. /\ head' = head /\ online' = online /\ pc'[Hotplug] = pc[Hotplug]
        /\ todo' = [todo EXCEPT ![c] = raised[c]] /\ raised' = [raised EXCEPT ![c] = {}]
        /\ todo[c] = {}
    BY <1>10, Actor DEF __do_softirq, Goto, Types, Busy
  <2>2. \A d \in CPUs : raised'[d] \cup todo'[d] = raised[d] \cup todo[d]
    BY <2>1 DEF Types
  <2>3. \A w \in Vecs : w[1] \in CPUs
    BY DEF Vecs
  <2> QED BY <2>1, <2>2, <2>3 DEF NothingStranded
<1>11. ASSUME NEW c \in CPUs, SoftirqEnds(c)
      PROVE  NothingStranded'
  <2>1. UNCHANGED <<head, raised, todo, online>> /\ pc'[Hotplug] = pc[Hotplug]
    BY <1>11, Actor DEF SoftirqEnds, Goto, bits, vectors, Types
  <2> QED BY <2>1 DEF NothingStranded
<1>12. ASSUME NEW c \in CPUs, tasklet_action(c)
      PROVE  NothingStranded'
  <2>1. PICK p \in Prio : /\ head' = [head EXCEPT ![<<c, p>>] = Null]
                         /\ todo' = [todo EXCEPT ![c] = todo[c] \ {p}]
    <3>1. (IF "hi" \in todo[c] THEN "hi" ELSE "normal") \in Prio
      BY DEF Prio
    <3> QED BY <1>12, <3>1 DEF tasklet_action
  <2>2. raised' = raised /\ online' = online /\ pc'[Hotplug] = pc[Hotplug]
    BY <1>12, Actor DEF tasklet_action, Goto, Types
  <2>3. \A w \in Vecs : w[1] \in CPUs /\ w = <<w[1], w[2]>>
    BY DEF Vecs
  <2>4. ASSUME NEW w \in Vecs, head'[w] # Null
        PROVE  head[w] # Null /\ (w[2] \in todo[w[1]] => w[2] \in todo'[w[1]])
    <3>1. w # <<c, p>> /\ head'[w] = head[w]
      BY <2>1, <2>4 DEF Types
    <3> QED BY <2>1, <2>3, <2>4, <3>1 DEF Types
  <2> QED BY <2>2, <2>4 DEF NothingStranded
<1>13. ASSUME NEW c \in CPUs, ListEmpty(c)
      PROVE  NothingStranded'
  <2>1. UNCHANGED <<head, raised, todo, online>> /\ pc'[Hotplug] = pc[Hotplug]
    BY <1>13, Actor DEF ListEmpty, Goto, bits, vectors, Types
  <2> QED BY <2>1 DEF NothingStranded
<1>14. ASSUME NEW c \in CPUs, tasklet_trylock(c)
      PROVE  NothingStranded'
  <2>1. UNCHANGED <<head, raised, todo, online>> /\ pc'[Hotplug] = pc[Hotplug]
    BY <1>14, Actor DEF tasklet_trylock, Goto, Types
  <2> QED BY <2>1 DEF NothingStranded
<1>15. ASSUME NEW c \in CPUs, TestCount(c)
      PROVE  NothingStranded'
  <2>1. UNCHANGED <<head, raised, todo, online>> /\ pc'[Hotplug] = pc[Hotplug]
    BY <1>15, Actor DEF TestCount, Goto, bits, vectors, Types
  <2> QED BY <2>1 DEF NothingStranded
<1>16. ASSUME NEW c \in CPUs, TestAndClearSched(c)
      PROVE  NothingStranded'
  <2>1. UNCHANGED <<head, raised, todo, online>> /\ pc'[Hotplug] = pc[Hotplug]
    BY <1>16, Actor DEF TestAndClearSched, Goto, vectors, Types
  <2> QED BY <2>1 DEF NothingStranded
<1>17. ASSUME NEW c \in CPUs, tasklet_unlock(c, "func", "loop")
      PROVE  NothingStranded'
  <2>1. UNCHANGED <<head, raised, todo, online>> /\ pc'[Hotplug] = pc[Hotplug]
    BY <1>17, Actor DEF tasklet_unlock, Goto, vectors, Types
  <2> QED BY <2>1 DEF NothingStranded
<1>18. ASSUME NEW c \in CPUs, tasklet_unlock(c, "disabled", "readd")
      PROVE  NothingStranded'
  <2>1. UNCHANGED <<head, raised, todo, online>> /\ pc'[Hotplug] = pc[Hotplug]
    BY <1>18, Actor DEF tasklet_unlock, Goto, vectors, Types
  <2> QED BY <2>1 DEF NothingStranded
<1>19. ASSUME NEW c \in CPUs, Readd(c)
      PROVE  NothingStranded'
  <2>1. PICK v \in Vecs : v = <<c, prio[c]>>
    BY Actor, PlaceFacts DEF Types
  <2>2. \A w \in Vecs : w # v => head'[w] = head[w]
    BY <1>19, <2>1, HeadTail DEF Readd, AddLast, Types
  <2>3. /\ raised' = [raised EXCEPT ![c] = raised[c] \cup {prio[c]}] /\ todo' = todo
        /\ online' = online /\ pc'[Hotplug] = pc[Hotplug]
    BY <1>19, Actor DEF Readd, AddLast, raise_softirq_irqoff, Goto, bits, Types
  <2>4. \A d \in CPUs : raised[d] \subseteq raised'[d]
    BY <2>3 DEF Types
  <2>5. prio[c] \in raised'[c] /\ v[1] = c /\ v[2] = prio[c]
    BY <2>1, <2>3 DEF Types
  <2>6. \A w \in Vecs : w[1] \in CPUs
    BY DEF Vecs
  <2> QED BY <2>2, <2>3, <2>4, <2>5, <2>6 DEF NothingStranded
<1>20. ASSUME NEW c \in CPUs, cpu_down(c)
      PROVE  NothingStranded'
  BY <1>20, Actor DEF cpu_down, Goto, bits, vectors, Types, OneIsAway, NothingStranded, Vecs
<1>21. ASSUME NEW c \in CPUs, cpu_up(c)
      PROVE  NothingStranded'
  BY <1>21, Actor DEF cpu_up, Goto, bits, vectors, Types, OneIsAway, NothingStranded, Vecs
<1>22. ASSUME NEW c \in CPUs, NEW to \in CPUs, takeover_tasklets(c, to, "normal", "dead", "dead_hi")
      PROVE  NothingStranded'
  <2>1. PICK v \in Vecs, w \in Vecs : v = <<c, "normal">> /\ w = <<to, "normal">>
    BY PlaceFacts DEF Prio
  <2>2. MoveList(v, w)
    BY <1>22, <2>1 DEF takeover_tasklets
  <2>3. \A x \in Vecs : x # w => head'[x] = head[x] \/ head'[x] = Null
    BY <2>2, HeadTail DEF MoveList, Types
  <2>4. /\ raised' = [raised EXCEPT ![to] = raised[to] \cup {"normal"}] /\ todo' = todo
        /\ online' = online /\ pc'[Hotplug] = "dead_hi"
    BY <1>22, Actor DEF takeover_tasklets, raise_softirq_irqoff, Goto, Types
  <2>5. \A d \in CPUs : raised[d] \subseteq raised'[d]
    BY <2>4 DEF Types
  <2>6. "normal" \in raised'[to] /\ w[1] = to /\ w[2] = "normal"
    BY <2>1, <2>4 DEF Types
  <2>7. \A x \in Vecs : x[1] \in CPUs /\ (x = <<x[1], "hi">> \/ x = <<x[1], "normal">>)
    BY DEF Vecs, Prio
  <2>8. ASSUME NEW x \in Vecs, x[1] \in online, head'[x] # Null
        PROVE  x[2] \in raised'[x[1]] \cup todo'[x[1]]
    BY <2>3, <2>4, <2>5, <2>6, <2>7, <2>8 DEF NothingStranded
  <2>9. ASSUME NEW x \in Vecs, x[1] \notin online, head'[x] # Null
        PROVE  pc'[Hotplug] \in {"dead", "dead_hi"}
    BY <2>4, <2>7, <2>9 DEF OneIsAway
  <2> QED BY <2>4, <2>8, <2>9 DEF NothingStranded
<1>23. ASSUME NEW c \in CPUs, NEW to \in CPUs, takeover_tasklets(c, to, "hi", "dead_hi", "down")
      PROVE  NothingStranded'
  <2>1. PICK v \in Vecs, w \in Vecs : v = <<c, "hi">> /\ w = <<to, "hi">>
    BY PlaceFacts DEF Prio
  <2>2. MoveList(v, w)
    BY <1>23, <2>1 DEF takeover_tasklets
  <2>3. \A x \in Vecs : x # w => head'[x] = head[x] \/ head'[x] = Null
    BY <2>2, HeadTail DEF MoveList, Types
  <2>4. /\ raised' = [raised EXCEPT ![to] = raised[to] \cup {"hi"}] /\ todo' = todo
        /\ online' = online /\ pc'[Hotplug] = "down"
    BY <1>23, Actor DEF takeover_tasklets, raise_softirq_irqoff, Goto, Types
  <2>5. \A d \in CPUs : raised[d] \subseteq raised'[d]
    BY <2>4 DEF Types
  <2>6. "hi" \in raised'[to] /\ w[1] = to /\ w[2] = "hi"
    BY <2>1, <2>4 DEF Types
  <2>7. \A x \in Vecs : x[1] \in CPUs /\ (x = <<x[1], "hi">> \/ x = <<x[1], "normal">>)
    BY DEF Vecs, Prio
  <2>8. ASSUME NEW x \in Vecs, x[1] \in online, head'[x] # Null
        PROVE  x[2] \in raised'[x[1]] \cup todo'[x[1]]
    BY <2>3, <2>4, <2>5, <2>6, <2>7, <2>8 DEF NothingStranded
  <2>9. ASSUME NEW x \in Vecs, x[1] \notin online, head'[x] # Null
        PROVE  pc'[Hotplug] \in {"dead", "dead_hi"}
    <3>1. x[1] \in CPUs \ online'
      BY <2>4, <2>7, <2>9
    <3>2. head'[<<x[1], "normal">>] = Null /\ head'[<<x[1], "hi">>] = Null
      BY <2>4, <3>1 DEF OneIsAway
    <3> QED BY <2>7, <2>9, <3>2
  <2> QED BY <2>4, <2>8, <2>9 DEF NothingStranded
<1> QED
  BY <1>1, <1>2, <1>3, <1>4, <1>5, <1>6, <1>7, <1>8, <1>9, <1>10, <1>11, <1>12, <1>13, <1>14,
     <1>15, <1>16, <1>17, <1>18, <1>19, <1>20, <1>21, <1>22, <1>23, StepCases

------------------------------------------------------------------------------
(* At the beginning every list is empty and nobody is at work. *)
LEMMA InitIInv == Init => IInv
<1> SUFFICES ASSUME Init PROVE IInv
  OBVIOUS
<1>1. Types
  BY Actor DEF Init, Types, Vecs, Prio, TaskLabel, SoftirqLabel, Actors
<1>2. SchedOwned
  <2> DEFINE Q == [p \in Places |-> <<>>]
  <2>1. Q \in [Places -> Seq(Tasklets)] /\ \A p \in Places : Q[p] = <<>>
    OBVIOUS
  <2> HIDE DEF Q
  <2>2. IsList(next, Null, <<>>) /\ ListEntries(<<>>) = {}
    BY DEF IsList, ListOK, ListEntries
  <2>3. Lists(Q, next, head, tail, list)
    BY <2>1, <2>2, PlaceFacts DEF Init, Lists
  <2>4. Linked(Q) = {}
    BY <2>1, <2>2 DEF Linked, On
  <2>5. Linking(next, head, tail, list, {})
    BY <2>1, <2>3, <2>4 DEF Linking
  <2>6. \A a \in Hands : Hand[a] = Null
    BY Actor DEF Init, Hand, Holding, Hands, Actors
  <2>7. Owned({}, sched, Hand)
    BY <2>6, Actor DEF Owned, Init
  <2> QED BY <2>5, <2>7 DEF SchedOwned
<1>3. \A a \in Actors : pc[a] = "idle" /\ this[a] = Null
  BY DEF Init
<1>4. RunIsLock
  <2>1. \A c \in CPUs, t \in Tasklets : ~Locks(c, t)
    BY <1>3, Actor DEF Locks
  <2>2. \A t \in Tasklets : ~run[t]
    BY DEF Init
  <2> QED BY <2>1, <2>2 DEF RunIsLock
<1>5. CountIsExact
  <2>1. \A t \in Tasklets : Disabling(t) = {} /\ count[t] = 0
    BY <1>3, Actor DEF Disabling, Init
  <2> QED BY <2>1, FS_EmptySet DEF CountIsExact
<1>6. Busy /\ OneIsAway
  BY <1>3, Actor DEF Init, Busy, OneIsAway
<1>7. Serialized
  BY <1>3, Actor DEF Serialized, Runs
<1>8. NothingStranded
  BY DEF Init, NothingStranded
<1> QED BY <1>1, <1>2, <1>4, <1>5, <1>6, <1>7, <1>8 DEF IInv

(* The invariant is inductive. *)
LEMMA NextIInv == IInv /\ [Next]_vars => IInv'
<1> SUFFICES ASSUME IInv, [Next]_vars PROVE IInv'
  OBVIOUS
<1>1. CASE Next
  <2>1. Types' /\ Busy' /\ SchedOwned'
    BY <1>1, TypesStep, BusyStep, SchedOwnedStep DEF IInv
  <2>2. RunIsLock' /\ CountIsExact' /\ OneIsAway'
    BY <1>1, RunIsLockStep, CountIsExactStep, OneIsAwayStep DEF IInv
  <2>3. Serialized' /\ NothingStranded'
    BY <1>1, <2>2, SerializedStep, NothingStrandedStep DEF IInv
  <2> QED BY <2>1, <2>2, <2>3 DEF IInv
<1>2. CASE UNCHANGED vars
  <2> USE <1>2 DEF vars
  <2>1. Types' /\ Busy' /\ OneIsAway'
    BY DEF IInv, Types, Busy, OneIsAway
  <2>2. Hand' = Hand
    BY DEF Hand, Holding
  <2>3. SchedOwned'
    BY <2>2, SchedSame DEF IInv
  <2>4. RunIsLock'
    BY DEF IInv, RunIsLock, Locks
  <2>5. CountIsExact'
    BY DEF IInv, CountIsExact, Disabling
  <2>6. Serialized' /\ NothingStranded'
    BY DEF IInv, Serialized, Runs, NothingStranded
  <2> QED BY <2>1, <2>3, <2>4, <2>5, <2>6 DEF IInv
<1> QED BY <1>1, <1>2

(* The inductive invariant holds in every state of every run. *)
THEOREM InvariantHolds == Spec => []IInv
<1> QED BY InitIInv, NextIInv, PTL DEF Spec

(* Every variable keeps its type, and a tasklet is never enabled more      *)
(* often than it was disabled, nor disabled more often than there are      *)
(* tasks.                                                                  *)
THEOREM TypeCorrect == Spec => []TypeOK
<1>1. IInv => TypeOK
  <2> SUFFICES ASSUME IInv PROVE TypeOK
    OBVIOUS
  <2>1. ASSUME NEW t \in Tasklets PROVE count[t] \in 0 .. Cardinality(Tasks)
    <3>1. PICK D \in SUBSET Tasks : D = Disabling(t)
      <4>1. Disabling(t) \in SUBSET Tasks
        BY DEF Disabling
      <4> QED BY <4>1
    <3>2. /\ IsFiniteSet(Tasks) /\ IsFiniteSet(D) /\ Cardinality(D) <= Cardinality(Tasks)
          /\ Cardinality(D) \in Nat /\ Cardinality(Tasks) \in Nat
      BY <3>1, FS_Subset, FS_CardinalityType, TaskletAssumption
    <3>3. count[t] = Cardinality(D)
      BY <3>1 DEF IInv, CountIsExact
    <3> QED BY <3>2, <3>3
  <2>2. count \in [Tasklets -> 0 .. Cardinality(Tasks)]
    <3>1. count \in [Tasklets -> Int]
      BY DEF IInv, Types
    <3> QED BY <2>1, <3>1
  <2> QED BY <2>2 DEF IInv, Types, TypeOK
<1> QED BY <1>1, InvariantHolds, PTL

(* "Tasklet is strictly serialized wrt itself": for any number of CPUs,    *)
(* and it does not run when tasklet_disable() has returned or              *)
(* tasklet_kill() is about to.                                             *)
THEOREM TaskletsAreSerialized == Spec => []Serialized
<1>1. IInv => Serialized
  BY DEF IInv
<1> QED BY <1>1, InvariantHolds, PTL

(* No list of tasklets is without a raised softirq, except while the       *)
(* hotplug code is about to take it over.                                  *)
THEOREM NoneIsStranded == Spec => []NothingStranded
<1>1. IInv => NothingStranded
  BY DEF IInv
<1> QED BY <1>1, InvariantHolds, PTL

(* The tails point to the last links, so that appending needs no search,   *)
(* also after takeover_tasklets() has moved a list.                        *)
THEOREM TailsAreLast == Spec => []TailIsLast
<1>1. IInv => TailIsLast
  <2> SUFFICES ASSUME IInv, NEW v \in Vecs
               PROVE  IF head[v] = Null THEN tail[v] = v
                      ELSE tail[v] \in Chain(head[v]) /\ next[tail[v]] = Null
    BY DEF TailIsLast
  <2>1. PICK Q \in [Places -> Seq(Tasklets)] : Lists(Q, next, head, tail, list)
    BY DEF IInv, SchedOwned, Linking
  <2>2. PICK q \in Seq(Tasklets) : q = Q[v] /\ IsList(next, head[v], q)
    BY <2>1, PlaceFacts DEF Lists
  <2>3. CASE q = <<>>
    BY <2>1, <2>2, <2>3 DEF Lists, IsList
  <2>4. CASE q # <<>>
    <3>1. tail[v] = q[Len(q)] /\ next[q[Len(q)]] = Null /\ head[v] = q[1]
      BY <2>1, <2>2, <2>4 DEF Lists, IsList
    <3>2. q[Len(q)] \in ListEntries(q) /\ q[1] # Null
      BY <2>4, ListFacts
    <3>3. Chain(head[v]) = ListEntries(q)
      BY <2>2, ChainIsEntries
    <3> QED BY <3>1, <3>2, <3>3
  <2> QED BY <2>3, <2>4
<1> QED BY <1>1, InvariantHolds, PTL

(* A tasklet whose SCHED bit is set is on exactly one list or in exactly   *)
(* one hand, and in none when the bit is clear: it is neither lost nor     *)
(* queued twice, whatever schedules, runs, disables, kills and CPUs that   *)
(* go are interleaved.                                                     *)
THEOREM SchedHasOneOwner == Spec => []OneSchedOwner
<1>1. IInv => OneSchedOwner
  <2> SUFFICES ASSUME IInv, NEW t \in Tasklets
               PROVE  Cardinality(Owners(t)) = IF sched[t] THEN 1 ELSE 0
    BY DEF OneSchedOwner
  <2>1. PICK S \in SUBSET Tasklets : Linking(next, head, tail, list, S) /\ Owned(S, sched, Hand)
    BY DEF IInv, SchedOwned
  <2>2. PICK Q \in [Places -> Seq(Tasklets)] : Lists(Q, next, head, tail, list) /\ Linked(Q) = S
    BY <2>1 DEF Linking
  <2>3. \A v \in Vecs : Chain(head[v]) = ListEntries(Q[v])
    BY <2>2, PlaceFacts, ChainIsEntries DEF Lists
  <2>4. \A c \in CPUs : Chain(list[c]) = ListEntries(Q[Taken(c)])
    BY <2>2, PlaceFacts, ChainIsEntries DEF Lists
  <2>5. \A c \in CPUs : InHand(c, t) <=> Hand[c] = t
    BY Actor DEF InHand, Hand, Holding
  <2>6. \A u \in Tasks : this[u] = t /\ pc[u] \in {"schedule", "schedule_first", "kill_wait", "killed"}
                           <=> Hand[u] = t
    BY Actor DEF Hand, Holding
  <2> DEFINE Mine == {p \in Places : t \in ListEntries(Q[p])}
             Hold == {<<c, "hand">> : c \in {x \in CPUs : Hand[x] = t}}
             Task == {<<u, "task">> : u \in {x \in Tasks : Hand[x] = t}}
  <2>7. Owners(t) = Mine \cup Hold \cup Task
    <3>1. {v \in Vecs : t \in Chain(head[v])} \cup {<<c, "list">> : c \in {x \in CPUs : t \in Chain(list[x])}}
            = Mine
      BY <2>3, <2>4, PlaceFacts DEF Taken
    <3>2. {<<c, "hand">> : c \in {x \in CPUs : InHand(x, t)}} = Hold
      BY <2>5
    <3>3. {<<u, "task">> : u \in {x \in Tasks :
             this[x] = t /\ pc[x] \in {"schedule", "schedule_first", "kill_wait", "killed"}}} = Task
      BY <2>6
    <3> HIDE DEF Mine, Hold, Task
    <3> QED BY <3>1, <3>2, <3>3 DEF Owners
  <2>8. /\ sched[t] <=> t \in S \/ \E a \in Hands : Hand[a] = t
        /\ \A a, b \in Hands : Hand[a] = t /\ Hand[b] = t => a = b
        /\ \A a \in Hands : Hand[a] = t => t \notin S
    BY <2>1 DEF Owned
  <2>9. t \in S <=> \E p \in Places : t \in ListEntries(Q[p])
    BY <2>2 DEF Linked, On
  <2>10. CASE t \in S
    <3>1. PICK p \in Places : t \in ListEntries(Q[p])
      BY <2>9, <2>10
    <3>2. Mine = {p}
      BY <2>2, <3>1 DEF Lists
    <3>3. Hold = {} /\ Task = {}
      BY <2>8, <2>10, Actor
    <3>4. Owners(t) = {p}
      BY <2>7, <3>2, <3>3
    <3> QED BY <2>8, <2>10, <3>4, FS_Singleton
  <2>11. CASE t \notin S /\ \E a \in Hands : Hand[a] = t
    <3>1. PICK a \in Hands : Hand[a] = t
      BY <2>11
    <3>2. Mine = {}
      BY <2>9, <2>11
    <3>3. \A b \in Hands : Hand[b] = t <=> b = a
      BY <2>8, <3>1
    <3>4. CASE a \in CPUs
      <4>1. Hold = {<<a, "hand">>} /\ Task = {}
        BY <3>3, <3>4, Actor
      <4>2. Owners(t) = {<<a, "hand">>}
        BY <2>7, <3>2, <4>1
      <4> QED BY <2>8, <3>1, <4>2, FS_Singleton
    <3>5. CASE a \in Tasks
      <4>1. Task = {<<a, "task">>} /\ Hold = {}
        BY <3>3, <3>5, Actor
      <4>2. Owners(t) = {<<a, "task">>}
        BY <2>7, <3>2, <4>1
      <4> QED BY <2>8, <3>1, <4>2, FS_Singleton
    <3> QED BY <3>4, <3>5 DEF Hands
  <2>12. CASE t \notin S /\ ~ \E a \in Hands : Hand[a] = t
    <3>1. Mine = {} /\ Hold = {} /\ Task = {}
      BY <2>9, <2>12, Actor
    <3>2. Owners(t) = {} /\ ~sched[t]
      BY <2>7, <2>8, <2>12, <3>1
    <3> QED BY <3>2, FS_EmptySet
  <2> QED BY <2>10, <2>11, <2>12
<1> QED BY <1>1, InvariantHolds, PTL
=============================================================================
