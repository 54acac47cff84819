----------------------------- MODULE KListProofs -----------------------------
(***************************************************************************)
(* What the list operations of KList do to the set of entries of a list.   *)
(***************************************************************************)
EXTENDS KList, FiniteSetTheorems, TLAPS

(* list_add_tail() adds its argument and nothing else, and links no entry  *)
(* twice if the new one was not on the list.                               *)
LEMMA AddTailFacts ==
  ASSUME NEW S, NEW list \in Seq(S), NEW e \in S
  PROVE  /\ list_add_tail(list, e) \in Seq(S)
         /\ list_add_tail(list, e) # <<>>
         /\ ListEntries(list_add_tail(list, e)) = ListEntries(list) \cup {e}
         /\ ListOK(list) /\ e \notin ListEntries(list) => ListOK(list_add_tail(list, e))
<1> DEFINE new == list_add_tail(list, e)
<1>1. /\ new \in Seq(S)
      /\ Len(new) = Len(list) + 1
      /\ \A i \in 1 .. Len(list) : new[i] = list[i]
      /\ new[Len(list) + 1] = e
      /\ Len(list) \in Nat
  BY DEF list_add_tail
<1>2. new # <<>>
  BY <1>1
<1>3. ListEntries(new) = ListEntries(list) \cup {e}
  BY <1>1 DEF ListEntries
<1>4. ListOK(list) /\ e \notin ListEntries(list) => ListOK(new)
  BY <1>1 DEF ListOK, ListEntries
<1> QED
  BY <1>1, <1>2, <1>3, <1>4

(* list_del() removes its argument and nothing else. *)
LEMMA DelFacts ==
  ASSUME NEW S, NEW list \in Seq(S), ListOK(list), NEW e \in ListEntries(list)
  PROVE  /\ list_del(list, e) \in Seq(S)
         /\ ListEntries(list_del(list, e)) = ListEntries(list) \ {e}
         /\ ListOK(list_del(list, e))
<1> DEFINE n   == Len(list)
           k   == CHOOSE i \in 1 .. n : list[i] = e
           new == [i \in 1 .. n - 1 |-> IF i < k THEN list[i] ELSE list[i + 1]]
<1>1. list_del(list, e) = new
  BY DEF list_del
<1>2. /\ n \in Nat
      /\ k \in 1 .. n
      /\ list[k] = e
  <2>1. \E i \in 1 .. n : list[i] = e
    BY DEF ListEntries
  <2> QED
    BY <2>1
<1>3. \A i \in 1 .. n : list[i] \in S
  OBVIOUS
<1> HIDE DEF k, n
<1>4. n - 1 \in Nat
  BY <1>2
<1>5. new \in Seq(S) /\ Len(new) = n - 1
  <2>1. new \in [1 .. n - 1 -> S]
    BY <1>2, <1>3
  <2> QED
    BY <2>1, <1>4
<1>6. ASSUME NEW i \in 1 .. n - 1
      PROVE  new[i] = IF i < k THEN list[i] ELSE list[i + 1]
  OBVIOUS
<1> HIDE DEF new
<1>7. ListOK(new)
  <2>1. ASSUME NEW i \in 1 .. n - 1, NEW j \in 1 .. n - 1, i # j
        PROVE  new[i] # new[j]
    BY <1>2, <1>6, <2>1 DEF ListOK, n
  <2> QED
    BY <1>5, <2>1 DEF ListOK
<1>8. ASSUME NEW x \in ListEntries(new)
      PROVE  x \in ListEntries(list) \ {e}
  <2>1. PICK i \in 1 .. n - 1 : x = new[i]
    BY <1>5 DEF ListEntries
  <2>2. PICK j \in 1 .. n : j # k /\ x = list[j]
    <3>1. CASE i < k
      BY <1>2, <1>6, <2>1, <3>1
    <3>2. CASE ~(i < k)
      <4>1. i + 1 \in 1 .. n /\ i + 1 # k /\ x = list[i + 1]
        BY <1>2, <1>6, <2>1, <3>2
      <4> QED
        BY <4>1
    <3> QED
      BY <3>1, <3>2
  <2>3. x # e
    BY <1>2, <2>2 DEF ListOK, n
  <2> QED
    BY <2>2, <2>3 DEF ListEntries, n
<1>9. ASSUME NEW x \in ListEntries(list) \ {e}
      PROVE  x \in ListEntries(new)
  <2>1. PICK j \in 1 .. n : x = list[j]
    BY DEF ListEntries, n
  <2>2. j # k
    BY <1>2, <2>1
  <2>3. CASE j < k
    <3>1. j \in 1 .. n - 1 /\ new[j] = x
      BY <1>2, <1>6, <2>1, <2>3
    <3> QED
      BY <3>1, <1>5 DEF ListEntries
  <2>4. CASE j > k
    <3>1. j - 1 \in 1 .. n - 1 /\ new[j - 1] = x
      BY <1>2, <1>6, <2>1, <2>4
    <3> QED
      BY <3>1, <1>5 DEF ListEntries
  <2> QED
    BY <1>2, <2>2, <2>3, <2>4
<1> QED
  BY <1>1, <1>5, <1>7, <1>8, <1>9

(* The first entry of a list, and the list without it. *)
LEMMA FirstFacts ==
  ASSUME NEW S, NEW list \in Seq(S), list # <<>>
  PROVE  /\ Head(list) \in ListEntries(list)
         /\ Head(list) \in S
         /\ Tail(list) \in Seq(S)
         /\ ListOK(list) => /\ ListEntries(Tail(list)) = ListEntries(list) \ {Head(list)}
                            /\ ListOK(Tail(list))
<1>1. /\ Len(list) \in Nat \ {0}
      /\ Head(list) = list[1]
      /\ Tail(list) \in Seq(S)
      /\ Len(Tail(list)) = Len(list) - 1
      /\ \A i \in 1 .. Len(list) - 1 : Tail(list)[i] = list[i + 1]
  OBVIOUS
<1>2. Head(list) \in ListEntries(list) /\ Head(list) \in S
  BY <1>1 DEF ListEntries
<1>3. ASSUME ListOK(list)
      PROVE  /\ ListEntries(Tail(list)) = ListEntries(list) \ {Head(list)}
             /\ ListOK(Tail(list))
  <2>1. ListOK(Tail(list))
    BY <1>1, <1>3 DEF ListOK
  <2>2. ASSUME NEW x \in ListEntries(Tail(list))
        PROVE  x \in ListEntries(list) \ {Head(list)}
    BY <1>1, <1>3 DEF ListOK, ListEntries
  <2>3. ASSUME NEW x \in ListEntries(list) \ {Head(list)}
        PROVE  x \in ListEntries(Tail(list))
    <3>1. PICK i \in 1 .. Len(list) : x = list[i]
      BY DEF ListEntries
    <3>2. i - 1 \in 1 .. Len(list) - 1 /\ x = Tail(list)[i - 1]
      BY <1>1, <3>1
    <3> QED
      BY <1>1, <3>2 DEF ListEntries
  <2> QED
    BY <2>1, <2>2, <2>3
<1> QED
  BY <1>1, <1>2, <1>3

(* What is left of a list without its first entry. *)
LEMMA RestFacts ==
  ASSUME NEW S, NEW list \in Seq(S), list # <<>>
  PROVE  /\ Len(list) \in Nat \ {0}
         /\ Len(list) > 1 => Tail(list) # <<>>
         /\ Len(list) = 1 => ListEntries(Tail(list)) = {}
<1>1. Len(list) \in Nat \ {0} /\ Len(Tail(list)) = Len(list) - 1 /\ Len(<<>>) = 0
  OBVIOUS
<1>2. Len(list) > 1 => Len(Tail(list)) # 0
  BY <1>1
<1>3. Len(list) > 1 => Tail(list) # <<>>
  BY <1>1, <1>2
<1>4. Len(list) = 1 => ListEntries(Tail(list)) = {}
  BY <1>1 DEF ListEntries
<1> QED
  BY <1>1, <1>3, <1>4

(* A list has no entries just when it is empty. *)
LEMMA EmptyFacts ==
  ASSUME NEW S, NEW list \in Seq(S)
  PROVE  ListEntries(list) = {} <=> list = <<>>
<1>1. Len(list) \in Nat /\ (Len(list) = 0 <=> list = <<>>)
  OBVIOUS
<1>2. ListEntries(list) = {} => Len(list) = 0
  <2>1. Len(list) # 0 => list[1] \in ListEntries(list)
    BY <1>1 DEF ListEntries
  <2> QED
    BY <2>1
<1>3. Len(list) = 0 => ListEntries(list) = {}
  BY DEF ListEntries
<1> QED
  BY <1>1, <1>2, <1>3

(* The entries of a list are as many as its length, as none is linked      *)
(* twice.                                                                  *)
LEMMA CountFacts ==
  ASSUME NEW S, NEW list \in Seq(S), ListOK(list)
  PROVE  /\ IsFiniteSet(ListEntries(list))
         /\ Cardinality(ListEntries(list)) = Len(list)
<1> DEFINE n == Len(list)
           T == ListEntries(list)
           f == [i \in 1 .. n |-> list[i]]
<1>1. n \in Nat
  OBVIOUS
<1>2. f \in Injection(1 .. n, T)
  BY DEF Injection, IsInjective, ListEntries, ListOK
<1>3. f \in Surjection(1 .. n, T)
  BY DEF Surjection, ListEntries
<1>4. ExistsBijection(1 .. n, T)
  BY <1>2, <1>3 DEF ExistsBijection, Bijection
<1>5. IsFiniteSet(1 .. n) /\ Cardinality(1 .. n) = n
  BY <1>1, FS_Interval
<1> HIDE DEF n, T
<1>6. IsFiniteSet(T) /\ Cardinality(T) = n
  BY <1>4, <1>5, FS_Bijection
<1> QED
  BY <1>6 DEF n, T

(* The first n entries of a list, and the others: what the loops do that   *)
(* take waiters off the front.                                             *)
LEMMA PrefixFacts ==
  ASSUME NEW S, NEW list \in Seq(S), ListOK(list), NEW n \in 0 .. Len(list)
  PROVE  LET first == SubSeq(list, 1, n)
             rest  == SubSeq(list, n + 1, Len(list))
         IN  /\ first \in Seq(S) /\ rest \in Seq(S)
             /\ ListOK(first) /\ ListOK(rest)
             /\ Len(first) = n /\ Len(rest) = Len(list) - n
             /\ ListEntries(first) = {list[i] : i \in 1 .. n}
             /\ ListEntries(first) \cup ListEntries(rest) = ListEntries(list)
             /\ ListEntries(first) \cap ListEntries(rest) = {}
             /\ rest # <<>> => n < Len(list) /\ Head(rest) = list[n + 1]
<1> DEFINE first == SubSeq(list, 1, n)
           rest  == SubSeq(list, n + 1, Len(list))
           k     == Len(list)
<1>1. k \in Nat /\ n \in Nat /\ n <= k
  OBVIOUS
<1>2. /\ first \in Seq(S) /\ Len(first) = n
      /\ \A i \in 1 .. n : first[i] = list[i]
  OBVIOUS
<1>3. /\ rest \in Seq(S) /\ Len(rest) = k - n
      /\ \A i \in 1 .. k - n : rest[i] = list[n + i]
  OBVIOUS
<1> HIDE DEF first, rest
<1>4. ListOK(first) /\ ListOK(rest)
  <2>1. ListOK(first)
    BY <1>1, <1>2 DEF ListOK
  <2>2. ASSUME NEW i \in 1 .. k - n, NEW j \in 1 .. k - n, i # j
        PROVE  rest[i] # rest[j]
    <3>1. n + i \in 1 .. k /\ n + j \in 1 .. k /\ n + i # n + j
      BY <1>1, <2>2
    <3> QED
      BY <1>3, <3>1 DEF ListOK
  <2> QED
    BY <1>3, <2>1, <2>2 DEF ListOK
<1>5. ListEntries(first) = {list[i] : i \in 1 .. n}
  BY <1>2 DEF ListEntries
<1>6. ListEntries(rest) = {list[i] : i \in n + 1 .. k}
  <2>1. ASSUME NEW x \in ListEntries(rest)
        PROVE  \E i \in n + 1 .. k : x = list[i]
    <3>1. PICK i \in 1 .. k - n : x = rest[i]
      BY <1>3 DEF ListEntries
    <3>2. n + i \in n + 1 .. k /\ x = list[n + i]
      BY <1>1, <1>3, <3>1
    <3> QED
      BY <3>2
  <2>2. ASSUME NEW i \in n + 1 .. k
        PROVE  list[i] \in ListEntries(rest)
    <3>1. i - n \in 1 .. k - n /\ n + (i - n) = i
      BY <1>1
    <3>2. rest[i - n] = list[i]
      BY <1>3, <3>1
    <3> QED
      BY <1>3, <3>1, <3>2 DEF ListEntries
  <2> QED
    BY <2>1, <2>2
<1>7. ListEntries(first) \cup ListEntries(rest) = ListEntries(list)
  <2>1. \A i : i \in 1 .. k <=> i \in 1 .. n \/ i \in n + 1 .. k
    BY <1>1
  <2> QED
    BY <1>5, <1>6, <2>1 DEF ListEntries
<1>8. ListEntries(first) \cap ListEntries(rest) = {}
  <2>1. ASSUME NEW i \in 1 .. n, NEW j \in n + 1 .. k
        PROVE  list[i] # list[j]
    BY <1>1 DEF ListOK
  <2> QED
    BY <1>5, <1>6, <2>1
<1>9. rest # <<>> => n < k /\ Head(rest) = list[n + 1]
  <2>1. rest # <<>> => Len(rest) # 0 /\ Head(rest) = rest[1]
    BY <1>3
  <2> QED
    BY <1>1, <1>3, <2>1
<1> QED
  BY <1>2, <1>3, <1>4, <1>5, <1>7, <1>8, <1>9 DEF first, rest

(* A set of natural numbers that is not empty has a least member: the      *)
(* first entry of a kind, say.                                             *)
LEMMA LeastNat ==
  ASSUME NEW T \in SUBSET Nat, T # {}
  PROVE  \E x \in T : \A y \in T : x <= y
<1> DEFINE R == OpToRel(<, Nat)
<1>1. IsWellFoundedOn(R, Nat)
  BY NatLessThanWellFounded
<1>2. \A x, y \in Nat : x < y => <<x, y>> \in R
  BY DEF OpToRel
<1>3. PICK x \in T : \A y \in T : ~(<<y, x>> \in R)
  <2> HIDE DEF R
  <2> QED
    BY <1>1, WFMin
<1>4. \A y \in T : ~(y < x)
  BY <1>2, <1>3
<1> QED
  BY <1>4

(* x is on the list, ahead of y: it is reached first. *)
Ahead(list, x, y) ==
  \E i, j \in 1 .. Len(list) : i < j /\ list[i] = x /\ list[j] = y

(* list_add_tail() puts its argument behind all others. *)
LEMMA AddTailOrder ==
  ASSUME NEW S, NEW list \in Seq(S), NEW e \in S
  PROVE  /\ \A x, y : Ahead(list, x, y) => Ahead(list_add_tail(list, e), x, y)
         /\ \A x \in ListEntries(list) : Ahead(list_add_tail(list, e), x, e)
<1> DEFINE new == list_add_tail(list, e)
<1>1. /\ Len(list) \in Nat /\ Len(new) = Len(list) + 1 /\ new[Len(list) + 1] = e
      /\ \A i \in 1 .. Len(list) : new[i] = list[i]
  BY DEF list_add_tail
<1> HIDE DEF new
<1>2. ASSUME NEW x, NEW y, Ahead(list, x, y)
      PROVE  Ahead(new, x, y)
  <2>1. PICK i \in 1 .. Len(list), j \in 1 .. Len(list) : i < j /\ list[i] = x /\ list[j] = y
    BY <1>2 DEF Ahead
  <2>2. i \in 1 .. Len(new) /\ j \in 1 .. Len(new) /\ new[i] = x /\ new[j] = y
    BY <1>1, <2>1
  <2> QED
    BY <2>1, <2>2 DEF Ahead
<1>3. ASSUME NEW x \in ListEntries(list)
      PROVE  Ahead(new, x, e)
  <2>1. PICK i \in 1 .. Len(list) : list[i] = x
    BY DEF ListEntries
  <2>2. /\ i \in 1 .. Len(new) /\ Len(list) + 1 \in 1 .. Len(new) /\ i < Len(list) + 1
        /\ new[i] = x
    BY <1>1, <2>1
  <2> QED
    BY <1>1, <2>2 DEF Ahead
<1> QED
  BY <1>2, <1>3 DEF new

(* An entry that is put at some place of a list, with the ones from that   *)
(* place on behind it.                                                     *)
LEMMA PutFacts ==
  ASSUME NEW S, NEW list \in Seq(S), NEW e \in S, NEW new \in Seq(S), NEW k \in 0 .. Len(list),
         Len(new) = Len(list) + 1,
         \A i \in 1 .. k : new[i] = list[i],
         new[k + 1] = e,
         \A i \in k + 1 .. Len(list) : new[i + 1] = list[i]
  PROVE  /\ new # <<>>
         /\ ListEntries(new) = ListEntries(list) \cup {e}
         /\ ListOK(list) /\ e \notin ListEntries(list) => ListOK(new)
         /\ \A x, y : Ahead(list, x, y) => Ahead(new, x, y)
         /\ \A i \in 1 .. k : Ahead(new, list[i], e)
<1> DEFINE n     == Len(list)
           to(i) == IF i <= k THEN i ELSE i + 1
<1>1. n \in Nat /\ k \in Nat /\ k <= n
  OBVIOUS
<1>2. ASSUME NEW i \in 1 .. n
      PROVE  to(i) \in 1 .. n + 1 /\ to(i) # k + 1 /\ new[to(i)] = list[i]
  BY <1>1
<1>3. ASSUME NEW j \in 1 .. n + 1, j # k + 1
      PROVE  \E i \in 1 .. n : j = to(i)
  <2>1. CASE j <= k
    BY <1>1, <2>1
  <2>2. CASE j > k
    <3>1. j - 1 \in 1 .. n /\ j = to(j - 1)
      BY <1>1, <1>3, <2>2
    <3> QED
      BY <3>1
  <2> QED
    BY <1>1, <2>1, <2>2
<1>4. ASSUME NEW i \in 1 .. n, NEW j \in 1 .. n, i < j
      PROVE  to(i) < to(j)
  BY <1>1, <1>4
<1>5. \A i \in 1 .. k : to(i) < k + 1
  BY <1>1
<1> HIDE DEF to
<1>6. new # <<>>
  BY <1>1
<1>7. ListEntries(new) = ListEntries(list) \cup {e}
  <2>1. ASSUME NEW x \in ListEntries(new)
        PROVE  x \in ListEntries(list) \cup {e}
    <3>1. PICK j \in 1 .. n + 1 : x = new[j]
      BY DEF ListEntries
    <3>2. CASE j = k + 1
      BY <3>1, <3>2
    <3>3. CASE j # k + 1
      <4>1. PICK i \in 1 .. n : j = to(i)
        BY <1>3, <3>3
      <4> QED
        BY <1>2, <3>1, <4>1 DEF ListEntries
    <3> QED
      BY <3>2, <3>3
  <2>2. ASSUME NEW x \in ListEntries(list)
        PROVE  x \in ListEntries(new)
    <3>1. PICK i \in 1 .. n : x = list[i]
      BY DEF ListEntries
    <3> QED
      BY <1>2, <3>1 DEF ListEntries
  <2>3. e \in ListEntries(new)
    BY <1>1 DEF ListEntries
  <2> QED
    BY <2>1, <2>2, <2>3
<1>8. ASSUME ListOK(list), e \notin ListEntries(list)
      PROVE  ListOK(new)
  <2>1. ASSUME NEW i \in 1 .. n + 1, NEW j \in 1 .. n + 1, i # j
        PROVE  new[i] # new[j]
    <3>1. CASE i = k + 1
      <4>1. PICK h \in 1 .. n : j = to(h)
        BY <1>3, <2>1, <3>1
      <4> QED
        BY <1>2, <1>8, <3>1, <4>1 DEF ListEntries
    <3>2. CASE j = k + 1
      <4>1. PICK h \in 1 .. n : i = to(h)
        BY <1>3, <2>1, <3>2
      <4> QED
        BY <1>2, <1>8, <3>2, <4>1 DEF ListEntries
    <3>3. CASE i # k + 1 /\ j # k + 1
      <4>1. PICK g \in 1 .. n : i = to(g)
        BY <1>3, <3>3
      <4>2. PICK h \in 1 .. n : j = to(h)
        BY <1>3, <3>3
      <4>3. g # h
        BY <2>1, <4>1, <4>2
      <4> QED
        BY <1>2, <1>8, <4>1, <4>2, <4>3 DEF ListOK
    <3> QED
      BY <3>1, <3>2, <3>3
  <2> QED
    BY <2>1 DEF ListOK
<1>9. ASSUME NEW x, NEW y, Ahead(list, x, y)
      PROVE  Ahead(new, x, y)
  <2>1. PICK i \in 1 .. n, j \in 1 .. n : i < j /\ list[i] = x /\ list[j] = y
    BY <1>9 DEF Ahead
  <2>2. /\ to(i) \in 1 .. Len(new) /\ to(j) \in 1 .. Len(new) /\ to(i) < to(j)
        /\ new[to(i)] = x /\ new[to(j)] = y
    BY <1>2, <1>4, <2>1
  <2> QED
    BY <2>2 DEF Ahead
<1>10. ASSUME NEW i \in 1 .. k
       PROVE  Ahead(new, list[i], e)
  <2>1. i \in 1 .. n /\ k + 1 \in 1 .. Len(new)
    BY <1>1
  <2>2. to(i) \in 1 .. Len(new) /\ to(i) < k + 1 /\ new[to(i)] = list[i]
    BY <1>2, <1>5, <2>1
  <2> QED
    BY <2>1, <2>2 DEF Ahead
<1> QED
  BY <1>6, <1>7, <1>8, <1>9, <1>10

(* A barrier in front of all entries. *)
LEMMA AddFirstFacts ==
  ASSUME NEW S, NEW list \in Seq(S), NEW e \in S
  PROVE  /\ AddFirst(list, e) \in Seq(S)
         /\ AddFirst(list, e) # <<>>
         /\ ListEntries(AddFirst(list, e)) = ListEntries(list) \cup {e}
         /\ ListOK(list) /\ e \notin ListEntries(list) => ListOK(AddFirst(list, e))
         /\ \A x, y : Ahead(list, x, y) => Ahead(AddFirst(list, e), x, y)
<1>1. PICK new : new = <<e>> \o list
  OBVIOUS
<1>2. /\ new \in Seq(S) /\ Len(new) = Len(list) + 1 /\ new[1] = e
      /\ \A i \in 1 .. Len(list) : new[i + 1] = list[i]
  BY <1>1
<1>3. PICK k : k = 0
  OBVIOUS
<1>4. /\ k \in 0 .. Len(list)
      /\ \A i \in 1 .. k : new[i] = list[i]
      /\ new[k + 1] = e
      /\ \A i \in k + 1 .. Len(list) : new[i + 1] = list[i]
  BY <1>2, <1>3
<1>5. AddFirst(list, e) = new
  BY <1>1 DEF AddFirst
<1> QED
  BY <1>2, <1>4, <1>5, PutFacts

(* A barrier right behind one of the entries. *)
LEMMA AddBehindFacts ==
  ASSUME NEW S, NEW list \in Seq(S), NEW e \in S, NEW prev \in ListEntries(list)
  PROVE  /\ AddBehind(list, prev, e) \in Seq(S)
         /\ AddBehind(list, prev, e) # <<>>
         /\ ListEntries(AddBehind(list, prev, e)) = ListEntries(list) \cup {e}
         /\ ListOK(list) /\ e \notin ListEntries(list) => ListOK(AddBehind(list, prev, e))
         /\ \A x, y : Ahead(list, x, y) => Ahead(AddBehind(list, prev, e), x, y)
         /\ Ahead(AddBehind(list, prev, e), prev, e)
<1>1. PICK n \in Nat : n = Len(list)
  OBVIOUS
<1>2. PICK k : k = CHOOSE i \in 1 .. n : list[i] = prev
  OBVIOUS
<1>3. k \in 1 .. n /\ list[k] = prev
  <2>1. \E i \in 1 .. n : list[i] = prev
    BY <1>1 DEF ListEntries
  <2> QED
    BY <1>2, <2>1
<1>4. PICK first, rest : first = SubSeq(list, 1, k) /\ rest = SubSeq(list, k + 1, n)
  OBVIOUS
<1>5. /\ first \in Seq(S) /\ Len(first) = k
      /\ \A i \in 1 .. k : first[i] = list[i]
  BY <1>1, <1>3, <1>4
<1>6. /\ rest \in Seq(S) /\ Len(rest) = n - k
      /\ \A i \in 1 .. n - k : rest[i] = list[k + i]
  BY <1>1, <1>3, <1>4
<1>7. PICK new : new = first \o <<e>> \o rest
  OBVIOUS
<1>8. AddBehind(list, prev, e) = new
  BY <1>1, <1>2, <1>4, <1>7 DEF AddBehind
<1>9. PICK one : one = first \o <<e>> /\ new = one \o rest
  BY <1>7
<1>10. /\ one \in Seq(S) /\ Len(one) = k + 1 /\ one[k + 1] = e
       /\ \A i \in 1 .. k : one[i] = list[i]
  BY <1>3, <1>5, <1>9
<1>11. /\ new \in Seq(S) /\ Len(new) = n + 1 /\ new[k + 1] = e
       /\ \A i \in 1 .. k : new[i] = list[i]
       /\ \A i \in 1 .. n - k : new[k + 1 + i] = rest[i]
  <2>0. one \in Seq(S) /\ rest \in Seq(S) /\ new = one \o rest
    BY <1>6, <1>9, <1>10
  <2>1. new \in Seq(S) /\ Len(new) = Len(one) + Len(rest)
    BY ONLY <2>0
  <2>2. \A i \in 1 .. k + 1 : new[i] = one[i]
    BY <1>3, <1>6, <1>9, <1>10
  <2>3. \A i \in 1 .. n - k : new[k + 1 + i] = rest[i]
    BY <1>3, <1>6, <1>9, <1>10
  <2>4. Len(new) = n + 1
    BY <1>1, <1>3, <1>6, <1>10, <2>1
  <2>5. new[k + 1] = e /\ \A i \in 1 .. k : new[i] = list[i]
    BY <1>3, <1>10, <2>2
  <2> QED
    BY <2>1, <2>3, <2>4, <2>5
<1>12. ASSUME NEW i \in k + 1 .. n
       PROVE  new[i + 1] = list[i]
  <2>1. PICK j \in 1 .. n - k : j = i - k
    BY <1>1, <1>3
  <2>2. i + 1 = k + 1 + j /\ i = k + j
    BY <1>3, <2>1
  <2> QED
    BY <1>6, <1>11, <2>2
<1>13. /\ k \in 0 .. Len(list) /\ k \in 1 .. k
       /\ new \in Seq(S) /\ Len(new) = Len(list) + 1
       /\ \A i \in 1 .. k : new[i] = list[i]
       /\ new[k + 1] = e
       /\ \A i \in k + 1 .. Len(list) : new[i + 1] = list[i]
  BY <1>1, <1>3, <1>11, <1>12
<1>14. /\ new # <<>>
       /\ ListEntries(new) = ListEntries(list) \cup {e}
       /\ ListOK(list) /\ e \notin ListEntries(list) => ListOK(new)
       /\ \A x, y : Ahead(list, x, y) => Ahead(new, x, y)
       /\ \A i \in 1 .. k : Ahead(new, list[i], e)
  BY <1>13, PutFacts
<1> QED
  BY <1>3, <1>8, <1>13, <1>14

(* list_del() and taking the first entry leave the others in their order. *)
LEMMA DelOrder ==
  ASSUME NEW S, NEW list \in Seq(S), NEW e \in ListEntries(list), NEW x, NEW y,
         Ahead(list, x, y), x # e, y # e
  PROVE  Ahead(list_del(list, e), x, y)
<1>1. PICK n \in Nat : n = Len(list)
  OBVIOUS
<1>2. PICK k : k = CHOOSE i \in 1 .. n : list[i] = e
  OBVIOUS
<1>3. k \in 1 .. n /\ list[k] = e
  <2>1. \E i \in 1 .. n : list[i] = e
    BY <1>1 DEF ListEntries
  <2> QED
    BY <1>2, <2>1
<1>4. PICK new : new = [i \in 1 .. n - 1 |-> IF i < k THEN list[i] ELSE list[i + 1]]
  OBVIOUS
<1>5. list_del(list, e) = new
  BY <1>1, <1>2, <1>4 DEF list_del
<1>6. Len(new) = n - 1
  <2>1. new \in [1 .. n - 1 -> S] /\ n - 1 \in Nat
    BY <1>1, <1>3, <1>4
  <2> QED
    BY <2>1
<1>7. PICK i \in 1 .. n, j \in 1 .. n : i < j /\ list[i] = x /\ list[j] = y
  BY <1>1 DEF Ahead
<1>8. i # k /\ j # k
  BY <1>3, <1>7
<1>9. PICK p : p = IF i < k THEN i ELSE i - 1
  OBVIOUS
<1>10. PICK q : q = IF j < k THEN j ELSE j - 1
  OBVIOUS
<1>11. p \in 1 .. n - 1 /\ q \in 1 .. n - 1 /\ p < q
  BY <1>3, <1>7, <1>8, <1>9, <1>10
<1>12. new[p] = x
  BY <1>3, <1>4, <1>7, <1>8, <1>9, <1>11
<1>13. new[q] = y
  BY <1>3, <1>4, <1>7, <1>8, <1>10, <1>11
<1> QED
  BY <1>5, <1>6, <1>11, <1>12, <1>13 DEF Ahead

LEMMA TailOrder ==
  ASSUME NEW S, NEW list \in Seq(S), list # <<>>, ListOK(list), NEW x, NEW y, Ahead(list, x, y)
  PROVE  y # Head(list) /\ (x # Head(list) => Ahead(Tail(list), x, y))
<1>1. /\ Len(list) \in Nat \ {0}
      /\ Head(list) = list[1]
      /\ Len(Tail(list)) = Len(list) - 1
      /\ \A i \in 1 .. Len(list) - 1 : Tail(list)[i] = list[i + 1]
  OBVIOUS
<1>2. PICK i \in 1 .. Len(list), j \in 1 .. Len(list) : i < j /\ list[i] = x /\ list[j] = y
  BY DEF Ahead
<1>3. y # Head(list)
  BY <1>1, <1>2 DEF ListOK
<1>4. ASSUME x # Head(list)
      PROVE  Ahead(Tail(list), x, y)
  <2>1. i - 1 \in 1 .. Len(list) - 1 /\ j - 1 \in 1 .. Len(list) - 1 /\ i - 1 < j - 1
    BY <1>1, <1>2, <1>4
  <2>2. Tail(list)[i - 1] = x /\ Tail(list)[j - 1] = y
    BY <1>1, <1>2, <2>1
  <2> QED
    BY <1>1, <2>1, <2>2 DEF Ahead
<1> QED
  BY <1>3, <1>4
==============================================================================
