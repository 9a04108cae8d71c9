-------------------------- MODULE KernelListProofs --------------------------
(***************************************************************************)
(* What the list operations of KernelList keep and change, for lists of    *)
(* any length.  Every proof about the queues rests on these lemmas and     *)
(* treats Keep as opaque.                                                  *)
(***************************************************************************)
EXTENDS KernelList, FiniteSetTheorems, TLAPS

(***************************************************************************)
(* The indices kept by Keep are finitely many and no more than Len(q).     *)
(***************************************************************************)
LEMMA KeptIndicesFinite ==
  ASSUME NEW T, NEW q \in Seq(T), NEW S
  PROVE  /\ IsFiniteSet(KeptIndices(q, S))
         /\ Cardinality(KeptIndices(q, S)) \in Nat
<1>1. Len(q) \in Nat
  OBVIOUS
<1>2. IsFiniteSet(1..Len(q))
  BY <1>1, FS_Interval
<1>3. KeptIndices(q, S) \in SUBSET (1..Len(q))
  BY DEF KeptIndices
<1>. QED  BY <1>2, <1>3, FS_Subset, FS_CardinalityType

(***************************************************************************)
(* Rank numbers the elements of a finite set of naturals 1, 2, ... without *)
(* a gap and without a repetition.                                         *)
(***************************************************************************)
LEMMA RankBijective ==
  ASSUME NEW I \in SUBSET Nat, IsFiniteSet(I)
  PROVE  /\ \A i \in I : Rank(I, i) \in 1..Cardinality(I)
         /\ \A i, j \in I : Rank(I, i) = Rank(I, j) => i = j
         /\ \A k \in 1..Cardinality(I) : \E i \in I : Rank(I, i) = k
<1> DEFINE Below(i) == {j \in I : j <= i}
<1>1. ASSUME NEW i \in I
      PROVE  IsFiniteSet(Below(i)) /\ Rank(I, i) \in Nat
  <2>1. Below(i) \in SUBSET I
    OBVIOUS
  <2>. QED  BY <2>1, FS_Subset, FS_CardinalityType DEF Rank
<1>2. Cardinality(I) \in Nat
  BY FS_CardinalityType
<1>3. ASSUME NEW i \in I
      PROVE  Rank(I, i) \in 1..Cardinality(I)
  <2>1. Rank(I, i) <= Cardinality(I)
    <3>1. Below(i) \in SUBSET I
      OBVIOUS
    <3>. QED  BY <3>1, FS_Subset DEF Rank
  <2>2. Rank(I, i) # 0
    <3>1. i \in Below(i)
      OBVIOUS
    <3>. QED  BY <3>1, <1>1, FS_EmptySet DEF Rank
  <2>3. Rank(I, i) \in Nat
    BY <1>1
  <2>. QED  BY <2>1, <2>2, <2>3, <1>2
<1>4. ASSUME NEW i \in I, NEW j \in I, i < j
      PROVE  Rank(I, i) # Rank(I, j)
  <2>1. Below(i) \in SUBSET Below(j)
    <3>1. \A k \in I : k <= i => k <= j
      BY <1>4
    <3>. QED  BY <3>1
  <2>2. j \in Below(j) /\ j \notin Below(i)
    BY <1>4
  <2>. QED  BY <2>1, <2>2, <1>1, FS_Subset DEF Rank
<1>5. \A i, j \in I : Rank(I, i) = Rank(I, j) => i = j
  BY <1>4
<1>6. \A k \in 1..Cardinality(I) : \E i \in I : Rank(I, i) = k
  <2> DEFINE f == [i \in I |-> Rank(I, i)]
             n == Cardinality(I)
  <2>1. f \in Injection(I, 1..n)
    BY <1>3, <1>5 DEF Injection, IsInjective
  <2>2. IsFiniteSet(1..n) /\ Cardinality(1..n) = n
    BY <1>2, FS_Interval
  <2>3. f \in Surjection(I, 1..n)
    <3> HIDE DEF f
    <3>. QED  BY <2>1, <2>2, FS_Injection
  <2>. QED  BY <2>3 DEF Surjection
<1>. QED  BY <1>3, <1>5, <1>6

(***************************************************************************)
(* Keep(q, S) is a list of the entries of q that are in S; an entry that   *)
(* occurs once in q occurs once in it.                                     *)
(***************************************************************************)
LEMMA KeepProperties ==
  ASSUME NEW T, NEW q \in Seq(T), NEW S
  PROVE  /\ Keep(q, S) \in Seq(T)
         /\ Len(Keep(q, S)) = Cardinality(KeptIndices(q, S))
         /\ Entries(Keep(q, S)) = Entries(q) \cap S
         /\ NoRepeats(q) => NoRepeats(Keep(q, S))
<1> DEFINE I == KeptIndices(q, S)
           n == Cardinality(I)
           at(k) == CHOOSE i \in I : Rank(I, i) = k
           r == Keep(q, S)
<1>1. n \in Nat /\ I \in SUBSET Nat /\ IsFiniteSet(I)
  <2>1. I \in SUBSET Nat
    BY DEF KeptIndices
  <2>. QED  BY <2>1, KeptIndicesFinite
<1>2. \A k \in 1..n : at(k) \in I /\ Rank(I, at(k)) = k
  BY <1>1, RankBijective
<1>3. r = [k \in 1..n |-> q[at(k)]]
  BY DEF Keep
<1>4. \A i \in I : i \in 1..Len(q) /\ q[i] \in S /\ q[i] \in T
  BY DEF KeptIndices
<1> HIDE DEF I, n, at, r
<1>5. r \in Seq(T) /\ Len(r) = n
  <2>1. \A k \in 1..n : q[at(k)] \in T
    BY <1>2, <1>4
  <2>2. r \in [1..n -> T]
    BY <2>1, <1>3
  <2>. QED  BY <2>2, <1>1
<1>6. Entries(r) = Entries(q) \cap S
  <2>1. ASSUME NEW x \in Entries(r)
        PROVE  x \in Entries(q) \cap S
    BY <2>1, <1>2, <1>3, <1>4, <1>5 DEF Entries
  <2>2. ASSUME NEW x \in Entries(q) \cap S
        PROVE  x \in Entries(r)
    <3>1. PICK i \in 1..Len(q) : x = q[i]
      BY DEF Entries
    <3>2. i \in I
      BY <3>1 DEF I, KeptIndices
    <3>3. Rank(I, i) \in 1..n
      BY <3>2, <1>1, RankBijective DEF n
    <3>4. at(Rank(I, i)) = i
      <4>1. at(Rank(I, i)) \in I /\ Rank(I, at(Rank(I, i))) = Rank(I, i)
        BY <3>3, <1>2
      <4>2. \A a, b \in I : Rank(I, a) = Rank(I, b) => a = b
        BY <1>1, RankBijective
      <4>. QED  BY <3>2, <4>1, <4>2
    <3>. QED  BY <3>1, <3>3, <3>4, <1>3, <1>5 DEF Entries
  <2>. QED  BY <2>1, <2>2
<1>7. ASSUME NoRepeats(q)
      PROVE  NoRepeats(r)
  <2>1. ASSUME NEW k \in 1..n, NEW l \in 1..n, r[k] = r[l]
        PROVE  k = l
    <3>1. at(k) = at(l)
      BY <2>1, <1>2, <1>3, <1>4, <1>7 DEF NoRepeats
    <3>. QED  BY <3>1, <1>2
  <2>. QED  BY <2>1, <1>5 DEF NoRepeats
<1>. QED  BY <1>5, <1>6, <1>7 DEF r, n, I

(***************************************************************************)
(* The tasks a wake-up moves and the tasks it leaves are together as many  *)
(* as the queue had.                                                       *)
(***************************************************************************)
LEMMA KeepSplits ==
  ASSUME NEW T, NEW q \in Seq(T), NEW S
  PROVE  Len(Keep(q, S)) + Len(Keep(q, Entries(q) \ S)) = Len(q)
<1> DEFINE I == KeptIndices(q, S)
           J == KeptIndices(q, Entries(q) \ S)
<1>1. IsFiniteSet(I) /\ IsFiniteSet(J)
  BY KeptIndicesFinite
<1>2. I \cap J = {} /\ I \cup J = 1..Len(q)
  BY DEF KeptIndices, Entries
<1>3. Cardinality(I \cup J)
        = Cardinality(I) + Cardinality(J) - Cardinality(I \cap J)
  BY <1>1, FS_Union
<1>4. Cardinality(I \cap J) = 0
  BY <1>2, FS_EmptySet
<1>5. Cardinality(I \cup J) = Len(q)
  <2>1. Len(q) \in Nat
    OBVIOUS
  <2>2. \A n \in Nat : Cardinality(1..n) = n
    BY FS_Interval
  <2>. QED  BY <1>2, <2>1, <2>2
<1>6. Cardinality(I) \in Nat /\ Cardinality(J) \in Nat
  BY <1>1, FS_CardinalityType
<1>7. Len(Keep(q, S)) = Cardinality(I)
      /\ Len(Keep(q, Entries(q) \ S)) = Cardinality(J)
  BY KeepProperties
<1>. QED  BY <1>3, <1>4, <1>5, <1>6, <1>7

(***************************************************************************)
(* Concatenation, and with it list_add and list_add_tail.                  *)
(***************************************************************************)
LEMMA ConcatProperties ==
  ASSUME NEW T, NEW q \in Seq(T), NEW r \in Seq(T)
  PROVE  /\ q \o r \in Seq(T)
         /\ Len(q \o r) = Len(q) + Len(r)
         /\ Entries(q \o r) = Entries(q) \cup Entries(r)
         /\ NoRepeats(q) /\ NoRepeats(r) /\ Entries(q) \cap Entries(r) = {}
              => NoRepeats(q \o r)
<1>1. /\ q \o r \in Seq(T)
      /\ Len(q \o r) = Len(q) + Len(r)
      /\ \A i \in 1..Len(q) : (q \o r)[i] = q[i]
      /\ \A i \in 1..Len(r) : (q \o r)[Len(q) + i] = r[i]
      /\ Len(q) \in Nat /\ Len(r) \in Nat
  OBVIOUS
<1> DEFINE s == q \o r
<1>2. \A i \in 1..Len(s) :
        \/ i \in 1..Len(q) /\ s[i] = q[i]
        \/ i - Len(q) \in 1..Len(r) /\ s[i] = r[i - Len(q)]
  OBVIOUS
<1>. HIDE DEF s
<1>3. Entries(s) = Entries(q) \cup Entries(r)
  <2>1. \A x \in Entries(s) : x \in Entries(q) \cup Entries(r)
    BY <1>2 DEF Entries
  <2>2. \A x \in Entries(q) : x \in Entries(s)
    BY <1>1 DEF Entries, s
  <2>3. \A x \in Entries(r) : x \in Entries(s)
    <3>1. \A i \in 1..Len(r) : Len(q) + i \in 1..Len(s)
      BY <1>1 DEF s
    <3>. QED  BY <1>1, <3>1 DEF Entries, s
  <2>. QED  BY <2>1, <2>2, <2>3
<1>4. ASSUME NoRepeats(q), NoRepeats(r), Entries(q) \cap Entries(r) = {}
      PROVE  NoRepeats(s)
  <2>1. \A i \in 1..Len(q), j \in 1..Len(r) : q[i] # r[j]
    BY <1>4 DEF Entries
  <2>2. ASSUME NEW i \in 1..Len(s), NEW j \in 1..Len(s), i # j PROVE s[i] # s[j]
    <3>1. CASE i \in 1..Len(q) /\ s[i] = q[i] /\ j \in 1..Len(q) /\ s[j] = q[j]
      BY <1>4, <2>2, <3>1 DEF NoRepeats
    <3>2. CASE i \in 1..Len(q) /\ s[i] = q[i] /\ j - Len(q) \in 1..Len(r) /\ s[j] = r[j - Len(q)]
      BY <2>1, <3>2
    <3>3. CASE i - Len(q) \in 1..Len(r) /\ s[i] = r[i - Len(q)] /\ j \in 1..Len(q) /\ s[j] = q[j]
      BY <2>1, <3>3
    <3>4. CASE /\ i - Len(q) \in 1..Len(r) /\ s[i] = r[i - Len(q)]
               /\ j - Len(q) \in 1..Len(r) /\ s[j] = r[j - Len(q)]
      <4>1. i - Len(q) # j - Len(q)
        BY <1>1, <2>2
      <4>. QED  BY <1>4, <3>4, <4>1 DEF NoRepeats
    <3>. QED  BY <1>2, <3>1, <3>2, <3>3, <3>4
  <2>. QED  BY <2>2 DEF NoRepeats
<1>. QED  BY <1>1, <1>3, <1>4 DEF s

(***************************************************************************)
(* Adding an entry that is not in the list at its head (list_add) adds     *)
(* exactly that entry and keeps the list free of repetitions.              *)
(***************************************************************************)
LEMMA AddProperties ==
  ASSUME NEW T, NEW q \in Seq(T), NEW x \in T
  PROVE  /\ list_add(x, q) \in Seq(T)
         /\ Len(list_add(x, q)) = Len(q) + 1
         /\ Entries(list_add(x, q)) = Entries(q) \cup {x}
         /\ NoRepeats(q) /\ x \notin Entries(q) => NoRepeats(list_add(x, q))
<1>1. <<x>> \in Seq(T) /\ Len(<<x>>) = 1 /\ Entries(<<x>>) = {x}
  BY DEF Entries
<1>2. NoRepeats(<<x>>)
  BY DEF NoRepeats
<1> DEFINE one == <<x>>
<1> HIDE DEF one
<1>3. /\ one \o q \in Seq(T)
      /\ Len(one \o q) = Len(one) + Len(q)
      /\ Entries(one \o q) = Entries(one) \cup Entries(q)
      /\ NoRepeats(one) /\ NoRepeats(q) /\ Entries(one) \cap Entries(q) = {}
           => NoRepeats(one \o q)
  <2>1. one \in Seq(T)
    BY <1>1 DEF one
  <2>. QED  BY <2>1, ConcatProperties
<1>4. one \o q = list_add(x, q)
  BY DEF one, list_add
<1>5. Len(one) = 1 /\ Entries(one) = {x} /\ NoRepeats(one)
  BY <1>1, <1>2 DEF one
<1>6. Len(q) \in Nat
  OBVIOUS
<1> HIDE DEF list_add
<1>. QED  BY <1>3, <1>4, <1>5, <1>6

(***************************************************************************)
(* The same for list_add_tail.                                             *)
(***************************************************************************)
LEMMA AddTailProperties ==
  ASSUME NEW T, NEW q \in Seq(T), NEW x \in T
  PROVE  /\ list_add_tail(x, q) \in Seq(T)
         /\ Len(list_add_tail(x, q)) = Len(q) + 1
         /\ Entries(list_add_tail(x, q)) = Entries(q) \cup {x}
         /\ NoRepeats(q) /\ x \notin Entries(q) => NoRepeats(list_add_tail(x, q))
         /\ LastEntry(list_add_tail(x, q)) = x
<1>1. <<x>> \in Seq(T) /\ Len(<<x>>) = 1 /\ Entries(<<x>>) = {x}
  BY DEF Entries
<1>2. NoRepeats(<<x>>)
  BY DEF NoRepeats
<1>3. list_add_tail(x, q) = q \o <<x>>
  BY DEF list_add_tail
<1>4. LastEntry(list_add_tail(x, q)) = x
  BY DEF list_add_tail, LastEntry
<1> DEFINE one == <<x>>
<1> HIDE DEF one
<1>5. /\ q \o one \in Seq(T)
      /\ Len(q \o one) = Len(q) + Len(one)
      /\ Entries(q \o one) = Entries(q) \cup Entries(one)
      /\ NoRepeats(q) /\ NoRepeats(one) /\ Entries(q) \cap Entries(one) = {}
           => NoRepeats(q \o one)
  <2>1. one \in Seq(T)
    BY <1>1 DEF one
  <2>. QED  BY <2>1, ConcatProperties
<1>6. Len(one) = 1 /\ Entries(one) = {x} /\ NoRepeats(one)
      /\ list_add_tail(x, q) = q \o one
  BY <1>1, <1>2, <1>3 DEF one
<1>. QED  BY <1>4, <1>5, <1>6

(***************************************************************************)
(* list_del takes out the one occurrence of an entry.                      *)
(***************************************************************************)
LEMMA DelProperties ==
  ASSUME NEW T, NEW q \in Seq(T), NEW x \in Entries(q), NoRepeats(q)
  PROVE  /\ list_del(x, q) \in Seq(T)
         /\ Len(list_del(x, q)) = Len(q) - 1
         /\ Entries(list_del(x, q)) = Entries(q) \ {x}
         /\ NoRepeats(list_del(x, q))
<1> DEFINE r == list_del(x, q)
           taken == Keep(q, {x})
<1>1. r \in Seq(T) /\ Entries(r) = Entries(q) \ {x} /\ NoRepeats(r)
  BY KeepProperties DEF list_del
<1>2. Len(taken) = 1
  <2>1. PICK i \in 1..Len(q) : q[i] = x
    BY DEF Entries
  <2>2. KeptIndices(q, {x}) = {i}
    BY <2>1 DEF KeptIndices, NoRepeats
  <2>3. Len(Keep(q, {x})) = Cardinality(KeptIndices(q, {x}))
    BY KeepProperties
  <2>. QED  BY <2>2, <2>3, FS_Singleton
<1>3. Len(taken) + Len(r) = Len(q)
  BY KeepSplits DEF list_del
<1>4. Len(r) \in Nat /\ Len(q) \in Nat
  BY <1>1
<1>5. Len(r) = Len(q) - 1
  <2> HIDE DEF r, taken
  <2>. QED  BY <1>2, <1>3, <1>4
<1> HIDE DEF r
<1>. QED  BY <1>1, <1>5 DEF r

(***************************************************************************)
(* What sys_yield does to the run queue: the head goes to the tail, and    *)
(* nobody enters or leaves.                                                *)
(***************************************************************************)
LEMMA RotateProperties ==
  ASSUME NEW T, NEW q \in Seq(T), q # <<>>, NoRepeats(q)
  PROVE  LET r == list_add_tail(Head(q), list_del(Head(q), q))
         IN  /\ r \in Seq(T)
             /\ Len(r) = Len(q)
             /\ Entries(r) = Entries(q)
             /\ NoRepeats(r)
             /\ LastEntry(r) = Head(q)
<1>1. Head(q) \in T /\ Head(q) \in Entries(q)
  BY DEF Entries
<1> DEFINE h == Head(q)
           d == list_del(h, q)
           r == list_add_tail(h, d)
<1>2. d \in Seq(T) /\ Len(d) = Len(q) - 1 /\ NoRepeats(d)
      /\ Entries(d) = Entries(q) \ {h}
  BY <1>1, DelProperties
<1>3. /\ r \in Seq(T) /\ Len(r) = Len(d) + 1 /\ Entries(r) = Entries(d) \cup {h}
      /\ NoRepeats(r) /\ LastEntry(r) = h
  <2>1. h \in T /\ h \notin Entries(d)
    BY <1>1, <1>2
  <2>2. d \in Seq(T) /\ NoRepeats(d)
    BY <1>2
  <2> HIDE DEF h, d
  <2>. QED  BY <2>1, <2>2, AddTailProperties
<1>4. Len(r) = Len(q) /\ Entries(r) = Entries(q)
  <2>1. Len(q) \in Nat /\ h \in Entries(q)
    BY <1>1
  <2> HIDE DEF h, d, r
  <2>. QED  BY <1>2, <1>3, <2>1
<1> HIDE DEF r
<1>. QED  BY <1>3, <1>4 DEF r
=============================================================================
