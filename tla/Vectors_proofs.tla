--------------------------- MODULE Vectors_proofs ---------------------------
(***************************************************************************)
(* Lemmas that several proofs need: least and greatest numbers of a set,   *)
(* ranks, and the loops that read a part of a map.  They stand in for the  *)
(* induction theorems, which take an operator.                             *)
(***************************************************************************)
EXTENDS Vectors, FiniteSetTheorems, TLAPS

-----------------------------------------------------------------------------
(* Least and greatest numbers.  FiniteSetsExt defines Max and Min by a     *)
(* CHOOSE: these lemmas say when what it chooses is there.                 *)

\* A set of numbers that is not empty has a least element.
LEMMA LeastExists ==
  ASSUME NEW S \in SUBSET Nat, S # {}
  PROVE  \E m \in S : \A x \in S : m <= x
<1>1. IsWellFoundedOn(OpToRel(<, Nat), Nat)
  BY NatLessThanWellFounded
<1>2. \E m \in S : \A x \in S : ~ (<<x, m>> \in OpToRel(<, Nat))
  BY <1>1, WFMin
<1>3. PICK m \in S : \A x \in S : ~ (<<x, m>> \in OpToRel(<, Nat))
  BY <1>2
<1>4. ASSUME NEW x \in S PROVE m <= x
  <2>1. x \in Nat /\ m \in Nat
    OBVIOUS
  <2>2. ~ (<<x, m>> \in OpToRel(<, Nat))
    BY <1>3
  <2>3. ~ (x < m)
    BY <2>1, <2>2 DEF OpToRel
  <2> QED
    BY <2>1, <2>3
<1> QED
  BY <1>4

\* Min finds it.
LEMMA MinIsLeast ==
  ASSUME NEW S \in SUBSET Nat, S # {}
  PROVE  Min(S) \in S /\ \A x \in S : Min(S) <= x
<1>1. \E m \in S : \A x \in S : m <= x
  BY LeastExists
<1> QED
  BY <1>1 DEF Min

\* A set of numbers that is bounded has a greatest one.
LEMMA GreatestExists ==
  ASSUME NEW N \in Nat, NEW S \in SUBSET (0..N), S # {}
  PROVE  \E m \in S : \A x \in S : x <= m
<1> DEFINE bounds == {b \in Nat : \A x \in S : x <= b}
<1>1. N \in bounds
  OBVIOUS
<1>2. PICK m \in bounds : \A b \in bounds : m <= b
  BY <1>1, LeastExists
<1>3. m \in Nat /\ \A x \in S : x <= m
  OBVIOUS
<1>4. m \in S
  <2> SUFFICES ASSUME m \notin S PROVE FALSE
    OBVIOUS
  <2>1. PICK s \in S : TRUE
    OBVIOUS
  <2>2. m > 0 /\ \A x \in S : x <= m - 1
    BY <1>3, <2>1
  <2>3. m - 1 \in bounds
    BY <1>3, <2>2
  <2> QED
    BY <1>2, <1>3, <2>3
<1> QED
  BY <1>3, <1>4

\* Max finds it.
LEMMA MaxIsGreatest ==
  ASSUME NEW N \in Nat, NEW S \in SUBSET (0..N), S # {}
  PROVE  Max(S) \in S /\ \A x \in S : x <= Max(S)
<1>1. \E m \in S : \A x \in S : m >= x
  BY GreatestExists
<1> QED
  BY <1>1 DEF Max

\* The greatest element is unique: an upper bound in the set is Max.
LEMMA MaxIs ==
  ASSUME NEW S \in SUBSET Nat, NEW m \in S, \A x \in S : x <= m
  PROVE  Max(S) = m
<1>1. Max(S) \in S /\ \A x \in S : Max(S) >= x
  BY DEF Max
<1>2. Max(S) >= m /\ Max(S) <= m
  BY <1>1
<1>3. Max(S) \in Nat /\ m \in Nat
  BY <1>1
<1> HIDE DEF Max
<1> QED
  BY <1>2, <1>3

\* A set that has 0 and the successor of each of its numbers has them all.
LEMMA Everything ==
  ASSUME NEW S \in SUBSET Nat, 0 \in S, \A n \in S : n + 1 \in S
  PROVE  S = Nat
<1> SUFFICES ASSUME Nat \ S # {} PROVE FALSE
  OBVIOUS
<1>1. PICK m \in Nat \ S : \A x \in Nat \ S : m <= x
  BY LeastExists
<1>2. m # 0 /\ m - 1 \in Nat /\ m - 1 < m
  BY <1>1
<1>3. m - 1 \in S
  BY <1>1, <1>2
<1> QED
  BY <1>1, <1>2, <1>3

-----------------------------------------------------------------------------
(* Ranks, and the sequence that has the members of a set in their order.   *)

\* The members of a finite set of numbers are ranked 1, 2, ... in their order,
\* without a gap: a strictly growing function into 1..n from a set of n
\* members is onto.
LEMMA Ranked ==
  ASSUME NEW K \in SUBSET Nat, IsFiniteSet(K)
  PROVE  /\ Cardinality(K) \in Nat
         /\ \A p \in K : Rank(K, p) \in 1..Cardinality(K)
         /\ \A p, q \in K : p < q => Rank(K, p) < Rank(K, q)
         /\ \A n \in 1..Cardinality(K) : \E p \in K : Rank(K, p) = n
<1> DEFINE upto(p) == {q \in K : q <= p}
<1> DEFINE f == [p \in K |-> Rank(K, p)]
<1> DEFINE N == Cardinality(K)
<1>0. N \in Nat
  BY FS_CardinalityType
<1>1. ASSUME NEW p \in K
      PROVE  /\ IsFiniteSet(upto(p)) /\ Rank(K, p) = Cardinality(upto(p))
             /\ Rank(K, p) \in 1..N /\ Rank(K, p) \in Nat
  <2>1. upto(p) \in SUBSET K
    OBVIOUS
  <2>2. IsFiniteSet(upto(p)) /\ Cardinality(upto(p)) <= N
    BY <2>1, FS_Subset
  <2>3. Cardinality(upto(p)) \in Nat
    BY <2>2, FS_CardinalityType
  <2>4. p \in upto(p)
    OBVIOUS
  <2>5. Cardinality(upto(p)) # 0
    BY <2>2, <2>4, FS_EmptySet
  <2>6. Rank(K, p) = Cardinality(upto(p))
    BY DEF Rank
  <2> HIDE DEF upto, N
  <2> QED
    BY <2>2, <2>3, <2>5, <2>6, <1>0
<1>2. ASSUME NEW p \in K, NEW q \in K, p < q
      PROVE  Rank(K, p) < Rank(K, q)
  <2>1. upto(p) \in SUBSET upto(q) /\ q \in upto(q) /\ q \notin upto(p)
    <3>1. p \in Nat /\ q \in Nat /\ ~(q <= p)
      BY <1>2
    <3>2. \A x \in K : x <= p => x <= q
      BY <1>2, <3>1
    <3>3. q \in upto(q)
      BY <3>1
    <3>4. upto(p) \in SUBSET upto(q)
      BY <3>2
    <3>5. q \notin upto(p)
      BY <3>1
    <3> HIDE DEF upto
    <3> QED
      BY <3>3, <3>4, <3>5
  <2>2. upto(p) # upto(q)
    BY <2>1
  <2>3. Cardinality(upto(p)) <= Cardinality(upto(q)) /\ Cardinality(upto(p)) # Cardinality(upto(q))
    BY <1>1, <2>1, <2>2, FS_Subset
  <2>4. Rank(K, p) = Cardinality(upto(p)) /\ Rank(K, q) = Cardinality(upto(q))
    BY <1>1
  <2>5. Rank(K, p) \in Nat /\ Rank(K, q) \in Nat
    BY <1>1
  <2> QED
    BY <2>3, <2>4, <2>5
<1>3. \A n \in 1..N : \E p \in K : Rank(K, p) = n
  <2>1. f \in [K -> 1..N]
    BY <1>1
  <2>2. \A p, q \in K : f[p] = f[q] => p = q
    <3> SUFFICES ASSUME NEW p \in K, NEW q \in K, p # q PROVE f[p] # f[q]
      OBVIOUS
    <3>1. p < q \/ q < p
      OBVIOUS
    <3>2. Rank(K, p) # Rank(K, q)
      <4>1. Rank(K, p) \in Nat /\ Rank(K, q) \in Nat
        BY <1>1
      <4> QED
        BY <3>1, <4>1, <1>2
    <3> QED
      BY <3>2
  <2>3. f \in Injection(K, 1..N)
    BY <2>1, <2>2 DEF Injection, IsInjective
  <2>4. IsFiniteSet(1..N) /\ Cardinality(1..N) = N
    <3>1. IsFiniteSet(1..N) /\ Cardinality(1..N) = IF 1 > N THEN 0 ELSE N - 1 + 1
      BY <1>0, FS_Interval
    <3> HIDE DEF N
    <3> QED
      BY <1>0, <3>1
  <2>5. f \in Surjection(K, 1..N)
    BY <2>3, <2>4, FS_Injection
  <2> QED
    BY <2>5 DEF Surjection
<1> QED
  BY <1>0, <1>1, <1>2, <1>3

\* A sequence without repetitions has as many elements as places.
LEMMA CountedOnce ==
  ASSUME NEW N \in Nat, NEW T, NEW f \in [1..N -> T],
         \A m, n \in 1..N : m # n => f[m] # f[n], \A x \in T : \E n \in 1..N : f[n] = x
  PROVE  IsFiniteSet(T) /\ Cardinality(T) = N
<1>1. f \in Bijection(1..N, T)
  BY DEF Bijection, Injection, Surjection, IsInjective
<1>2. ExistsBijection(1..N, T)
  BY <1>1 DEF ExistsBijection
<1> QED
  BY <1>2, FS_CountingElements, FS_NatBijection

\* The members of a set in their order.
LEMMA InOrderIs ==
  ASSUME NEW K \in SUBSET Nat, IsFiniteSet(K)
  PROVE  /\ Cardinality(K) \in Nat
         /\ InOrder(K) \in [1..Cardinality(K) -> K]
         /\ \A m, n \in 1..Cardinality(K) : m < n => InOrder(K)[m] < InOrder(K)[n]
         /\ \A x \in K : \E n \in 1..Cardinality(K) : InOrder(K)[n] = x
<1> DEFINE N == Cardinality(K)
<1> DEFINE at(n) == CHOOSE x \in K : Rank(K, x) = n
<1>1. /\ N \in Nat
      /\ \A p \in K : Rank(K, p) \in 1..N
      /\ \A p, q \in K : p < q => Rank(K, p) < Rank(K, q)
      /\ \A n \in 1..N : \E p \in K : Rank(K, p) = n
  BY Ranked
<1>2. InOrder(K) = [n \in 1..N |-> at(n)]
  BY DEF InOrder
<1>3. \A n \in 1..N : at(n) \in K /\ Rank(K, at(n)) = n
  BY <1>1
<1> HIDE DEF at, N
<1>4. InOrder(K) \in [1..N -> K]
  BY <1>2, <1>3
<1>5. ASSUME NEW m \in 1..N, NEW n \in 1..N, m < n PROVE InOrder(K)[m] < InOrder(K)[n]
  <2>1. /\ at(m) \in K /\ at(n) \in K /\ Rank(K, at(m)) = m /\ Rank(K, at(n)) = n
        /\ at(m) \in Nat /\ at(n) \in Nat
    BY <1>3
  <2>2. ~(at(n) < at(m)) /\ at(n) # at(m)
    BY <1>1, <1>5, <2>1
  <2> QED
    BY <1>2, <2>1, <2>2
<1>6. ASSUME NEW x \in K PROVE \E n \in 1..N : InOrder(K)[n] = x
  <2>1. Rank(K, x) \in 1..N
    BY <1>1
  <2>2. at(Rank(K, x)) \in K /\ Rank(K, at(Rank(K, x))) = Rank(K, x)
    BY <1>3, <2>1
  <2>3. at(Rank(K, x)) = x
    <3>1. PICK y \in K : y = at(Rank(K, x)) /\ Rank(K, y) = Rank(K, x)
      BY <2>2
    <3>2. x \in Nat /\ y \in Nat /\ Rank(K, x) \in Nat /\ ~(x < y) /\ ~(y < x)
      BY <1>1, <2>1, <3>1
    <3> QED
      BY <3>1, <3>2
  <2> QED
    BY <1>2, <2>1, <2>3
<1> QED
  BY <1>1, <1>4, <1>5, <1>6 DEF N

\* There is no other.
LEMMA InOrderIsOnly ==
  ASSUME NEW K \in SUBSET Nat, NEW N \in Nat, NEW s \in [1..N -> K],
         \A m, n \in 1..N : m < n => s[m] < s[n], \A x \in K : \E n \in 1..N : s[n] = x
  PROVE  IsFiniteSet(K) /\ Cardinality(K) = N /\ InOrder(K) = s
<1>1. \A n \in 1..N : s[n] \in Nat /\ s[n] \in K
  OBVIOUS
<1>2. \A m, n \in 1..N : m # n => s[m] # s[n]
  <2> SUFFICES ASSUME NEW m \in 1..N, NEW n \in 1..N, m # n PROVE s[m] # s[n]
    OBVIOUS
  <2>1. m < n \/ n < m
    OBVIOUS
  <2> QED
    BY <1>1, <2>1
<1>3. IsFiniteSet(K) /\ Cardinality(K) = N
  BY <1>2, CountedOnce
<1>4. ASSUME NEW n \in 1..N PROVE Rank(K, s[n]) = n
  <2> DEFINE T == {y \in K : y <= s[n]}
  <2> DEFINE f == [m \in 1..n |-> s[m]]
  <2>1. n \in Nat /\ \A m \in 1..n : m \in 1..N
    OBVIOUS
  <2>2. \A m \in 1..N : s[m] <= s[n] <=> m <= n
    <3> SUFFICES ASSUME NEW m \in 1..N PROVE s[m] <= s[n] <=> m <= n
      OBVIOUS
    <3>1. m < n \/ m = n \/ n < m
      OBVIOUS
    <3> QED
      BY <1>1, <3>1
  <2>3. f \in [1..n -> T]
    <3>1. \A m \in 1..n : s[m] \in T
      BY <1>1, <2>1, <2>2
    <3> QED
      BY <3>1
  <2>4. ASSUME NEW x \in T PROVE \E m \in 1..n : f[m] = x
    <3>1. PICK m \in 1..N : s[m] = x
      OBVIOUS
    <3>2. m \in 1..n
      BY <2>2, <3>1
    <3> QED
      BY <3>1, <3>2
  <2>5. \A a, b \in 1..n : a # b => f[a] # f[b]
    BY <1>2, <2>1
  <2> HIDE DEF T, f
  <2>6. Cardinality(T) = n
    BY <2>1, <2>3, <2>4, <2>5, CountedOnce
  <2> QED
    BY <2>6 DEF Rank, T
<1>5. ASSUME NEW n \in 1..N PROVE (CHOOSE x \in K : Rank(K, x) = n) = s[n]
  <2>1. ASSUME NEW x \in K, Rank(K, x) = n PROVE x = s[n]
    <3>1. PICK m \in 1..N : s[m] = x
      OBVIOUS
    <3> QED
      BY <1>4, <2>1, <3>1
  <2>2. s[n] \in K /\ Rank(K, s[n]) = n
    BY <1>1, <1>4
  <2> QED
    BY <2>1, <2>2
<1>6. InOrder(K) = [n \in 1..N |-> s[n]]
  BY <1>3, <1>5 DEF InOrder
<1> QED
  BY <1>3, <1>6

\* The elements at consecutive places.
LEMMA PickedInterval ==
  ASSUME NEW S, NEW s \in Seq(S), NEW i \in 1..(Len(s) + 1), NEW j \in 0..Len(s), i <= j + 1
  PROVE  Picked(s, i..j) = SubSeq(s, i, j)
<1> DEFINE N == j - i + 1
<1> DEFINE at == [n \in 1..N |-> i + n - 1]
<1>1. N \in Nat /\ i \in Nat /\ j \in Nat /\ Len(s) \in Nat
  OBVIOUS
<1>2. at \in [1..N -> i..j] /\ i..j \in SUBSET Nat
  BY <1>1
<1>3. \A m, n \in 1..N : m < n => at[m] < at[n]
  BY <1>1
<1>4. \A x \in i..j : \E n \in 1..N : at[n] = x
  <2> SUFFICES ASSUME NEW x \in i..j PROVE \E n \in 1..N : at[n] = x
    OBVIOUS
  <2>1. x - i + 1 \in 1..N /\ i + (x - i + 1) - 1 = x
    BY <1>1
  <2> QED
    BY <2>1
<1>5. InOrder(i..j) = at
  <2> HIDE DEF at, N
  <2> QED
    BY <1>1, <1>2, <1>3, <1>4, InOrderIsOnly
<1>6. Picked(s, i..j) = [n \in 1..N |-> s[i + n - 1]]
  BY <1>5 DEF Picked
<1>7. SubSeq(s, i, j) = [n \in 1..N |-> s[i + n - 1]]
  BY <1>1
<1> QED
  BY <1>6, <1>7

-----------------------------------------------------------------------------
(* Reading a part of a map.                                                *)

\* A loop from lower_bound() on, while the key is good, reads the entries that
\* are not below its start and good, if the good keys from start on come first.
LEMMA LoopReads ==
  ASSUME NEW S, NEW map \in Seq(S), NEW start \in Nat, NEW good,
         \A n \in 1..Len(map) : map[n].key \in Nat,
         \A m, n \in 1..Len(map) : m < n => map[m].key < map[n].key,
         \A m, n \in 1..Len(map) :
            m < n /\ start <= map[m].key /\ map[n].key \in good => map[m].key \in good
  PROVE  While(map, LowerBound(map, start), good) =
            Picked(map, {n \in DOMAIN map : start <= map[n].key /\ map[n].key \in good})
<1> DEFINE L == Len(map)
<1> DEFINE from == {n \in DOMAIN map : map[n].key >= start} \cup {L + 1}
<1> DEFINE i == Min(from)
<1> DEFINE bad == {n \in i..L : map[n].key \notin good} \cup {L + 1}
<1> DEFINE stop == Min(bad)
<1>1. L \in Nat /\ DOMAIN map = 1..L /\ L + 1 \in Nat
  OBVIOUS
<1>2. /\ i \in 1..(L + 1) /\ i \in from
      /\ \A x \in from : i <= x
  <2>1. from \in SUBSET Nat /\ L + 1 \in from /\ from \in SUBSET (1..(L + 1))
    BY <1>1
  <2>2. i \in from /\ \A x \in from : i <= x
    <3> HIDE DEF from
    <3> QED
      BY <2>1, MinIsLeast
  <2> HIDE DEF from, i
  <2> QED
    BY <2>1, <2>2
<1>3. LowerBound(map, start) = i
  BY DEF LowerBound
<1> HIDE DEF i
<1>4. /\ stop \in i..(L + 1) /\ stop \in bad /\ \A x \in bad : stop <= x
  <2>1. bad \in SUBSET Nat /\ L + 1 \in bad /\ bad \in SUBSET (i..(L + 1))
    BY <1>1, <1>2
  <2>2. stop \in bad /\ \A x \in bad : stop <= x
    <3> HIDE DEF bad
    <3> QED
      BY <2>1, MinIsLeast
  <2> HIDE DEF bad, stop
  <2> QED
    BY <2>1, <2>2
<1>5. While(map, i, good) = SubSeq(map, i, stop - 1)
  BY DEF While
<1> HIDE DEF stop
<1>6. ASSUME NEW n \in 1..L
      PROVE  n \in i..(stop - 1) <=> start <= map[n].key /\ map[n].key \in good
  <2>0. i \in Nat /\ stop \in Nat /\ n \in Nat /\ n \in DOMAIN map
    BY <1>1, <1>2, <1>4
  <2>1. CASE n < i
    <3>1. n \notin from
      BY <1>2, <2>0, <2>1
    <3>2. ~(map[n].key >= start)
      BY <2>0, <3>1
    <3> QED
      BY <2>0, <2>1, <3>2
  <2>2. CASE i <= n
    <3>1. map[n].key >= start /\ map[n].key \in Nat
      <4>1. i \in 1..L
        BY <1>1, <1>2, <2>0, <2>2
      <4>2. map[i].key >= start /\ map[i].key \in Nat
        BY <1>1, <1>2, <4>1
      <4>3. i = n \/ map[i].key < map[n].key
        BY <2>0, <2>2, <4>1
      <4> QED
        BY <4>2, <4>3
    <3>2. CASE n < stop
      <4>1. n \notin bad /\ n \in i..L
        BY <1>1, <1>4, <2>0, <2>2, <3>2
      <4> QED
        BY <2>0, <2>2, <3>1, <3>2, <4>1
    <3>3. CASE stop <= n
      <4>1. stop \in 1..L /\ stop \in i..L
        BY <1>1, <1>2, <1>4, <2>0, <3>3
      <4>2. map[stop].key \notin good
        BY <1>1, <1>4, <4>1
      <4>3. start <= map[stop].key
        <5>1. i \in 1..L /\ (i = stop \/ i < stop)
          BY <1>1, <1>2, <2>0, <4>1
        <5>2. map[i].key >= start /\ map[i].key \in Nat /\ map[stop].key \in Nat
          BY <1>1, <1>2, <4>1, <5>1
        <5>3. i = stop \/ map[i].key < map[stop].key
          BY <4>1, <5>1
        <5> QED
          BY <5>2, <5>3
      <4>4. map[n].key \notin good
        BY <2>0, <3>3, <4>1, <4>2, <4>3
      <4> QED
        BY <2>0, <3>3, <4>4
    <3> QED
      BY <2>0, <3>2, <3>3
  <2> QED
    BY <2>0, <2>1, <2>2
<1>7. i..(stop - 1) = {n \in DOMAIN map : start <= map[n].key /\ map[n].key \in good}
  <2>1. \A n \in i..(stop - 1) : n \in 1..L
    BY <1>1, <1>2, <1>4
  <2> QED
    BY <1>1, <1>6, <2>1
<1>8. Picked(map, i..(stop - 1)) = SubSeq(map, i, stop - 1)
  <2>1. i \in 1..(Len(map) + 1) /\ stop - 1 \in 0..Len(map) /\ i <= (stop - 1) + 1
    BY <1>1, <1>2, <1>4
  <2> QED
    BY <2>1, PickedInterval
<1> QED
  BY <1>3, <1>5, <1>7, <1>8

\* Strings from a prefix to a string that starts with it start with it.
LEMMA PrefixesLast ==
  ASSUME NEW p \in Seq(Nat), NEW a \in Seq(Nat), NEW b \in Seq(Nat),
         p = a \/ Less(p, a), Less(a, b), IsPrefix(p, b)
  PROVE  IsPrefix(p, a)
<1>0. Len(p) \in Nat /\ Len(a) \in Nat /\ Len(b) \in Nat
      /\ DOMAIN p = 1..Len(p) /\ DOMAIN a = 1..Len(a) /\ DOMAIN b = 1..Len(b)
  OBVIOUS
<1>1. Len(p) <= Len(b) /\ \A n \in 1..Len(p) : p[n] = b[n]
  <2>1. Len(p) <= Len(b) /\ SubSeq(p, 1, Len(p)) = SubSeq(b, 1, Len(p))
    BY DEF IsPrefix
  <2>2. \A n \in 1..Len(p) : SubSeq(p, 1, Len(p))[n] = p[n] /\ SubSeq(b, 1, Len(p))[n] = b[n]
    BY <1>0, <2>1
  <2> QED
    BY <2>1, <2>2
<1>2. CASE p = a
  BY <1>2 DEF IsPrefix
<1>3. CASE IsStrictPrefix(p, a)
  BY <1>3 DEF IsStrictPrefix
<1>4. ASSUME NEW n \in (DOMAIN p) \cap (DOMAIN a),
             p[n] < a[n], \A m \in 1..(n - 1) : p[m] = a[m]
      PROVE  FALSE
  <2>0. n \in 1..Len(p) /\ n \in 1..Len(a) /\ n \in 1..Len(b) /\ p[n] = b[n] /\ n \in Nat
        /\ p[n] \in Nat /\ a[n] \in Nat
    BY <1>0, <1>1
  <2>1. CASE IsStrictPrefix(a, b)
    <3>1. Len(a) <= Len(b) /\ SubSeq(a, 1, Len(a)) = SubSeq(b, 1, Len(a))
      BY <2>1 DEF IsStrictPrefix, IsPrefix
    <3>2. SubSeq(a, 1, Len(a))[n] = a[n] /\ SubSeq(b, 1, Len(a))[n] = b[n]
      BY <1>0, <2>0, <3>1
    <3> QED
      BY <1>4, <2>0, <3>1, <3>2
  <2>2. ASSUME NEW m \in (DOMAIN a) \cap (DOMAIN b),
               a[m] < b[m], \A q \in 1..(m - 1) : a[q] = b[q]
        PROVE  FALSE
    <3>0. m \in 1..Len(a) /\ m \in 1..Len(b) /\ a[m] \in Nat /\ b[m] \in Nat
      BY <1>0, <2>2
    <3>1. CASE m < n
      <4>1. m \in 1..(n - 1) /\ m \in 1..Len(p)
        BY <1>0, <2>0, <3>0, <3>1
      <4> QED
        BY <1>1, <1>4, <2>2, <3>0, <4>1
    <3>2. CASE m = n
      BY <1>4, <2>0, <2>2, <3>2
    <3>3. CASE n < m
      <4>1. n \in 1..(m - 1)
        BY <2>0, <3>0, <3>3
      <4>2. a[n] = b[n]
        BY <2>2, <4>1
      <4>3. p[n] < a[n] /\ p[n] = b[n] /\ a[n] \in Nat
        BY <1>4, <2>0
      <4> QED
        BY <4>2, <4>3
    <3> QED
      BY <2>0, <3>0, <3>1, <3>2, <3>3
  <2> QED
    BY <2>1, <2>2 DEF Less
<1> QED
  BY <1>2, <1>3, <1>4 DEF Less

\* In the order of std::string no string is below itself.
LEMMA NotBelowItself == ASSUME NEW a \in Seq(Nat) PROVE ~Less(a, a)
<1>1. \A n \in DOMAIN a : a[n] \in Nat
  OBVIOUS
<1>2. \A n \in DOMAIN a : ~(a[n] < a[n])
  BY <1>1
<1> QED
  BY <1>2 DEF Less, IsStrictPrefix

\* Of strings that are numbers in that order, those with a prefix come one after
\* the other, from the prefix on.
LEMMA PrefixedTogether ==
  ASSUME NEW S \in SUBSET Nat, NEW letters \in [S -> Seq(Nat)],
         \A s, t \in S : s < t <=> Less(letters[s], letters[t]),
         NEW p \in S
  PROVE  /\ \A s \in S : IsPrefix(letters[p], letters[s]) => p <= s
         /\ \A s, t \in S :
               p <= s /\ s < t /\ IsPrefix(letters[p], letters[t]) => IsPrefix(letters[p], letters[s])
<1>1. ASSUME NEW s \in S, IsPrefix(letters[p], letters[s]) PROVE p <= s
  <2>1. s \in Nat /\ p \in Nat /\ letters[s] \in Seq(Nat) /\ letters[p] \in Seq(Nat)
    OBVIOUS
  <2>2. CASE letters[p] = letters[s]
    <3>1. ~(s < p)
      BY <2>1, <2>2, NotBelowItself
    <3> QED
      BY <2>1, <3>1
  <2>3. CASE letters[p] # letters[s]
    <3>1. Less(letters[p], letters[s])
      BY <1>1, <2>3 DEF Less, IsStrictPrefix
    <3>2. p < s
      BY <3>1
    <3> QED
      BY <2>1, <3>2
  <2> QED
    BY <2>2, <2>3
<1>2. ASSUME NEW s \in S, NEW t \in S, p <= s, s < t, IsPrefix(letters[p], letters[t])
      PROVE  IsPrefix(letters[p], letters[s])
  <2>1. /\ letters[p] \in Seq(Nat) /\ letters[s] \in Seq(Nat) /\ letters[t] \in Seq(Nat)
        /\ p \in Nat /\ s \in Nat
    OBVIOUS
  <2>2. p = s \/ p < s
    BY <1>2, <2>1
  <2>3. letters[p] = letters[s] \/ Less(letters[p], letters[s])
    BY <2>2
  <2>4. Less(letters[s], letters[t])
    BY <1>2
  <2> QED
    BY <1>2, <2>1, <2>3, <2>4, PrefixesLast
<1> QED
  BY <1>1, <1>2

=============================================================================
