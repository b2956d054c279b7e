----------------------- MODULE SubtractVectors_proofs -----------------------
(***************************************************************************)
(* The loop of subtract_vectors() on every pair of ascending vectors.      *)
(* Most of the work is about Subtract itself, which picks the nth element  *)
(* that it keeps by counting those before it.                              *)
(***************************************************************************)
EXTENDS SubtractVectors, Vectors_proofs

\* The positions that subtracting remove from curr keeps.
Kept(c, r) == {p \in DOMAIN c : \A q \in DOMAIN r : c[p] # r[q]}

-----------------------------------------------------------------------------
\* Subtract in terms of ranks: the member of rank n comes nth.
LEMMA SubtractRanked ==
  ASSUME NEW c \in Seq(Nat), NEW r
  PROVE  /\ Kept(c, r) \in SUBSET Nat /\ IsFiniteSet(Kept(c, r))
         /\ Cardinality(Kept(c, r)) \in Nat
         /\ Subtract(c, r) = [n \in 1..Cardinality(Kept(c, r)) |-> Subtract(c, r)[n]]
         /\ \A p \in Kept(c, r) : Subtract(c, r)[Rank(Kept(c, r), p)] = c[p]
<1> DEFINE K == Kept(c, r)
<1> DEFINE at(n) == CHOOSE p \in K : Rank(K, p) = n
<1>1. K \in SUBSET (1..Len(c))
  BY DEF Kept
<1>2. IsFiniteSet(1..Len(c))
  BY FS_Interval
<1>3. IsFiniteSet(K)
  BY <1>1, <1>2, FS_Subset
<1>4. K \in SUBSET Nat
  BY <1>1
<1>5. Subtract(c, r) = [n \in 1..Cardinality(K) |-> c[at(n)]]
  BY DEF Subtract, Picked, InOrder, Kept
<1> HIDE DEF K
<1>6. /\ Cardinality(K) \in Nat
      /\ \A p \in K : Rank(K, p) \in 1..Cardinality(K)
      /\ \A p, q \in K : p < q => Rank(K, p) < Rank(K, q)
  BY <1>3, <1>4, Ranked
<1>7. ASSUME NEW p \in K PROVE at(Rank(K, p)) = p
  <2>1. at(Rank(K, p)) \in K /\ Rank(K, at(Rank(K, p))) = Rank(K, p)
    OBVIOUS
  <2> HIDE DEF at
  <2>2. ASSUME NEW q \in K, Rank(K, q) = Rank(K, p) PROVE q = p
    <3>1. Rank(K, p) \in Nat /\ p \in Nat /\ q \in Nat
      BY <1>4, <1>6
    <3>2. ~(p < q) /\ ~(q < p)
      BY <1>6, <2>2, <3>1
    <3> QED
      BY <3>1, <3>2
  <2> QED
    BY <2>1, <2>2
<1> HIDE DEF at
<1>8. \A p \in K : Subtract(c, r)[Rank(K, p)] = c[p]
  BY <1>5, <1>6, <1>7
<1>9. Subtract(c, r) = [n \in 1..Cardinality(K) |-> Subtract(c, r)[n]]
  BY <1>5
<1> QED
  BY <1>3, <1>4, <1>6, <1>8, <1>9 DEF K

\* Subtract is the difference: its elements are those of c that are not in r,
\* and if c is ascending, so is what is left of it.
THEOREM SubtractIsDifference ==
  ASSUME NEW c \in Seq(Nat), NEW r,
         \A a, b \in DOMAIN c : a < b => c[a] < c[b]
  PROVE  /\ Range(Subtract(c, r)) = Range(c) \ Range(r)
         /\ \A a, b \in DOMAIN Subtract(c, r) : a < b => Subtract(c, r)[a] < Subtract(c, r)[b]
<1> DEFINE K == Kept(c, r)
<1> DEFINE s == Subtract(c, r)
<1> DEFINE N == Cardinality(K)
<1>1. /\ K \in SUBSET Nat /\ IsFiniteSet(K) /\ N \in Nat
      /\ s = [n \in 1..N |-> s[n]]
      /\ \A p \in K : s[Rank(K, p)] = c[p]
  BY SubtractRanked
<1>2. /\ \A p \in K : Rank(K, p) \in 1..N
      /\ \A p, q \in K : p < q => Rank(K, p) < Rank(K, q)
      /\ \A n \in 1..N : \E p \in K : Rank(K, p) = n
  BY <1>1, Ranked
<1>3. K \in SUBSET (DOMAIN c) /\ \A p \in DOMAIN c : p \in K <=> c[p] \notin Range(r)
  BY DEF Kept, Range
<1> HIDE DEF K, s, N
<1>4. DOMAIN s = 1..N
  BY <1>1
<1>5. ASSUME NEW n \in 1..N PROVE \E p \in K : Rank(K, p) = n /\ s[n] = c[p]
  BY <1>1, <1>2
<1>6. Range(s) = Range(c) \ Range(r)
  <2>1. ASSUME NEW v \in Range(s) PROVE v \in Range(c) \ Range(r)
    <3>1. PICK n \in 1..N : v = s[n]
      BY <1>4 DEF Range
    <3>2. PICK p \in K : s[n] = c[p]
      BY <1>5
    <3> QED
      BY <3>1, <3>2, <1>3 DEF Range
  <2>2. ASSUME NEW v \in Range(c) \ Range(r) PROVE v \in Range(s)
    <3>1. PICK p \in DOMAIN c : v = c[p]
      BY DEF Range
    <3>2. p \in K
      BY <3>1, <1>3
    <3> QED
      BY <3>1, <3>2, <1>1, <1>2, <1>4 DEF Range
  <2> QED
    BY <2>1, <2>2
<1>7. ASSUME NEW a \in 1..N, NEW b \in 1..N, a < b PROVE s[a] < s[b]
  <2>1. PICK p \in K : Rank(K, p) = a /\ s[a] = c[p]
    BY <1>5
  <2>2. PICK q \in K : Rank(K, q) = b /\ s[b] = c[q]
    BY <1>5
  <2>3. p \in Nat /\ q \in Nat /\ a \in Nat /\ b \in Nat
    BY <1>1
  <2>4. ~(q < p) /\ p # q
    BY <2>1, <2>2, <2>3, <1>2, <1>7
  <2>5. p < q
    BY <2>3, <2>4
  <2> QED
    BY <2>1, <2>2, <2>5, <1>3
<1> QED
  BY <1>4, <1>6, <1>7 DEF s

\* What one more element of curr adds to the difference: itself, at the end,
\* if it is not in remove, and nothing otherwise.
LEMMA SubtractStep ==
  ASSUME NEW c \in Seq(Nat), NEW r, NEW k \in 1..Len(c)
  PROVE  Subtract(SubSeq(c, 1, k), r) =
            IF k \in Kept(c, r) THEN Append(Subtract(SubSeq(c, 1, k - 1), r), c[k])
            ELSE Subtract(SubSeq(c, 1, k - 1), r)
<1> DEFINE a == SubSeq(c, 1, k - 1)
<1> DEFINE b == SubSeq(c, 1, k)
<1> DEFINE A == Kept(a, r)
<1> DEFINE B == Kept(b, r)
<1>1. /\ a \in Seq(Nat) /\ DOMAIN a = 1..(k - 1) /\ \A p \in 1..(k - 1) : a[p] = c[p]
      /\ b \in Seq(Nat) /\ DOMAIN b = 1..k /\ \A p \in 1..k : b[p] = c[p]
      /\ DOMAIN c = 1..Len(c) /\ Len(c) \in Nat
  OBVIOUS
<1> HIDE DEF a, b
<1>2. \A p \in A : p \in Nat /\ p < k /\ p # k /\ a[p] = b[p]
  <2>1. \A p \in A : p \in 1..(k - 1)
    BY <1>1 DEF Kept
  <2>2. \A p \in 1..(k - 1) : p \in 1..k /\ p \in Nat /\ p < k /\ p # k
    OBVIOUS
  <2> HIDE DEF A
  <2> QED
    BY <1>1, <2>1, <2>2
<1>3. B = IF k \in Kept(c, r) THEN A \cup {k} ELSE A
  <2> DEFINE new(p) == \A q \in DOMAIN r : c[p] # r[q]
  <2>1. B = {p \in 1..k : new(p)}
    BY <1>1 DEF Kept
  <2>2. A = {p \in 1..(k - 1) : new(p)}
    BY <1>1 DEF Kept
  <2>3. k \in Kept(c, r) <=> new(k)
    BY <1>1 DEF Kept
  <2> HIDE DEF A, B, new
  <2>4. \A p : p \in 1..k <=> p \in 1..(k - 1) \/ p = k
    OBVIOUS
  <2> QED
    BY <2>1, <2>2, <2>3, <2>4
<1> HIDE DEF A, B
<1>4. /\ A \in SUBSET Nat /\ IsFiniteSet(A) /\ Cardinality(A) \in Nat
      /\ Subtract(a, r) = [n \in 1..Cardinality(A) |-> Subtract(a, r)[n]]
      /\ \A p \in A : Subtract(a, r)[Rank(A, p)] = a[p]
  BY <1>1, SubtractRanked DEF A
<1>5. /\ B \in SUBSET Nat /\ IsFiniteSet(B) /\ Cardinality(B) \in Nat
      /\ Subtract(b, r) = [n \in 1..Cardinality(B) |-> Subtract(b, r)[n]]
      /\ \A p \in B : Subtract(b, r)[Rank(B, p)] = b[p]
  BY <1>1, SubtractRanked DEF B
<1>6. \A n \in 1..Cardinality(A) : \E p \in A : Rank(A, p) = n
  BY <1>4, Ranked
<1>7. CASE k \notin Kept(c, r)
  <2>1. B = A
    BY <1>3, <1>7
  <2>2. \A n \in 1..Cardinality(A) : Subtract(b, r)[n] = Subtract(a, r)[n]
    <3> SUFFICES ASSUME NEW n \in 1..Cardinality(A)
                 PROVE  Subtract(b, r)[n] = Subtract(a, r)[n]
      OBVIOUS
    <3>1. PICK p \in A : Rank(A, p) = n
      BY <1>6
    <3> QED
      BY <3>1, <2>1, <1>2, <1>4, <1>5
  <2>3. Subtract(b, r) = Subtract(a, r)
    BY <2>1, <2>2, <1>4, <1>5
  <2> QED
    BY <2>3, <1>7 DEF a, b
<1>8. CASE k \in Kept(c, r)
  <2> DEFINE N == Cardinality(A)
  <2>1. B = A \cup {k} /\ k \notin A /\ k \in B
    BY <1>2, <1>3, <1>8
  <2>2. Cardinality(B) = N + 1
    BY <2>1, <1>4, FS_AddElement
  <2>3. Rank(B, k) = N + 1
    <3>1. \A q \in B : q <= k
      <4>1. \A q \in A : q <= k
        BY <1>2
      <4> QED
        BY <2>1, <4>1
    <3>2. {q \in B : q <= k} = B
      BY <3>1
    <3> QED
      BY <3>2, <2>2 DEF Rank
  <2>4. ASSUME NEW p \in A PROVE Rank(B, p) = Rank(A, p)
    <3>1. p \in Nat /\ p < k
      BY <1>2
    <3>2. ~(k <= p)
      BY <3>1
    <3>3. {q \in B : q <= p} = {q \in A : q <= p}
      BY <2>1, <3>2
    <3> QED
      BY <3>3 DEF Rank
  <2> HIDE DEF N
  <2>5. N \in Nat
    BY <1>4 DEF N
  <2>6. \A n \in 1..N : Subtract(b, r)[n] = Subtract(a, r)[n]
    <3> SUFFICES ASSUME NEW n \in 1..N
                 PROVE  Subtract(b, r)[n] = Subtract(a, r)[n]
      OBVIOUS
    <3>1. PICK p \in A : Rank(A, p) = n
      BY <1>6 DEF N
    <3>2. p \in B /\ Rank(B, p) = n /\ a[p] = b[p]
      BY <3>1, <2>1, <2>4, <1>2
    <3> QED
      BY <3>1, <3>2, <1>4, <1>5
  <2>7. Subtract(b, r)[N + 1] = c[k]
    <3>1. Subtract(b, r)[Rank(B, k)] = b[k]
      BY <2>1, <1>5
    <3>2. b[k] = c[k]
      BY <1>1
    <3> QED
      BY <3>1, <3>2, <2>3
  <2> DEFINE s == Subtract(a, r)
  <2> DEFINE t == Subtract(b, r)
  <2>8. /\ s = [n \in 1..N |-> s[n]] /\ t = [n \in 1..(N + 1) |-> t[n]]
        /\ \A n \in 1..N : t[n] = s[n]
        /\ t[N + 1] = c[k]
    BY <1>4, <1>5, <2>2, <2>6, <2>7 DEF N
  <2> HIDE DEF s, t
  <2>9. s \in Seq({s[n] : n \in 1..N}) /\ Len(s) = N
    <3> DEFINE S == {s[n] : n \in 1..N}
    <3>1. s \in [1..N -> S]
      BY <2>8
    <3> HIDE DEF S
    <3>2. s \in Seq(S) /\ Len(s) = N
      BY <3>1, <2>5
    <3> QED
      BY <3>2 DEF S
  <2>10. Append(s, c[k]) = [n \in 1..(N + 1) |-> IF n = N + 1 THEN c[k] ELSE s[n]]
    BY <2>9, <2>5
  <2>11. t = Append(s, c[k])
    <3>1. \A n \in 1..(N + 1) : t[n] = IF n = N + 1 THEN c[k] ELSE s[n]
      <4>1. \A n \in 1..(N + 1) : n = N + 1 \/ n \in 1..N
        BY <2>5
      <4> QED
        BY <2>8, <4>1
    <3>2. t = [n \in 1..(N + 1) |-> IF n = N + 1 THEN c[k] ELSE s[n]]
      <4>1. t = [n \in 1..(N + 1) |-> t[n]]
        BY <2>8
      <4> QED
        BY <3>1, <4>1
    <3> QED
      BY <3>2, <2>10
  <2> QED
    BY <2>11, <1>8 DEF a, b, s, t
<1> QED
  BY <1>7, <1>8

-----------------------------------------------------------------------------
\* Where the loop is, besides what it has decided.
LoopOK ==
    /\ curr \in Ascending /\ remove \in Ascending
    /\ i \in 1..(Len(curr) + 1) /\ j \in 1..(Len(remove) + 1)

IInv == LoopOK /\ DecidedSoFar

\* What the proofs use of an ascending vector.
LEMMA AscendingIs ==
  ASSUME NEW s \in Ascending
  PROVE  /\ s \in Seq(Nat)
         /\ \A a, b \in DOMAIN s : a < b => s[a] < s[b]
<1>1. PICK n \in 0..MaxValue : s \in [1..n -> 0..(MaxValue - 1)]
  BY DEF Ascending
<1>2. 0..(MaxValue - 1) \in SUBSET Nat /\ n \in Nat
  BY MaxValueAssumption
<1>3. s \in [1..n -> Nat]
  BY <1>1, <1>2
<1>4. s \in Seq(Nat)
  BY <1>2, <1>3
<1> QED
  BY <1>4 DEF Ascending

\* Nothing is decided at first.
LEMMA InitIInv == Init => IInv
<1> SUFFICES ASSUME Init PROVE IInv
  OBVIOUS
<1>1. curr \in Seq(Nat) /\ remove \in Seq(Nat)
  BY AscendingIs DEF Init
<1>2. LoopOK
  BY <1>1 DEF Init, LoopOK
<1>3. SubSeq(curr, 1, i - 1) = <<>>
  BY <1>1 DEF Init
<1>4. Subtract(<<>>, remove) = <<>>
  <2>1. Kept(<<>>, remove) = {}
    BY DEF Kept
  <2>2. Cardinality(Kept(<<>>, remove)) = 0
    BY <2>1, FS_EmptySet
  <2>3. <<>> \in Seq(Nat)
    OBVIOUS
  <2>4. Subtract(<<>>, remove) = [n \in 1..0 |-> Subtract(<<>>, remove)[n]]
    BY <2>2, <2>3, SubtractRanked
  <2>5. 1..0 = {}
    OBVIOUS
  <2> QED
    BY <2>4, <2>5
<1>5. 1..(j - 1) = {}
  BY DEF Init
<1>6. DecidedSoFar
  BY <1>3, <1>4, <1>5 DEF Init, DecidedSoFar
<1> QED
  BY <1>2, <1>6 DEF IInv

\* Every step of either loop decides one more element, or passes one over.
LEMMA NextIInv == IInv /\ [Next]_vars => IInv'
<1> SUFFICES ASSUME IInv, [Next]_vars PROVE IInv'
  OBVIOUS
<1> USE DEF IInv
<1>1. /\ curr \in Seq(Nat) /\ remove \in Seq(Nat)
      /\ \A a, b \in DOMAIN curr : a < b => curr[a] < curr[b]
      /\ \A a, b \in DOMAIN remove : a < b => remove[a] < remove[b]
      /\ i \in 1..(Len(curr) + 1) /\ j \in 1..(Len(remove) + 1)
      /\ Len(curr) \in Nat /\ Len(remove) \in Nat
      /\ DOMAIN curr = 1..Len(curr) /\ DOMAIN remove = 1..Len(remove)
  BY AscendingIs DEF LoopOK
<1>2. /\ \A p \in 1..Len(curr) : curr[p] \in Nat
      /\ \A q \in 1..Len(remove) : remove[q] \in Nat
  BY <1>1
<1>3. \A q \in 1..(j - 1) : \A p \in i..Len(curr) : remove[q] < curr[p]
  BY DEF DecidedSoFar
<1>4. ASSUME i <= Len(curr), curr' = curr, remove' = remove, i' = i + 1
      PROVE  /\ i \in 1..Len(curr) /\ SubSeq(curr', 1, i' - 1) = SubSeq(curr, 1, i)
             /\ \A p \in i'..Len(curr') : p \in i..Len(curr) /\ curr[i] < curr[p]
  <2>1. i' - 1 = i /\ i \in 1..Len(curr)
    BY <1>1, <1>4
  <2>2. \A p \in (i + 1)..Len(curr) : p \in i..Len(curr) /\ p \in 1..Len(curr) /\ i < p
    BY <1>1
  <2> QED
    BY <2>1, <2>2, <1>1, <1>4
<1>5. CASE Equal
  <2>1. /\ i <= Len(curr) /\ j <= Len(remove) /\ curr[i] = remove[j]
        /\ i' = i + 1 /\ j' = j + 1 /\ curr' = curr /\ remove' = remove /\ result' = result
    BY <1>5 DEF Equal, Both
  <2>2. i \notin Kept(curr, remove)
    BY <1>1, <2>1 DEF Kept
  <2>3. result' = Subtract(SubSeq(curr', 1, i' - 1), remove')
    BY <1>1, <1>4, <2>1, <2>2, SubtractStep DEF DecidedSoFar
  <2>4. \A q \in 1..(j' - 1) : \A p \in i'..Len(curr') : remove[q] < curr[p]
    <3>1. \A q \in 1..(j' - 1) : q \in 1..(j - 1) \/ q = j
      BY <1>1, <2>1
    <3> QED
      BY <1>3, <1>4, <2>1, <3>1
  <2>5. LoopOK'
    BY <1>1, <2>1 DEF LoopOK
  <2> QED
    BY <2>1, <2>3, <2>4, <2>5 DEF DecidedSoFar
<1>6. CASE Keep
  <2>1. /\ i <= Len(curr) /\ j <= Len(remove) /\ curr[i] < remove[j]
        /\ i' = i + 1 /\ j' = j /\ curr' = curr /\ remove' = remove
        /\ result' = Append(result, curr[i])
    BY <1>6 DEF Keep, Both
  <2>2. i \in Kept(curr, remove)
    <3>1. ASSUME NEW q \in 1..Len(remove) PROVE curr[i] # remove[q]
      <4>1. i \in 1..Len(curr) /\ i \in i..Len(curr) /\ j \in 1..Len(remove)
        BY <1>1, <2>1
      <4>2. CASE q \in 1..(j - 1)
        BY <4>1, <4>2, <1>2, <1>3
      <4>3. CASE q = j
        BY <4>1, <4>3, <1>2, <2>1
      <4>4. CASE j < q
        <5>1. remove[j] < remove[q]
          BY <4>1, <4>4, <1>1
        <5>2. curr[i] \in Nat /\ remove[j] \in Nat /\ remove[q] \in Nat
          BY <4>1, <1>2
        <5> QED
          BY <5>1, <5>2, <2>1
      <4> QED
        BY <4>1, <4>2, <4>3, <4>4
    <3> QED
      BY <1>1, <2>1, <3>1 DEF Kept
  <2>3. result' = Subtract(SubSeq(curr', 1, i' - 1), remove')
    BY <1>1, <1>4, <2>1, <2>2, SubtractStep DEF DecidedSoFar
  <2>4. \A q \in 1..(j' - 1) : \A p \in i'..Len(curr') : remove[q] < curr[p]
    BY <1>3, <1>4, <2>1
  <2>5. LoopOK'
    BY <1>1, <2>1 DEF LoopOK
  <2> QED
    BY <2>1, <2>3, <2>4, <2>5 DEF DecidedSoFar
<1>7. CASE Skip
  <2>1. /\ i <= Len(curr) /\ j <= Len(remove) /\ curr[i] > remove[j]
        /\ j' = j + 1
        /\ i' = i /\ curr' = curr /\ remove' = remove /\ result' = result
    BY <1>7 DEF Skip, Both
  <2>2. ASSUME NEW p \in i..Len(curr) PROVE remove[j] < curr[p]
    <3>1. i \in 1..Len(curr) /\ p \in 1..Len(curr) /\ j \in 1..Len(remove)
      BY <1>1, <2>1
    <3>2. p = i \/ i < p
      BY <1>1
    <3> QED
      <4>1. p = i \/ curr[i] < curr[p]
        BY <1>1, <3>1, <3>2
      <4>2. curr[i] \in Nat /\ remove[j] \in Nat /\ curr[p] \in Nat
        BY <3>1, <1>2
      <4> QED
        BY <4>1, <4>2, <2>1
  <2>3. \A q \in 1..(j' - 1) : \A p \in i..Len(curr) : remove[q] < curr[p]
    <3>1. \A q \in 1..(j' - 1) : q \in 1..(j - 1) \/ q = j
      BY <1>1, <2>1
    <3> QED
      BY <1>3, <2>2, <3>1
  <2>4. LoopOK'
    BY <1>1, <2>1 DEF LoopOK
  <2> QED
    BY <2>1, <2>3, <2>4 DEF DecidedSoFar
<1>8. CASE Rest
  <2>1. /\ i <= Len(curr) /\ ~(j <= Len(remove))
        /\ i' = i + 1 /\ j' = j /\ curr' = curr /\ remove' = remove
        /\ result' = Append(result, curr[i])
    BY <1>8, <1>1 DEF Rest, Both
  <2>2. i \in Kept(curr, remove)
    <3>1. ASSUME NEW q \in 1..Len(remove) PROVE curr[i] # remove[q]
      <4>1. i \in 1..Len(curr) /\ i \in i..Len(curr) /\ q \in 1..(j - 1)
        BY <1>1, <2>1
      <4> QED
        BY <4>1, <1>2, <1>3
    <3> QED
      BY <1>1, <2>1, <3>1 DEF Kept
  <2>3. result' = Subtract(SubSeq(curr', 1, i' - 1), remove')
    BY <1>1, <1>4, <2>1, <2>2, SubtractStep DEF DecidedSoFar
  <2>4. \A q \in 1..(j' - 1) : \A p \in i'..Len(curr') : remove[q] < curr[p]
    BY <1>3, <1>4, <2>1
  <2>5. LoopOK'
    BY <1>1, <2>1 DEF LoopOK
  <2> QED
    BY <2>1, <2>3, <2>4, <2>5 DEF DecidedSoFar
<1>9. CASE UNCHANGED vars
  BY <1>9 DEF vars, LoopOK, DecidedSoFar
<1> QED
  BY <1>5, <1>6, <1>7, <1>8, <1>9 DEF Next

\* The loop stays within IInv.
LEMMA Inductive == Spec => []IInv
  BY InitIInv, NextIInv, PTL DEF Spec

\* While the loop runs, what it has put into result is right for the elements
\* it has passed, and no element it passed over in remove is still to come.
THEOREM DecidesInOrder == Spec => []DecidedSoFar
<1>1. IInv => DecidedSoFar
  BY DEF IInv
<1> QED
  BY <1>1, Inductive, PTL

\* subtract_vectors() returns the elements of curr that are not in remove, in
\* their order, for every pair of ascending vectors.
THEOREM ComputesDifference == Spec => []ReturnsDifference
<1>1. IInv => ReturnsDifference
  <2> SUFFICES ASSUME IInv, Done PROVE result = Subtract(curr, remove)
    BY DEF ReturnsDifference
  <2>1. curr \in Seq(Nat) /\ i \in 1..(Len(curr) + 1)
    BY AscendingIs DEF IInv, LoopOK
  <2>2. i - 1 = Len(curr)
    BY <2>1 DEF Done
  <2>3. SubSeq(curr, 1, Len(curr)) = curr
    BY <2>1
  <2> QED
    BY <2>2, <2>3 DEF IInv, DecidedSoFar
<1> QED
  BY <1>1, Inductive, PTL

=============================================================================
