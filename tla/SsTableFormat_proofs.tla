------------------------ MODULE SsTableFormat_proofs ------------------------
(***************************************************************************)
(* What a reader of an SSTable gets, a point lookup or a scan, is what was *)
(* written: for any entries, any size of the blocks, and any two hash      *)
(* functions.                                                              *)
(*                                                                         *)
(* For a lookup, the invariant says nothing of where in a block an entry   *)
(* comes.  It is enough that every entry the writer has passed is in a     *)
(* block or in the one being filled, that these hold nothing else, and     *)
(* that the keys of a block are neither below its key in the sparse index  *)
(* nor as high as that of a later one.  A scan reads the blocks in their   *)
(* order, and needs to know which entries come where: Positions, further   *)
(* down.                                                                   *)
(***************************************************************************)
EXTENDS SsTableFormat, Vectors_proofs

(* The entries es of a memtable, in a file f whose sparse index, so far, is *)
(* sp.  The writer has passed so many of them, and recs are those that are  *)
(* not yet in the file.                                                     *)

\* The records of the block that the nth element of the index is about.
Recs(f, n) == f[n + 1].recs

\* The blocks in the file are those of the sparse index, in its order.
BlocksThere(f, sp) ==
    /\ Len(f) >= Len(sp) + 1
    /\ \A n \in 1..Len(sp) :
          /\ sp[n].at = n + 1
          /\ f[n + 1].part = "block"
          /\ Recs(f, n) \in Seq(Entry) /\ Recs(f, n) # <<>>
          /\ sp[n].key = Recs(f, n)[1].key

\* The mth entry is in a block, or in recs.
IsIn(es, f, sp, recs, m) ==
    \/ \E n \in 1..Len(sp) : \E r \in DOMAIN Recs(f, n) : Recs(f, n)[r] = es[m]
    \/ \E r \in DOMAIN recs : recs[r] = es[m]

\* The blocks and recs hold the first so many entries, and nothing else.
Holds(es, f, sp, recs, many) ==
    /\ \A m \in 1..many : IsIn(es, f, sp, recs, m)
    /\ \A n \in 1..Len(sp) : \A r \in DOMAIN Recs(f, n) :
          \E m \in 1..many : Recs(f, n)[r] = es[m]
    /\ \A r \in DOMAIN recs : \E m \in 1..many : recs[r] = es[m]

\* The keys of a block start with its key in the index, and end before the next.
BlocksOrdered(f, sp) ==
    \A n \in 1..Len(sp) : \A r \in DOMAIN Recs(f, n) :
        /\ sp[n].key <= Recs(f, n)[r].key
        /\ \A later \in (n + 1)..Len(sp) : Recs(f, n)[r].key < sp[later].key

\* So do those of the records to be put into the next block.
RecsOrdered(f, sp, recs) ==
    \A r \in DOMAIN recs :
        /\ recs[1].key <= recs[r].key
        /\ \A n \in 1..Len(sp) : \A q \in DOMAIN Recs(f, n) : Recs(f, n)[q].key < recs[1].key

Laid(es, f, sp, recs, many) ==
    /\ recs \in Seq(Entry) /\ many \in 0..Len(es)
    /\ BlocksThere(f, sp) /\ Holds(es, f, sp, recs, many)
    /\ BlocksOrdered(f, sp) /\ RecsOrdered(f, sp, recs)

-----------------------------------------------------------------------------
(* What holds at each step of write_to_ss_table().                         *)

\* The bits of every entry that was passed are set.
BitsSet(many) ==
    \A m \in 1..many : BitsOf(entries[m].key, Bytes, Hashes) \subseteq bits

\* A part of the file that an offset leads to.
BloomThere ==
    /\ bloomAt \in 1..Len(file)
    /\ file[bloomAt] = [part |-> "bloom", bytes |-> Bytes, hashes |-> Hashes, bits |-> bits]
SparseThere ==
    /\ sparseAt \in 1..Len(file)
    /\ file[sparseAt] = [part |-> "sparse", index |-> sparse]
FooterThere ==
    /\ Len(file) # 0
    /\ file[Len(file)] = [part |-> "footer", bloom |-> bloomAt, sparse |-> sparseAt]

\* What is in the file when each part is to be written.
FileOK ==
    /\ phase = "header" =>
          file = <<>> /\ sparse = <<>> /\ block = <<>> /\ next = 1
    /\ phase = "data" =>
          /\ Len(file) = Len(sparse) + 1
          /\ Laid(entries, file, sparse, block, next - 1) /\ BitsSet(next - 1)
    /\ phase \in {"bloom", "sparse", "footer", "written"} =>
          Laid(entries, file, sparse, <<>>, Len(entries)) /\ BitsSet(Len(entries))
    /\ phase \in {"sparse", "footer", "written"} => BloomThere
    /\ phase \in {"footer", "written"} => SparseThere
    /\ phase = "written" => FooterThere

\* Only a complete file ends with a footer.
NoFooter ==
    phase # "written" => \A at \in DOMAIN file : file[at].part # "footer"

IInv == TypeOK /\ FileOK /\ NoFooter

-----------------------------------------------------------------------------
\* What the proofs use of the entries: they are sorted by key, no two have the
\* same, and there is one.
LEMMA InputsAre ==
  ASSUME NEW es \in Inputs
  PROVE  /\ es \in Seq(Entry) /\ Len(es) \in Nat /\ Len(es) # 0
         /\ Len(es) \in 1..Cardinality(Key)
         /\ \A m \in 1..Len(es) : es[m] \in Entry /\ es[m].key \in Nat
         /\ \A m, n \in 1..Len(es) : m < n => es[m].key < es[n].key
<1>1. PICK n \in 1..Cardinality(Key) : es \in [1..n -> Entry]
  BY DEF Inputs, Entry
<1>2. Cardinality(Key) \in Nat
  BY KeyAssumption, FS_CardinalityType
<1>3. n \in Nat /\ n # 0
  BY <1>2
<1>4. es \in Seq(Entry) /\ Len(es) = n /\ DOMAIN es = 1..n
  BY <1>1, <1>3
<1>5. Key \in SUBSET Nat
  BY KeyAssumption, StringAssumption
<1>6. \A m \in 1..n : es[m] \in Entry
  BY <1>1
<1>7. \A e \in Entry : e.key \in Nat
  BY <1>5 DEF Entry
<1>8. \A a, b \in DOMAIN es : a < b => es[a].key < es[b].key
  BY DEF Inputs
<1> QED
  BY <1>3, <1>4, <1>6, <1>7, <1>8

\* Entries with the same key are the same entry.
LEMMA KeysDiffer ==
  ASSUME NEW es \in Inputs, NEW m \in 1..Len(es), NEW n \in 1..Len(es),
         es[m].key = es[n].key
  PROVE  m = n
<1>1. /\ es[m].key \in Nat /\ es[n].key \in Nat /\ m \in Nat /\ n \in Nat
      /\ m < n => es[m].key < es[n].key
      /\ n < m => es[n].key < es[m].key
  BY InputsAre
<1> QED
  BY <1>1

\* FindIn finds the record with the key if there is one, and it does not matter
\* which of several with the same key there is only one.
LEMMA FindInIs ==
  ASSUME NEW recs \in Seq(Entry), NEW k
  PROVE  /\ (\A r \in DOMAIN recs : recs[r].key # k) => FindIn(recs, k) = NotFound
         /\ \A r \in DOMAIN recs : recs[r].key = k =>
               \E q \in DOMAIN recs : recs[q].key = k /\ FindIn(recs, k) = recs[q].cell
<1> DEFINE hits == {n \in DOMAIN recs : recs[n].key = k}
<1>1. CASE hits = {}
  BY <1>1 DEF FindIn
<1>2. CASE hits # {}
  <2>1. Len(recs) \in Nat /\ hits \in SUBSET (0..Len(recs))
    OBVIOUS
  <2>2. Max(hits) \in hits
    BY <1>2, <2>1, MaxIsGreatest
  <2> DEFINE last == Max(hits)
  <2>3. FindIn(recs, k) = recs[last].cell
    BY <1>2 DEF FindIn
  <2>4. last \in hits
    BY <2>2
  <2> HIDE DEF last
  <2> QED
    BY <2>3, <2>4
<1> QED
  BY <1>1, <1>2

\* FindIn finds what an entry has: its key is no other entry's.
LEMMA FindInEntries ==
  ASSUME NEW es \in Inputs, NEW m \in 1..Len(es)
  PROVE  FindIn(es, es[m].key) = es[m].cell
<1>1. es \in Seq(Entry) /\ DOMAIN es = 1..Len(es)
  BY InputsAre
<1>2. PICK q \in DOMAIN es : es[q].key = es[m].key /\ FindIn(es, es[m].key) = es[q].cell
  BY <1>1, FindInIs
<1>3. q = m
  BY <1>1, <1>2, KeysDiffer
<1> QED
  BY <1>2, <1>3

\* The block that the sparse index leads to is the one that has the key, if any
\* block has.
LEMMA BlockForIs ==
  ASSUME TypeOK, Laid(entries, file, sparse, <<>>, Len(entries)), NEW k \in Key
  PROVE  /\ BlockFor(sparse, k) = 0 =>
               \A n \in 1..Len(sparse) : \A r \in DOMAIN Recs(file, n) : Recs(file, n)[r].key # k
         /\ BlockFor(sparse, k) # 0 =>
               \E n \in 1..Len(sparse) :
                  /\ BlockFor(sparse, k) = n + 1
                  /\ \A other \in 1..Len(sparse) : \A r \in DOMAIN Recs(file, other) :
                        Recs(file, other)[r].key = k => other = n
<1> DEFINE upTo == {n \in DOMAIN sparse : sparse[n].key <= k}
<1>1. /\ sparse \in Index /\ DOMAIN sparse = 1..Len(sparse) /\ Len(sparse) \in Nat
      /\ \A n \in 1..Len(sparse) : sparse[n].key \in Key
  <2> DEFINE R == [key : Key, at : Nat]
  <2>1. sparse \in Seq(R)
    BY DEF TypeOK, Index
  <2>2. \A e \in R : e.key \in Key
    OBVIOUS
  <2> HIDE DEF R
  <2>3. \A n \in 1..Len(sparse) : sparse[n] \in R
    BY <2>1
  <2> QED
    BY <2>1, <2>2, <2>3 DEF Index, R
<1>2. Key \in SUBSET Nat
  BY KeyAssumption, StringAssumption
<1>3. ASSUME NEW n \in 1..Len(sparse), NEW r \in DOMAIN Recs(file, n)
      PROVE  /\ Recs(file, n)[r].key \in Nat /\ sparse[n].key <= Recs(file, n)[r].key
             /\ \A later \in (n + 1)..Len(sparse) : Recs(file, n)[r].key < sparse[later].key
  <2>1. Recs(file, n) \in Seq(Entry)
    BY DEF Laid, BlocksThere
  <2>2. Recs(file, n)[r] \in Entry
    BY <2>1
  <2>3. Recs(file, n)[r].key \in Nat
    BY <2>2, <1>2 DEF Entry
  <2> QED
    BY <2>3 DEF Laid, BlocksOrdered
<1>4. CASE upTo = {}
  <2>1. BlockFor(sparse, k) = 0
    BY <1>4 DEF BlockFor
  <2>2. ASSUME NEW n \in 1..Len(sparse), NEW r \in DOMAIN Recs(file, n), Recs(file, n)[r].key = k
        PROVE  FALSE
    BY <2>2, <1>1, <1>3, <1>4
  <2> QED
    BY <2>1, <2>2
<1>5. CASE upTo # {}
  <2> DEFINE n == Max(upTo)
  <2>1. upTo \in SUBSET (0..Len(sparse))
    BY <1>1
  <2>2. n \in upTo /\ \A m \in upTo : m <= n
    BY <1>1, <1>5, <2>1, MaxIsGreatest
  <2>3. BlockFor(sparse, k) = sparse[n].at
    BY <1>5 DEF BlockFor
  <2> HIDE DEF n
  <2>4. n \in 1..Len(sparse) /\ sparse[n].key <= k /\ n \in Nat
    BY <1>1, <2>2
  <2>5. sparse[n].at = n + 1
    BY <2>4 DEF Laid, BlocksThere
  <2>6. ASSUME NEW other \in 1..Len(sparse), NEW r \in DOMAIN Recs(file, other), Recs(file, other)[r].key = k
        PROVE  other = n
    <3>1. other \in upTo /\ other <= n
      BY <2>6, <1>1, <1>3, <2>2
    <3>2. ~(n \in (other + 1)..Len(sparse))
      <4> SUFFICES ASSUME n \in (other + 1)..Len(sparse) PROVE FALSE
        OBVIOUS
      <4>1. k < sparse[n].key
        BY <2>6, <1>3
      <4>2. sparse[n].key \in Nat /\ k \in Nat
        BY <2>4, <1>1, <1>2
      <4> QED
        BY <4>1, <4>2, <2>4
    <3> QED
      BY <3>1, <3>2, <2>4
  <2> QED
    BY <2>3, <2>4, <2>5, <2>6
<1> QED
  BY <1>4, <1>5

\* In a complete file a point lookup answers what was written.
LEMMA LookupIs ==
  ASSUME IInv, phase = "written", NEW k \in Key
  PROVE  Lookup(k) = Written(k)
<1> USE DEF IInv
<1>1. /\ Laid(entries, file, sparse, <<>>, Len(entries)) /\ BitsSet(Len(entries))
      /\ BloomThere /\ SparseThere /\ FooterThere
  BY DEF FileOK
<1>2. /\ file \in Seq(Part) /\ DOMAIN file = 1..Len(file) /\ Len(file) \in Nat
      /\ entries \in Inputs /\ entries \in Seq(Entry) /\ DOMAIN entries = 1..Len(entries)
  BY InputsAre DEF TypeOK
<1> DEFINE foot == file[Len(file)]
<1> DEFINE at == BlockFor(sparse, k)
<1>3. /\ IsPart("footer", Len(file)) /\ foot.bloom = bloomAt /\ foot.sparse = sparseAt
      /\ IsPart("bloom", bloomAt) /\ file[bloomAt].bytes = Bytes
      /\ file[bloomAt].hashes = Hashes /\ file[bloomAt].bits = bits
      /\ IsPart("sparse", sparseAt) /\ file[sparseAt].index = sparse
  BY <1>1, <1>2 DEF BloomThere, SparseThere, FooterThere, IsPart
<1>4. Lookup(k) = IF ~(BitsOf(k, Bytes, Hashes) \subseteq bits) THEN NotFound
                  ELSE IF at = 0 THEN NotFound
                  ELSE IF ~IsPart("block", at) THEN Throws
                  ELSE FindIn(file[at].recs, k)
  BY <1>3 DEF Lookup
<1> HIDE DEF at
\* The key was written, with the mth entry.
<1>5. ASSUME NEW m \in 1..Len(entries), entries[m].key = k PROVE Lookup(k) = Written(k)
  <2>1. Written(k) = entries[m].cell
    BY <1>2, <1>5, FindInEntries DEF Written
  <2>2. BitsOf(k, Bytes, Hashes) \subseteq bits
    BY <1>1, <1>5 DEF BitsSet
  <2>3. PICK n \in 1..Len(sparse) : \E r \in DOMAIN Recs(file, n) : Recs(file, n)[r] = entries[m]
    <3>1. DOMAIN <<>> = {}
      OBVIOUS
    <3> QED
      BY <1>1, <3>1 DEF Laid, Holds, IsIn
  <2>4. at = n + 1
    BY <1>1, <1>5, <2>3, BlockForIs DEF at
  <2>5. IsPart("block", at) /\ file[at].recs = Recs(file, n) /\ Recs(file, n) \in Seq(Entry) /\ at # 0
    <3>1. n + 1 \in 1..Len(file)
      BY <1>1, <1>2 DEF Laid, BlocksThere
    <3> QED
      BY <1>1, <1>2, <2>4, <3>1 DEF Laid, BlocksThere, IsPart, Recs
  <2>6. PICK q \in DOMAIN Recs(file, n) : Recs(file, n)[q].key = k /\ FindIn(Recs(file, n), k) = Recs(file, n)[q].cell
    BY <1>5, <2>3, <2>5, FindInIs
  <2>7. PICK p \in 1..Len(entries) : Recs(file, n)[q] = entries[p]
    BY <1>1 DEF Laid, Holds
  <2>8. p = m
    BY <1>2, <1>5, <2>6, <2>7, KeysDiffer
  <2>9. FindIn(Recs(file, n), k) = entries[m].cell
    BY <2>6, <2>7, <2>8
  <2>10. Lookup(k) = FindIn(Recs(file, n), k)
    BY <1>4, <2>2, <2>5
  <2> QED
    BY <2>1, <2>9, <2>10
\* It was not.
<1>6. ASSUME \A m \in 1..Len(entries) : entries[m].key # k PROVE Lookup(k) = Written(k)
  <2>1. Written(k) = NotFound
    BY <1>2, <1>6, FindInIs DEF Written
  <2>2. CASE at # 0
    <3>1. PICK n \in 1..Len(sparse) : at = n + 1
      BY <1>1, <2>2, BlockForIs DEF at
    <3>2. IsPart("block", at) /\ file[at].recs = Recs(file, n) /\ Recs(file, n) \in Seq(Entry)
      <4>1. n + 1 \in 1..Len(file)
        BY <1>1, <1>2 DEF Laid, BlocksThere
      <4> QED
        BY <1>1, <1>2, <3>1, <4>1 DEF Laid, BlocksThere, IsPart, Recs
    <3>3. \A r \in DOMAIN Recs(file, n) : Recs(file, n)[r].key # k
      BY <1>1, <1>6 DEF Laid, Holds
    <3>4. FindIn(Recs(file, n), k) = NotFound
      BY <3>2, <3>3, FindInIs
    <3> QED
      BY <1>4, <2>1, <3>2, <3>4
  <2> QED
    BY <1>4, <2>1, <2>2
<1> QED
  BY <1>5, <1>6

-----------------------------------------------------------------------------
\* What is laid out is not disturbed by another part behind it.
LEMMA AppendKeeps ==
  ASSUME NEW es, NEW f \in Seq(Part), NEW sp \in Index, NEW recs, NEW many, NEW x,
         Laid(es, f, sp, recs, many)
  PROVE  Laid(es, Append(f, x), sp, recs, many)
<1> DEFINE g == Append(f, x)
<1>1. Len(f) \in Nat /\ Len(g) = Len(f) + 1 /\ \A at \in 1..Len(f) : g[at] = f[at]
  OBVIOUS
<1>2. Len(sp) \in Nat /\ Len(f) >= Len(sp) + 1
  BY DEF Laid, BlocksThere, Index
<1> HIDE DEF g
<1>3. \A n \in 1..Len(sp) : Recs(g, n) = Recs(f, n) /\ g[n + 1] = f[n + 1]
  <2>1. \A n \in 1..Len(sp) : n + 1 \in 1..Len(f)
    BY <1>1, <1>2
  <2> QED
    BY <1>1, <2>1 DEF Recs
<1>4. BlocksThere(g, sp)
  BY <1>1, <1>2, <1>3 DEF Laid, BlocksThere
<1>5. Holds(es, g, sp, recs, many)
  <2>1. ASSUME NEW m \in 1..many PROVE IsIn(es, g, sp, recs, m)
    <3>1. IsIn(es, f, sp, recs, m)
      BY DEF Laid, Holds
    <3> QED
      BY <1>3, <3>1 DEF IsIn
  <2>2. ASSUME NEW n \in 1..Len(sp), NEW r \in DOMAIN Recs(g, n)
        PROVE  \E m \in 1..many : Recs(g, n)[r] = es[m]
    BY <1>3 DEF Laid, Holds
  <2>3. \A r \in DOMAIN recs : \E m \in 1..many : recs[r] = es[m]
    BY DEF Laid, Holds
  <2> QED
    BY <2>1, <2>2, <2>3 DEF Holds
<1>6. BlocksOrdered(g, sp) /\ RecsOrdered(g, sp, recs)
  BY <1>3 DEF Laid, BlocksOrdered, RecsOrdered
<1> QED
  BY <1>4, <1>5, <1>6 DEF Laid, g

\* The loop passes the next entry, which has the highest key so far.
LEMMA PassKeeps ==
  ASSUME NEW es \in Inputs, NEW f, NEW sp, NEW recs, NEW many,
         Laid(es, f, sp, recs, many), many < Len(es)
  PROVE  Laid(es, f, sp, Append(recs, es[many + 1]), many + 1)
<1> DEFINE e == es[many + 1]
<1> DEFINE filled == Append(recs, e)
<1>1. /\ many \in Nat /\ many + 1 \in 1..Len(es) /\ many + 1 \in 0..Len(es)
      /\ \A m \in 1..(many + 1) : m \in 1..many \/ m = many + 1
      /\ \A m \in 1..many : m \in 1..(many + 1) /\ m \in 1..Len(es) /\ m < many + 1
  BY InputsAre DEF Laid
<1>2. /\ e \in Entry /\ e.key \in Nat
      /\ \A m \in 1..many : es[m].key < e.key /\ es[m].key \in Nat
  <2>1. e \in Entry /\ e.key \in Nat
    BY <1>1, InputsAre
  <2>2. \A m \in 1..many : es[m].key \in Nat
    BY <1>1, InputsAre
  <2>3. \A m \in 1..many : es[m].key < e.key
    BY <1>1, InputsAre
  <2> QED
    BY <2>1, <2>2, <2>3
<1>3. /\ recs \in Seq(Entry) /\ Len(recs) \in Nat /\ DOMAIN recs = 1..Len(recs)
  BY DEF Laid
<1>4. /\ filled \in Seq(Entry) /\ DOMAIN filled = 1..(Len(recs) + 1)
      /\ filled[Len(recs) + 1] = e /\ \A r \in DOMAIN recs : filled[r] = recs[r]
  BY <1>2, <1>3
<1>5. \A r \in DOMAIN filled : r \in DOMAIN recs \/ filled[r] = e
  BY <1>3, <1>4
<1> HIDE DEF e, filled
<1>6. \A r \in DOMAIN recs : r \in DOMAIN filled
  BY <1>3, <1>4
<1>7. Holds(es, f, sp, filled, many + 1)
  <2>1. ASSUME NEW m \in 1..many PROVE IsIn(es, f, sp, filled, m)
    <3>1. IsIn(es, f, sp, recs, m)
      BY DEF Laid, Holds
    <3>2. \A r \in DOMAIN recs : r \in DOMAIN filled /\ filled[r] = recs[r]
      BY <1>4, <1>6
    <3> QED
      BY <3>1, <3>2 DEF IsIn
  <2>2. IsIn(es, f, sp, filled, many + 1)
    <3>1. Len(recs) + 1 \in DOMAIN filled
      BY <1>3, <1>4
    <3> QED
      BY <1>4, <3>1 DEF IsIn, e
  <2>3. \A m \in 1..(many + 1) : IsIn(es, f, sp, filled, m)
    BY <1>1, <2>1, <2>2
  <2>4. ASSUME NEW n \in 1..Len(sp), NEW r \in DOMAIN Recs(f, n)
        PROVE  \E m \in 1..(many + 1) : Recs(f, n)[r] = es[m]
    BY <1>1 DEF Laid, Holds
  <2>5. ASSUME NEW r \in DOMAIN filled
        PROVE  \E m \in 1..(many + 1) : filled[r] = es[m]
    <3>1. CASE r \in DOMAIN recs
      BY <1>1, <1>4, <3>1 DEF Laid, Holds
    <3>2. CASE filled[r] = e
      <4>1. many + 1 \in 1..(many + 1)
        BY <1>1
      <4> QED
        BY <3>2, <4>1 DEF e
    <3> QED
      BY <1>5, <3>1, <3>2
  <2> QED
    BY <2>3, <2>4, <2>5 DEF Holds
\* All that was there is below the new key.
<1>8. \A n \in 1..Len(sp) : \A r \in DOMAIN Recs(f, n) : Recs(f, n)[r].key < e.key
  BY <1>2 DEF Laid, Holds
<1>9. \A r \in DOMAIN recs : recs[r].key < e.key /\ recs[r].key \in Nat
  BY <1>2 DEF Laid, Holds
<1>10. RecsOrdered(f, sp, filled)
  <2>1. CASE recs = <<>>
    <3>1. filled[1] = e /\ \A r \in DOMAIN filled : filled[r] = e
      BY <1>3, <1>4, <1>5, <2>1
    <3>2. e.key <= e.key
      BY <1>2
    <3> QED
      BY <1>8, <3>1, <3>2 DEF RecsOrdered
  <2>2. CASE recs # <<>>
    <3>1. 1 \in DOMAIN recs /\ filled[1] = recs[1]
      BY <1>3, <1>4, <2>2
    <3>2. recs[1].key <= e.key
      <4>1. recs[1].key < e.key /\ recs[1].key \in Nat
        BY <1>9, <3>1
      <4> QED
        BY <1>2, <4>1
    <3>3. \A r \in DOMAIN filled : filled[1].key <= filled[r].key
      BY <1>4, <1>5, <3>1, <3>2 DEF Laid, RecsOrdered
    <3>4. \A n \in 1..Len(sp) : \A q \in DOMAIN Recs(f, n) : Recs(f, n)[q].key < filled[1].key
      BY <3>1 DEF Laid, RecsOrdered
    <3> QED
      BY <3>3, <3>4 DEF RecsOrdered
  <2> QED
    BY <2>1, <2>2
<1> QED
  BY <1>1, <1>4, <1>7, <1>10 DEF Laid, filled, e

\* The records become a block, and it gets its place in the index.
LEMMA PutKeeps ==
  ASSUME NEW es \in Inputs, NEW f \in Seq(Part), NEW sp \in Index, NEW recs, NEW many,
         Laid(es, f, sp, recs, many), recs # <<>>, Len(f) = Len(sp) + 1
  PROVE  LET g  == Append(f, [part |-> "block", recs |-> recs])
             sq == Append(sp, [key |-> recs[1].key, at |-> Len(f) + 1])
         IN  /\ g \in Seq(Part) /\ sq \in Index /\ Len(g) = Len(sq) + 1
             /\ Laid(es, g, sq, <<>>, many)
<1> DEFINE b == [part |-> "block", recs |-> recs]
<1> DEFINE i == [key |-> recs[1].key, at |-> Len(f) + 1]
<1> DEFINE g == Append(f, b)
<1> DEFINE sq == Append(sp, i)
<1> DEFINE L == Len(sp)
<1>1. /\ recs \in Seq(Entry) /\ 1 \in DOMAIN recs /\ DOMAIN recs = 1..Len(recs)
      /\ recs[1] \in Entry /\ Len(recs) \in Nat
  BY DEF Laid
<1>2. b \in Part /\ b.part = "block" /\ b.recs = recs
  BY <1>1 DEF Part
<1>3. L \in Nat /\ Len(f) = L + 1 /\ i.key = recs[1].key /\ i.at = L + 2
  BY DEF Index
<1>4. i \in [key : Key, at : Nat]
  BY <1>1, <1>3 DEF Entry
<1> HIDE DEF b, i
<1>5. /\ g \in Seq(Part) /\ Len(g) = L + 2 /\ g[L + 2] = b
      /\ \A at \in 1..(L + 1) : g[at] = f[at]
  BY <1>2, <1>3
<1>6. /\ sq \in Index /\ Len(sq) = L + 1 /\ sq[L + 1] = i
      /\ \A n \in 1..L : sq[n] = sp[n]
  BY <1>4 DEF Index
<1> HIDE DEF g, sq
<1>7. \A n \in 1..L : Recs(g, n) = Recs(f, n) /\ g[n + 1] = f[n + 1]
  <2>1. \A n \in 1..L : n + 1 \in 1..(L + 1)
    BY <1>3
  <2> QED
    BY <1>5, <2>1 DEF Recs
<1>8. Recs(g, L + 1) = recs /\ g[L + 1 + 1] = b
  <2>1. L + 1 + 1 = L + 2
    BY <1>3
  <2> QED
    BY <1>2, <1>5, <2>1 DEF Recs
<1>9. \A n \in 1..Len(sq) : n \in 1..L \/ n = L + 1
  BY <1>3, <1>6
<1>10. L + 1 \in 1..Len(sq) /\ \A n \in 1..L : n \in 1..Len(sq)
  BY <1>3, <1>6
<1>11. BlocksThere(g, sq)
  <2>1. Len(g) >= Len(sq) + 1
    BY <1>3, <1>5, <1>6
  <2>2. ASSUME NEW n \in 1..L
        PROVE  /\ sq[n].at = n + 1 /\ g[n + 1].part = "block"
               /\ Recs(g, n) \in Seq(Entry) /\ Recs(g, n) # <<>>
               /\ sq[n].key = Recs(g, n)[1].key
    BY <1>6, <1>7 DEF Laid, BlocksThere
  <2>3. /\ sq[L + 1].at = L + 1 + 1 /\ g[L + 1 + 1].part = "block"
        /\ Recs(g, L + 1) \in Seq(Entry) /\ Recs(g, L + 1) # <<>>
        /\ sq[L + 1].key = Recs(g, L + 1)[1].key
    BY <1>1, <1>2, <1>3, <1>6, <1>8
  <2> HIDE DEF L
  <2> QED
    BY <1>9, <2>1, <2>2, <2>3 DEF BlocksThere
<1>12. Holds(es, g, sq, <<>>, many)
  <2>1. ASSUME NEW m \in 1..many PROVE IsIn(es, g, sq, <<>>, m)
    <3>1. IsIn(es, f, sp, recs, m)
      BY DEF Laid, Holds
    <3>2. CASE \E n \in 1..L : \E r \in DOMAIN Recs(f, n) : Recs(f, n)[r] = es[m]
      BY <1>7, <1>10, <3>2 DEF IsIn
    <3>3. CASE \E r \in DOMAIN recs : recs[r] = es[m]
      BY <1>8, <1>10, <3>3 DEF IsIn
    <3> QED
      BY <3>1, <3>2, <3>3 DEF IsIn
  <2>2. ASSUME NEW n \in 1..Len(sq), NEW r \in DOMAIN Recs(g, n)
        PROVE  \E m \in 1..many : Recs(g, n)[r] = es[m]
    <3>1. CASE n \in 1..L
      BY <1>7, <3>1 DEF Laid, Holds
    <3>2. CASE n = L + 1
      BY <1>8, <3>2 DEF Laid, Holds
    <3> QED
      BY <1>9, <3>1, <3>2
  <2>3. DOMAIN <<>> = {}
    OBVIOUS
  <2> QED
    BY <2>1, <2>2, <2>3 DEF Holds
<1>13. BlocksOrdered(g, sq)
  <2> SUFFICES ASSUME NEW n \in 1..Len(sq), NEW r \in DOMAIN Recs(g, n)
               PROVE  /\ sq[n].key <= Recs(g, n)[r].key
                      /\ \A later \in (n + 1)..Len(sq) : Recs(g, n)[r].key < sq[later].key
    BY DEF BlocksOrdered
  <2>1. CASE n \in 1..L
    <3>1. r \in DOMAIN Recs(f, n) /\ Recs(g, n)[r] = Recs(f, n)[r] /\ sq[n] = sp[n]
      BY <1>6, <1>7, <2>1
    <3>2. sq[n].key <= Recs(g, n)[r].key
      BY <2>1, <3>1 DEF Laid, BlocksOrdered
    <3>3. Recs(f, n)[r].key < recs[1].key
      BY <1>1, <2>1, <3>1 DEF Laid, RecsOrdered
    <3>4. ASSUME NEW later \in (n + 1)..Len(sq)
          PROVE  Recs(g, n)[r].key < sq[later].key
      <4>1. (later \in (n + 1)..L /\ later \in 1..L) \/ later = L + 1
        BY <1>3, <1>6, <2>1
      <4>2. CASE later \in (n + 1)..L /\ later \in 1..L
        BY <1>6, <2>1, <3>1, <4>2 DEF Laid, BlocksOrdered
      <4>3. CASE later = L + 1
        BY <1>3, <1>6, <3>1, <3>3, <4>3
      <4> QED
        BY <4>1, <4>2, <4>3
    <3> QED
      BY <3>2, <3>4
  <2>2. CASE n = L + 1
    <3>1. r \in DOMAIN recs /\ Recs(g, n)[r] = recs[r] /\ sq[n].key = recs[1].key
      BY <1>3, <1>6, <1>8, <2>2
    <3>2. recs[1].key <= recs[r].key
      BY <3>1 DEF Laid, RecsOrdered
    <3>3. (n + 1)..Len(sq) = {}
      BY <1>3, <1>6, <2>2
    <3> QED
      BY <3>1, <3>2, <3>3
  <2> QED
    BY <1>9, <2>1, <2>2
<1>14. RecsOrdered(g, sq, <<>>) /\ <<>> \in Seq(Entry)
  <2>1. DOMAIN <<>> = {}
    OBVIOUS
  <2> QED
    BY <2>1 DEF RecsOrdered
<1>15. Len(g) = Len(sq) + 1
  BY <1>3, <1>5, <1>6
<1> QED
  BY <1>5, <1>6, <1>11, <1>12, <1>13, <1>14, <1>15 DEF Laid, b, i, g, sq

\* A bit of the filter is a number.
LEMMA BitsAreNumbers ==
  ASSUME NEW k \in Key, entries \in Inputs
  PROVE  /\ BitsOf(k, Bytes, Hashes) \in SUBSET Nat
         /\ Bytes \in Nat /\ Hashes \in Nat
<1>1. Len(entries) \in 1..Cardinality(Key)
  BY InputsAre
<1>2. Bytes \in Nat \ {0} /\ Hashes \in Nat \ {0}
  BY <1>1, ParameterAssumption DEF Bytes, Hashes
<1> DEFINE m == Bytes * BitsPerByte
<1>3. \A a, b \in Nat : a # 0 /\ b # 0 => a * b \in Nat /\ a * b # 0
  OBVIOUS
<1>4. m \in Nat /\ m # 0
  BY <1>2, <1>3, ParameterAssumption
<1> HIDE DEF m
<1>5. \A a, b \in Nat : b # 0 => a % b \in Nat
  OBVIOUS
<1>6. \A a, b, c \in Nat : a + b * c \in Nat
  OBVIOUS
<1>7. ASSUME NEW i \in 0..(Hashes - 1)
      PROVE  ((H1[k] + i * H2[k]) % HashMod) % m \in Nat
  <2>1. H1[k] + i * H2[k] \in Nat
    BY <1>6, ParameterAssumption
  <2>2. (H1[k] + i * H2[k]) % HashMod \in Nat
    BY <2>1, <1>5, ParameterAssumption
  <2> QED
    BY <2>2, <1>4, <1>5
<1>8. BitsOf(k, Bytes, Hashes) = {((H1[k] + i * H2[k]) % HashMod) % m : i \in 0..(Hashes - 1)}
  BY DEF BitsOf, m
<1> QED
  BY <1>2, <1>7, <1>8

\* Appending a part that is no footer leaves the file one without.
LEMMA NoFooterAppend ==
  ASSUME NEW f \in Seq(Part), \A at \in DOMAIN f : f[at].part # "footer",
         NEW x, x.part # "footer"
  PROVE  \A at \in DOMAIN Append(f, x) : Append(f, x)[at].part # "footer"
<1> DEFINE g == Append(f, x)
<1>1. /\ DOMAIN g = 1..(Len(f) + 1) /\ g[Len(f) + 1] = x /\ Len(f) \in Nat
      /\ \A at \in 1..Len(f) : g[at] = f[at] /\ at \in DOMAIN f
  OBVIOUS
<1>2. \A at \in 1..(Len(f) + 1) : at \in 1..Len(f) \/ at = Len(f) + 1
  BY <1>1
<1> HIDE DEF g
<1>3. \A at \in DOMAIN g : g[at].part # "footer"
  BY <1>1, <1>2
<1> QED
  BY <1>3 DEF g

\* A part at the end of the file is where the offset taken before says.
LEMMA AppendAt ==
  ASSUME NEW f \in Seq(Part), NEW x
  PROVE  /\ Len(f) + 1 \in 1..Len(Append(f, x)) /\ Append(f, x)[Len(f) + 1] = x
         /\ Len(Append(f, x)) = Len(f) + 1
         /\ \A at \in 1..Len(f) : at \in 1..Len(Append(f, x)) /\ Append(f, x)[at] = f[at]
  OBVIOUS

\* The writer begins with an empty file.
LEMMA InitIInv == Init => IInv
<1> SUFFICES ASSUME Init PROVE IInv
  OBVIOUS
<1>1. Len(entries) \in Nat /\ 1 \in 1..(Len(entries) + 1)
  BY InputsAre DEF Init
<1>2. TypeOK
  BY <1>1 DEF Init, TypeOK, Phases, Index
<1>3. FileOK /\ NoFooter
  BY DEF Init, FileOK, NoFooter
<1> QED
  BY <1>2, <1>3 DEF IInv

\* What the proof of a step uses of the state before it.
LEMMA StateIs ==
  ASSUME TypeOK
  PROVE  /\ entries \in Inputs /\ entries \in Seq(Entry) /\ Len(entries) \in Nat
         /\ Len(entries) \in 1..Cardinality(Key)
         /\ file \in Seq(Part) /\ Len(file) \in Nat /\ DOMAIN file = 1..Len(file)
         /\ sparse \in Index /\ Len(sparse) \in Nat
         /\ next \in Nat /\ block \in Seq(Entry)
  BY InputsAre DEF TypeOK, Index

\* The writer has passed an entry, or not yet put the last block: rest is what
\* it has not put, and it puts it.
LEMMA PutStep ==
  ASSUME TypeOK, NoFooter, phase # "written", NEW rest, NEW many,
         Laid(entries, file, sparse, rest, many), rest # <<>>,
         Len(file) = Len(sparse) + 1, PutBlock(rest), entries' = entries
  PROVE  /\ file' \in Seq(Part) /\ sparse' \in Index /\ block' = <<>>
         /\ Len(file') = Len(sparse') + 1
         /\ Laid(entries', file', sparse', <<>>, many)
         /\ \A at \in DOMAIN file' : file'[at].part # "footer"
<1> DEFINE b == [part |-> "block", recs |-> rest]
<1>1. /\ file' = Append(file, b) /\ block' = <<>>
      /\ sparse' = Append(sparse, [key |-> rest[1].key, at |-> Len(file) + 1])
  BY DEF PutBlock
<1>2. b.part # "footer"
  OBVIOUS
<1>3. /\ file' \in Seq(Part) /\ sparse' \in Index /\ Len(file') = Len(sparse') + 1
      /\ Laid(entries, file', sparse', <<>>, many)
  BY <1>1, StateIs, PutKeeps
<1> HIDE DEF b
<1>4. \A at \in DOMAIN file' : file'[at].part # "footer"
  BY <1>1, <1>2, StateIs, NoFooterAppend DEF NoFooter
<1> QED
  BY <1>1, <1>3, <1>4

\* Every step of the writer keeps the invariant.
LEMMA NextIInv == IInv /\ [Next]_vars => IInv'
<1> SUFFICES ASSUME IInv, [Next]_vars PROVE IInv'
  OBVIOUS
<1> USE DEF IInv
<1>0. /\ entries \in Inputs /\ entries \in Seq(Entry) /\ Len(entries) \in Nat
      /\ Len(entries) \in 1..Cardinality(Key)
      /\ file \in Seq(Part) /\ Len(file) \in Nat /\ DOMAIN file = 1..Len(file)
      /\ sparse \in Index /\ Len(sparse) \in Nat
      /\ next \in Nat /\ block \in Seq(Entry)
  BY StateIs
<1>1. CASE WriteHeader
  <2> DEFINE h == [part |-> "header", count |-> Len(entries)]
  <2>1. /\ phase = "header" /\ file' = <<h>> /\ phase' = "data"
        /\ UNCHANGED <<entries, next, block, bits, sparse, bloomAt, sparseAt>>
    BY <1>1 DEF WriteHeader
  <2>2. h \in Part /\ h.part # "footer"
    BY <1>0 DEF Part
  <2> HIDE DEF h
  <2>3. file' \in Seq(Part) /\ Len(file') = 1 /\ DOMAIN file' = {1} /\ file'[1] = h
    BY <2>1, <2>2
  <2>4. sparse = <<>> /\ block = <<>> /\ next = 1
    BY <2>1 DEF FileOK
  <2>5. TypeOK'
    BY <2>1, <2>3 DEF TypeOK, Phases
  <2>6. NoFooter'
    BY <2>2, <2>3 DEF NoFooter
  <2>7. Laid(entries', file', sparse', block', 0)
    <3>1. Len(<<>>) = 0 /\ DOMAIN <<>> = {} /\ 1..0 = {} /\ <<>> \in Seq(Entry)
      OBVIOUS
    <3>2. 0 \in 0..Len(entries)
      BY <1>0
    <3>3. BlocksThere(file', <<>>) /\ BlocksOrdered(file', <<>>)
      BY <2>3, <3>1 DEF BlocksThere, BlocksOrdered
    <3>4. Holds(entries, file', <<>>, <<>>, 0) /\ RecsOrdered(file', <<>>, <<>>)
      BY <3>1 DEF Holds, RecsOrdered
    <3> QED
      BY <2>1, <2>4, <3>1, <3>2, <3>3, <3>4 DEF Laid
  <2>8. FileOK'
    <3>1. next' - 1 = 0 /\ Len(file') = Len(sparse') + 1
      BY <2>1, <2>3, <2>4
    <3>2. BitsSet(0)'
      BY DEF BitsSet
    <3> QED
      BY <2>1, <2>7, <3>1, <3>2 DEF FileOK, BitsSet
  <2> QED
    BY <2>5, <2>6, <2>8
<1>2. CASE AddEntry
  <2> DEFINE filled == Append(block, entries[next])
  <2>1. /\ phase = "data" /\ next <= Len(entries) /\ next' = next + 1
        /\ bits' = bits \cup BitsOf(entries[next].key, Bytes, Hashes)
        /\ IF Len(filled) = RecordsPerBlock THEN PutBlock(filled)
           ELSE block' = filled /\ UNCHANGED <<file, sparse>>
        /\ UNCHANGED <<entries, bloomAt, sparseAt, phase>>
    BY <1>2 DEF AddEntry
  <2>2. /\ Len(file) = Len(sparse) + 1
        /\ Laid(entries, file, sparse, block, next - 1) /\ BitsSet(next - 1)
    BY <2>1 DEF FileOK
  <2>3. next \in 1..Len(entries) /\ next - 1 < Len(entries) /\ next - 1 + 1 = next
    BY <1>0, <2>1 DEF TypeOK
  <2>4. Laid(entries, file, sparse, filled, next)
    BY <1>0, <2>2, <2>3, PassKeeps
  <2>5. entries[next] \in Entry /\ entries[next].key \in Key
    BY <1>0, <2>3, InputsAre DEF Entry
  <2>6. filled \in Seq(Entry) /\ filled # <<>>
    <3>1. Len(filled) = Len(block) + 1 /\ Len(block) \in Nat /\ filled \in Seq(Entry)
      BY <1>0, <2>5
    <3> HIDE DEF filled
    <3> QED
      BY <3>1
  <2> HIDE DEF filled
  <2>7. /\ file' \in Seq(Part) /\ sparse' \in Index /\ block' \in Seq(Entry)
        /\ Len(file') = Len(sparse') + 1
        /\ Laid(entries', file', sparse', block', next)
        /\ \A at \in DOMAIN file' : file'[at].part # "footer"
    <3>1. CASE Len(filled) = RecordsPerBlock
      <4>1. PutBlock(filled) /\ entries' = entries /\ phase # "written"
        BY <2>1, <3>1
      <4>2. <<>> \in Seq(Entry)
        OBVIOUS
      <4> QED
        BY <2>2, <2>4, <2>6, <4>1, <4>2, PutStep
    <3>2. CASE Len(filled) # RecordsPerBlock
      BY <1>0, <2>1, <2>2, <2>4, <2>6, <3>2 DEF NoFooter
    <3> QED
      BY <3>1, <3>2
  <2>8. bits' \in SUBSET Nat
    BY <1>0, <2>1, <2>5, BitsAreNumbers DEF TypeOK
  <2>9. TypeOK'
    <3>1. next' \in 1..(Len(entries') + 1)
      BY <1>0, <2>1, <2>3
    <3> QED
      BY <2>1, <2>7, <2>8, <3>1 DEF TypeOK
  <2>10. BitsSet(next - 1)'
    <3>1. Bytes' = Bytes /\ Hashes' = Hashes /\ entries' = entries
      BY <2>1 DEF Bytes, Hashes
    <3>2. \A m \in 1..(next' - 1) : m \in 1..(next - 1) \/ m = next
      BY <1>0, <2>1
    <3>3. ASSUME NEW m \in 1..(next' - 1)
          PROVE  BitsOf(entries[m].key, Bytes, Hashes) \subseteq bits'
      BY <2>1, <2>2, <3>2 DEF BitsSet
    <3> QED
      BY <3>1, <3>3 DEF BitsSet, BitsOf
  <2>11. FileOK'
    <3>1. next' - 1 = next
      BY <1>0, <2>1
    <3> QED
      BY <2>1, <2>7, <2>10, <3>1 DEF FileOK
  <2>12. NoFooter'
    BY <2>7 DEF NoFooter
  <2> QED
    BY <2>9, <2>11, <2>12
<1>3. CASE LastBlock
  <2>1. /\ phase = "data" /\ next > Len(entries) /\ phase' = "bloom"
        /\ IF block # <<>> THEN PutBlock(block) ELSE UNCHANGED <<file, sparse, block>>
        /\ UNCHANGED <<entries, next, bits, bloomAt, sparseAt>>
    BY <1>3 DEF LastBlock
  <2>2. next - 1 = Len(entries)
    BY <1>0, <2>1 DEF TypeOK
  <2>3. /\ Len(file) = Len(sparse) + 1
        /\ Laid(entries, file, sparse, block, Len(entries)) /\ BitsSet(Len(entries))
    BY <2>1, <2>2 DEF FileOK
  <2>4. /\ file' \in Seq(Part) /\ sparse' \in Index /\ block' = <<>>
        /\ Laid(entries', file', sparse', <<>>, Len(entries))
        /\ \A at \in DOMAIN file' : file'[at].part # "footer"
    <3>1. CASE block # <<>>
      <4>1. PutBlock(block) /\ entries' = entries /\ phase # "written"
        BY <2>1, <3>1
      <4> QED
        BY <2>3, <3>1, <4>1, PutStep
    <3>2. CASE block = <<>>
      BY <1>0, <2>1, <2>3, <3>2 DEF NoFooter
    <3> QED
      BY <3>1, <3>2
  <2>5. TypeOK'
    <3>1. <<>> \in Seq(Entry)
      OBVIOUS
    <3> QED
      BY <2>1, <2>4, <3>1 DEF TypeOK, Phases
  <2>6. BitsSet(Len(entries))'
    BY <2>1, <2>3 DEF BitsSet, BitsOf, Bytes, Hashes
  <2>7. FileOK'
    BY <2>1, <2>4, <2>6 DEF FileOK
  <2>8. NoFooter'
    BY <2>4 DEF NoFooter
  <2> QED
    BY <2>5, <2>7, <2>8
<1>4. CASE WriteBloom
  <2> DEFINE x == [part |-> "bloom", bytes |-> Bytes, hashes |-> Hashes, bits |-> bits]
  <2>1. /\ phase = "bloom" /\ phase' = "sparse" /\ bloomAt' = Len(file) + 1
        /\ file' = Append(file, x)
        /\ UNCHANGED <<entries, next, block, bits, sparse, sparseAt>>
    BY <1>4 DEF WriteBloom
  <2>2. Bytes \in Nat /\ Hashes \in Nat
    <3>1. entries[1].key \in Key
      BY <1>0, InputsAre DEF Entry
    <3> QED
      BY <1>0, <3>1, BitsAreNumbers
  <2>3. x \in Part /\ x.part # "footer"
    BY <2>2 DEF Part, TypeOK
  <2>4. /\ Bytes' = Bytes /\ Hashes' = Hashes
        /\ x = [part |-> "bloom", bytes |-> Bytes', hashes |-> Hashes', bits |-> bits']
    BY <2>1 DEF Bytes, Hashes
  <2> HIDE DEF x
  <2>5. file' \in Seq(Part) /\ bloomAt' \in 1..Len(file') /\ file'[bloomAt'] = x
    BY <1>0, <2>1, <2>3, AppendAt
  <2>6. TypeOK'
    BY <1>0, <2>1, <2>5 DEF TypeOK, Phases
  <2>7. Laid(entries', file', sparse', <<>>, Len(entries'))
    BY <1>0, <2>1, AppendKeeps DEF FileOK
  <2>8. BitsSet(Len(entries))'
    BY <2>1 DEF FileOK, BitsSet, BitsOf, Bytes, Hashes
  <2>9. FileOK'
    BY <2>1, <2>4, <2>5, <2>7, <2>8 DEF FileOK, BloomThere
  <2>10. NoFooter'
    BY <1>0, <2>1, <2>3, NoFooterAppend DEF NoFooter
  <2> QED
    BY <2>6, <2>9, <2>10
<1>5. CASE WriteSparse
  <2> DEFINE x == [part |-> "sparse", index |-> sparse]
  <2>1. /\ phase = "sparse" /\ phase' = "footer" /\ sparseAt' = Len(file) + 1
        /\ file' = Append(file, x)
        /\ UNCHANGED <<entries, next, block, bits, sparse, bloomAt>>
    BY <1>5 DEF WriteSparse
  <2>2. x \in Part /\ x.part # "footer" /\ x = [part |-> "sparse", index |-> sparse']
    BY <1>0, <2>1 DEF Part
  <2> HIDE DEF x
  <2>3. file' \in Seq(Part) /\ sparseAt' \in 1..Len(file') /\ file'[sparseAt'] = x
    BY <1>0, <2>1, <2>2, AppendAt
  <2>4. TypeOK'
    BY <1>0, <2>1, <2>3 DEF TypeOK, Phases
  <2>5. Laid(entries', file', sparse', <<>>, Len(entries')) /\ BitsSet(Len(entries))'
    BY <1>0, <2>1, AppendKeeps DEF FileOK, BitsSet, BitsOf, Bytes, Hashes
  <2>6. BloomThere'
    <3>1. BloomThere
      BY <2>1 DEF FileOK
    <3>2. Bytes' = Bytes /\ Hashes' = Hashes
      BY <2>1 DEF Bytes, Hashes
    <3> QED
      BY <1>0, <2>1, <3>1, <3>2, AppendAt DEF BloomThere
  <2>7. FileOK'
    BY <2>1, <2>2, <2>3, <2>5, <2>6 DEF FileOK, SparseThere
  <2>8. NoFooter'
    BY <1>0, <2>1, <2>2, NoFooterAppend DEF NoFooter
  <2> QED
    BY <2>4, <2>7, <2>8
<1>6. CASE WriteFooter
  <2> DEFINE x == [part |-> "footer", bloom |-> bloomAt, sparse |-> sparseAt]
  <2>1. /\ phase = "footer" /\ phase' = "written"
        /\ file' = Append(file, x)
        /\ UNCHANGED <<entries, next, block, bits, sparse, bloomAt, sparseAt>>
    BY <1>6 DEF WriteFooter
  <2>2. x \in Part /\ x = [part |-> "footer", bloom |-> bloomAt', sparse |-> sparseAt']
    BY <2>1 DEF Part, TypeOK
  <2> HIDE DEF x
  <2>3. file' \in Seq(Part) /\ Len(file') = Len(file) + 1 /\ file'[Len(file')] = x
    BY <1>0, <2>1, <2>2, AppendAt
  <2>4. TypeOK'
    BY <1>0, <2>1, <2>3 DEF TypeOK, Phases
  <2>5. Laid(entries', file', sparse', <<>>, Len(entries')) /\ BitsSet(Len(entries))'
    BY <1>0, <2>1, AppendKeeps DEF FileOK, BitsSet, BitsOf, Bytes, Hashes
  <2>6. BloomThere' /\ SparseThere'
    <3>1. BloomThere /\ SparseThere
      BY <2>1 DEF FileOK
    <3>2. Bytes' = Bytes /\ Hashes' = Hashes
      BY <2>1 DEF Bytes, Hashes
    <3> QED
      BY <1>0, <2>1, <3>1, <3>2, AppendAt DEF BloomThere, SparseThere
  <2>7. FooterThere'
    BY <1>0, <2>2, <2>3 DEF FooterThere
  <2>8. FileOK'
    BY <2>1, <2>5, <2>6, <2>7 DEF FileOK
  <2>9. NoFooter'
    BY <2>1 DEF NoFooter
  <2> QED
    BY <2>4, <2>8, <2>9
<1>7. CASE Fail
  <2> DEFINE x == [part |-> Partial]
  <2>1. /\ phase # "written" /\ phase' = "failed"
        /\ file' = file \/ file' = Append(file, x)
        /\ UNCHANGED <<entries, next, block, bits, sparse, bloomAt, sparseAt>>
    BY <1>7 DEF Fail
  <2>2. x \in Part /\ x.part # "footer"
    BY PartialAssumption DEF Part
  <2> HIDE DEF x
  <2>3. file' \in Seq(Part)
    <3>1. Append(file, x) \in Seq(Part)
      BY <1>0, <2>2
    <3> QED
      BY <1>0, <2>1, <3>1
  <2>4. TypeOK' /\ FileOK'
    BY <2>1, <2>3 DEF TypeOK, Phases, FileOK
  <2>5. NoFooter'
    BY <1>0, <2>1, <2>2, NoFooterAppend DEF NoFooter
  <2> QED
    BY <2>4, <2>5
<1>8. CASE UNCHANGED vars
  <2>1. UNCHANGED <<entries, next, block, bits, sparse, bloomAt, sparseAt, file, phase>>
    BY <1>8 DEF vars
  <2>2. TypeOK' /\ NoFooter'
    BY <2>1 DEF TypeOK, NoFooter
  <2>3. FileOK'
    BY <2>1 DEF FileOK, BitsSet, BitsOf, Bytes, Hashes, BloomThere, SparseThere, FooterThere
  <2> QED
    BY <2>2, <2>3
<1> QED
  BY <1>1, <1>2, <1>3, <1>4, <1>5, <1>6, <1>7, <1>8 DEF Next

\* The writer stays within IInv.
LEMMA Inductive == Spec => []IInv
  BY InitIInv, NextIInv, PTL DEF Spec

-----------------------------------------------------------------------------
\* The types of the writer's variables, and of every part of its file.
THEOREM TypeCorrect == Spec => []TypeOK
<1>1. IInv => TypeOK
  BY DEF IInv
<1> QED
  BY <1>1, Inductive, PTL

\* A point lookup in a complete file finds what was written for the key, and
\* nothing for any other: whatever the hash functions, the size of the filter
\* and that of the blocks are.
THEOREM LookupFinds == Spec => []LookupFindsWritten
<1>1. IInv => LookupFindsWritten
  BY LookupIs DEF LookupFindsWritten
<1> QED
  BY <1>1, Inductive, PTL

\* In a file that is cut short anywhere a point lookup throws: there is no footer.
LEMMA LookupNeedsFooter ==
  ASSUME IInv, phase # "written", NEW k
  PROVE  Lookup(k) = Throws
<1>1. ~IsPart("footer", Len(file))
  BY DEF IInv, NoFooter, IsPart
<1> QED
  BY <1>1 DEF Lookup

-----------------------------------------------------------------------------
(* The recursion of the scan.                                              *)

\* One step of it: the block at at, of left entries.
WalkAt(w, at, left) ==
    IF left = 0 THEN <<>>
    ELSE IF ~IsPart("block", at) THEN Throws
    ELSE LET n    == Len(file[at].recs)
             rest == w[at + 1][left - n]
         IN  IF n = 0 \/ n > left THEN Throws
             ELSE IF rest = Throws THEN Throws
             ELSE file[at].recs \o rest

\* A block in the file is a sequence of entries.
LEMMA BlockIs ==
  ASSUME TypeOK, NEW at, IsPart("block", at)
  PROVE  /\ at \in 1..Len(file) /\ file[at].recs \in Seq(Entry)
         /\ Len(file[at].recs) \in Nat
<1>1. at \in 1..Len(file) /\ file[at] \in Part /\ file[at].part = "block"
  BY DEF TypeOK, IsPart
<1>2. file[at].recs \in Seq(Entry)
  BY <1>1, PartialAssumption DEF Part
<1> QED
  BY <1>1, <1>2

\* A step looks only at what is behind at.
LEMMA WalkAtSame ==
  ASSUME TypeOK, NEW at \in 2..(Len(file) + 1), NEW left \in 0..Cardinality(Key), NEW g, NEW h,
         \A b \in 2..(Len(file) + 1) : \A c \in 0..Cardinality(Key) : b > at => g[b][c] = h[b][c]
  PROVE  WalkAt(g, at, left) = WalkAt(h, at, left)
<1>1. Len(file) \in Nat /\ Cardinality(Key) \in Nat
  BY KeyAssumption, FS_CardinalityType DEF TypeOK
<1>2. CASE IsPart("block", at) /\ Len(file[at].recs) # 0 /\ ~(Len(file[at].recs) > left)
  <2>1. at \in 1..Len(file) /\ Len(file[at].recs) \in Nat
    BY <1>2, BlockIs
  <2>2. at + 1 \in 2..(Len(file) + 1) /\ at + 1 > at /\ left - Len(file[at].recs) \in 0..Cardinality(Key)
    <3> DEFINE n == Len(file[at].recs)
    <3>1. n \in Nat /\ ~(n > left) /\ at \in 1..Len(file)
      BY <1>2, <2>1
    <3> HIDE DEF n
    <3>2. at + 1 \in 2..(Len(file) + 1) /\ at + 1 > at
      BY <1>1, <3>1
    <3>3. left - n \in 0..Cardinality(Key)
      BY <1>1, <3>1
    <3> QED
      BY <3>2, <3>3 DEF n
  <2>3. g[at + 1][left - Len(file[at].recs)] = h[at + 1][left - Len(file[at].recs)]
    BY <2>2
  <2> QED
    BY <2>3 DEF WalkAt
<1>3. CASE ~(IsPart("block", at) /\ Len(file[at].recs) # 0 /\ ~(Len(file[at].recs) > left))
  BY <1>3 DEF WalkAt
<1> QED
  BY <1>2, <1>3

\* The recursion has a solution.
LEMMA WalkExists ==
  ASSUME TypeOK
  PROVE  \E g : g = [at \in 2..(Len(file) + 1) |-> [left \in 0..Cardinality(Key) |-> WalkAt(g, at, left)]]
<1> DEFINE n == Len(file) + 1
<1> DEFINE C == 0..Cardinality(Key)
<1>0. n \in Nat /\ n >= 1
  BY DEF TypeOK
<1> HIDE DEF n, C
<1>d. n = Len(file) + 1 /\ C = 0..Cardinality(Key)
  BY DEF n, C
<1> DEFINE Solves(g, low) == \A at \in 2..n : at >= low => \A left \in C : g[at][left] = WalkAt(g, at, left)
<1> DEFINE S == {m \in Nat : \E g : Solves(g, n + 1 - m)}
<1>1. 0 \in S
  <2>1. \A at \in 2..n : ~(at >= n + 1 - 0)
    BY <1>0
  <2>2. Solves(0, n + 1 - 0)
    BY <2>1
  <2> QED
    BY <2>2
<1>2. ASSUME NEW m \in S PROVE m + 1 \in S
  <2>1. m \in Nat
    OBVIOUS
  <2>2. PICK g : Solves(g, n + 1 - m)
    OBVIOUS
  <2> DEFINE low == n + 1 - (m + 1)
  <2> DEFINE h == [at \in 2..n |-> [left \in C |-> IF at = low THEN WalkAt(g, at, left) ELSE g[at][left]]]
  <2>3. low \in Int /\ n + 1 - m = low + 1
    BY <1>0, <2>1
  <2> HIDE DEF low
  <2>4. \A at \in 2..n : \A left \in C :
           h[at][left] = IF at = low THEN WalkAt(g, at, left) ELSE g[at][left]
    OBVIOUS
  <2> HIDE DEF h
  <2>5. ASSUME NEW at \in 2..n, at >= low, NEW left \in C PROVE h[at][left] = WalkAt(h, at, left)
    <3>1. \A b \in 2..n : \A c \in C : b > at => g[b][c] = h[b][c]
      BY <2>3, <2>4, <2>5
    <3>2. WalkAt(g, at, left) = WalkAt(h, at, left)
      BY <1>d, <3>1, WalkAtSame
    <3>3. CASE at = low
      BY <2>4, <3>2, <3>3
    <3>4. CASE at # low
      <4>1. at >= n + 1 - m
        BY <2>3, <2>5, <3>4
      <4>2. g[at][left] = WalkAt(g, at, left)
        BY <2>2, <4>1
      <4> QED
        BY <2>4, <3>2, <3>4, <4>2
    <3> QED
      BY <3>3, <3>4
  <2>6. Solves(h, low)
    BY <2>5
  <2> QED
    BY <2>1, <2>6 DEF low
<1>3. S = Nat
  <2>1. S \in SUBSET Nat
    OBVIOUS
  <2> HIDE DEF S
  <2> QED
    BY <1>1, <1>2, <2>1, Everything
<1>4. PICK g : Solves(g, 0)
  <2>1. n + 1 \in S
    <3> HIDE DEF S
    <3> QED
      BY <1>0, <1>3
  <2>2. n + 1 - (n + 1) = 0
    BY <1>0
  <2> QED
    BY <2>1, <2>2
<1> DEFINE w == [at \in 2..n |-> [left \in C |-> g[at][left]]]
<1>5. \A at \in 2..n : \A left \in C : w[at][left] = g[at][left]
  OBVIOUS
<1>6. ASSUME NEW at \in 2..n, NEW left \in C PROVE g[at][left] = WalkAt(w, at, left)
  <2> HIDE DEF w
  <2>1. g[at][left] = WalkAt(g, at, left)
    BY <1>0, <1>4
  <2>2. WalkAt(g, at, left) = WalkAt(w, at, left)
    BY <1>d, <1>5, WalkAtSame
  <2> QED
    BY <2>1, <2>2
<1>7. w = [at \in 2..n |-> [left \in C |-> WalkAt(w, at, left)]]
  BY <1>6
<1> QED
  BY <1>7, <1>d

\* It is the one that Blocks is.
LEMMA BlocksIs ==
  ASSUME TypeOK, NEW at \in 2..(Len(file) + 1), NEW left \in 0..Cardinality(Key)
  PROVE  Blocks[at][left] = WalkAt(Blocks, at, left)
<1>1. PICK h : h = [a \in 2..(Len(file) + 1) |-> [b \in 0..Cardinality(Key) |-> WalkAt(h, a, b)]]
  BY WalkExists
<1> DEFINE w == Blocks
<1>2. w = [a \in 2..(Len(file) + 1) |-> [b \in 0..Cardinality(Key) |-> WalkAt(w, a, b)]]
  BY <1>1 DEF Blocks, WalkAt
<1> HIDE DEF w
<1>3. w[at] = [b \in 0..Cardinality(Key) |-> WalkAt(w, at, b)]
  <2> DEFINE row(a) == [b \in 0..Cardinality(Key) |-> WalkAt(w, a, b)]
  <2>1. w = [a \in 2..(Len(file) + 1) |-> row(a)]
    BY <1>2
  <2> HIDE DEF row
  <2>2. w[at] = row(at)
    BY <2>1
  <2> QED
    BY <2>2 DEF row
<1>4. w[at][left] = WalkAt(w, at, left)
  BY <1>3
<1> QED
  BY <1>4 DEF w


-----------------------------------------------------------------------------
(* Where the entries are: a scan needs to know their places in the file.    *)

\* The number of entries before the block at at.
Behind(at) == (at - 2) * RecordsPerBlock

\* The block at at, behind a header, has the entries that come next, as many as
\* fit or all.
BlockAt(at) ==
    LET recs == file[at].recs
    IN  /\ at >= 2 /\ IsPart("header", 1) /\ Len(recs) # 0
        /\ Behind(at) + Len(recs) <= Len(entries)
        /\ \A r \in 1..Len(recs) : recs[r] = entries[Behind(at) + r]
        /\ Len(recs) <= RecordsPerBlock
        /\ Len(recs) = RecordsPerBlock \/ Behind(at) + Len(recs) = Len(entries)

Placed == \A at \in DOMAIN file : file[at].part = "block" => BlockAt(at)

Headed ==
    /\ IsPart("header", 1) => file[1].count = Len(entries)
    /\ phase \notin {"header", "failed"} => IsPart("header", 1)

\* The block being filled has the entries behind those in the file.
Filling ==
    phase = "data" =>
        /\ next - 1 = Behind(Len(file) + 1) + Len(block) /\ Len(block) < RecordsPerBlock
        /\ \A r \in 1..Len(block) : block[r] = entries[Behind(Len(file) + 1) + r]
        /\ \A at \in 2..Len(file) : IsPart("block", at)

\* Once the data is written, every entry is in a block.
Covered ==
    phase \in {"bloom", "sparse", "footer", "written"} =>
        \A at \in Nat : at >= 2 /\ Behind(at) < Len(entries) => IsPart("block", at)

Positions == Placed /\ Headed /\ Filling /\ Covered

\* A block further on has more entries before it, a full block more for each
\* step.
LEMMA BehindIs ==
  /\ Behind(2) = 0
  /\ \A at \in Nat : at >= 2 => Behind(at) \in Nat /\ Behind(at + 1) = Behind(at) + RecordsPerBlock
  /\ \A at, to \in Nat : at >= 2 /\ at <= to => Behind(at) <= Behind(to)
<1>0. RecordsPerBlock \in Nat \ {0}
  BY ParameterAssumption
<1>1. Behind(2) = 0
  BY <1>0 DEF Behind
<1>2. ASSUME NEW at \in Nat, at >= 2
      PROVE  Behind(at) \in Nat /\ Behind(at + 1) = Behind(at) + RecordsPerBlock
  BY <1>0, <1>2 DEF Behind
<1>3. ASSUME NEW at \in Nat, NEW to \in Nat, at >= 2, at <= to PROVE Behind(at) <= Behind(to)
  <2>1. to - at \in Nat /\ to - 2 = (at - 2) + (to - at) /\ at - 2 \in Nat
    BY <1>3
  <2>2. \A a, b, c \in Nat : a * c <= (a + b) * c
    OBVIOUS
  <2>3. (at - 2) * RecordsPerBlock <= ((at - 2) + (to - at)) * RecordsPerBlock
    BY <1>0, <2>1, <2>2
  <2> QED
    BY <2>1, <2>3 DEF Behind
<1> QED
  BY <1>1, <1>2, <1>3

\* There is no block at first.
LEMMA InitPositions == Init => Positions
<1> SUFFICES ASSUME Init PROVE Positions
  OBVIOUS
<1>1. file = <<>> /\ phase = "header" /\ DOMAIN file = {}
  BY DEF Init
<1>2. ~IsPart("header", 1)
  BY <1>1 DEF IsPart
<1> QED
  BY <1>1, <1>2 DEF Positions, Placed, Headed, Filling, Covered

\* A part that is put at the end leaves the others where they are.
LEMMA PartPut ==
  ASSUME TypeOK, NEW p, file' = Append(file, p), entries' = entries
  PROVE  /\ Len(file') = Len(file) + 1 /\ DOMAIN file' = 1..(Len(file) + 1)
         /\ file'[Len(file) + 1] = p
         /\ \A at \in DOMAIN file : at \in DOMAIN file' /\ file'[at] = file[at]
         /\ \A at \in DOMAIN file : BlockAt(at) => BlockAt(at)'
         /\ \A q, at : IsPart(q, at) => IsPart(q, at)'
<1>1. Len(file) \in Nat /\ DOMAIN file = 1..Len(file)
  BY DEF TypeOK
<1>2. /\ Len(file') = Len(file) + 1 /\ DOMAIN file' = 1..(Len(file) + 1)
      /\ file'[Len(file) + 1] = p
      /\ \A at \in DOMAIN file : at \in DOMAIN file' /\ file'[at] = file[at]
  BY <1>1 DEF TypeOK
<1>4. \A q, at : IsPart(q, at) => IsPart(q, at)'
  BY <1>2 DEF IsPart
<1>3. \A at \in DOMAIN file : BlockAt(at) => BlockAt(at)'
  BY <1>2, <1>4 DEF BlockAt, Behind
<1> QED
  BY <1>2, <1>3, <1>4

\* Any part but a block and a header.
LEMMA OtherPut ==
  ASSUME TypeOK, Positions, NEW p, file' = Append(file, p), entries' = entries,
         p.part \notin {"block", "header"}, phase' # "data",
         phase' \in {"bloom", "sparse", "footer", "written"} =>
            phase \in {"bloom", "sparse", "footer", "written"},
         phase' \notin {"header", "failed"} => phase \notin {"header", "failed"}
  PROVE  Positions'
<1>0. Len(file) \in Nat /\ DOMAIN file = 1..Len(file)
  BY DEF TypeOK
<1>1. Placed'
  <2> SUFFICES ASSUME NEW at \in DOMAIN file', file'[at].part = "block" PROVE BlockAt(at)'
    BY DEF Placed
  <2>1. at \in DOMAIN file /\ file'[at] = file[at]
    BY <1>0, PartPut
  <2> QED
    BY <2>1, PartPut DEF Positions, Placed
<1>2. Headed'
  <2>1. IsPart("header", 1)' => IsPart("header", 1) /\ file'[1] = file[1]
    BY <1>0, PartPut DEF IsPart
  <2>2. IsPart("header", 1) => IsPart("header", 1)'
    BY PartPut
  <2> QED
    BY <2>1, <2>2 DEF Positions, Headed
<1>3. Filling'
  BY DEF Filling
<1>4. Covered'
  <2>1. \A at : IsPart("block", at) => IsPart("block", at)'
    BY PartPut
  <2> QED
    BY <2>1 DEF Positions, Covered, Behind
<1> QED
  BY <1>1, <1>2, <1>3, <1>4 DEF Positions

\* The next block.
LEMMA BlockPut ==
  ASSUME TypeOK, Positions, phase = "data", NEW recs \in Seq(Entry), recs # <<>>,
         Behind(Len(file) + 1) + Len(recs) <= Len(entries),
         \A r \in 1..Len(recs) : recs[r] = entries[Behind(Len(file) + 1) + r],
         Len(recs) = RecordsPerBlock \/ Behind(Len(file) + 1) + Len(recs) = Len(entries),
         Len(recs) <= RecordsPerBlock,
         PutBlock(recs), entries' = entries, phase' # "failed"
  PROVE  /\ Placed' /\ Headed' /\ Len(file') = Len(file) + 1
         /\ \A at \in 2..Len(file') : IsPart("block", at)'
<1> DEFINE p == [part |-> "block", recs |-> recs]
<1>0. Len(file) \in Nat /\ DOMAIN file = 1..Len(file) /\ Len(file) >= 1
  BY DEF TypeOK, Positions, Headed, IsPart
<1>1. file' = Append(file, p)
  BY DEF PutBlock
<1>p. p.part = "block" /\ p.recs = recs
  OBVIOUS
<1> HIDE DEF p
<1>2. /\ Len(file') = Len(file) + 1 /\ DOMAIN file' = 1..(Len(file) + 1)
      /\ file'[Len(file) + 1] = p
      /\ \A at \in DOMAIN file : at \in DOMAIN file' /\ file'[at] = file[at]
      /\ \A at \in DOMAIN file : BlockAt(at) => BlockAt(at)'
      /\ \A q, at : IsPart(q, at) => IsPart(q, at)'
  BY <1>1, PartPut
<1>3. ASSUME NEW end \in DOMAIN file', end = Len(file) + 1 PROVE BlockAt(end)'
  <2>1. Len(recs) # 0 /\ end >= 2
    BY <1>0, <1>3
  <2>2. file'[end].recs = recs /\ entries' = entries
    BY <1>2, <1>3, <1>p
  <2>3. Behind(Len(file) + 1) = Behind(end)
    BY <1>3
  <2>4. IsPart("header", 1)'
    BY <1>2 DEF Positions, Headed
  <2> QED
    BY <2>1, <2>2, <2>3, <2>4 DEF BlockAt, Behind
<1>4. Placed'
  <2> SUFFICES ASSUME NEW at \in DOMAIN file', file'[at].part = "block" PROVE BlockAt(at)'
    BY DEF Placed
  <2>1. CASE at = Len(file) + 1
    BY <1>3, <2>1
  <2>2. CASE at # Len(file) + 1
    <3>1. at \in DOMAIN file /\ file'[at] = file[at]
      BY <1>0, <1>2, <2>2
    <3> QED
      BY <1>2, <3>1 DEF Positions, Placed
  <2> QED
    BY <2>1, <2>2
<1>5. Headed'
  <2>1. IsPart("header", 1) /\ 1 \in DOMAIN file
    BY <1>0 DEF Positions, Headed
  <2>2. IsPart("header", 1)' /\ file'[1] = file[1]
    BY <1>2, <2>1
  <2> QED
    BY <2>1, <2>2 DEF Positions, Headed
<1>6. ASSUME NEW at \in 2..Len(file') PROVE IsPart("block", at)'
  <2>1. CASE at = Len(file) + 1
    BY <1>0, <1>2, <1>p, <2>1 DEF IsPart
  <2>2. CASE at # Len(file) + 1
    <3>1. at \in 2..Len(file)
      BY <1>0, <1>2, <2>2
    <3> QED
      BY <1>2, <3>1 DEF Positions, Filling
  <2> QED
    BY <2>1, <2>2
<1> QED
  BY <1>2, <1>4, <1>5, <1>6

\* All the entries are in the blocks up to the last.
LEMMA AllCovered ==
  ASSUME NEW n \in Nat, n >= 1, \A at \in 2..n : IsPart("block", at),
         Len(entries) \in Nat, Behind(n + 1) >= Len(entries)
  PROVE  \A at \in Nat : at >= 2 /\ Behind(at) < Len(entries) => IsPart("block", at)
<1> SUFFICES ASSUME NEW at \in Nat, at >= 2, Behind(at) < Len(entries) PROVE IsPart("block", at)
  OBVIOUS
<1>1. CASE at <= n
  BY <1>1
<1>2. CASE at > n
  <2>1. Behind(n + 1) <= Behind(at) /\ Behind(at) \in Nat /\ Behind(n + 1) \in Nat
    BY <1>2, BehindIs
  <2> QED
    BY <2>1
<1> QED
  BY <1>1, <1>2

\* The same in the next state.
LEMMA AllCoveredNext ==
  (Len(file) \in Nat /\ Len(file) >= 1 /\ (\A at \in 2..Len(file) : IsPart("block", at))
   /\ Len(entries) \in Nat /\ Behind(Len(file) + 1) >= Len(entries)
   => \A at \in Nat : at >= 2 /\ Behind(at) < Len(entries) => IsPart("block", at))'
<1>1. Len(file) \in Nat /\ Len(file) >= 1 /\ (\A at \in 2..Len(file) : IsPart("block", at))
      /\ Len(entries) \in Nat /\ Behind(Len(file) + 1) >= Len(entries)
      => \A at \in Nat : at >= 2 /\ Behind(at) < Len(entries) => IsPart("block", at)
  BY AllCovered
<1> QED
  BY <1>1, PTL

\* Every step of the writer leaves the entries where they belong.
LEMMA NextPositions == IInv /\ Positions /\ [Next]_vars => Positions'
<1> SUFFICES ASSUME IInv, Positions, [Next]_vars PROVE Positions'
  OBVIOUS
<1>t. TypeOK
  BY DEF IInv
<1>0. /\ Len(file) \in Nat /\ DOMAIN file = 1..Len(file)
      /\ entries \in Seq(Entry) /\ Len(entries) \in Nat
      /\ next \in Nat /\ block \in Seq(Entry) /\ Len(block) \in Nat
      /\ RecordsPerBlock \in Nat \ {0}
  BY <1>t, StateIs, ParameterAssumption
<1>h. phase = "data" => Len(file) >= 1
  BY <1>0 DEF Positions, Headed, IsPart
<1>b. phase = "data" => Behind(Len(file) + 1) \in Nat
                        /\ Behind(Len(file) + 1 + 1) = Behind(Len(file) + 1) + RecordsPerBlock
  <2> SUFFICES ASSUME phase = "data"
               PROVE  /\ Behind(Len(file) + 1) \in Nat
                      /\ Behind(Len(file) + 1 + 1) = Behind(Len(file) + 1) + RecordsPerBlock
    OBVIOUS
  <2>1. PICK end \in Nat : end = Len(file) + 1
    BY <1>0
  <2>2. end >= 2
    BY <1>0, <1>h, <2>1
  <2>3. Behind(end) \in Nat /\ Behind(end + 1) = Behind(end) + RecordsPerBlock
    BY <2>2, BehindIs
  <2> QED
    BY <2>1, <2>3
<1>1. CASE WriteHeader
  <2>1. file' = <<[part |-> "header", count |-> Len(entries)]>> /\ phase' = "data"
        /\ entries' = entries /\ next' = next /\ block' = block
    BY <1>1 DEF WriteHeader
  <2>2. DOMAIN file' = {1} /\ Len(file') = 1 /\ file'[1].part = "header"
        /\ file'[1].count = Len(entries)
    BY <2>1
  <2>3. Placed' /\ Headed' /\ Covered'
    BY <2>1, <2>2 DEF Placed, Headed, Covered, IsPart
  <2>4. next = 1 /\ block = <<>>
    BY <1>1 DEF IInv, FileOK, WriteHeader
  <2>5. Len(file') + 1 = 2 /\ Len(block') = 0 /\ next' - 1 = 0
    BY <2>1, <2>2, <2>4
  <2>6. Filling'
    BY <1>0, <2>2, <2>5, BehindIs DEF Filling
  <2> QED
    BY <2>3, <2>6 DEF Positions
<1>2. CASE AddEntry
  <2> DEFINE filled == Append(block, entries[next])
  <2>1. /\ phase = "data" /\ next <= Len(entries) /\ next' = next + 1
        /\ entries' = entries /\ phase' = phase
        /\ IF Len(filled) = RecordsPerBlock THEN PutBlock(filled)
           ELSE block' = filled /\ file' = file
    BY <1>2 DEF AddEntry
  <2>2. entries[next] \in Entry /\ next >= 1
    BY <1>0, <1>t, <2>1 DEF TypeOK
  <2>3. /\ next = Behind(Len(file) + 1) + Len(block) + 1 /\ Len(block) < RecordsPerBlock
        /\ \A r \in 1..Len(block) : block[r] = entries[Behind(Len(file) + 1) + r]
        /\ \A at \in 2..Len(file) : IsPart("block", at)
    BY <1>0, <1>b, <2>1 DEF Positions, Filling
  <2>4. /\ filled \in Seq(Entry) /\ Len(filled) = Len(block) + 1 /\ filled # <<>>
        /\ filled[Len(block) + 1] = entries[next]
        /\ \A r \in 1..Len(block) : filled[r] = block[r]
    BY <1>0, <2>2
  <2> HIDE DEF filled
  <2>5. \A r \in 1..Len(filled) : filled[r] = entries[Behind(Len(file) + 1) + r]
    <3> SUFFICES ASSUME NEW r \in 1..Len(filled)
                 PROVE  filled[r] = entries[Behind(Len(file) + 1) + r]
      OBVIOUS
    <3>1. CASE r = Len(block) + 1
      <4>1. Behind(Len(file) + 1) + r = next
        BY <1>0, <1>b, <2>1, <2>3, <3>1
      <4> QED
        BY <2>4, <3>1, <4>1
    <3>2. CASE r # Len(block) + 1
      <4>1. r \in 1..Len(block)
        BY <1>0, <2>4, <3>2
      <4> QED
        BY <2>3, <2>4, <4>1
    <3> QED
      BY <3>1, <3>2
  <2>6. CASE Len(filled) = RecordsPerBlock
    <3>1. PutBlock(filled)
      BY <2>1, <2>6
    <3>2. Behind(Len(file) + 1) + Len(filled) <= Len(entries)
      BY <1>0, <1>b, <2>1, <2>3, <2>4
    <3>3. /\ Placed' /\ Headed' /\ Len(file') = Len(file) + 1
          /\ \A at \in 2..Len(file') : IsPart("block", at)'
      BY <1>t, <2>1, <2>4, <2>5, <2>6, <3>1, <3>2, BlockPut
    <3>4. Len(block') = 0 /\ block' = <<>>
      BY <3>1 DEF PutBlock
    <3>5. Behind(Len(file') + 1) = Behind(Len(file) + 1) + RecordsPerBlock
      BY <1>b, <2>1, <3>3
    <3>6. next' - 1 = Behind(Len(file') + 1) + Len(block')
      BY <1>0, <1>b, <2>1, <2>3, <2>4, <2>6, <3>4, <3>5
    <3>7. Filling'
      BY <1>0, <3>3, <3>4, <3>6 DEF Filling
    <3>8. Covered'
      BY <2>1 DEF Covered
    <3> QED
      BY <3>3, <3>7, <3>8 DEF Positions
  <2>7. CASE Len(filled) # RecordsPerBlock
    <3>1. block' = filled /\ file' = file
      BY <2>1, <2>7
    <3>2. Placed' /\ Headed' /\ Covered'
      BY <2>1, <3>1 DEF Positions, Placed, Headed, Covered, BlockAt, IsPart, Behind
    <3>3. next' - 1 = Behind(Len(file) + 1) + Len(filled) /\ Len(filled) < RecordsPerBlock
      <4>1. next' = next + 1 /\ Behind(Len(file) + 1) \in Nat
        BY <1>b, <2>1
      <4>2. /\ next = Behind(Len(file) + 1) + Len(block) + 1
            /\ Len(block) < RecordsPerBlock /\ Len(block) + 1 # RecordsPerBlock
            /\ Len(filled) = Len(block) + 1
        BY <2>3, <2>4, <2>7
      <4>3. Len(block) \in Nat /\ RecordsPerBlock \in Nat
        BY <1>0
      <4>4. next' - 1 = Behind(Len(file) + 1) + (Len(block) + 1)
        BY <4>1, <4>2, <4>3
      <4>5. Len(block) + 1 < RecordsPerBlock
        BY <4>2, <4>3
      <4> QED
        BY <4>2, <4>4, <4>5
    <3>4. \A at \in 2..Len(file) : IsPart("block", at)'
      BY <2>3, <3>1 DEF IsPart
    <3>5. Filling'
      <4>1. next' - 1 = Behind(Len(file') + 1) + Len(block') /\ Len(block') < RecordsPerBlock
        BY <3>1, <3>3
      <4>2. \A r \in 1..Len(block') : block'[r] = entries'[Behind(Len(file') + 1) + r]
        BY <2>1, <2>5, <3>1
      <4>3. \A at \in 2..Len(file') : IsPart("block", at)'
        BY <3>1, <3>4
      <4> QED
        BY <4>1, <4>2, <4>3 DEF Filling
    <3> QED
      BY <3>2, <3>5 DEF Positions
  <2> QED
    BY <2>6, <2>7
<1>3. CASE LastBlock
  <2>1. /\ phase = "data" /\ next > Len(entries) /\ phase' = "bloom"
        /\ entries' = entries /\ next' = next
        /\ IF block # <<>> THEN PutBlock(block) ELSE file' = file
    BY <1>3 DEF LastBlock
  <2>2. /\ next - 1 = Behind(Len(file) + 1) + Len(block) /\ Len(block) < RecordsPerBlock
        /\ \A r \in 1..Len(block) : block[r] = entries[Behind(Len(file) + 1) + r]
        /\ \A at \in 2..Len(file) : IsPart("block", at)
    BY <2>1 DEF Positions, Filling
  <2>3. Behind(Len(file) + 1) + Len(block) = Len(entries)
    <3>1. next - 1 = Len(entries)
      BY <1>0, <1>t, <2>1 DEF TypeOK
    <3> QED
      BY <2>2, <3>1
  <2>4. CASE block # <<>>
    <3>1. /\ Placed' /\ Headed' /\ Len(file') = Len(file) + 1
          /\ \A at \in 2..Len(file') : IsPart("block", at)'
      <4>1. Behind(Len(file) + 1) + Len(block) <= Len(entries)
        BY <1>0, <2>3
      <4>2. PutBlock(block) /\ phase' # "failed"
        BY <2>1, <2>4
      <4> QED
        BY <1>0, <1>t, <2>1, <2>2, <2>3, <2>4, <4>1, <4>2, BlockPut
    <3>2. Behind(Len(file') + 1) >= Len(entries')
      <4>1. Behind(Len(file') + 1) = Behind(Len(file) + 1) + RecordsPerBlock
        BY <1>b, <2>1, <3>1
      <4> QED
        BY <1>0, <1>b, <2>1, <2>2, <2>3, <4>1
    <3>3. Len(file') \in Nat /\ Len(file') >= 1 /\ Len(entries') \in Nat
      BY <1>0, <2>1, <3>1
    <3>4. (\A at \in Nat : at >= 2 /\ Behind(at) < Len(entries) => IsPart("block", at))'
      BY <3>1, <3>2, <3>3, AllCoveredNext
    <3>5. Filling' /\ Covered'
      BY <2>1, <3>4 DEF Filling, Covered
    <3> QED
      BY <3>1, <3>5 DEF Positions
  <2>5. CASE block = <<>>
    <3>1. file' = file /\ Len(block) = 0
      BY <2>1, <2>5
    <3>2. Placed' /\ Headed' /\ Filling'
      BY <2>1, <3>1 DEF Positions, Placed, Headed, Filling, BlockAt, IsPart, Behind
    <3>3. Behind(Len(file) + 1) >= Len(entries)
      BY <1>0, <1>b, <2>1, <2>3, <3>1
    <3>4. \A at \in Nat : at >= 2 /\ Behind(at) < Len(entries) => IsPart("block", at)
      BY <1>0, <1>h, <2>1, <2>2, <3>3, AllCovered
    <3>5. Covered'
      BY <2>1, <3>1, <3>4 DEF Covered, IsPart, Behind
    <3> QED
      BY <3>2, <3>5 DEF Positions
  <2> QED
    BY <2>4, <2>5
<1>4. CASE WriteBloom
  BY <1>4, <1>t, OtherPut DEF WriteBloom
<1>5. CASE WriteSparse
  BY <1>5, <1>t, OtherPut DEF WriteSparse
<1>6. CASE WriteFooter
  BY <1>6, <1>t, OtherPut DEF WriteFooter
<1>7. CASE Fail
  <2>1. phase' = "failed" /\ entries' = entries
    BY <1>7 DEF Fail
  <2>2. CASE file' = file
    BY <2>1, <2>2 DEF Positions, Placed, Headed, Filling, Covered, BlockAt, IsPart, Behind
  <2>3. CASE file' = Append(file, [part |-> Partial])
    BY <1>t, <2>1, <2>3, OtherPut, PartialAssumption
  <2> QED
    BY <1>7, <2>2, <2>3 DEF Fail
<1>8. CASE UNCHANGED vars
  BY <1>8 DEF vars, Positions, Placed, Headed, Filling, Covered, BlockAt, IsPart, Behind
<1> QED
  BY <1>1, <1>2, <1>3, <1>4, <1>5, <1>6, <1>7, <1>8 DEF Next


-----------------------------------------------------------------------------
(* What the scan reads.                                                    *)

\* The entries behind the first so many.
Behinds(k) == SubSeq(entries, k + 1, Len(entries))

\* They are entries, and no exception.
LEMMA BehindsAre ==
  ASSUME entries \in Seq(Entry), NEW k \in 0..Len(entries)
  PROVE  /\ Behinds(k) \in Seq(Entry) /\ Len(Behinds(k)) = Len(entries) - k
         /\ \A r \in 1..(Len(entries) - k) : Behinds(k)[r] = entries[k + r]
         /\ Behinds(k) # Throws
<1>0. Len(entries) \in Nat /\ k \in Nat /\ k + 1 \in 1..(Len(entries) + 1)
  OBVIOUS
<1>1. /\ Behinds(k) \in Seq(Entry) /\ Len(Behinds(k)) = Len(entries) - k
      /\ \A r \in 1..(Len(entries) - k) : Behinds(k)[r] = entries[k + r]
  BY <1>0 DEF Behinds
<1> QED
  BY <1>1, ResultAssumption

\* A sequence of the entries that come next, and those behind it.
LEMMA Joined ==
  ASSUME entries \in Seq(Entry), NEW k \in 0..Len(entries), NEW recs \in Seq(Entry),
         k + Len(recs) <= Len(entries), \A r \in 1..Len(recs) : recs[r] = entries[k + r]
  PROVE  recs \o Behinds(k + Len(recs)) = Behinds(k)
<1> DEFINE n == Len(recs)
<1> DEFINE all == recs \o Behinds(k + n)
<1>0. Len(entries) \in Nat /\ k \in Nat /\ n \in Nat /\ k + n \in 0..Len(entries)
  OBVIOUS
<1>1. /\ Behinds(k + n) \in Seq(Entry) /\ Len(Behinds(k + n)) = Len(entries) - (k + n)
      /\ \A r \in 1..(Len(entries) - (k + n)) : Behinds(k + n)[r] = entries[k + n + r]
  BY <1>0, BehindsAre
<1>2. /\ Behinds(k) \in Seq(Entry) /\ Len(Behinds(k)) = Len(entries) - k
      /\ \A r \in 1..(Len(entries) - k) : Behinds(k)[r] = entries[k + r]
  BY BehindsAre
<1>3. /\ all \in Seq(Entry) /\ Len(all) = n + Len(Behinds(k + n))
      /\ \A r \in 1..n : all[r] = recs[r]
      /\ \A r \in 1..Len(Behinds(k + n)) : all[n + r] = Behinds(k + n)[r]
  BY <1>1
<1> HIDE DEF all, n
<1>4. Len(all) = Len(entries) - k
  BY <1>0, <1>1, <1>3
<1>5. ASSUME NEW r \in 1..(Len(entries) - k) PROVE all[r] = Behinds(k)[r]
  <2>1. CASE r <= n
    <3>1. r \in 1..n
      BY <1>0, <2>1
    <3>2. all[r] = recs[r] /\ recs[r] = entries[k + r]
      BY <1>3, <3>1 DEF n
    <3> QED
      BY <1>2, <3>2
  <2>2. CASE r > n
    <3>1. PICK q \in 1..(Len(entries) - (k + n)) : r = n + q
      <4>1. r - n \in 1..(Len(entries) - (k + n)) /\ r = n + (r - n)
        BY <1>0, <2>2
      <4> QED
        BY <4>1
    <3>2. all[r] = entries[k + n + q]
      BY <1>1, <1>3, <3>1
    <3>3. k + n + q = k + r
      BY <1>0, <3>1
    <3> QED
      BY <1>2, <3>2, <3>3
  <2> QED
    BY <1>0, <2>1, <2>2
<1>6. all = Behinds(k)
  BY <1>2, <1>3, <1>4, <1>5
<1> QED
  BY <1>6 DEF all, n

\* The entries behind the first k are all in the file.
InFileBehind(k) == \A n \in (k + 1)..Len(entries) : InFile(n)

\* An entry is in no block but the one at its place.
LEMMA OnlyInPlace ==
  ASSUME TypeOK, Positions, NEW at \in Nat, at >= 2, ~IsPart("block", at),
         Behind(at) < Len(entries)
  PROVE  ~InFileBehind(Behind(at))
<1> DEFINE m == Behind(at) + 1
<1>0. /\ entries \in Inputs /\ entries \in Seq(Entry) /\ Len(entries) \in Nat
      /\ DOMAIN file = 1..Len(file) /\ Len(file) \in Nat
      /\ RecordsPerBlock \in Nat \ {0} /\ Behind(at) \in Nat
      /\ m \in 1..Len(entries) /\ m \in (Behind(at) + 1)..Len(entries)
  <2>1. /\ entries \in Inputs /\ entries \in Seq(Entry) /\ Len(entries) \in Nat
        /\ DOMAIN file = 1..Len(file) /\ Len(file) \in Nat
    BY StateIs
  <2>2. RecordsPerBlock \in Nat \ {0}
    BY ParameterAssumption
  <2>3. Behind(at) \in Nat
    BY BehindIs
  <2>4. m \in 1..Len(entries) /\ m \in (Behind(at) + 1)..Len(entries)
    BY <2>1, <2>3
  <2> QED
    BY <2>1, <2>2, <2>3, <2>4
<1>1. SUFFICES ASSUME InFile(m) PROVE FALSE
  BY <1>0 DEF InFileBehind
<1> HIDE DEF m
<1>2. PICK b \in DOMAIN file : IsPart("block", b) /\ entries[m] \in ToSet(file[b].recs)
  BY <1>1 DEF InFile
<1>3. /\ b \in Nat /\ b >= 2 /\ file[b].recs \in Seq(Entry) /\ Len(file[b].recs) \in Nat
      /\ Behind(b) + Len(file[b].recs) <= Len(entries)
      /\ \A r \in 1..Len(file[b].recs) : file[b].recs[r] = entries[Behind(b) + r]
      /\ Len(file[b].recs) <= RecordsPerBlock
  <2>1. b \in Nat /\ file[b].recs \in Seq(Entry) /\ Len(file[b].recs) \in Nat
    BY <1>0, <1>2, BlockIs
  <2>2. BlockAt(b)
    BY <1>2 DEF Positions, Placed, IsPart
  <2>3. b >= 2 /\ Behind(b) + Len(file[b].recs) <= Len(entries) /\ Len(file[b].recs) <= RecordsPerBlock
    BY <2>2 DEF BlockAt
  <2>4. \A r \in 1..Len(file[b].recs) : file[b].recs[r] = entries[Behind(b) + r]
    BY <2>2 DEF BlockAt
  <2> QED
    BY <2>1, <2>3, <2>4
<1>4. PICK r \in 1..Len(file[b].recs) : file[b].recs[r] = entries[m]
  <2>1. DOMAIN file[b].recs = 1..Len(file[b].recs)
    BY <1>3
  <2>2. \E r \in DOMAIN file[b].recs : file[b].recs[r] = entries[m]
    BY <1>2 DEF ToSet
  <2> QED
    BY <2>1, <2>2
<1>d. /\ Behind(b) \in Nat /\ Behind(b + 1) = Behind(b) + RecordsPerBlock
      /\ Behind(at + 1) = Behind(at) + RecordsPerBlock
      /\ b < at => Behind(b + 1) <= Behind(at)
      /\ at < b => Behind(at + 1) <= Behind(b)
  <2>1. \A n \in Nat : n + 1 \in Nat /\ (n >= 2 => n + 1 >= 2)
    OBVIOUS
  <2>2. (b < at => b + 1 <= at) /\ (at < b => at + 1 <= b)
    BY <1>3
  <2> QED
    BY <1>3, <2>1, <2>2, BehindIs
<1>5. /\ r \in Nat /\ r >= 1 /\ r <= RecordsPerBlock /\ Behind(b) + r \in 1..Len(entries)
  <2> DEFINE l == Len(file[b].recs)
  <2>1. l \in Nat /\ r \in 1..l /\ Behind(b) + l <= Len(entries) /\ l <= RecordsPerBlock
    BY <1>3
  <2> HIDE DEF l
  <2>2. r \in Nat /\ r >= 1 /\ r <= l
    BY <2>1
  <2>3. RecordsPerBlock \in Nat /\ Behind(b) \in Nat /\ Len(entries) \in Nat
    BY <1>0, <1>d
  <2>4. r <= RecordsPerBlock
    BY <2>1, <2>2, <2>3
  <2>5. Behind(b) + r \in 1..Len(entries)
    <3>1. Behind(b) + l <= Len(entries) /\ l \in Nat
      BY <2>1
    <3> QED
      BY <2>2, <2>3, <3>1
  <2> QED
    BY <2>2, <2>4, <2>5
<1>6. Behind(b) + r = Behind(at) + 1
  <2>1. entries[Behind(b) + r].key = entries[m].key
    BY <1>3, <1>4
  <2> QED
    BY <1>0, <1>5, <2>1, KeysDiffer DEF m
<1>7. b = at
  <2>1. /\ b \in Nat /\ at \in Nat /\ r \in Nat /\ RecordsPerBlock \in Nat
        /\ Behind(b) \in Nat /\ Behind(at) \in Nat
    BY <1>0, <1>3, <1>5, <1>d
  <2>2. 1 <= r /\ r <= RecordsPerBlock
    BY <1>5
  <2>3. ~(b < at)
    <3>1. SUFFICES ASSUME b < at PROVE FALSE
      OBVIOUS
    <3>2. Behind(b) + RecordsPerBlock <= Behind(at)
      BY <3>1, <1>d
    <3> QED
      BY <1>6, <2>1, <2>2, <3>2
  <2>4. ~(at < b)
    <3>1. SUFFICES ASSUME at < b PROVE FALSE
      OBVIOUS
    <3>2. Behind(at) + RecordsPerBlock <= Behind(b)
      BY <3>1, <1>d
    <3> QED
      BY <1>6, <2>1, <2>2, <3>2
  <2> QED
    BY <2>1, <2>3, <2>4
<1> QED
  BY <1>2, <1>7

\* The entries of a block are in the file, so all are that come with it or after
\* it if all that come after it are.
LEMMA BlockInFile ==
  ASSUME TypeOK, Positions, NEW at, IsPart("block", at)
  PROVE  InFileBehind(Behind(at)) <=> InFileBehind(Behind(at) + Len(file[at].recs))
<1> DEFINE recs == file[at].recs
           b    == Behind(at)
<1>1. /\ at \in DOMAIN file /\ at \in Nat /\ at >= 2 /\ recs \in Seq(Entry) /\ Len(recs) \in Nat
      /\ b + Len(recs) <= Len(entries)
      /\ \A r \in 1..Len(recs) : recs[r] = entries[b + r]
  BY StateIs, BlockIs DEF Positions, Placed, BlockAt, IsPart
<1>2. b \in Nat /\ Len(entries) \in Nat
  BY <1>1, StateIs, BehindIs
<1>3. ASSUME NEW r \in 1..Len(recs) PROVE InFile(b + r)
  <2>1. recs[r] \in ToSet(recs) /\ recs[r] = entries[b + r]
    BY <1>1, <1>3 DEF ToSet
  <2> QED
    BY <1>1, <2>1 DEF InFile
<1> HIDE DEF recs, b
<1>4. ASSUME NEW n \in (b + 1)..Len(entries), n \notin (b + Len(recs) + 1)..Len(entries)
      PROVE  InFile(n)
  <2>1. n - b \in 1..Len(recs) /\ b + (n - b) = n
    BY <1>1, <1>2, <1>4
  <2> QED
    BY <1>3, <2>1
<1>5. \A n \in (b + Len(recs) + 1)..Len(entries) : n \in (b + 1)..Len(entries)
  BY <1>1, <1>2
<1> QED
  BY <1>4, <1>5 DEF InFileBehind, b, recs

\* Nothing comes behind the last entry.
LEMMA NoneBehindTheLast ==
  ASSUME Len(entries) \in Nat
  PROVE  InFileBehind(Len(entries))
BY DEF InFileBehind

\* What the scan returns from the block at at on: the entries behind those of
\* the blocks before it, if they are all in the file.
Reads(at) ==
    Behind(at) <= Len(entries) =>
        LET read == Blocks[at][Len(entries) - Behind(at)]
        IN  /\ read = IF InFileBehind(Behind(at)) THEN Behinds(Behind(at)) ELSE Throws
            /\ phase = "written" => read = Behinds(Behind(at))

\* The walk reads them from a block on if it does from the one after it.
LEMMA ReadsNext ==
  ASSUME TypeOK, Positions, NEW at \in 2..(Len(file) + 1),
         at + 1 \in 2..(Len(file) + 1) => Reads(at + 1)
  PROVE  Reads(at)
<1> SUFFICES ASSUME Behind(at) <= Len(entries)
             PROVE  LET read == Blocks[at][Len(entries) - Behind(at)]
                    IN  /\ read = IF InFileBehind(Behind(at)) THEN Behinds(Behind(at)) ELSE Throws
                        /\ phase = "written" => read = Behinds(Behind(at))
  BY DEF Reads
<1> DEFINE left == Len(entries) - Behind(at)
<1>0. /\ Len(file) \in Nat /\ DOMAIN file = 1..Len(file) /\ at \in Nat /\ at >= 2
      /\ entries \in Seq(Entry) /\ Len(entries) \in Nat
      /\ Len(entries) \in 1..Cardinality(Key) /\ Cardinality(Key) \in Nat
      /\ Behind(at) \in Nat /\ Behind(at + 1) = Behind(at) + RecordsPerBlock
      /\ RecordsPerBlock \in Nat \ {0}
  BY StateIs, BehindIs, ParameterAssumption, KeyAssumption, FS_CardinalityType
<1>1. left \in 0..Cardinality(Key) /\ Behind(at) \in 0..Len(entries)
  BY <1>0
<1>2. Blocks[at][left] = WalkAt(Blocks, at, left)
  BY <1>1, BlocksIs
<1>3. CASE left = 0
  <2>1. Behinds(Behind(at)) = <<>>
    <3>1. Behinds(Behind(at)) \in Seq(Entry) /\ Len(Behinds(Behind(at))) = 0
      BY <1>0, <1>1, <1>3, BehindsAre
    <3> QED
      BY <3>1
  <2>2. WalkAt(Blocks, at, left) = <<>>
    BY <1>3 DEF WalkAt
  <2>3. InFileBehind(Behind(at))
    <3>1. Behind(at) = Len(entries)
      BY <1>0, <1>3
    <3> QED
      BY <1>0, <3>1, NoneBehindTheLast
  <2> QED
    BY <1>2, <2>1, <2>2, <2>3
<1>4. CASE left # 0 /\ ~IsPart("block", at)
  <2>1. WalkAt(Blocks, at, left) = Throws
    BY <1>4 DEF WalkAt
  <2>2. Behind(at) < Len(entries)
    BY <1>0, <1>4
  <2>3. phase # "written"
    BY <1>0, <1>4, <2>2 DEF Positions, Covered
  <2>4. ~InFileBehind(Behind(at))
    BY <1>0, <1>4, <2>2, OnlyInPlace
  <2> QED
    BY <1>2, <2>1, <2>3, <2>4
<1>5. CASE left # 0 /\ IsPart("block", at)
  <2> DEFINE recs == file[at].recs
  <2> DEFINE rest == Blocks[at + 1][left - Len(recs)]
  <2>1. at \in 1..Len(file) /\ recs \in Seq(Entry) /\ Len(recs) \in Nat
    BY <1>5, BlockIs
  <2>2. /\ Len(recs) # 0 /\ Behind(at) + Len(recs) <= Len(entries)
        /\ \A r \in 1..Len(recs) : recs[r] = entries[Behind(at) + r]
        /\ Len(recs) = RecordsPerBlock \/ Behind(at) + Len(recs) = Len(entries)
    BY <1>0, <1>5, <2>1 DEF Positions, Placed, BlockAt, IsPart
  <2>3. at + 1 \in 2..(Len(file) + 1) /\ left - Len(recs) \in 0..Cardinality(Key)
        /\ ~(Len(recs) > left) /\ Behind(at) + Len(recs) \in 0..Len(entries)
    <3> HIDE DEF recs
    <3>1. at + 1 \in 2..(Len(file) + 1)
      BY <1>0, <2>1
    <3>2. left - Len(recs) \in 0..left /\ ~(Len(recs) > left)
          /\ Behind(at) + Len(recs) \in 0..Len(entries)
      BY <1>0, <2>1, <2>2
    <3> QED
      BY <1>0, <1>1, <3>1, <3>2
  <2>4. /\ rest = IF InFileBehind(Behind(at) + Len(recs))
                  THEN Behinds(Behind(at) + Len(recs)) ELSE Throws
        /\ phase = "written" => rest = Behinds(Behind(at) + Len(recs))
    <3>1. CASE Behind(at) + Len(recs) = Len(entries)
      <4>1. left - Len(recs) = 0
        <5>1. Len(entries) \in Nat /\ Behind(at) \in Nat /\ Len(recs) \in Nat
          BY <1>0, <2>1
        <5> QED
          BY <3>1, <5>1
      <4>2. rest = WalkAt(Blocks, at + 1, left - Len(recs))
        BY <2>3, BlocksIs
      <4>3. rest = <<>>
        BY <4>1, <4>2 DEF WalkAt
      <4>4. Behinds(Behind(at) + Len(recs)) = <<>>
        <5>1. Behinds(Behind(at) + Len(recs)) \in Seq(Entry)
              /\ Len(Behinds(Behind(at) + Len(recs))) = 0
          <6> HIDE DEF recs
          <6>1. PICK k \in 0..Len(entries) : k = Behind(at) + Len(recs)
            BY <2>3
          <6>2. Behinds(k) \in Seq(Entry) /\ Len(Behinds(k)) = Len(entries) - k
            BY <1>0, BehindsAre
          <6> QED
            BY <1>0, <3>1, <6>1, <6>2
        <5> QED
          BY <5>1
      <4>5. InFileBehind(Behind(at) + Len(recs))
        BY <1>0, <3>1, NoneBehindTheLast
      <4> QED
        BY <4>3, <4>4, <4>5
    <3>2. CASE Len(recs) = RecordsPerBlock
      <4>1. Behind(at + 1) = Behind(at) + Len(recs) /\ Behind(at + 1) <= Len(entries)
        BY <1>0, <2>2, <3>2
      <4>2. left - Len(recs) = Len(entries) - Behind(at + 1)
        BY <1>0, <2>1, <4>1
      <4>3. Reads(at + 1)
        BY <2>3
      <4> HIDE DEF recs, left
      <4> QED
        BY <4>1, <4>2, <4>3 DEF Reads
    <3> QED
      BY <2>2, <3>1, <3>2
  <2>5. recs \o Behinds(Behind(at) + Len(recs)) = Behinds(Behind(at))
    BY <1>0, <1>1, <2>1, <2>2, Joined
  <2>6. Behinds(Behind(at) + Len(recs)) # Throws
    BY <1>0, <2>3, BehindsAre
  <2>7. WalkAt(Blocks, at, left) = IF rest = Throws THEN Throws ELSE recs \o rest
    BY <1>5, <2>2, <2>3 DEF WalkAt
  <2>8. InFileBehind(Behind(at)) <=> InFileBehind(Behind(at) + Len(recs))
    BY <1>5, BlockInFile
  <2> HIDE DEF recs, rest, left
  <2> QED
    BY <1>2, <2>4, <2>5, <2>6, <2>7, <2>8 DEF left
<1> QED
  BY <1>3, <1>4, <1>5

\* So a scan returns all entries if they are in the file, and throws if not.
LEMMA ScanReads ==
  ASSUME TypeOK, Positions
  PROVE  /\ FullScan = IF \A m \in DOMAIN entries : InFile(m) THEN entries ELSE Throws
         /\ phase = "written" => FullScan = entries
<1> DEFINE n == Len(file) + 1
<1>0. /\ n \in Nat /\ entries \in Seq(Entry) /\ Len(entries) \in Nat
  BY StateIs
<1> HIDE DEF n
<1> DEFINE S == {m \in Nat : \A at \in 2..n : at + m >= n => Reads(at)}
<1>1. 0 \in S
  <2> SUFFICES ASSUME NEW at \in 2..n, at + 0 >= n PROVE Reads(at)
    OBVIOUS
  <2>1. ~(at + 1 \in 2..n)
    BY <1>0
  <2> QED
    BY <2>1, ReadsNext DEF n
<1>2. ASSUME NEW m \in S PROVE m + 1 \in S
  <2>1. m \in Nat /\ \A at \in 2..n : at + m >= n => Reads(at)
    OBVIOUS
  <2>2. ASSUME NEW at \in 2..n, at + (m + 1) >= n PROVE Reads(at)
    <3>1. at + 1 \in 2..n => Reads(at + 1)
      BY <1>0, <2>1, <2>2
    <3> HIDE DEF S
    <3> QED
      BY <3>1, ReadsNext DEF n
  <2> QED
    BY <2>1, <2>2
<1>3. S = Nat
  <2>1. S \in SUBSET Nat
    OBVIOUS
  <2> HIDE DEF S
  <2> QED
    BY <1>1, <1>2, <2>1, Everything
<1>4. ASSUME 2 \in 2..n PROVE Reads(2)
  <2>1. n \in S
    <3> HIDE DEF S
    <3> QED
      BY <1>0, <1>3
  <2> QED
    BY <1>0, <1>4, <2>1
<1>t. (\A m \in DOMAIN entries : InFile(m)) <=> InFileBehind(0)
  <2>1. DOMAIN entries = (0 + 1)..Len(entries)
    BY <1>0
  <2> QED
    BY <2>1 DEF InFileBehind
<1>5. CASE ~IsPart("header", 1)
  <2>1. FullScan = Throws /\ phase # "written"
    BY <1>5 DEF FullScan, Positions, Headed
  <2>2. 1 \in DOMAIN entries
    BY StateIs
  <2>3. ~InFile(1)
    BY <1>5 DEF InFile, IsPart, Positions, Placed, BlockAt
  <2> QED
    BY <2>1, <2>2, <2>3
<1>6. CASE IsPart("header", 1)
  <2>1. 1 \in DOMAIN file /\ file[1].count = Len(entries)
    BY <1>6 DEF IsPart, Positions, Headed
  <2>2. 2 \in 2..n
    BY <2>1 DEF n, TypeOK
  <2>3. Behinds(0) = entries
    <3>1. /\ Behinds(0) \in Seq(Entry) /\ Len(Behinds(0)) = Len(entries)
          /\ \A r \in 1..Len(entries) : Behinds(0)[r] = entries[r]
      BY <1>0, BehindsAre
    <3> QED
      BY <1>0, <3>1
  <2>4. Behind(2) = 0 /\ Behind(2) <= Len(entries) /\ Len(entries) - Behind(2) = Len(entries)
    BY <1>0, BehindIs
  <2>5. FullScan = Blocks[2][Len(entries)]
    BY <1>6, <2>1 DEF FullScan
  <2>6. Reads(2)
    BY <1>4, <2>2
  <2> QED
    BY <1>t, <2>3, <2>4, <2>5, <2>6 DEF Reads
<1> QED
  BY <1>5, <1>6

-----------------------------------------------------------------------------
\* write_to_ss_table() stays within IInv and Positions.
LEMMA InductivePositions == Spec => [](IInv /\ Positions)
  BY InitIInv, NextIInv, InitPositions, NextPositions, PTL DEF Spec

\* A scan of a complete file returns what was written, each entry once and in
\* the order of the keys, for any entries and any size of the blocks.
THEOREM ScanReturns == Spec => []ScanReturnsWritten
<1>1. IInv /\ Positions => ScanReturnsWritten
  BY ScanReads DEF IInv, ScanReturnsWritten
<1> QED
  BY <1>1, InductivePositions, PTL

\* A file that is cut short never silently misses an entry: a point lookup throws
\* on every such file, and a scan on exactly those that miss one.
THEOREM CutsLoseNothingUnseen == Spec => []NoSilentLoss
<1>1. IInv /\ Positions => NoSilentLoss
  BY LookupNeedsFooter, ScanReads DEF IInv, NoSilentLoss
<1> QED
  BY <1>1, InductivePositions, PTL

-----------------------------------------------------------------------------
(* Reading a part of the entries.                                          *)

\* Putting entries whose keys differ into a map changes nothing.
LEMMA AsMapIs == ASSUME NEW es \in Inputs PROVE AsMap(es) = es
<1> DEFINE N == Len(es)
           K == {es[n].key : n \in DOMAIN es}
           keys == [n \in 1..N |-> es[n].key]
<1>1. /\ N \in Nat /\ es \in Seq(Entry) /\ DOMAIN es = 1..N
      /\ \A m \in 1..N : es[m] \in Entry /\ es[m].key \in Nat
      /\ \A m, n \in 1..N : m < n => es[m].key < es[n].key
  BY InputsAre
<1>2. InOrder(K) = keys
  <2>1. K \in SUBSET Nat /\ keys \in [1..N -> K]
    BY <1>1
  <2>2. \A m, n \in 1..N : m < n => keys[m] < keys[n]
    BY <1>1
  <2>3. \A x \in K : \E n \in 1..N : keys[n] = x
    BY <1>1
  <2> HIDE DEF K, keys
  <2> QED
    BY <1>1, <2>1, <2>2, <2>3, InOrderIsOnly
<1>3. AsMap(es) = [n \in 1..N |-> [key |-> es[n].key, cell |-> FindIn(es, es[n].key)]]
  <2>1. AsMap(es) = [n \in DOMAIN keys |-> [key |-> keys[n], cell |-> FindIn(es, keys[n])]]
    <3> HIDE DEF keys
    <3> QED
      BY <1>2 DEF AsMap
  <2> QED
    BY <2>1
<1>4. \A n \in 1..N : [key |-> es[n].key, cell |-> FindIn(es, es[n].key)] = es[n]
  <2> SUFFICES ASSUME NEW n \in 1..N
               PROVE  [key |-> es[n].key, cell |-> FindIn(es, es[n].key)] = es[n]
    OBVIOUS
  <2>1. FindIn(es, es[n].key) = es[n].cell
    BY FindInEntries
  <2>2. es[n] = [key |-> es[n].key, cell |-> es[n].cell]
    BY <1>1 DEF Entry
  <2> QED
    BY <2>1, <2>2
<1>5. es = [n \in 1..N |-> es[n]]
  BY <1>1
<1> QED
  BY <1>3, <1>4, <1>5

\* The two loops read what they are to read.
LEMMA LoopsRead ==
  ASSUME NEW es \in Inputs, NEW s \in Str
  PROVE  /\ PrefixLoop(es, s) = Only(es, WithPrefix(s))
         /\ \A t \in Str : RangeLoop(es, s, t) = Only(es, {k \in Str : s <= k /\ k <= t})
<1>1. /\ es \in Seq(Entry) /\ DOMAIN es = 1..Len(es)
      /\ \A n \in 1..Len(es) : es[n].key \in Nat /\ es[n].key \in Str
      /\ \A m, n \in 1..Len(es) : m < n => es[m].key < es[n].key
  <2>1. \A n \in 1..Len(es) : es[n].key \in Str
    BY InputsAre, KeyAssumption DEF Entry
  <2> QED
    BY <2>1, InputsAre
<1>2. s \in Nat /\ \A k \in Str : k \in Nat
  BY StringAssumption
<1>3. PrefixLoop(es, s) = Only(es, WithPrefix(s))
  <2>1. /\ \A k \in Str : k \in WithPrefix(s) => s <= k
        /\ \A k, l \in Str : s <= k /\ k < l /\ l \in WithPrefix(s) => k \in WithPrefix(s)
    BY StringAssumption, PrefixedTogether DEF WithPrefix
  <2>2. While(es, LowerBound(es, s), WithPrefix(s)) =
           Picked(es, {n \in DOMAIN es : s <= es[n].key /\ es[n].key \in WithPrefix(s)})
    BY <1>1, <1>2, <2>1, LoopReads
  <2>3. {n \in DOMAIN es : s <= es[n].key /\ es[n].key \in WithPrefix(s)} =
           {n \in DOMAIN es : es[n].key \in WithPrefix(s)}
    BY <1>1, <2>1
  <2> QED
    BY <2>2, <2>3 DEF PrefixLoop, Only
<1>4. ASSUME NEW t \in Str
      PROVE  RangeLoop(es, s, t) = Only(es, {k \in Str : s <= k /\ k <= t})
  <2> DEFINE range == {k \in Str : s <= k /\ k <= t}
  <2>1. \A k, l \in Str : s <= k /\ k < l /\ l \in UpTo(t) => k \in UpTo(t)
    BY <1>2 DEF UpTo
  <2>2. While(es, LowerBound(es, s), UpTo(t)) =
           Picked(es, {n \in DOMAIN es : s <= es[n].key /\ es[n].key \in UpTo(t)})
    BY <1>1, <1>2, <2>1, LoopReads
  <2>3. {n \in DOMAIN es : s <= es[n].key /\ es[n].key \in UpTo(t)} =
           {n \in DOMAIN es : es[n].key \in range}
    BY <1>1 DEF UpTo
  <2> QED
    BY <2>2, <2>3 DEF RangeLoop, Only
<1> QED
  BY <1>3, <1>4

\* Reading one key, a range or a prefix of a complete file returns exactly the
\* entries written for it, in their order.
THEOREM PartsReturn == Spec => []PartsReturnWritten
<1>1. IInv /\ ScanReturnsWritten => PartsReturnWritten
  <2> SUFFICES ASSUME IInv, ScanReturnsWritten, phase = "written" PROVE PartsReturnWritten
    BY DEF PartsReturnWritten
  <2>1. entries \in Inputs /\ FullScan = entries
    BY DEF IInv, TypeOK, ScanReturnsWritten
  <2>2. FullScan # Throws /\ AsMap(FullScan) = entries
    BY <2>1, AsMapIs, InputsAre, ResultAssumption
  <2>3. \A s \in Str :
           /\ KeyOf(s) = Only(entries, {s})
           /\ PrefixOf(s) = PrefixLoop(entries, s)
           /\ \A t \in Str : RangeOf(s, t) = RangeLoop(entries, s, t)
    BY <2>2 DEF KeyOf, PrefixOf, RangeOf
  <2> QED
    BY <2>1, <2>3, LoopsRead DEF PartsReturnWritten
<1> QED
  BY <1>1, Inductive, ScanReturns, PTL

=============================================================================
