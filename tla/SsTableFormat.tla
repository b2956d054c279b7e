--------------------------- MODULE SsTableFormat ---------------------------
(***************************************************************************)
(* What is inside an SSTable file (src/src/ss_table.cpp): how              *)
(* write_to_ss_table() lays the entries out in data blocks, Bloom filter,  *)
(* sparse index and footer, and how a point lookup and a full scan read    *)
(* them back.                                                              *)
(*                                                                         *)
(* A file is a sequence of parts and an offset is a position in it.  Each  *)
(* part carries a checksum, so one that did not reach the file in full, or *)
(* that is not where a reader expects it, makes the reader throw.          *)
(***************************************************************************)
EXTENDS Scans

CONSTANTS
    Key,                \* the strings used as keys
    Val, Tomb,
    NotFound, Throws,   \* results of a lookup
    Partial,            \* a part that did not reach the file in full
    RecordsPerBlock,    \* RECORDS_PER_BLOCK
    BitsPerByte,        \* BYTE_SIZE
    HashMod,            \* 2^64: hashes wrap
    H1, H2,             \* xxhash() with each of the two seeds
    BytesFor,           \* BytesFor[n]: Bloom filter bytes for n entries
    HashesFor           \* HashesFor[n]: its number of hash functions

Cell  == Val \cup {Tomb}
Entry == [key : Key, cell : Cell]

ASSUME KeyAssumption == Key \subseteq Str /\ IsFiniteSet(Key)
ASSUME ParameterAssumption ==
    /\ RecordsPerBlock \in Nat \ {0} /\ BitsPerByte \in Nat \ {0} /\ HashMod \in Nat \ {0}
    /\ H1 \in [Key -> Nat] /\ H2 \in [Key -> Nat]
    /\ \A n \in 1..Cardinality(Key) :
          BytesFor[n] \in Nat \ {0} /\ HashesFor[n] \in Nat \ {0}
ASSUME PartialAssumption == Partial \notin {"header", "block", "bloom", "sparse", "footer"}
ASSUME ResultAssumption ==
    NotFound \notin Cell /\ Throws \notin Cell \cup {NotFound} /\ Throws \notin Seq(Entry)

VARIABLES
    entries,    \* mem_table: what is to be written, in the order of the keys
    next,       \* the entry the writer's loop has come to
    block,      \* the block it is filling
    bits,       \* bloom_filter_bit_array, as the set of its set bits
    sparse,     \* sparse_data
    bloomAt, sparseAt,  \* bloom_filter_offset, sparse_index_offset
    file,       \* what is in the file
    phase       \* the part write_to_ss_table() writes next

vars == <<entries, next, block, bits, sparse, bloomAt, sparseAt, file, phase>>

Phases == {"header", "data", "bloom", "sparse", "footer", "written", "failed"}

\* A memtable that is written has an entry, and is a std::map: its keys ascend.
Inputs ==
    {es \in UNION {[1..n -> Entry] : n \in 1..Cardinality(Key)} :
        \A m, n \in DOMAIN es : m < n => es[m].key < es[n].key}

Init ==
    /\ entries \in Inputs
    /\ next = 1 /\ block = <<>> /\ bits = {} /\ sparse = <<>>
    /\ bloomAt = 0 /\ sparseAt = 0
    /\ file = <<>> /\ phase = "header"

-----------------------------------------------------------------------------
(* The Bloom filter.                                                       *)

\* The bits of a key: h1 + i*h2 for each hash function, in a filter of so
\* many bytes.
BitsOf(k, bytes, hashes) ==
    {((H1[k] + i * H2[k]) % HashMod) % (bytes * BitsPerByte) : i \in 0..(hashes - 1)}

Bytes  == BytesFor[Len(entries)]
Hashes == HashesFor[Len(entries)]

-----------------------------------------------------------------------------
(* write_to_ss_table().                                                    *)

\* Mutant of WriteHeader: the count is one short.
WriteHeaderShort ==
    /\ phase = "header"
    /\ file' = <<[part |-> "header", count |-> Len(entries) - 1]>>
    /\ phase' = "data"
    /\ UNCHANGED <<entries, next, block, bits, sparse, bloomAt, sparseAt>>

WriteHeader ==
    /\ phase = "header"
    /\ file' = <<[part |-> "header", count |-> Len(entries)]>>
    /\ phase' = "data"
    /\ UNCHANGED <<entries, next, block, bits, sparse, bloomAt, sparseAt>>

\* write_data_block() at the end of the file, and its place in the index.
PutBlock(recs) ==
    /\ file' = Append(file, [part |-> "block", recs |-> recs])
    /\ sparse' = Append(sparse, [key |-> recs[1].key, at |-> Len(file) + 1])
    /\ block' = <<>>

AddEntry ==
    /\ phase = "data" /\ next <= Len(entries)
    /\ next' = next + 1
    /\ bits' = bits \cup BitsOf(entries[next].key, Bytes, Hashes)
    /\ LET filled == Append(block, entries[next])
       IN  IF Len(filled) = RecordsPerBlock THEN PutBlock(filled)
           ELSE block' = filled /\ UNCHANGED <<file, sparse>>
    /\ UNCHANGED <<entries, bloomAt, sparseAt, phase>>

\* Mutant of LastBlock: a block that is not full is forgotten.
LastBlockDropped ==
    /\ phase = "data" /\ next > Len(entries)
    /\ phase' = "bloom"
    /\ UNCHANGED <<entries, next, block, bits, sparse, bloomAt, sparseAt, file>>

LastBlock ==
    /\ phase = "data" /\ next > Len(entries)
    /\ IF block # <<>> THEN PutBlock(block) ELSE UNCHANGED <<file, sparse, block>>
    /\ phase' = "bloom"
    /\ UNCHANGED <<entries, next, bits, bloomAt, sparseAt>>

WriteBloom ==
    /\ phase = "bloom"
    /\ bloomAt' = Len(file) + 1
    /\ file' = Append(file, [part |-> "bloom", bytes |-> Bytes, hashes |-> Hashes, bits |-> bits])
    /\ phase' = "sparse"
    /\ UNCHANGED <<entries, next, block, bits, sparse, sparseAt>>

WriteSparse ==
    /\ phase = "sparse"
    /\ sparseAt' = Len(file) + 1
    /\ file' = Append(file, [part |-> "sparse", index |-> sparse])
    /\ phase' = "footer"
    /\ UNCHANGED <<entries, next, block, bits, sparse, bloomAt>>

WriteFooter ==
    /\ phase = "footer"
    /\ file' = Append(file, [part |-> "footer", bloom |-> bloomAt, sparse |-> sparseAt])
    /\ phase' = "written"
    /\ UNCHANGED <<entries, next, block, bits, sparse, bloomAt, sparseAt>>

\* A write fails or the process ends; part of what came next may be there.
Fail ==
    /\ phase \notin {"written", "failed"}
    /\ file' \in {file, Append(file, [part |-> Partial])}
    /\ phase' = "failed"
    /\ UNCHANGED <<entries, next, block, bits, sparse, bloomAt, sparseAt>>

Next ==
    \/ WriteHeader \/ AddEntry \/ LastBlock
    \/ WriteBloom \/ WriteSparse \/ WriteFooter \/ Fail

Spec == Init /\ [][Next]_vars

-----------------------------------------------------------------------------
(* Reading.                                                                *)

IsPart(p, at) == at \in DOMAIN file /\ file[at].part = p

\* Mutant of BlockFor: lower_bound instead of upper_bound.
BlockBelow(index, k) ==
    LET below == {n \in DOMAIN index : index[n].key < k}
    IN  IF below = {} THEN 0 ELSE index[Max(below)].at

\* The block to search: that of the last first key that is not above k.
BlockFor(index, k) ==
    LET upTo == {n \in DOMAIN index : index[n].key <= k}
    IN  IF upTo = {} THEN 0 ELSE index[Max(upTo)].at

\* The last record of a block that has the key.
FindIn(recs, k) ==
    LET hits == {n \in DOMAIN recs : recs[n].key = k}
    IN  IF hits = {} THEN NotFound ELSE recs[Max(hits)].cell

\* get_value_from_ss_table()
Lookup(k) ==
    IF ~IsPart("footer", Len(file)) THEN Throws
    ELSE LET foot  == file[Len(file)]
             bloom == file[foot.bloom]
         IN  IF ~IsPart("bloom", foot.bloom) THEN Throws
             ELSE IF ~(BitsOf(k, bloom.bytes, bloom.hashes) \subseteq bloom.bits) THEN NotFound
             ELSE IF ~IsPart("sparse", foot.sparse) THEN Throws
             ELSE LET at == BlockFor(file[foot.sparse].index, k)
                  IN  IF at = 0 THEN NotFound
                      ELSE IF ~IsPart("block", at) THEN Throws
                      ELSE FindIn(file[at].recs, k)

\* Mutant of Blocks: where there is no further block, the scan ends.
BlocksWhileThere ==
    LET walk[at \in 2..(Len(file) + 1)] == [left \in 0..Cardinality(Key) |->
            IF left = 0 \/ ~IsPart("block", at) THEN <<>>
            ELSE LET n    == Len(file[at].recs)
                     rest == walk[at + 1][left - n]
                 IN  IF n = 0 \/ n > left THEN Throws
                     ELSE IF rest = Throws THEN Throws
                     ELSE file[at].recs \o rest]
    IN  walk

\* read_ss_table(): blocks one after the other, until they have as many
\* entries as the header says; a block must have some, and no more than that.
Blocks ==
    LET walk[at \in 2..(Len(file) + 1)] == [left \in 0..Cardinality(Key) |->
            IF left = 0 THEN <<>>
            ELSE IF ~IsPart("block", at) THEN Throws
            ELSE LET n    == Len(file[at].recs)
                     rest == walk[at + 1][left - n]
                 IN  IF n = 0 \/ n > left THEN Throws
                     ELSE IF rest = Throws THEN Throws
                     ELSE file[at].recs \o rest]
    IN  walk

FullScan == IF ~IsPart("header", 1) THEN Throws ELSE Blocks[2][file[1].count]

\* The std::map that get_keys_from_ss_table() and its two siblings put the scan
\* into: one entry for each key, the last one, in the order of the keys.
AsMap(recs) ==
    LET keys == InOrder({recs[n].key : n \in DOMAIN recs})
    IN  [n \in DOMAIN keys |-> [key |-> keys[n], cell |-> FindIn(recs, keys[n])]]

\* get_keys_from_ss_table(), given a key
KeyOf(k) == IF FullScan = Throws THEN Throws ELSE Only(AsMap(FullScan), {k})

\* get_range_from_ss_table()
RangeOf(start, end) ==
    IF FullScan = Throws THEN Throws ELSE RangeLoop(AsMap(FullScan), start, end)

\* get_prefix_from_ss_table()
PrefixOf(p) == IF FullScan = Throws THEN Throws ELSE PrefixLoop(AsMap(FullScan), p)

-----------------------------------------------------------------------------
(* Properties.                                                             *)

Index == Seq([key : Key, at : Nat])

\* The parts of a file.
Part ==
    [part : {"header"}, count : 1..Cardinality(Key)]
    \cup [part : {"block"}, recs : Seq(Entry)]
    \cup [part : {"bloom"}, bytes : Nat, hashes : Nat, bits : SUBSET Nat]
    \cup [part : {"sparse"}, index : Index]
    \cup [part : {"footer"}, bloom : Nat, sparse : Nat]
    \cup [part : {Partial}]

\* Each variable holds a value of its type.
TypeOK ==
    /\ entries \in Inputs
    /\ next \in 1..(Len(entries) + 1) /\ block \in Seq(Entry)
    /\ bits \in SUBSET Nat /\ sparse \in Index
    /\ bloomAt \in Nat /\ sparseAt \in Nat
    /\ file \in Seq(Part) /\ phase \in Phases

Written(k) == FindIn(entries, k)

\* A point lookup in a complete file finds what was written for the key, a
\* tombstone too, and nothing for any other key: the Bloom filter never hides
\* a key, and the sparse index never leads to the wrong block.
LookupFindsWritten == phase = "written" => \A k \in Key : Lookup(k) = Written(k)

\* A scan of a complete file, which uses neither, returns the same entries in
\* the order of their keys.
ScanReturnsWritten == phase = "written" => FullScan = entries

\* Reading one key, a range or a prefix of a complete file returns the entries
\* written for it, tombstones too: the two loops start at the first such key and
\* meet no other before the last.
PartsReturnWritten ==
    phase = "written" => \A s \in Str :
        /\ KeyOf(s) = Only(entries, {s})
        /\ PrefixOf(s) = Only(entries, WithPrefix(s))
        /\ \A t \in Str : RangeOf(s, t) = Only(entries, {k \in Str : s <= k /\ k <= t})

\* Entry n reached the file, in a complete data block.
InFile(n) == \E at \in DOMAIN file : IsPart("block", at) /\ entries[n] \in ToSet(file[at].recs)

\* A file that is cut short never silently misses an entry.  A point lookup starts
\* at the footer, which is written last, so it throws on every such file.  A scan
\* ends by the header's count and never looks at the footer: it throws on exactly
\* the files that miss an entry, and reads one cut behind its last data block in
\* full.
NoSilentLoss ==
    /\ phase # "written" => \A k \in Key : Lookup(k) = Throws
    /\ FullScan = IF \A n \in DOMAIN entries : InFile(n) THEN entries ELSE Throws

=============================================================================
