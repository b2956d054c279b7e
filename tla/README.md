# Verification of mewDb

mewDb is a key-value store written in C++: an in-memory table, a write-ahead log that makes
every update durable before it is applied, immutable sorted tables (SSTables) that a full
memtable is flushed to, and a manifest that lists the tables in force. One process, one
thread, one command at a time. What makes it hard is not concurrency inside the program but
everything that can happen *between two of its steps*: the process or the machine ends, a
write or a sync fails half-way, and the next process starts on the files as they are.

This directory holds TLA+ modules that model the program, the TLC configurations that check
them, and proofs for TLAPS. Paths below are relative to the repository root (`src/wal.cpp`
is the implementation file, `include/wal.h` its header).

## 1. The system

| Component | State | Operations | Modelled in |
|---|---|---|---|
| Write-ahead log, class `Wal` (`src/wal.cpp`) | `data/wal.bin`, `index`, `write_failed` | constructor, `recover`, `write`, `truncate` | `Wal`; field by field in `WalFormat` |
| Manifest, class `Manifest` (`src/manifest.cpp`) | `data/manifest.txt`, `data/temp_manifest.txt`, `next_ss_table_index`, the open stream | constructor, add, remove, replace, `get_ss_table_indices`, `write_manifest` | `Manifest` |
| `subtract_vectors` (`src/manifest.cpp`) | two pointers and a result | the loop | `SubtractVectors`, `Vectors` |
| SSTable files, class `SsTable` (`src/ss_table.cpp`) | `data/ss_table_<i>.bin` | create, write, sync, (read), delete | `SsTable` |
| SSTable contents (`src/ss_table.cpp`) | header, data blocks, Bloom filter, sparse index, footer | writer, point lookup, full scan, one key, range, prefix | `SsTableFormat`, `Scans` |
| Engine, class `DbEngine` (`src/db_engine.cpp`) | `curr_mem_table`, `mem_table_size` | start, set, del, get, keys, range, prefix_scan, flush, compact | `MewDb`; the loops of the three scans in `Repl`, `Scans` |
| What the engine promises | a map, its durable copy, the update in progress | begin, take, persist, end, crash, power loss | `DurableMap` |
| File helpers (`src/file_io.cpp`) | the stdio buffer, `ferror`, `errno` | `write_bytes`, `sync_file`, `sync_parent_directory` | `FileIo`; as durability steps in the three file models |
| REPL (`main.cpp`) | the line being executed | one action per command, wrong lines, exit | `Repl` |
| CRC32, XXH3 | none | library calls | abstracted, section 7 |
| `practice/*.cpp` | | not linked into the database | not modelled |

**How the parts interact.** `main()` builds a `DbEngine`, whose constructor opens the log and
calls `Wal::recover(db)`, which calls back `recover_set`/`recover_del` for each record, and
then opens the manifest. `set` and `del` call `Wal::write`, then change the memtable, then
call `flush` if it is full. `flush` writes a new SSTable, adds it to the manifest and
truncates the log, in that order. `compact` merges all listed tables into one, swaps it into
the manifest and deletes the old files; if nothing is live it only unlists and deletes. Readers
merge the memtable with the listed tables, newest first. Nothing but files outlives a process.

**Which behaviours are hard.** A failing step leaves the process in one of two ways: an
exception, which `main()` does not catch (the process ends, like a crash), or `compact()`
returning false, after which the process *goes on* with whatever state the failing step left.
A crash keeps the page cache; a power loss keeps what was synced, plus anything the kernel
happened to write back: file contents and directory entries independently. The full list is
under `hazards` in `PROJECT.json`, each at its line and with the properties that would catch it.

**What makes each component correct.**

- Log: an acknowledged record survives everything until `truncate`; `recover` can reach it;
  a record is whole or is not there; a damaged one is never replayed; what a crash leaves is
  not called corruption, and lost data is not called a torn tail.
- File helpers: every call returns; what was synced is all that was written; `errno` is that of
  the step that failed.
- Manifest: replaced atomically, at every instant, also on stable storage; indices are never
  handed out again while a surviving manifest lists them; lists are ascending.
- SSTables: a listed one is complete, for a process and after a power loss; a lookup agrees
  with a scan and with what was written; a file cut short never reads as one with fewer entries.
- Engine: between two commands the database reads as it would after a crash; updates are
  atomic and durable when logged; flush and compaction change nothing that a reader sees;
  after any faults it recovers and serves; a scan lists exactly the live keys it is asked for.
- REPL: what was answered `OK` is what the key has from then on, in every later process.

## 2. The modules

`Wal`, `Manifest` and `SsTable` are specifications of one component over its files. `MewDb`
composes them: it declares their variables, instantiates them as `W`, `M` and `T`, and each of
its actions is a conjunction of a component's action and what the engine does at that step.
`MC*` modules only give constants their values. `X_proofs` proves theorems about `X`;
`MewDbInvariant` holds the definitions of the engine's inductive invariant, apart from the proofs
that use it. Three specifications meet in refinements:

    Repl  --uses-->  DurableMap  <--implements--  MewDb  --composes-->  Wal, Manifest, SsTable
                                                                         ^
                                               FileIo <--uses-- WalFormat, implements Wal

so that the user's view (`Repl`) is checked over the promise that the engine keeps, and the
engine over the log that the field-by-field code keeps.

### Durability, in all three file models

Every file exists twice: as a process sees it, and as stable storage has it.

| | process | stable storage | made equal by |
|---|---|---|---|
| log | `wal` | `walDisk` | `sync_file` |
| manifest (the name `manifest.txt` and what it leads to) | `man` | `manDisk` | syncing `data/` |
| tables, contents | `tables` | `tabData` | `sync_file` |
| tables, names | `tables[i] # NoFile` | `tabNames` | syncing `data/` |

`Crash` keeps the first column and loses the objects; `PowerLoss` replaces the first column by
the second; `WriteBack` is the kernel bringing a part of the second up to date on its own, at
any time. Any successful sync of `data/`, whoever asks for it, covers every name in it
(`MewDb!DirSynced`), as the file system has one directory.

### Wal

The file is a sequence of records `[index, key, val]`, `val = Tomb` for a delete, and `Torn`
for one that is incomplete or whose checksum does not fit. `walPc` says where the object is.
`write()` is `Write` (the checks), `PushPart`/`PushAll` (bytes reach the file, in part or in
full), then `WriteSynced` or `WriteFail`. `recover()` is `Construct`, one `ReplayRecord` per
record, then `RecoverEnd`, or `CutTail` and `SyncRepair`. `truncate()` is `Truncate`, then
`TruncateSynced` or `TruncateSyncFail`; `TruncateFail` is a close or reopen that failed.
`acked` is a history variable: how many records a successful `write()` covers. Bytes of a
failed write that stay in the stdio buffer and reach the file when it is closed are covered by
`PushPart` and `PushAll` happening before the failure: nothing reads the file in between.

`Next` allows any caller, also one that goes on after a call returned false, as the class
does; `MewDb` restricts it to what the engine does.

### FileIo and WalFormat

`FileIo` is one file as the helpers see it: what `write_bytes()` accepted and stdio still holds
(`buf`), the file (`os`) and its stable copy (`disk`), `ferror`, `errno`, and the place in the
helper that runs (`io`). `Push` is stdio handing *any* part of its buffer to the kernel, at
any time and in `fflush()`; `Interrupted` is a system call that returns `EINTR`.

`WalFormat` writes the log with it. A cell is one field of one record (`key_len` and `val_len`
are one cell), and a file a sequence of cells that may end after any of them: a field of which
only a part is there reads like one that is missing. `GiveField` is one `write_bytes()` of the
chain in `write()`, `SyncRecord` and `WriteReturns` the call of `sync_file()`. `Passes(f, at, i)`
is the check that `recover()` makes once it has read field `i`, `Stops` the fields at which the
loop would stop, and `Outcome` what the first of them makes of it: whole, torn tail, corrupt.
Checksums are abstracted to fitting exactly the fields they were computed from.

With `sound = FALSE` the medium may damage a field of the file between two processes (`Damage`):
to another legal value, or, where there is such a thing, to one that the field cannot have.
With `sound = TRUE` every step of `WalFormat` is a step or a stutter of `Wal` (`ImplementsWal`):
the log is `Parse(os)`, its stable copy `Parse(disk)`, and the place in `write()` is read off
from how many fields have left the buffer (`WalPc`).

### Manifest

A manifest is `[next, list]`. `write_manifest()` is `StartWrite`, `WriteTemp`, `Rename`,
`SyncDir`, each with its failure; `Returned(b)` hands its result to the caller. `Rename` may
reach stable storage at once; then the name leads to `Torn` unless the temp file was synced
before. `manOpen` is whether the stream could be reopened; operations re-read the list through
it (`CanCall`), while the next index is the cached one, `manNext`.

### SsTable and SsTableFormat

`SsTable` treats a file as `Torn` or as a function from keys to cells (a value, a tombstone, or
`Absent`). `SsTableFormat` looks inside one file: the entries go into data blocks of
`RecordsPerBlock`, each one's first key and place go into the sparse index, its keys' bits into
the Bloom filter, and the readers go from the footer through filter and index to one block, or
from the header through all blocks. The reads of one key, a range or a prefix
(`KeyOf`, `RangeOf`, `PrefixOf`) put the scan into a map and run the loops of `Scans`. Parts are positions in a sequence; a part has a checksum,
so `IsPart` is what reading and checking a part amounts to.

### MewDb

`mem` is `curr_mem_table` as a function from keys to cells, `memSize` the counter beside it
(its arithmetic is the code's, with four places that differ: `PutSet`, `PutDel`, `ReplayDel`,
`EntryLen`), `newIdx`, `merged` and `todo` the locals of `flush` and `compact`, and `pc` the
place in the engine's methods:

| `pc` | method and place |
|---|---|
| `down` | no process |
| `recover`, `manifest` | constructor: `Wal::recover`, `Manifest()` |
| `idle` | between two commands |
| `log` | `set`, `del`: inside `Wal::write` |
| `flush`, `flushWrite`, `flushDir`, `flushAdd`, `flushTruncate` | `flush`: create, write and sync the table, sync `data/`, manifest, log |
| `compact`, `compactWrite`, `compactDir`, `compactSwap`, `compactRemove` | `compact`: merged, then the same, then deletion |
| `throw` | an exception on its way out of `main()` |

`get`, `keys`, `range` and `prefix_scan` change nothing and are operators (`Get`, `Scan`); what
they can do is throw, which is `ReadThrows` if the manifest's stream is bad, and `Crash` if
reading fails otherwise. `Scan(S)` covers the three scans: `S` is all keys, an interval, or the
keys with a prefix.

### Vectors, Scans and Repl

`Vectors` is what the code does to sorted sequences: the difference of two (`Subtract`), the
order of strings (`Less`), `lower_bound` in a map (`LowerBound`) and a loop from an iterator up
to the first key that is not good (`While`). A part of a sequence is `Picked` by places: the nth
element is the one of `Rank` n, so nothing in it is recursive and all of it can be proved about.

`Scans` holds what SSTable and engine have in common in reading a part of a `std::map`:
`lower_bound` and the loop from it, to the end of a range (`RangeLoop`) or of the keys
`WithPrefix` (`PrefixLoop`). A string is a number, its place in the order of `std::string`, and
has its letters in `Letters`; `StringAssumption` says that the two agree, and TLC evaluates it.

`Repl` is the loop of `main.cpp`. Its state is `DurableMap`'s, the line being executed, the reply
and the `phase` (`down`, `prompt`, `update`, `print`), and a history variable `may`: for each key
the values its user has to reckon with. The user adds a value when a line that may bring it about
is given, and drops the others only when `OK` is *seen* (`Shown`); the process may end in
between. The reading commands do what `keys()`, `range()` and `prefix_scan()` do, on every way in
which the map can be spread over the memtable and the tables (`Layers`; the tables are one layer,
as `NewestCell` and `ScansAgreeWithGets` in `MewDb` are about the order among them).

### DurableMap

Three variables: the map a new process would serve, the map a power loss would leave, and the
update in progress. An update takes effect in one step, may be lost whole by a crash or a power
loss before it was logged, and cannot be lost after. Flush, compaction, recovery and repair
do not appear in it at all: under the mapping they are stuttering steps, or `Persist`. The
mapping reads `store` and `durable` off the *files*, never the memtable: `Served` replays the
log over the listed tables.

## 3. What is checked

| Run | Module, bounds | Properties |
|---|---|---|
| `wal` | `Wal`; 1 key, 1 value (and deletes), 3 sequence numbers | `TypeOK`, `AckedSurvive`, `OnlyLastTorn`, `IndicesConsecutive`, `ReadyMeansClean` |
| `manifest` | `Manifest`; 4 indices | `TypeOK`, `NeverTorn`, `NextAboveListed`, `CachedNextIsCurrent`, `ListAscending` |
| `subtract` | `SubtractVectors`; all pairs of ascending vectors over 6 values | `ReturnsDifference`, `DecidedSoFar` |
| `wal_format` | `WalFormat` with fairness; a set, then a delete, of one key (2 sequence numbers, again after each truncation and restart) | `TypeOK`, `NothingDamagedReplayed`, `ErrnoNamesFailure`, `CrashIsNotCorruption`, `LossCalledCorruption`, `CallsReturn`, `ImplementsWal` |
| `format` | `SsTableFormat`; every map over 5 keys (`a`, `aa`, `ab`, `b`, `ba`), blocks of 2, 4-bit bytes, hashes mod 16 | `LookupFindsWritten`, `ScanReturnsWritten`, `PartsReturnWritten`, `NoSilentLoss` |
| `engine` | `MewDb`; 2 keys, 1 value, 2 sequence numbers, 4 table indices, limit 4 | `TypeOK`, `ListedTablesComplete`, `WritesFreshFile`, `NoEmptyTable`, `PowerLossTakesUnsyncedOnly`, `ScansAgreeWithGets`, `ListedTablesNeverChange` |
| `engine_log` | `MewDb`; 2 keys and 2 values of different lengths, 3 sequence numbers, 2 table indices, limit 6 | `MemIsReplay`, `SizeCoversLive` |
| `engine_promise` | `MewDb` with fairness; as `engine`, 3 table indices, no symmetry | `ImplementsDurableMap`, `KeepsServing` |
| `repl` | `Repl`; strings `a`, `aa`, `ab`, `b`, of which 3 are keys and 2 values, an unanswered update of at most one key at a time | `TypeOK`, `UserKnows`, `ListingsAreExact` |
| `wal_history`, `size_doc`, `compact_doc` | violations, section 6 | `IndexGrows`, `SizeIsLengths`, `CompactionFailureReturns` |

**Why the bounds are enough.** No bound limits crashes, power losses, failures, restarts or
write-backs: any number of them can happen in a behaviour, at every step.

- In the log, two records after a torn one are enough for every claim about position and order;
  the third sequence number lets a truncated log be written again. The values of records do not
  influence any step.
- With four table indices the manifest goes through an add, a swap, and an add after it, each
  with every failure and from every surviving state.
- Five keys in blocks of two give a file with two full blocks and a short one, one with full
  blocks only, keys below the first, between two blocks and above the last; the hashes collide
  and wrap, and the filters are small enough to say "maybe" for absent keys.
- In `engine`, `Limit` is such that a record leaves the memtable below it and two records reach
  it, and a key has two bytes so that two tombstones do, too: tables with values, with
  tombstones, and with both. Four indices allow flush, flush, compact and a flush after it, or a
  second compaction. The keys are interchangeable there (same length), so they are a symmetry
  set; lengths that differ, which break the symmetry, are the subject of `engine_log`.
- `engine_log` needs overwriting more than tables: two values of different lengths and a log of
  three records, so that set, set over it and delete (or delete, set, set) meet in one log.
- `wal_format` has a record with a value and, behind it, one without (a delete has a field less):
  every cut between two fields of either, behind a whole record or not, with every part of it
  still in the buffer, and one damaged field anywhere. It reaches 161,597 states.
- `repl` has a key that is a prefix of another, a string between them that is no key, keys and
  arguments below, equal to and above each other, and every spread of the keys over two layers.
  `MaxDoubt` limits only how many keys have an unanswered update at the same time; one key's
  unanswered updates may be any number. An argument that is no key reads as a key that is absent.

The guards `walIndex < MaxIndex` and `manNext < MaxTables` are where the bounds sit: they
only stop new commands. `truncate()` does not reset the sequence number, so a process writes at
most `MaxIndex` records; the process that starts on the truncated log begins at 0 again.

**Each property can fail.** For every property of a passing run, `PROJECT.json` names a mutant
of one mapped definition, an operator in the same module that changes it like a plausible bug,
under which TLC finds the property violated: the sync left out of `write()`, the latch left out
of its failure path, a flush without tombstones, an index that is not moved on, `lower_bound`
for `upper_bound`, a compaction that keeps the oldest entry, and so on.

**What `PowerLossTakesUnsyncedOnly` compares.** It looks at the two copies of all files at every
step. A flush, a compaction or a truncation that loses an update, or brings one back, changes, in
some behaviour, the one copy before the other, so there is a state in which the two differ for a key that no
unsynced record of the log accounts for. The order among tables, on which `compact()` and the
readers must agree, is seen here too: the merged table must serve what the tables it replaces do.

**Fairness.** In `MewDb`, `FairSpec` is `Spec` with weak fairness of `Step`: what the process does next, and
its restart after it ended. A single-threaded process that can take a step does; the operator
restarts it. Nothing is assumed of the caller, of the kernel, or of which outcome (success or
failure) a step has. `KeepsServing` therefore has a premise, that from some time on no
step fails (`Faultless`): no new exception, no crash, no stream that goes bad. It says that
*whatever state the files and the process were left in before that*, the process is then
between two commands infinitely often. Exceptions that are the consequence of an earlier fault
(the list is needed and the manifest's stream is bad) are not excluded by the premise: the
property says that they cannot repeat for ever either. That the premise can be met, and the
property fail, is what the run's mutant shows.

In `WalFormat`, `FairSpec` is weak fairness of the steps of a call that was begun, and of the
start of a process. It has no premise about failures: a step that fails ends the call too. What
it excludes is a system call that is interrupted for ever: one that returns `EINTR` when `errno`
holds that already changes nothing, so fairness makes it return something else in the end.

## 4. What is proved

Every invariant that a passing run checks, the action properties, and the safety part of the two
refinements are theorems, for any keys and values, any number of records, tables, crashes and
restarts, and every value of the other constants that meets the named assumptions. TLC checks the
same properties on the small instances of section 3, and has checked each inductive invariant below
on instances of the same size (where one quantifies over all numbers or sequences, over those that
can matter there).

| Module | Theorems |
|---|---|
| `Wal_proofs` | `TypeCorrect`, `AckedSurvives`, `TornIsLast`, `NoIndexGap`, `ReadyIsClean` |
| `Manifest_proofs` | `TypeCorrect`, `ReplacedAtomically`, `IndicesNeverReused`, `CacheIsCurrent`, `ListsAscend` |
| `SubtractVectors_proofs` | `DecidesInOrder`, `ComputesDifference`, and `SubtractIsDifference` about the operator |
| `WalFormat_proofs` | `TypeCorrect`, `ErrnoIsKept`, `DamageIsNoticed`, `CrashesLookTorn`, `LossIsReported`, `FieldsImplementRecords` |
| `SsTableFormat_proofs` | `TypeCorrect`, `LookupFinds`, `ScanReturns`, `PartsReturn`, `CutsLoseNothingUnseen` |
| `MewDb_proofs` | `TypeCorrect`, `PartsRunTheirSpecs`, `ListedAreComplete`, `FilesAreFresh`, `TablesHaveEntries`, `ListedStay`, `MemIsTheLog`, `OnlyUnsyncedIsLost`, `SizeNeverWraps`, `ScansListWhatGetFinds`, `Refinement` |
| `Repl_proofs` | `TypeCorrect`, `UserIsRight`, `OkIsNeverLost`, `ListsExactly` |
| `Vectors_proofs` | the lemmas that several of the others need |

### Log and manifest

In `Wal_proofs` the invariants are not inductive: `AckedSurvive` says nothing about the moment at
which a record becomes acknowledged, and `OnlyLastTorn` nothing of why an append never meets a
torn tail. The strengthening `IInv` adds, for both copies of the file, that a torn record is last,
numbers are consecutive and the acknowledged prefix is the same in both (`FilesOK`), and, for each
place in the object's methods, what the object knows about the file (`ObjectOK`): ready and not
latched means that the file is clean and `index` follows its last record; a partial append has
exactly one torn record, at the end; `recover()` has passed only whole records and `index` follows
the last of them; `truncate()` in progress means an empty file. The proof has one step for each
action; the two that append (`PushPart`, `PushAll`) first establish what `Append` does to the
sequence, then reprove the parts of `FileOK` for each copy.

In `Manifest_proofs`, `IInv` says that each copy of the file is absent or `Good` (complete,
ascending, below its own next index) and stable storage is not ahead of the process, and that what
`write_manifest()` is about to put in place is `Good`, does not go back, and is synced when the
rename comes. The lemmas: an empty manifest is good, one with one more index is (`AppendGood`),
subtracting a list from itself leaves nothing (`SubtractSelf`), and a call of `write_manifest()`
with such a manifest keeps the invariant (`StartWriteIInv`), which covers the constructor and the
three operations. It is about a caller that passes what `DbEngine` passes: the cached next index
and the list it has just read.

`SubtractVectors_proofs` takes the loop on any two ascending vectors. `DecidedSoFar`, with the
bounds of the two pointers, is inductive: every element before `curr`'s pointer has been decided
rightly. Most of the work is about `Subtract`: that it is a sequence of what was kept, in its
order, and that one more element decided changes it by that element or not at all.

### The engine

`PartsRunTheirSpecs` is `Spec => W!Spec /\ M!Spec`: each step of the engine is a step of the log
and a step of the manifest, or leaves them alone. It is what carries the theorems above over to
the engine, and what says that the engine never calls a part in a state that the part's own
specification has no step for. `IInv` (module `MewDbInvariant`) is then

- `Control`: the invariants of the parts, and where each of them is when the engine is at `pc`; an
  index is left for the table to be written, and it is the one that the table will get;
- `Tables`: whatever either copy of the manifest lists, or the one being written is about to list,
  is complete and on stable storage under its name; what `flush()` and `compact()` have ready is
  the memtable, or the live entries of the listed tables;
- `MemOK`: the memtable is what the log replays to, up to the record in progress;
- `Creating`: the constructor of `Manifest` writes one only where there is none;
- `SameValues`: the manifest that a power loss would bring back serves the same values as the one
  in place, *or the log hides the difference*. The second case is a flush whose manifest was
  renamed but not synced: the log still holds the flushed records, on stable storage too.

The last is why the order in `flush()` (table, manifest, log) cannot be changed, and what
`PowerLossTakesUnsyncedOnly` and the refinement need beyond the state of the files in force.

**`OnlyUnsyncedIsLost`.** While the log is synced, both copies of the files serve the same for every
key (`SyncedSettles`, from `SameValues`). Where it is not, that holds for the keys without a record
in the log: `UnloggedSettled`, inductive together with `IInv`. Its two interesting steps are the
rename of a new manifest, which changes neither side (`RenameKeeps`), and `Truncate`, which leaves
every key without a record: by `MemOK` the log is synced when it begins, and by `Flushing` the
memtable it replays to is the newest table in both manifests.

**The refinement.** `Refinement` is `Spec => ImplementsDurableMap`, every step of the engine
mapped to a step or a stutter of the map: `Set` and `Del` that log are `Begin`; the `PushAll` step
of the log is `Take`; `Logged` is `End`; `SyncRepair`, `TruncateSynced`, `TruncateSyncFail` and
`WriteBack` are `Persist` or stutter; `LogFails`, `Throw` and `Crash` are `Crash`; `PowerLoss` is
`PowerLoss`; all others, flush and compaction with them, stutter.

**`SizeNeverWraps`.** The invariant is that `memSize` is at least the sum of what each live key
counts (`Counts`). `MapThenSumSet` adds in an order that it chooses; that a sum changes by
the difference when one term changes, whichever order it is, is shown first (`IsSum`). It needs
finitely many keys (`KeyAssumption`) and that `del()` logs only what it found (`DeletesLive`).
**`ScansListWhatGetFinds`** takes the fold over the layers apart in the same way: its recursion
has exactly one solution, which is written down in closed form and compared with `Get`.

### The log field by field

A file of cells is a chain: each cell is followed by the next field of its record, or by the first
of the next record (`Chained`), also after any cut at its end. On that rest
`UndamagedPasses`, the checks of `recover()` pass on every cell that is there, hence
`CrashesLookTorn`, and the other way round `DamageIsNoticed`. `Parse` is a recursion over the
file; that it has a solution, and what it is, is shown from the end of the file backwards.
`FieldsImplementRecords` is the refinement of `Wal`: `Open`, `GiveField`, `SyncRecord` and the
steps of the helpers stutter; `Construct`, `ReplayRecord`, `RecoverEnd`, `CutTail`, `Write`,
`Truncate` and `TruncateFails` are the actions of those names; a `PushFields` is `PushPart`,
`PushAll` or a stutter, by how many fields have left the buffer; `Repaired` is `SyncRepair`, or the
exception (`Crash`) if the sync failed; `WriteReturns` is `WriteSynced` or `WriteFail`, as is
`GiveFails`; `Truncated` is `TruncateSynced` or `TruncateSyncFail`; and a step at which `fsync`
succeeds or the kernel writes back is `WriteBack` or a stutter. `LossIsReported` needs to know that
what was acknowledged was once whole in both copies (`Held`), as a record that recovery calls torn
never was.

### Inside an SSTable

For lookups the invariant has no positions. Every entry the writer has passed is in a block or in
the one being filled, these hold nothing else, and the keys of a block lie between its own key in
the sparse index and that of the next; the filter has every bit of every key passed. That is
enough to find a key that is there and to miss one that is not, for any two hash functions, any
number of bits and blocks of any size. A scan reads the blocks in order, so `Positions` says which entries each
block starts after, and the reader's recursion is shown to have a solution from the last block backwards.
The same recursion gives `CutsLoseNothingUnseen`: an entry can only be in the block at its place
(`OnlyInPlace`), so where the walk meets no block, the entry due there is in none.
For `PartsReturn`, the loop from `lower_bound` is shown to read exactly what it should if the
good keys come one after the other (`LoopReads`); the strings with a common prefix do
(`PrefixedTogether`).

### The command loop

`UserKnows` is inductive together with the update in progress (`UpdateKnown`) and `OkIsDurable`,
a theorem of its own: whenever `OK` is on the way to the screen, a power loss would not take the
update back. For `ListsExactly`, a listing is *the* sequence of some keys in their order: there is
only one for a set of keys and their values, so a scan over memtable and tables, wherever each key
lies, and the listing of the map are equal as soon as they have the same members.

### Induction without an induction theorem

The library's induction theorems take an operator, which no installed prover can instantiate.
Where a proof needs induction it takes a set instead: a set of numbers with 0 in it and with
`n + 1` for every `n` in it is `Nat`, from the least number that is missing (`Everything`,
`LeastExists` in `Vectors_proofs`). Ranks, sums, `Parse` and the readers' recursions rest on it.

### Assumptions

Each is named where its constant is declared, and TLC evaluates it on every run that uses it. A
marker (`Tomb`, `Absent`, `Torn`, `NoFile`, `NoRecord`, `Partial`, `NotFound`, `Throws`) is none of
the things it is told from (`TombAssumption`, `TornAssumption`, `NoRecordAssumption`,
`NoFileAssumption`, `NoFileTornAssumption`, `CellAssumption`, `FileAssumption`, `MarkerAssumption`,
`PartialAssumption`, `ResultAssumption`). Bounds and lengths are natural numbers
(`MaxIndexAssumption`, `MaxTablesAssumption`, `MaxValueAssumption`, `BoundAssumption`,
`LengthAssumption`); the calls of `WalFormat` are of keys and values (`CallsAssumption`). Keys are
finitely many where they are summed up or put into a map (`KeyAssumption`, `WordAssumption`). A
block holds an entry, a byte a bit, hashes are numbers (`ParameterAssumption`). The numbers of
strings follow the order of their letters (`StringAssumption`).

### Model-checked only

- `KeepsServing` and `CallsReturn`: liveness under fairness is beyond TLAPS.
- The three violations of section 6.
- `SsTable` and `FileIo` have no theorems of their own: what is proved of them is in the theorems of
  `MewDb` and `WalFormat`, which use them.

## 5. Environment assumptions

- A sync that succeeds makes the whole content of the file (or directory) durable, also after
  an earlier sync of it failed. Some kernels drop dirty pages when an fsync fails; then a
  process that restarts on the cached file would see more than a later fsync makes durable.
- A rename is atomic for a process, and reaches stable storage whole or not at all; the content
  it then leads to is what was synced of the renamed file.
- A checksum recognises every record or part that is not the one that was written.
- Errors of reading throw; a process that ends by an exception, a signal, or `EXIT` leaves the
  same files (the destructors flush nothing).
- What reaches stable storage of an append is a prefix of it: the kernel does not write a later
  page of one append back before an earlier one. The medium does not damage what was synced,
  except where `WalFormat` says so (`sound = FALSE`), and there one field at a time.
- What a failed `write()` left in the stdio buffer does not reach the file any more: the exception
  that follows is caught by nobody, and `abort()` flushes no stream.
- The REPL is the only caller: `flush()` is public but is called by nothing else, and no caller
  goes on after `set` or `del` threw.

## 6. Where the documentation and the code differ

- `size_doc`: `mem_table_size` "is just the length of all the keys and vals"
  (`include/db_engine.h:16`). It is not: `recover_del` does not count a tombstone's key,
  and a `set` over a tombstone counts the key again. The trace shows the first: set, delete, the
  process ends, replay. What does hold is `SizeCoversLive`: it
  counts at least the live entries, so the subtractions never wrap.
- `wal_history`: `ss_table_schema.md:179-180` has the log's `index` "grow for the entire
  lifetime of the system". After a truncation and a restart the log is empty and numbering
  starts at 0. Nothing depends on it: numbers are consecutive within a file.
- `compact_doc`: `compact()` "returns false if any step fails" (`src/db_engine.cpp:233`).
  Creating the new table and deleting an old one throw instead, which ends the process. The
  files are fine in both cases: the engine's invariants hold through it.
- `format` (a run that passes: `NoSilentLoss` states what the code does): `ss_table_schema.md:49-50`
  and `:159-160` have a scan stop "the moment its read position reaches `bloom_filter_offset`", which
  the footer holds, and `:66` calls the header's `entry_count` "informational only". The code's scan
  ends when it has `entry_count` entries (`src/ss_table.cpp:413-414`) and never reads the footer. On a
  complete file that is the same. On one cut behind its last data block the code returns every entry
  without noticing the cut, where the document's scan would have no offset to stop at. `NoSilentLoss`
  says how far that goes: a lookup throws on every cut, a scan on every cut that costs it an entry.

Two things the models showed that no document denies. A `NOT_FOUND` in answer to `DELETE`, and
any answer to `GET`, tells what the key has now and not what it will have after a power loss: if
an earlier update was logged but never synced (its process ended in between), the next process
serves it without syncing it, and `DELETE` of a key that is not found does not touch the log.
Only an `OK` is evidence (`Repl!Shown`). And the report of a discarded tail is printed after the
cut is durable: a process that ends in between discards without a word.

## 7. What is not modelled, and why

- Byte layouts inside a field, and in SSTables inside a part. `key_len` and `val_len` are one
  field in `WalFormat`; a file that ends between the two reads like one that ends before them.
- CRC32 and XXH3 (external): a checksum fits or does not; hashes are constants.
- The floating-point sizing of the Bloom filter (`src/ss_table.cpp:497-501`): `BytesFor` and
  `HashesFor` are arbitrary functions with positive values. `NoEmptyTable` covers the one input
  for which the code's formula has no such value.
- Splitting a command line into words, upper-casing it and the wording of replies in `main.cpp`:
  `Line` is a command and its arguments. `num_ss_tables`, which is never read; the Windows and
  macOS branches of `src/file_io.cpp`; `practice/`, which no target of the database links.
- The log's growth when the same key is overwritten again and again (`mem_table_size` stays where
  it is, so `flush()` never comes), and a memtable that crashes in `flush()` grow beyond the
  limit: no document promises a bound, and the models bound the log themselves (`MaxIndex`).
- Removing a table that is not there (`compact()` then returns false): unreachable while nobody
  else touches `data/`, since `ListedTablesComplete` holds.
- Files that an earlier version or another program left in `data/`.

## 8. Plan

Every component of the database is modelled and composed, and everything that the passing runs
check, except liveness, is proved. What is left:

1. The engine on the log field by field: that `MewDb`'s use of `Wal` stays within what `WalFormat`
   implements is stated by `PartsRunTheirSpecs` together with `FieldsImplementRecords`; a module
   that composes the two, down to the call of `write_bytes()`, would say it in one theorem.
2. A variant of `FileIo` in which a sync that fails drops dirty pages (section 5), to say how much
   of the log's promise holds on such a kernel.
3. The liveness properties by hand, down to lemmas about single steps that TLAPS can check.
