------------------------------- MODULE MewDb -------------------------------
(***************************************************************************)
(* The engine: class DbEngine (src/src/db_engine.cpp) in the one-threaded  *)
(* process of src/main.cpp, over the write-ahead log (Wal), the manifest   *)
(* (Manifest) and the SSTable files (SsTable), whose actions are conjuncts *)
(* of the actions here.                                                    *)
(*                                                                         *)
(* main() catches nothing, so an exception ends the process: "throw" is an *)
(* exception on its way out.  compact() returning false does not, and the  *)
(* process goes on.  An I/O error while reading also throws; that is what  *)
(* Crash does at the same point.                                           *)
(***************************************************************************)
EXTENDS Integers, Sequences, FiniteSetsExt, SequencesExt

CONSTANTS
    Key, Val, Tomb, Absent,
    NoFile, Torn, NoRecord,
    KeyLen,     \* KeyLen[k]: key.length()
    ValLen,     \* ValLen[v]: val.length()
    Limit,      \* MEM_TABLE_SIZE_LIMIT
    MaxIndex,   \* bound: WAL sequence numbers
    MaxTables   \* bound: SSTable indices

ASSUME LengthAssumption ==
    KeyLen \in [Key -> Nat] /\ ValLen \in [Val -> Nat] /\ Limit \in Nat

\* A key's length is a number of 32 bits (write()), so there are finitely many.
ASSUME KeyAssumption == IsFiniteSet(Key)

VARIABLES
    wal, walDisk, acked, walIndex, walFailed, walReq, walPos, walPc,
    man, manDisk, manNext, manOpen, manArg, tempSynced, manOp, manPc,
    tables, tabData, tabNames,
    mem,        \* DbEngine::curr_mem_table, Absent for a key it has not
    memSize,    \* DbEngine::mem_table_size
    newIdx,     \* flush(), compact(): the index of the table they write
    merged,     \* compact(): full_data
    todo,       \* compact(): the merged tables not deleted yet
    pc          \* where the process is in the engine's methods

walVars == <<wal, walDisk, acked, walIndex, walFailed, walReq, walPos, walPc>>
manVars == <<man, manDisk, manNext, manOpen, manArg, tempSynced, manOp, manPc>>
tabVars == <<tables, tabData, tabNames>>
memVars == <<mem, memSize>>
locVars == <<newIdx, merged, todo>>
vars    == <<walVars, manVars, tabVars, memVars, locVars, pc>>

W == INSTANCE Wal
M == INSTANCE Manifest
T == INSTANCE SsTable

ASSUME CellAssumption == Tomb \notin Val /\ Absent \notin Val /\ Tomb # Absent
ASSUME FileAssumption ==
    NoFile \notin T!Content /\ Torn \notin T!Content /\ NoFile # Torn
ASSUME BoundAssumption == MaxIndex \in Nat /\ MaxTables \in Nat
ASSUME MarkerAssumption ==
    /\ Torn \notin W!Record /\ NoRecord \notin W!Record
    /\ NoRecord \notin [key : Key, val : Val \cup {Absent}]
    /\ Torn \notin M!Contents /\ NoFile \notin M!Contents

Pcs == {"down", "recover", "manifest", "idle", "log", "throw",
        "flush", "flushWrite", "flushDir", "flushAdd", "flushTruncate",
        "compact", "compactWrite", "compactDir", "compactSwap", "compactRemove"}

Empty == [k \in Key |-> Absent]

Init ==
    /\ W!Init /\ M!Init /\ T!Init
    /\ mem = Empty /\ memSize = 0
    /\ newIdx = 0 /\ merged = Empty /\ todo = <<>>
    /\ pc = "down"

-----------------------------------------------------------------------------
(* The memtable.                                                           *)

\* exists_in_curr_mem_table()
LiveInMem(k) == mem[k] \in Val

\* Mutant of EntryLen: a tombstone is taken to have been counted.
EntryLenOfAny(k) ==
    IF mem[k] = Absent THEN 0
    ELSE KeyLen[k] + (IF LiveInMem(k) THEN ValLen[mem[k]] ELSE 0)

\* What an entry that a set or a replay overwrites is taken off the size.
EntryLen(k) == IF LiveInMem(k) THEN KeyLen[k] + ValLen[mem[k]] ELSE 0

\* The tail of set(), and recover_set().
PutSet(k, v) ==
    /\ mem' = [mem EXCEPT ![k] = v]
    /\ memSize' = (memSize - EntryLen(k)) + KeyLen[k] + ValLen[v]

\* The tail of del(); get() found a value, so an entry in mem is live.
PutDel(k) ==
    /\ mem' = [mem EXCEPT ![k] = Tomb]
    /\ memSize' = IF mem[k] # Absent THEN memSize - ValLen[mem[k]]
                                     ELSE memSize + KeyLen[k]

\* Mutant of ReplayDel: the key is erased.
ReplayErase(k) ==
    /\ mem' = [mem EXCEPT ![k] = Absent]
    /\ memSize' = memSize - EntryLen(k)

\* recover_del()
ReplayDel(k) ==
    /\ mem' = [mem EXCEPT ![k] = Tomb]
    /\ memSize' = memSize - EntryLen(k)

Replay(r) == IF r.val = Tomb THEN ReplayDel(r.key) ELSE PutSet(r.key, r.val)

Apply(r)  == IF r.val = Tomb THEN PutDel(r.key) ELSE PutSet(r.key, r.val)

-----------------------------------------------------------------------------
(* Reading.                                                                *)

\* The cell of the newest listed table that has an entry for k.
NewestCell(list, tabs, k) ==
    LET holders == {n \in DOMAIN list : tabs[list[n]][k] # Absent}
    IN  IF holders = {} THEN Absent ELSE tabs[list[Max(holders)]][k]

Live(c) == IF c = Tomb THEN Absent ELSE c

\* get(), while the manifest can be read.
Get(k) == Live(IF mem[k] # Absent THEN mem[k] ELSE NewestCell(man.list, tables, k))

\* Mutant of Scan: oldest table first.
ScanOldestFirst(S) ==
    LET add(acc, id) == [k \in Key |-> IF acc[k] # Absent \/ k \notin S THEN acc[k]
                                       ELSE tables[id][k]]
        all == FoldLeft(add, mem, man.list)
    IN  [k \in {q \in S : Live(all[q]) # Absent} |-> all[k]]

\* keys(), range(), prefix_scan(): the memtable, then the listed tables' cells
\* for the keys S asked for, newest table first, a key that is there already
\* keeping its cell; then the live entries for S.
Scan(S) ==
    LET add(id, acc) == [k \in Key |-> IF acc[k] # Absent \/ k \notin S THEN acc[k]
                                       ELSE tables[id][k]]
        all == FoldRight(add, man.list, mem)
    IN  [k \in {q \in S : Live(all[q]) # Absent} |-> all[k]]

-----------------------------------------------------------------------------
(* DbEngine::DbEngine(): the WAL, its replay, the manifest.                *)

\* Every sync of data/ covers all names in it.
DirSynced == T!DirSynced /\ manDisk' = man

Start ==
    /\ pc = "down"
    /\ W!Construct
    /\ DirSynced
    /\ pc' = "recover"
    /\ UNCHANGED <<man, manNext, manOpen, manArg, tempSynced, manOp, manPc, memVars, locVars>>

ReplayRecord ==
    /\ pc = "recover"
    /\ W!ReplayRecord
    /\ Replay(wal[walPos + 1])
    /\ UNCHANGED <<manVars, tabVars, locVars, pc>>

\* Mutant of EndRecovery: nothing goes on after a tail was cut.
EndRecoveryUnlessCut ==
    /\ pc = "recover"
    /\ W!RecoverEnd \/ W!CutTail
    /\ pc' = IF walPc' = "ready" THEN "manifest" ELSE pc
    /\ UNCHANGED <<manVars, tabVars, memVars, locVars>>

EndRecovery ==
    /\ pc = "recover"
    /\ W!RecoverEnd \/ W!CutTail \/ W!SyncRepair
    /\ pc' = IF walPc' = "ready" THEN "manifest" ELSE pc
    /\ UNCHANGED <<manVars, tabVars, memVars, locVars>>

OpenManifest ==
    /\ pc = "manifest"
    /\ \/ M!Load /\ pc' = "idle"
       \/ M!Create /\ pc' = "manifest"
       \/ M!Returned(TRUE) /\ pc' = "idle"
       \/ manPc = "fail" /\ UNCHANGED manVars /\ pc' = "throw"
    /\ UNCHANGED <<walVars, tabVars, memVars, locVars>>

\* write_manifest(), whoever called it.
WriteManifest ==
    /\ pc \in {"manifest", "flushAdd", "compactSwap"}
    /\ \/ M!SyncDir /\ T!DirSynced
       \/ (M!WriteTemp \/ M!WriteTempFail \/ M!Rename \/ M!RenameFail \/ M!SyncDirFail)
             /\ UNCHANGED tabVars
    /\ UNCHANGED <<walVars, memVars, locVars, pc>>

-----------------------------------------------------------------------------
(* set() and del().  The log is not latched when they are called: every    *)
(* failure that latches it ends the process.                               *)

Set(k, v) ==
    /\ pc = "idle"
    /\ manNext < MaxTables
    /\ W!Write(k, v)
    /\ pc' = "log"
    /\ UNCHANGED <<manVars, tabVars, memVars, locVars>>

\* del() of a key that get() finds; otherwise it does nothing.
Del(k) ==
    /\ pc = "idle"
    /\ manNext < MaxTables
    /\ mem[k] # Absent \/ manOpen
    /\ Get(k) # Absent
    /\ W!Write(k, Tomb)
    /\ pc' = "log"
    /\ UNCHANGED <<manVars, tabVars, memVars, locVars>>

LogStep ==
    /\ pc = "log"
    /\ W!PushPart \/ W!PushAll
    /\ UNCHANGED <<manVars, tabVars, memVars, locVars, pc>>

LogFails ==
    /\ pc = "log"
    /\ W!WriteFail
    /\ pc' = "throw"
    /\ UNCHANGED <<manVars, tabVars, memVars, locVars>>

\* The record is durable: update the memtable, then flush it if it is full.
Logged ==
    /\ pc = "log"
    /\ W!WriteSynced
    /\ Apply(walReq)
    /\ pc' = IF memSize' >= Limit THEN "flush" ELSE "idle"
    /\ UNCHANGED <<manVars, tabVars, locVars>>

\* Any read or compact() when write_manifest() could not reopen the file.
ReadThrows ==
    /\ pc = "idle" /\ ~manOpen
    /\ pc' = "throw"
    /\ UNCHANGED <<walVars, manVars, tabVars, memVars, locVars>>

-----------------------------------------------------------------------------
(* flush(), whose only caller makes every failure an exception.            *)

\* Mutant of FlushCreate: the index of the newest table that is listed.
FlushCreateNewest ==
    /\ pc = "flush"
    /\ LET i == IF man.list = <<>> THEN 0 ELSE Last(man.list)
       IN  newIdx' = i /\ T!Create(i)
    /\ pc' = "flushWrite"
    /\ UNCHANGED <<walVars, manVars, memVars, merged, todo>>

FlushCreate ==
    /\ pc = "flush"
    /\ newIdx' = manNext
    /\ \/ T!Create(manNext) /\ pc' = "flushWrite"
       \/ UNCHANGED tabVars /\ pc' = "throw"
    /\ UNCHANGED <<walVars, manVars, memVars, merged, todo>>

\* Mutant of FlushWrite: tombstones are not written.
FlushWriteLive ==
    /\ pc = "flushWrite"
    /\ T!WriteSynced(newIdx, [k \in Key |-> Live(mem[k])])
    /\ pc' = "flushDir"
    /\ UNCHANGED <<walVars, manVars, memVars, locVars>>

FlushWrite ==
    /\ pc = "flushWrite"
    /\ \/ T!WriteSynced(newIdx, mem) /\ pc' = "flushDir"
       \/ T!WriteFail(newIdx, mem) /\ pc' = "throw"
    /\ UNCHANGED <<walVars, manVars, memVars, locVars>>

FlushSyncDir ==
    /\ pc = "flushDir"
    /\ \/ DirSynced /\ pc' = "flushAdd"
       \/ UNCHANGED <<tabVars, manDisk>> /\ pc' = "throw"
    /\ UNCHANGED <<walVars, man, manNext, manOpen, manArg, tempSynced, manOp, manPc, memVars, locVars>>

FlushAdd ==
    /\ pc = "flushAdd"
    /\ \/ M!AddNewIndex(newIdx) /\ pc' = pc
       \/ manPc = "ready" /\ ~manOpen /\ UNCHANGED manVars /\ pc' = "throw"
    /\ UNCHANGED <<walVars, tabVars, memVars, locVars>>

FlushAdded ==
    /\ pc = "flushAdd"
    /\ \/ M!Returned(TRUE) /\ pc' = "flushTruncate"
       \/ M!Returned(FALSE) /\ pc' = "throw"
    /\ UNCHANGED <<walVars, tabVars, memVars, locVars>>

FlushTruncate ==
    /\ pc = "flushTruncate"
    /\ \/ W!Truncate /\ pc' = pc
       \/ W!TruncateFail /\ pc' = "throw"
       \/ W!TruncateSyncFail /\ pc' = "throw"
    /\ UNCHANGED <<manVars, tabVars, memVars, locVars>>

FlushEnd ==
    /\ pc = "flushTruncate"
    /\ W!TruncateSynced
    /\ mem' = Empty /\ memSize' = 0
    /\ newIdx' = 0 /\ pc' = "idle"
    /\ UNCHANGED <<manVars, tabVars, merged, todo>>

-----------------------------------------------------------------------------
(* compact().                                                              *)

CompactReturns == newIdx' = 0 /\ merged' = Empty /\ todo' = <<>> /\ pc' = "idle"

\* Mutant of Compact: the oldest entry of a key first.
CompactOldestFirst ==
    /\ pc = "idle" /\ manOpen
    /\ Len(man.list) >= 2
    /\ manNext < MaxTables
    /\ merged' = [k \in Key |-> Live(NewestCell(Reverse(man.list), tables, k))]
    /\ todo' = man.list
    /\ pc' = "compact"
    /\ UNCHANGED <<walVars, manVars, tabVars, memVars, newIdx>>

\* Merge every listed table, the newest entry of a key first, then drop the
\* tombstones.  With fewer than 2 tables it does nothing.
Compact ==
    /\ pc = "idle" /\ manOpen
    /\ Len(man.list) >= 2
    /\ manNext < MaxTables
    /\ merged' = [k \in Key |-> Live(NewestCell(man.list, tables, k))]
    /\ todo' = man.list
    /\ pc' = "compact"
    /\ UNCHANGED <<walVars, manVars, tabVars, memVars, newIdx>>

\* Nothing is live: no new table, the old ones are unlisted.
CompactToNothing ==
    /\ pc = "compact" /\ merged = Empty
    /\ M!RemoveIndices(todo)
    /\ pc' = "compactSwap"
    /\ UNCHANGED <<walVars, tabVars, memVars, locVars>>

\* Mutant of CompactCreate: also when nothing is live.
CompactCreateAlways ==
    /\ pc = "compact"
    /\ newIdx' = manNext
    /\ T!Create(manNext) /\ pc' = "compactWrite"
    /\ UNCHANGED <<walVars, manVars, memVars, merged, todo>>

CompactCreate ==
    /\ pc = "compact" /\ merged # Empty
    /\ newIdx' = manNext
    /\ \/ T!Create(manNext) /\ pc' = "compactWrite"
       \/ UNCHANGED tabVars /\ pc' = "throw"
    /\ UNCHANGED <<walVars, manVars, memVars, merged, todo>>

CompactWrite ==
    /\ pc = "compactWrite"
    /\ \/ T!WriteSynced(newIdx, merged) /\ pc' = "compactDir" /\ UNCHANGED locVars
       \/ T!WriteFail(newIdx, merged) /\ CompactReturns
    /\ UNCHANGED <<walVars, manVars, memVars>>

CompactSyncDir ==
    /\ pc = "compactDir"
    /\ \/ DirSynced /\ pc' = "compactSwap" /\ UNCHANGED locVars
       \/ UNCHANGED <<tabVars, manDisk>> /\ CompactReturns
    /\ UNCHANGED <<walVars, man, manNext, manOpen, manArg, tempSynced, manOp, manPc, memVars>>

CompactSwap ==
    /\ pc = "compactSwap" /\ merged # Empty
    /\ M!ReplaceIndices(todo, newIdx)
    /\ UNCHANGED <<walVars, tabVars, memVars, locVars, pc>>

CompactSwapped ==
    /\ pc = "compactSwap"
    /\ \/ M!Returned(TRUE) /\ pc' = "compactRemove" /\ UNCHANGED locVars
       \/ M!Returned(FALSE) /\ CompactReturns
    /\ UNCHANGED <<walVars, tabVars, memVars>>

\* Delete the next old file.  (A failure throws: the filesystem::remove()
\* that reports through its result is not the one that is called.)
CompactRemove ==
    /\ pc = "compactRemove"
    /\ \/ /\ T!Remove(Head(todo))
          /\ IF Len(todo) = 1 THEN CompactReturns
             ELSE todo' = Tail(todo) /\ UNCHANGED <<newIdx, merged, pc>>
       \/ UNCHANGED <<tabVars, locVars>> /\ pc' = "throw"
    /\ UNCHANGED <<walVars, manVars, memVars>>

-----------------------------------------------------------------------------
(* The process and the machine end; the kernel writes back.                *)

Gone ==
    /\ mem' = Empty /\ memSize' = 0
    /\ newIdx' = 0 /\ merged' = Empty /\ todo' = <<>>
    /\ pc' = "down"

EndProcess ==
    /\ W!Gone /\ M!Gone /\ Gone
    /\ UNCHANGED <<wal, walDisk, acked, man, manDisk, tabVars>>

\* The exception leaves main().
Throw == pc = "throw" /\ EndProcess

\* EXIT, end of input, a read error, a signal: at any point.
Crash == pc \notin {"down", "throw"} /\ EndProcess

PowerLoss == W!PowerLoss /\ M!PowerLoss /\ T!PowerLoss /\ Gone

WriteBack ==
    /\ \/ W!WriteBack /\ UNCHANGED <<manVars, tabVars>>
       \/ M!WriteBack /\ UNCHANGED <<walVars, tabVars>>
       \/ T!WriteBack /\ UNCHANGED <<walVars, manVars>>
    /\ UNCHANGED <<memVars, locVars, pc>>

-----------------------------------------------------------------------------
\* What the process (and whoever starts it) does once a command has begun.
Step ==
    \/ Start \/ ReplayRecord \/ EndRecovery \/ OpenManifest \/ WriteManifest
    \/ LogStep \/ LogFails \/ Logged
    \/ FlushCreate \/ FlushWrite \/ FlushSyncDir \/ FlushAdd \/ FlushAdded
    \/ FlushTruncate \/ FlushEnd
    \/ CompactToNothing \/ CompactCreate \/ CompactWrite
    \/ CompactSyncDir \/ CompactSwap \/ CompactSwapped \/ CompactRemove
    \/ Throw

\* The commands of the caller, and what befalls the process.
Environment ==
    \/ \E k \in Key : Del(k) \/ \E v \in Val : Set(k, v)
    \/ Compact \/ ReadThrows
    \/ Crash \/ PowerLoss \/ WriteBack

Next == Step \/ Environment

Spec == Init /\ [][Next]_vars

\* A process that can take a step takes one, and one that ended is restarted.
FairSpec == Spec /\ WF_vars(Step)

-----------------------------------------------------------------------------
(* Properties.                                                             *)

\* Each variable holds a value of its type.
TypeOK ==
    /\ W!TypeOK /\ M!TypeOK /\ T!TypeOK
    /\ mem \in T!Content
    /\ memSize \in Int
    /\ newIdx \in 0..MaxTables
    /\ merged \in T!Content
    /\ todo \in Seq(T!TableId)
    /\ pc \in Pcs

\* A manifest never leads to a file that is missing or incomplete: neither
\* the manifest a process would read, nor the one a power loss would leave,
\* with the files that it would leave.
ListedTablesComplete ==
    /\ man # NoFile =>
          \A n \in DOMAIN man.list : tables[man.list[n]] \in T!Content
    /\ manDisk # NoFile =>
          \A n \in DOMAIN manDisk.list : T!Surviving[manDisk.list[n]] \in T!Content

\* flush() and compact() never open for writing a file that a manifest lists,
\* also not one that a power loss could bring back.
WritesFreshFile ==
    pc \in {"flushWrite", "flushDir", "compactWrite", "compactDir"} =>
        \A m \in {man, manDisk} : \A n \in DOMAIN m.list : m.list[n] # newIdx

\* An SSTable never changes while it is listed: a step that leaves it in the list
\* leaves its content as it was, also the step of a power loss, and also the
\* content that a power loss would leave.
ListedTablesNeverChange ==
    [][/\ man # NoFile /\ man' # NoFile =>
             \A i \in ToSet(man.list) \cap ToSet(man'.list) : tables'[i] = tables[i]
       /\ manDisk # NoFile /\ manDisk' # NoFile =>
             \A i \in ToSet(manDisk.list) \cap ToSet(manDisk'.list) :
                (T!Surviving[i])' = T!Surviving[i]]_vars

\* The memtable's value of k after replaying a log: its last record there.
Replayed(log, k) ==
    LET valid == {i \in DOMAIN log : \A j \in 1..i : log[j] # Torn}
        of(i) == i \in valid /\ log[i].key = k
        hits  == {i \in valid : of(i)}
    IN  IF hits = {} THEN Absent ELSE log[Max(hits)].val

\* What a process would serve for k if it started on these files.
Served(log, m, tabs, k) ==
    LET cell == Replayed(log, k)
    IN  Live(IF cell # Absent THEN cell
             ELSE IF m = NoFile THEN Absent ELSE NewestCell(m.list, tabs, k))

\* Between two commands the memtable is what the log would replay to, so a
\* crash changes nothing.
MemIsReplay == pc = "idle" => \A k \in Key : mem[k] = Replayed(wal, k)

\* A power loss changes what is served for a key only by taking an update that is
\* in a log not synced since: at every step, also within flush(), truncate(),
\* compact() and write_manifest().  While the new manifest is in place and the old
\* one still on stable storage, both serve the same, so a flush or a compaction
\* loses no update and brings none back, whichever of its tables is newer.
PowerLossTakesUnsyncedOnly ==
    \A k \in Key :
        Served(walDisk, manDisk, T!Surviving, k) # Served(wal, man, tables, k) =>
            wal # walDisk /\ Replayed(wal, k) # Absent

\* What keys(), range() and prefix_scan() list is what get() finds, key by key.
ScansAgreeWithGets ==
    pc = "idle" /\ manOpen => \A S \in SUBSET Key :
        Scan(S) = [k \in {q \in S : Get(q) # Absent} |-> Get(k)]

\* No SSTable without an entry is ever written, for which the size of the
\* Bloom filter and its number of hashes are not defined.
NoEmptyTable == \A i \in T!TableId : tables[i] # Empty /\ tabData[i] # Empty

\* mem_table_size counts at least the live keys and values, so subtracting
\* them never wraps the unsigned counter.
SizeCoversLive ==
    memSize >= MapThenSumSet(
        LAMBDA k : IF mem[k] \in Val THEN KeyLen[k] + ValLen[mem[k]] ELSE 0, Key)

\* The map a process serves is a map with atomic, durable updates.
Pending ==
    IF walReq = NoRecord THEN NoRecord
    ELSE [key |-> walReq.key, val |-> Live(walReq.val)]

Abstract == INSTANCE DurableMap WITH
    NoRequest <- NoRecord,
    store     <- [k \in Key |-> Served(wal, man, tables, k)],
    durable   <- [k \in Key |-> Served(walDisk, manDisk, T!Surviving, k)],
    request   <- Pending

ImplementsDurableMap == Abstract!Spec

\* Nothing fails: no step throws but those that need the manifest's stream when
\* it is bad already, only an exception ends the process, and the stream of a
\* manifest that was opened stays good.
Faultless ==
    /\ pc' = "throw" => pc \in {"idle", "flushAdd"} /\ ~manOpen
    /\ pc' = "down" => pc = "throw"
    /\ manOpen /\ ~manOpen' => pc' = "down"

\* Whatever state the faults so far have left the files and the process in: once
\* they stop, the process recovers, and from then on finishes every command it
\* begins.
KeepsServing == <>[][Faultless]_vars => []<>(pc = "idle")

-----------------------------------------------------------------------------
(* What the comments in the source say, and the code does not do.          *)

\* "This is just the length of all the keys and vals" (db_engine.h).
SizeIsLengths ==
    memSize = MapThenSumSet(
        LAMBDA k : IF mem[k] = Absent THEN 0
                   ELSE KeyLen[k] + (IF mem[k] = Tomb THEN 0 ELSE ValLen[mem[k]]), Key)

\* compact() "returns false if any step fails" (db_engine.cpp): it does not
\* end the process.
CompactionFailureReturns ==
    [][(pc \in {"compact", "compactWrite", "compactDir", "compactSwap", "compactRemove"})
           => pc' # "throw"]_vars

=============================================================================
