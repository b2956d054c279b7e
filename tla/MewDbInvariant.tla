---------------------------- MODULE MewDbInvariant ----------------------------
(***************************************************************************)
(* The inductive invariant of the engine, for every set of keys and values *)
(* and any number of records and SSTables.  MewDb_proofs draws from it what *)
(* the properties of MewDb say.                                            *)
(*                                                                         *)
(*   Control     where the log and the manifest are when the engine is at  *)
(*               pc, with the invariants that were proved of each of them  *)
(*   Tables      which SSTable files are complete and durable, and what    *)
(*               flush() and compact() have ready                          *)
(*   MemOK       the memtable is what the log replays to                   *)
(*   Creating    a manifest is created only where there is none            *)
(*   SameValues  the manifest that a power loss would bring back serves    *)
(*               the same values, unless the log hides the difference      *)
(***************************************************************************)
EXTENDS MewDb, Vectors_proofs

WP == INSTANCE Wal_proofs
MP == INSTANCE Manifest_proofs

-----------------------------------------------------------------------------
(* Where the log and the manifest are when the engine is at pc.            *)

Starting == {"down", "recover", "manifest"}
Calling  == {"flushAdd", "compactSwap"}     \* inside add_ss_table(), replace_...

LogControl ==
    /\ pc \in Pcs
    /\ (pc = "down") <=> (walPc = "none")
    /\ (pc = "recover") <=> (walPc \in {"recover", "repair"})
    /\ (pc = "log") <=> (walPc \in {"append", "partial", "sync"})
    /\ walPc = "truncated" => pc = "flushTruncate"
    /\ walPc \in {"ready", "append", "partial", "sync"} /\ pc # "throw" => ~walFailed
    /\ pc \notin {"down", "recover", "log", "flushTruncate"} => walPc = "ready"
    /\ pc # "log" => walReq = NoRecord
    /\ walPc = "none" => walIndex = 0 /\ walFailed = FALSE /\ walPos = 0

ManControl ==
    /\ pc \in {"down", "recover"} => manPc = "none"
    /\ pc = "manifest" => manPc = "none" \/ (manPc # "ready" /\ manOp = "create")
    /\ pc = "throw" => manPc \in {"ready", "fail"}
    /\ pc \in Calling => manPc # "none" /\ manOp # "create"
    /\ pc \notin Starting \cup Calling \cup {"throw"} => manPc = "ready"
    /\ manPc \in {"none", "ready"} => manOp = "none"
    /\ manPc = "none" =>
          manNext = 0 /\ manOpen = FALSE /\ manArg = NoFile /\ tempSynced = FALSE

\* An index is left, and it is the one that the table to be written gets.
IndexControl ==
    /\ man # NoFile => man.next <= MaxTables
    /\ manPc \in {"write", "rename"} => manArg.next <= MaxTables
    /\ \/ pc \in {"log", "flush", "flushWrite", "flushDir",
                  "compact", "compactWrite", "compactDir"}
       \/ pc \in Calling /\ manPc = "ready"
       => manNext < MaxTables
    /\ \/ pc \in {"flushWrite", "flushDir", "compactWrite", "compactDir"}
       \/ pc \in Calling /\ manPc = "ready"
       => newIdx = manNext
    /\ \/ pc \in {"compact", "compactWrite", "compactDir"}
       \/ pc = "compactSwap" /\ manPc = "ready"
       => manOpen /\ todo = man.list
    /\ newIdx \in 0..MaxTables

Control == WP!IInv /\ MP!IInv /\ LogControl /\ ManControl /\ IndexControl

-----------------------------------------------------------------------------
(* The SSTable files.                                                      *)

\* Complete, and on stable storage under its name.
Stored(i) == i \in T!TableId /\ tables[i] \in T!Content /\ tabData[i] = tables[i]
             /\ i \in tabNames

AllStored(list) == \A n \in DOMAIN list : Stored(list[n])

\* Before and after write_manifest() has renamed the new manifest into place.
Unchanged == manPc \in {"ready", "write", "rename"}
Renamed   == manPc \in {"dirsync", "ok"}

Typed ==
    /\ T!TypeOK
    /\ mem \in T!Content /\ memSize \in Int /\ merged \in T!Content
    /\ todo \in Seq(T!TableId)

\* del() logs a tombstone for a key that it found only.
DeletesLive == pc = "log" /\ walReq.val = Tomb => mem[walReq.key] # Tomb

Listed ==
    /\ man # NoFile => AllStored(man.list)
    /\ manDisk # NoFile => AllStored(manDisk.list)
    /\ manPc \in {"write", "rename"} => AllStored(manArg.list)
    /\ pc \notin Starting \cup {"throw"} => man # NoFile /\ manDisk # NoFile
    /\ pc \in {"recover", "manifest"} /\ manPc \in {"none", "ok"} => manDisk = man

Flushing ==
    /\ pc \in {"flush", "flushWrite", "flushDir", "flushAdd", "flushTruncate"} => mem # Empty
    /\ pc = "flushDir" => tables[newIdx] = mem /\ tabData[newIdx] = mem
    /\ pc \in {"flushAdd", "flushTruncate"} => Stored(newIdx) /\ tables[newIdx] = mem
    /\ pc = "flushAdd" /\ Unchanged => manDisk = man
    /\ pc = "flushAdd" /\ manPc \in {"write", "rename"} =>
          manArg.list = Append(man.list, newIdx)
    /\ \/ pc = "flushAdd" /\ Renamed
       \/ pc = "flushTruncate"
       => man.list # <<>> /\ man.list[Len(man.list)] = newIdx
    /\ pc = "flushAdd" /\ manPc = "ok" => manDisk = man
    /\ pc = "flushTruncate" => manDisk = man

\* What the compaction leaves in the list.
Compacted == IF merged = Empty THEN <<>> ELSE <<newIdx>>

Compacting ==
    /\ pc \in {"compactWrite", "compactDir"} => merged # Empty
    /\ pc = "compactSwap" /\ manPc = "ready" => merged # Empty
    /\ \/ pc \in {"compact", "compactWrite", "compactDir"}
       \/ pc = "compactSwap" /\ Unchanged
       => todo = man.list /\ merged = [k \in Key |-> Live(NewestCell(man.list, tables, k))]
    /\ pc \in {"compact", "compactWrite", "compactDir", "compactSwap", "compactRemove"} =>
          todo # <<>>
    /\ pc = "compactDir" => tables[newIdx] = merged /\ tabData[newIdx] = merged
    /\ pc = "compactSwap" /\ merged # Empty =>
          Stored(newIdx) /\ tables[newIdx] = merged
          /\ \A n \in DOMAIN todo : todo[n] # newIdx
    /\ pc = "compactSwap" /\ manPc \in {"write", "rename"} => manArg.list = Compacted
    /\ pc = "compactSwap" /\ Renamed => man.list = Compacted
    /\ pc = "compactSwap" /\ manPc = "ok" => manDisk = man
    /\ pc = "compactRemove" =>
          manDisk = man /\ \A n \in DOMAIN todo : \A a \in DOMAIN man.list : todo[n] # man.list[a]

Tables == Typed /\ DeletesLive /\ Listed /\ Flushing /\ Compacting /\ NoEmptyTable

-----------------------------------------------------------------------------
(* The memtable and the log.                                               *)

MemOK ==
    /\ pc = "down" => mem = Empty
    /\ pc = "recover" /\ walPc = "recover" =>
          \A k \in Key : mem[k] = Replayed(SubSeq(wal, 1, walPos), k)
    /\ \/ pc = "recover" /\ walPc = "repair"
       \/ pc \notin {"down", "throw", "recover", "log", "flushTruncate"}
       \/ pc = "log" /\ walPc \in {"append", "partial"}
       \/ pc = "flushTruncate" /\ walPc = "ready"
       => \A k \in Key : mem[k] = Replayed(wal, k)
    /\ pc = "log" /\ walPc = "sync" =>
          \A k \in Key : Replayed(wal, k) = IF k = walReq.key THEN walReq.val ELSE mem[k]
    /\ \/ pc \in {"flush", "flushWrite", "flushDir", "flushAdd"}
       \/ pc = "flushTruncate" /\ walPc = "ready"
       => walDisk = wal

-----------------------------------------------------------------------------
(* What stable storage serves.                                             *)

CellOf(m, k) == IF m = NoFile THEN Absent ELSE NewestCell(m.list, tables, k)

\* Both manifests serve the same value, unless the log that both copies of the
\* file hold does.
SameValue(k) ==
    \/ Live(CellOf(manDisk, k)) = Live(CellOf(man, k))
    \/ /\ pc \in {"flushAdd", "throw", "down"}
       /\ wal = walDisk /\ Replayed(wal, k) # Absent

SameValues == \A k \in Key : SameValue(k)

\* The constructor of Manifest writes one only if there is none.
Creating ==
    pc = "manifest" /\ manPc \in {"write", "rename"} => man = NoFile /\ manArg.list = <<>>

IInv == Control /\ Tables /\ MemOK /\ Creating /\ SameValues

=============================================================================
