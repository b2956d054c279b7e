------------------------------ MODULE Manifest ------------------------------
(***************************************************************************)
(* The list of live SSTables: class Manifest (src/src/manifest.cpp), the   *)
(* files data/manifest.txt and data/temp_manifest.txt, and the operating   *)
(* system below them.                                                      *)
(*                                                                         *)
(* A manifest file is its next SSTable index and its list of indices,      *)
(* oldest first (magic, version and the count line are left out).  `man'   *)
(* is what the name manifest.txt leads a process to, `manDisk' what it     *)
(* leads to after a power loss.  The temp file is manArg (its contents)    *)
(* and tempSynced; one that a crash leaves behind is never read, and the   *)
(* next write empties it, so it is not kept.                               *)
(***************************************************************************)
EXTENDS Naturals, Sequences, Vectors

CONSTANTS
    NoFile,     \* the file does not exist
    Torn,       \* its name is there, its contents are not
    MaxTables   \* bound: SSTable indices handed out before the model stops

ASSUME MaxTablesAssumption == MaxTables \in Nat

Contents == [next : Nat, list : Seq(Nat)]

ASSUME NoFileAssumption == NoFile \notin Contents /\ Torn \notin Contents
ASSUME NoFileTornAssumption == NoFile # Torn

VARIABLES
    man,        \* data/manifest.txt
    manDisk,    \* the same, on stable storage
    manNext,    \* Manifest::next_ss_table_index
    manOpen,    \* Manifest::manifest_file is open and good
    manArg,     \* contents write_manifest() is putting in place
    tempSynced, \* the temp file holds manArg on stable storage
    manOp,      \* the public operation that runs
    manPc       \* where the object is inside write_manifest()

diskVars == <<man, manDisk>>
objVars  == <<manNext, manOpen>>
callVars == <<manArg, tempSynced, manOp, manPc>>
vars     == <<diskVars, objVars, callVars>>

Ops == {"none", "create", "add", "remove", "replace"}
Pcs == {"none", "ready", "write", "rename", "dirsync", "ok", "fail"}

Init ==
    /\ man = NoFile /\ manDisk = NoFile
    /\ manNext = 0 /\ manOpen = FALSE
    /\ manArg = NoFile /\ tempSynced = FALSE
    /\ manOp = "none" /\ manPc = "none"

-----------------------------------------------------------------------------
\* Mutant of StartWrite: the counter changes before the file does.
StartWriteEarlyNext(op, next, list) ==
    /\ manArg' = [next |-> next, list |-> list]
    /\ tempSynced' = FALSE
    /\ manNext' = next
    /\ manOp' = op /\ manPc' = "write"
    /\ UNCHANGED <<diskVars, manOpen>>

\* write_manifest(next, list) is called.
StartWrite(op, next, list) ==
    /\ manArg' = [next |-> next, list |-> list]
    /\ tempSynced' = FALSE
    /\ manOp' = op /\ manPc' = "write"
    /\ UNCHANGED <<diskVars, objVars>>

-----------------------------------------------------------------------------
(* Manifest::Manifest().                                                   *)

\* The file exists: read it.
Load ==
    /\ manPc = "none" /\ man \notin {NoFile, Torn}
    /\ manNext' = man.next /\ manOpen' = TRUE
    /\ manPc' = "ready"
    /\ UNCHANGED <<diskVars, manArg, tempSynced, manOp>>

\* It does not: write an empty one.  A failure throws (the process ends).
Create ==
    /\ manPc = "none" /\ man = NoFile
    /\ StartWrite("create", 0, <<>>)

-----------------------------------------------------------------------------
(* The operations.  Each re-reads the list from the file first; if the     *)
(* file could not be reopened after the last write, that throws.           *)

CanCall == manPc = "ready" /\ manOpen

\* Mutants: the next index is not moved on; the list is newest first; the next
\* index moves back; compaction's table gets an index that stays the next one.
AddSameNext(idx) ==
    CanCall /\ StartWrite("add", idx, Append(man.list, idx))
AddAtFront(idx) ==
    CanCall /\ StartWrite("add", idx + 1, <<idx>> \o man.list)
RemoveMovesBack(old) ==
    CanCall /\ StartWrite("remove", manNext - 1, Subtract(man.list, old))
ReplaceSameNext(old, idx) ==
    CanCall /\ StartWrite("replace", manNext, Append(Subtract(man.list, old), idx))

AddNewIndex(idx) ==
    /\ CanCall
    /\ StartWrite("add", idx + 1, Append(man.list, idx))

RemoveIndices(old) ==
    /\ CanCall
    /\ StartWrite("remove", manNext, Subtract(man.list, old))

ReplaceIndices(old, idx) ==
    /\ CanCall
    /\ StartWrite("replace", idx + 1, Append(Subtract(man.list, old), idx))

-----------------------------------------------------------------------------
(* write_manifest(), step by step.                                         *)

\* Mutant of WriteTemp: the temp file is closed without a sync.
WriteTempUnsynced ==
    /\ manPc = "write"
    /\ manPc' = "rename"
    /\ UNCHANGED <<diskVars, objVars, manArg, tempSynced, manOp>>

\* Temp file opened with "wb", written, synced and closed.
WriteTemp ==
    /\ manPc = "write"
    /\ tempSynced' = TRUE /\ manPc' = "rename"
    /\ UNCHANGED <<diskVars, objVars, manArg, manOp>>

WriteTempFail ==
    /\ manPc = "write"
    /\ manPc' = "fail"
    /\ UNCHANGED <<diskVars, objVars, manArg, tempSynced, manOp>>

\* Renamed over the manifest, reopened (which may fail), counters updated.
\* The kernel may put the new name on stable storage at once; then it leads
\* to whatever of the temp file's contents is there.
Rename ==
    /\ manPc = "rename"
    /\ man' = manArg
    /\ manDisk' \in {manDisk, IF tempSynced THEN manArg ELSE Torn}
    /\ manNext' = manArg.next
    /\ manOpen' \in BOOLEAN
    /\ manPc' = "dirsync"
    /\ UNCHANGED <<manArg, tempSynced, manOp>>

\* The rename failed; the old file is reopened.
RenameFail ==
    /\ manPc = "rename"
    /\ manOpen' \in (IF man = NoFile THEN {FALSE} ELSE BOOLEAN)
    /\ manPc' = "fail"
    /\ UNCHANGED <<diskVars, manNext, manArg, tempSynced, manOp>>

\* data/ synced; the result is whether the file could be reopened.
SyncDir ==
    /\ manPc = "dirsync"
    /\ manDisk' = man
    /\ manPc' = IF manOpen THEN "ok" ELSE "fail"
    /\ UNCHANGED <<man, objVars, manArg, tempSynced, manOp>>

SyncDirFail ==
    /\ manPc = "dirsync"
    /\ manPc' = "fail"
    /\ UNCHANGED <<diskVars, objVars, manArg, tempSynced, manOp>>

\* The caller takes the result.
Returned(result) ==
    /\ manPc = (IF result THEN "ok" ELSE "fail")
    /\ manArg' = NoFile /\ tempSynced' = FALSE
    /\ manOp' = "none" /\ manPc' = "ready"
    /\ UNCHANGED <<diskVars, objVars>>

-----------------------------------------------------------------------------
\* The process ends: the object is gone.
Gone ==
    /\ manNext' = 0 /\ manOpen' = FALSE
    /\ manArg' = NoFile /\ tempSynced' = FALSE
    /\ manOp' = "none" /\ manPc' = "none"

Crash == manPc # "none" /\ Gone /\ UNCHANGED diskVars

PowerLoss == man' = manDisk /\ Gone /\ UNCHANGED manDisk

\* The directory reaches stable storage: on its own, or by another sync of it.
WriteBack == manDisk # man /\ manDisk' = man /\ UNCHANGED <<man, objVars, callVars>>

-----------------------------------------------------------------------------
Writing ==
    WriteTemp \/ WriteTempFail \/ Rename \/ RenameFail \/ SyncDir \/ SyncDirFail

\* A caller that passes what DbEngine passes: the next index, and the list it
\* has just read.
Next ==
    \/ Load \/ Create
    \/ manNext < MaxTables /\ AddNewIndex(manNext)
    \/ CanCall /\ RemoveIndices(man.list)
    \/ manNext < MaxTables /\ CanCall /\ ReplaceIndices(man.list, manNext)
    \/ WriteTemp \/ WriteTempFail \/ Rename \/ RenameFail \/ SyncDir \/ SyncDirFail
    \/ Returned(TRUE)
    \/ manOp # "create" /\ Returned(FALSE)
    \/ Crash \/ PowerLoss \/ WriteBack

Spec == Init /\ [][Next]_vars

-----------------------------------------------------------------------------
(* Properties.                                                             *)

\* Each variable holds a value of its type.
TypeOK ==
    /\ man \in Contents \cup {NoFile, Torn}
    /\ manDisk \in Contents \cup {NoFile, Torn}
    /\ manNext \in Nat
    /\ manOpen \in BOOLEAN
    /\ manArg \in Contents \cup {NoFile}
    /\ tempSynced \in BOOLEAN
    /\ manOp \in Ops
    /\ manPc \in Pcs

\* At every instant, whichever step failed or was cut short, a process and a
\* power loss find a complete manifest, old or new (or none before the first
\* one was ever written).
NeverTorn == man # Torn /\ manDisk # Torn

\* What a process finds is never older than what is on stable storage, and
\* every listed index is below the file's next index: an index that any
\* surviving manifest lists is never handed out again.
NextAboveListed ==
    \A m \in {man, manDisk} : m \in Contents =>
        /\ \A n \in DOMAIN m.list : m.list[n] < m.next
        /\ man \in Contents /\ m.next <= man.next

\* The index the object keeps in memory is the one in the file, also in the
\* middle of a write and after one that failed.
CachedNextIsCurrent ==
    manPc # "none" /\ man \in Contents => manNext = man.next

\* Lists are in ascending order: newest last, which the readers' order and
\* the two-pointer loop of subtract_vectors() both rely on.
ListAscending ==
    \A m \in {man, manDisk} : m \in Contents =>
        \A a, b \in DOMAIN m.list : a < b => m.list[a] < m.list[b]

=============================================================================
