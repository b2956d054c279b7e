-------------------------------- MODULE Wal --------------------------------
(***************************************************************************)
(* The write-ahead log of mewDb: class Wal (src/src/wal.cpp), the file     *)
(* data/wal.bin it owns, and the operating system below it.                *)
(*                                                                         *)
(* The file is modelled at the granularity of records.  `wal' is what a    *)
(* process that opens the file reads (the page cache); `walDisk' is the    *)
(* content a power loss leaves, which the kernel brings up to date whenever*)
(* it likes (WriteBack) and fsync brings up to date at once.  A record     *)
(* whose bytes are not all there, or fail a checksum, is Torn:             *)
(* Wal::recover() stops at it.  A process crash keeps `wal' and loses the  *)
(* object; a power loss replaces `wal' by `walDisk'.                       *)
(*                                                                         *)
(* Environment assumption: a sync that succeeds makes the whole content of *)
(* the file durable.                                                       *)
(***************************************************************************)
EXTENDS Naturals, SequencesExt

CONSTANTS
    Key,        \* keys
    Val,        \* values
    Tomb,       \* the value of a delete record (Operation::del)
    Torn,       \* an incomplete or corrupt record at the end of the file
    NoRecord,   \* no write() is in progress
    MaxIndex    \* bound: sequence numbers used before the model stops writing

ASSUME TombAssumption == Tomb \notin Val
ASSUME MaxIndexAssumption == MaxIndex \in Nat

Record == [index : Nat, key : Key, val : Val \cup {Tomb}]

ASSUME TornAssumption == Torn \notin Record
ASSUME NoRecordAssumption == NoRecord \notin Record

VARIABLES
    wal,        \* content of data/wal.bin
    walDisk,    \* its content on stable storage: what a power loss leaves
    acked,      \* history: records of wal that a successful write() covers
    walIndex,   \* Wal::index
    walFailed,  \* Wal::write_failed
    walReq,     \* the record write() is putting into the file
    walPos,     \* recover(): records accepted so far (last_valid_end)
    walPc       \* where the object is inside its methods

diskVars == <<wal, walDisk, acked>>
objVars  == <<walIndex, walFailed, walReq, walPos>>
vars     == <<diskVars, objVars, walPc>>

Log == Seq(Record \cup {Torn})

Pcs == {"none",                                   \* no object: process down
        "recover", "repair",                      \* inside recover()
        "ready",                                  \* between two calls
        "append", "partial", "sync",              \* inside write()
        "truncated"}                              \* inside truncate()

Clean(w) == \A i \in 1..Len(w) : w[i] # Torn

Init ==
    /\ wal = <<>> /\ walDisk = <<>> /\ acked = 0
    /\ walIndex = 0 /\ walFailed = FALSE /\ walReq = NoRecord /\ walPos = 0
    /\ walPc = "none"

-----------------------------------------------------------------------------
(* Wal::Wal() and Wal::recover().  An I/O error in either throws, which    *)
(* ends the process: that is Crash.                                        *)

\* The constructor opened the file and synced data/; recover() starts and
\* latches write_failed until it is through.
Construct ==
    /\ walPc = "none"
    /\ walPc' = "recover"
    /\ walIndex' = 0 /\ walFailed' = TRUE /\ walPos' = 0
    /\ UNCHANGED <<diskVars, walReq>>

\* Mutants of ReplayRecord: a sequence number that repeats, or that falls.
ReplayRecordIndex(i) ==
    /\ walPc = "recover"
    /\ walPos < Len(wal) /\ wal[walPos + 1] # Torn
    /\ walPos' = walPos + 1
    /\ walIndex' = i
    /\ UNCHANGED <<diskVars, walFailed, walReq, walPc>>
ReplayRecordSame  == ReplayRecordIndex(wal[walPos + 1].index)
ReplayRecordBelow == ReplayRecordIndex(wal[walPos + 1].index - 1)

\* The loop accepts one more complete record (and replays it: MewDb).
ReplayRecord ==
    /\ walPc = "recover"
    /\ walPos < Len(wal) /\ wal[walPos + 1] # Torn
    /\ walPos' = walPos + 1
    /\ walIndex' = wal[walPos + 1].index + 1
    /\ UNCHANGED <<diskVars, walFailed, walReq, walPc>>

\* The loop read the whole file: nothing to repair, and nothing is synced.
RecoverEnd ==
    /\ walPc = "recover" /\ walPos = Len(wal)
    /\ walFailed' = FALSE /\ walPos' = 0 /\ walPc' = "ready"
    /\ UNCHANGED <<diskVars, walIndex, walReq>>

\* Mutant of CutTail: the bad tail is reported and stays.
CutTailNot ==
    /\ walPc = "recover"
    /\ walPos < Len(wal) /\ wal[walPos + 1] = Torn
    /\ walPc' = "repair"
    /\ UNCHANGED <<diskVars, objVars>>

\* The loop stopped at a torn or corrupt record: cut it and all behind it.
CutTail ==
    /\ walPc = "recover"
    /\ walPos < Len(wal) /\ wal[walPos + 1] = Torn
    /\ wal' = SubSeq(wal, 1, walPos)
    /\ walPc' = "repair"
    /\ UNCHANGED <<walDisk, acked, objVars>>

SyncRepair ==
    /\ walPc = "repair"
    /\ walDisk' = wal
    /\ walFailed' = FALSE /\ walPos' = 0 /\ walPc' = "ready"
    /\ UNCHANGED <<wal, acked, walIndex, walReq>>

-----------------------------------------------------------------------------
(* Wal::write().  It returns true exactly when it ends with write_failed   *)
(* unset.                                                                  *)

\* Called while write_failed is unset (else it returns false untouched).
Write(k, v) ==
    /\ walPc = "ready" /\ ~walFailed
    /\ walIndex < MaxIndex
    /\ walReq' = [index |-> walIndex, key |-> k, val |-> v]
    /\ walPc' = "append"
    /\ UNCHANGED <<diskVars, walIndex, walFailed, walPos>>

\* Part of the record reaches the file.
PushPart ==
    /\ walPc = "append"
    /\ wal' = Append(wal, Torn)
    /\ walPc' = "partial"
    /\ UNCHANGED <<walDisk, acked, objVars>>

\* All of it is in the file, not yet synced.
PushAll ==
    /\ walPc \in {"append", "partial"}
    /\ wal' = Append(IF walPc = "partial" THEN Front(wal) ELSE wal, walReq)
    /\ walPc' = "sync"
    /\ UNCHANGED <<walDisk, acked, objVars>>

\* Mutant of WriteSynced: success is reported without the sync.
WriteUnsynced ==
    /\ walPc = "sync"
    /\ acked' = Len(wal)
    /\ walIndex' = walIndex + 1
    /\ walReq' = NoRecord /\ walPc' = "ready"
    /\ UNCHANGED <<wal, walDisk, walFailed, walPos>>

\* fsync succeeded: write() returns true.
WriteSynced ==
    /\ walPc = "sync"
    /\ walDisk' = wal
    /\ acked' = Len(wal)
    /\ walIndex' = walIndex + 1
    /\ walReq' = NoRecord /\ walPc' = "ready"
    /\ UNCHANGED <<wal, walFailed, walPos>>

\* Mutant of WriteFail: later writes are let through.
WriteFailUnlatched ==
    /\ walPc \in {"append", "partial", "sync"}
    /\ walReq' = NoRecord /\ walPc' = "ready"
    /\ UNCHANGED <<diskVars, walIndex, walFailed, walPos>>

\* fwrite, fflush or fsync failed: latch write_failed and return false.  What
\* reached the file stays there.
WriteFail ==
    /\ walPc \in {"append", "partial", "sync"}
    /\ walFailed' = TRUE
    /\ walReq' = NoRecord /\ walPc' = "ready"
    /\ UNCHANGED <<diskVars, walIndex, walPos>>

-----------------------------------------------------------------------------
(* Wal::truncate().  It returns true exactly when it ends with             *)
(* write_failed unset.  The sequence number is not reset.                  *)

\* Latched, old handle closed, reopened with "w+b".
Truncate ==
    /\ walPc = "ready"
    /\ walFailed' = TRUE
    /\ wal' = <<>> /\ acked' = 0
    /\ walPc' = "truncated"
    /\ UNCHANGED <<walDisk, walIndex, walReq, walPos>>

\* Latched, but the file could not be closed or reopened with "w+b".
TruncateFail ==
    /\ walPc = "ready"
    /\ walFailed' = TRUE
    /\ UNCHANGED <<diskVars, walIndex, walReq, walPos, walPc>>

\* Synced, closed and reopened for appending.
TruncateSynced ==
    /\ walPc = "truncated"
    /\ walDisk' = wal
    /\ walFailed' = FALSE /\ walPc' = "ready"
    /\ UNCHANGED <<wal, acked, walIndex, walReq, walPos>>

\* The sync fails, or a step after it does.
TruncateSyncFail ==
    /\ walPc = "truncated"
    /\ walDisk' \in {walDisk, wal}
    /\ walPc' = "ready"
    /\ UNCHANGED <<wal, acked, objVars>>

-----------------------------------------------------------------------------
(* The process ends (crash, uncaught exception, or exit): its object is    *)
(* gone.  On a power loss the file is what is on stable storage.           *)

Gone ==
    /\ walIndex' = 0 /\ walFailed' = FALSE /\ walReq' = NoRecord /\ walPos' = 0
    /\ walPc' = "none"

Crash == walPc # "none" /\ Gone /\ UNCHANGED diskVars

PowerLoss ==
    /\ wal' = walDisk
    /\ Gone
    /\ UNCHANGED <<walDisk, acked>>

\* The kernel writes the cached content back on its own.
WriteBack ==
    /\ walDisk # wal
    /\ walDisk' = wal
    /\ UNCHANGED <<wal, acked, objVars, walPc>>

-----------------------------------------------------------------------------
Recovering == ReplayRecord \/ RecoverEnd \/ CutTail \/ SyncRepair
Writing    == PushPart \/ PushAll \/ WriteSynced \/ WriteFail
Truncating == TruncateSynced \/ TruncateSyncFail

\* Any caller: also one that goes on after a call that returned false.
Next ==
    \/ Construct
    \/ ReplayRecord \/ RecoverEnd \/ CutTail \/ SyncRepair
    \/ \E k \in Key, v \in Val \cup {Tomb} : Write(k, v)
    \/ PushPart \/ PushAll \/ WriteSynced \/ WriteFail
    \/ Truncate \/ TruncateFail \/ TruncateSynced \/ TruncateSyncFail
    \/ Crash \/ PowerLoss \/ WriteBack

Spec == Init /\ [][Next]_vars

-----------------------------------------------------------------------------
(* Properties.                                                             *)

\* Each variable holds a value of its type.
TypeOK ==
    /\ wal \in Log
    /\ walDisk \in Log
    /\ acked \in Nat
    /\ walIndex \in Nat
    /\ walFailed \in BOOLEAN
    /\ walReq \in Record \cup {NoRecord}
    /\ walPos \in Nat
    /\ walPc \in Pcs

\* Whatever crash, power loss, torn write, failed call or repair came after
\* it, a record that write() returned true for is still where it was, in the
\* file and in what a power loss leaves (until truncate()).
AckedSurvive ==
    \A w \in {wal, walDisk} :
        /\ acked <= Len(w)
        /\ \A i \in 1..acked : w[i] = wal[i] /\ w[i] # Torn

\* write() never puts a record behind a torn one, where recover() would not
\* reach it: a torn record is always the last.
OnlyLastTorn ==
    \A w \in {wal, walDisk} : \A i \in 1..Len(w) : w[i] = Torn => i = Len(w)

\* The sequence numbers in the file are consecutive, across crashes,
\* truncations and recoveries, so a record lost in the middle would show.
IndicesConsecutive ==
    \A w \in {wal, walDisk} : \A i \in 1..Len(w), j \in 1..Len(w) :
        j = i + 1 /\ w[i] # Torn /\ w[j] # Torn => w[j].index = w[i].index + 1

\* An object whose writes are enabled stands on a clean file, and the number
\* it gives out next follows the last one in the file.
ReadyMeansClean ==
    walPc = "ready" /\ ~walFailed =>
        /\ Clean(wal)
        /\ wal # <<>> => walIndex = Last(wal).index + 1

=============================================================================
