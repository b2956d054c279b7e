----------------------------- MODULE WalFormat ------------------------------
(***************************************************************************)
(* The write-ahead log field by field (src/src/wal.cpp): write() appends   *)
(* its fields through the stream of FileIo, recover() reads them one after *)
(* the other and checks them, and what it cannot read it cuts off and      *)
(* reports as a torn tail or as a corrupt record.                          *)
(*                                                                         *)
(* A file is a sequence of cells, a field each; it can be cut between any  *)
(* two of them.  A field that was there in part is as good as none.  On    *)
(* storage that is not sound a cell can go bad while no process runs.  On  *)
(* sound storage this specification implements Wal, where a record is one  *)
(* element.  A checksum is taken to fit only the fields it was made for.   *)
(***************************************************************************)
EXTENDS Naturals, SequencesExt, FiniteSetsExt

CONSTANTS Key, Val, Tomb, Torn, NoRecord,
          MaxIndex,     \* bound: sequence numbers
          Calls         \* bound: the keys and values write() is called with,
                        \* for each sequence number

VARIABLES
    buf, os, disk, streamError, io, errno,     \* FileIo
    pc,         \* where the object is inside its methods
    index,      \* Wal::index
    latched,    \* Wal::write_failed
    req,        \* write(): the record
    given,      \* write(): how many of its fields write_bytes() has accepted
    pos,        \* recover(): last_valid_end, in cells
    replayed,   \* recover(): the number of records before it
    stop,       \* recover(): stop_reason
    acked,      \* history: records of the file that a successful write() covers
    sound       \* the storage keeps what it has

fileVars == <<buf, os, disk, streamError, io, errno>>
callVars == <<req, given, pos, replayed, stop>>
vars == <<fileVars, pc, index, latched, callVars, acked, sound>>

F == INSTANCE FileIo

ASSUME BoundAssumption == MaxIndex \in Nat
ASSUME CallsAssumption == Calls \in [0..(MaxIndex - 1) -> SUBSET (Key \X (Val \cup {Tomb}))]

Record == [index : Nat, key : Key, val : Val \cup {Tomb}]

ASSUME MarkerAssumption == Tomb \notin Val /\ Torn \notin Record /\ NoRecord \notin Record

Header == <<"magic", "version", "index", "operation", "lengths", "header_crc">>
Fields == <<"magic", "version", "index", "operation", "lengths", "header_crc",
            "key", "val", "record_crc">>

\* A delete has an empty value, of which no byte is written.
FieldsOf(r) ==
    IF r.val = Tomb
    THEN <<"magic", "version", "index", "operation", "lengths", "header_crc",
           "key", "record_crc">>
    ELSE Fields

\* "legal": another value that the field may have; "wild": one that it may not.
Cells(r) == [i \in DOMAIN FieldsOf(r) |->
                [field |-> FieldsOf(r)[i], rec |-> r, is |-> "asWritten"]]

Init ==
    /\ F!Init
    /\ pc = "none" /\ index = 0 /\ latched = FALSE
    /\ req = NoRecord /\ given = 0 /\ pos = 0 /\ replayed = 0 /\ stop = "torn_tail"
    /\ acked = 0
    /\ sound \in BOOLEAN

-----------------------------------------------------------------------------
(* Reading one record, from the cell after at.                             *)

\* The cells from at + first to at + last are fields of one record as written.
SameRecord(f, at, first, last) ==
    \E r \in {f[at + last].rec} : \A i \in first..last :
        i \in DOMAIN Cells(r) /\ f[at + i] = Cells(r)[i]

\* Mutant of HeaderFits: the index is left out of the checksum.
HeaderFitsNoIndex(f, at) ==
    SameRecord(f, at, 2, 2) /\ SameRecord(f, at, 4, Len(Header))

\* The CRC over the header fields but the magic number.
HeaderFits(f, at) == SameRecord(f, at, 2, Len(Header))

\* The CRC that starts from the header's and goes over key and value.
RecordFits(f, at, last) == SameRecord(f, at, Len(Header), last)

\* The number of fields, by the lengths in a header that fits.
Size(f, at) == Len(FieldsOf(f[at + Len(Header)].rec))

\* What recover() checks once it has read field i.
Passes(f, at, i) ==
    LET cell == f[at + i]
    IN  CASE i \in {1, 2} -> cell.field = Fields[i] /\ cell.is = "asWritten"
          [] i = 4 -> cell.field = Fields[i] /\ cell.is # "wild"
          [] i = Len(Header) -> HeaderFits(f, at)
          [] i > Len(Header) /\ i = Size(f, at) -> RecordFits(f, at, i)
          [] OTHER -> TRUE

\* The fields at which the loop would stop: they are missing, or do not pass.
Stops(f, at) ==
    LET last == IF at + Len(Header) > Len(f) THEN Len(Header) ELSE Size(f, at)
    IN  {i \in 1..last : at + i > Len(f) \/ ~Passes(f, at, i)}

\* Mutants of Outcome: a header that does not fit its checksum is called torn;
\* a record that has all its header is not.
OutcomeTornHeader(f, at) ==
    IF Stops(f, at) = {} THEN "whole"
    ELSE IF at + Min(Stops(f, at)) > Len(f) \/ Min(Stops(f, at)) = Len(Header)
    THEN "torn_tail" ELSE "corrupt_record"
OutcomeCorruptBody(f, at) ==
    IF Stops(f, at) = {} THEN "whole"
    ELSE IF at + Min(Stops(f, at)) > Len(f) /\ Min(Stops(f, at)) <= Len(Header)
    THEN "torn_tail" ELSE "corrupt_record"

\* The first of them ends it, and gives the reason.
Outcome(f, at) ==
    IF Stops(f, at) = {} THEN "whole"
    ELSE IF at + Min(Stops(f, at)) > Len(f) THEN "torn_tail" ELSE "corrupt_record"

\* From each cell on: the records that recovery would accept, and Torn for what
\* is behind them.
ParseFrom(f) ==
    LET from[at \in 0..Len(f)] ==
            IF at = Len(f) THEN <<>>
            ELSE IF Outcome(f, at) # "whole" THEN <<Torn>>
            ELSE Cons(f[at + 1].rec, from[at + Size(f, at)])
    IN  from

Parse(f) == ParseFrom(f)[0]

-----------------------------------------------------------------------------
(* Wal::Wal() and Wal::recover().  An exception ends the process.          *)

NoProcess ==
    /\ pc' = "none" /\ index' = 0 /\ latched' = FALSE
    /\ req' = NoRecord /\ given' = 0 /\ pos' = 0 /\ replayed' = 0 /\ stop' = "torn_tail"
    /\ UNCHANGED <<acked, sound>>

Open ==
    /\ pc = "none"
    /\ F!SyncParentDirectory
    /\ pc' = "opened"
    /\ UNCHANGED <<index, latched, callVars, acked, sound>>

Construct ==
    /\ pc = "opened"
    /\ \/ F!Returned(TRUE) /\ pc' = "recover" /\ latched' = TRUE
          /\ UNCHANGED <<index, callVars, acked, sound>>
       \/ io = "failed" /\ F!Crash /\ NoProcess

\* Mutant of ReplayRecord: the number of the record before.
ReplayRecordBelow ==
    /\ pc = "recover"
    /\ Outcome(os, pos) = "whole"
    /\ pos' = pos + Size(os, pos)
    /\ replayed' = replayed + 1
    /\ index' = os[pos + 3].rec.index - 1
    /\ UNCHANGED <<fileVars, pc, latched, req, given, stop, acked, sound>>

ReplayRecord ==
    /\ pc = "recover"
    /\ Outcome(os, pos) = "whole"
    /\ pos' = pos + Size(os, pos)
    /\ replayed' = replayed + 1
    /\ index' = os[pos + 3].rec.index + 1
    /\ UNCHANGED <<fileVars, pc, latched, req, given, stop, acked, sound>>

Recovered == latched' = FALSE /\ pos' = 0 /\ replayed' = 0 /\ stop' = "torn_tail" /\ pc' = "ready"

RecoverEnd ==
    /\ pc = "recover" /\ pos = Len(os)
    /\ Recovered
    /\ UNCHANGED <<fileVars, index, req, given, acked, sound>>

\* Cut the file after the last whole record, and sync it.
CutTail ==
    /\ pc = "recover" /\ pos < Len(os)
    /\ Outcome(os, pos) # "whole"
    /\ stop' = Outcome(os, pos)
    /\ os' = SubSeq(os, 1, pos)
    /\ acked' = Min({acked, replayed})
    /\ io' = "flush" /\ errno' = "none"
    /\ pc' = "repair"
    /\ UNCHANGED <<buf, disk, streamError, index, latched, req, given, pos, replayed, sound>>

Repaired ==
    /\ pc = "repair"
    /\ \/ F!Returned(TRUE) /\ Recovered /\ UNCHANGED <<index, req, given, acked, sound>>
       \/ io = "failed" /\ F!Crash /\ NoProcess

-----------------------------------------------------------------------------
(* Wal::write().                                                           *)

Write(k, v) ==
    /\ pc = "ready" /\ ~latched
    /\ req' = [index |-> index, key |-> k, val |-> v]
    /\ given' = 0
    /\ pc' = "append"
    /\ UNCHANGED <<fileVars, index, latched, pos, replayed, stop, acked, sound>>

\* The next write_bytes().
GiveField ==
    /\ pc = "append" /\ given < Len(Cells(req))
    /\ F!WriteBytes(Cells(req)[given + 1])
    /\ given' = given + 1
    /\ UNCHANGED <<pc, index, latched, req, pos, replayed, stop, acked, sound>>

PushFields ==
    /\ pc \in {"append", "sync"}
    /\ F!Push
    /\ UNCHANGED <<pc, index, latched, callVars, acked, sound>>

Latch == latched' = TRUE /\ req' = NoRecord /\ given' = 0 /\ pc' = "ready"

GiveFails ==
    /\ pc = "append" /\ given < Len(Cells(req))
    /\ F!WriteBytesFails
    /\ Latch
    /\ UNCHANGED <<index, pos, replayed, stop, acked, sound>>

SyncRecord ==
    /\ pc = "append" /\ given = Len(Cells(req))
    /\ F!SyncFile
    /\ pc' = "sync"
    /\ UNCHANGED <<index, latched, callVars, acked, sound>>

WriteReturns ==
    /\ pc = "sync"
    /\ \/ /\ F!Returned(TRUE)
          /\ acked' = Len(Parse(os))
          /\ index' = index + 1
          /\ req' = NoRecord /\ given' = 0 /\ pc' = "ready"
          /\ UNCHANGED latched
       \/ F!Returned(FALSE) /\ Latch /\ UNCHANGED <<index, acked>>
    /\ UNCHANGED <<pos, replayed, stop, sound>>

-----------------------------------------------------------------------------
(* Wal::truncate(), which flush() calls after a write that succeeded.      *)

\* Latched, closed, reopened with "w+b"; then sync_file().
Truncate ==
    /\ pc = "ready" /\ ~latched
    /\ latched' = TRUE
    /\ buf' = <<>> /\ os' = <<>> /\ streamError' = FALSE
    /\ io' = "flush" /\ errno' = "none"
    /\ acked' = 0
    /\ pc' = "truncate"
    /\ UNCHANGED <<disk, index, callVars, sound>>

\* Latched, but not closed or not reopened.
TruncateFails ==
    /\ pc = "ready" /\ ~latched
    /\ latched' = TRUE
    /\ UNCHANGED <<fileVars, pc, index, callVars, acked, sound>>

\* Synced, closed and reopened for appending: or a step of it failed.
Truncated ==
    /\ pc = "truncate"
    /\ \/ F!Returned(TRUE) /\ latched' \in BOOLEAN
       \/ F!Returned(FALSE) /\ UNCHANGED latched
    /\ pc' = "ready"
    /\ UNCHANGED <<index, callVars, acked, sound>>

-----------------------------------------------------------------------------
(* The helpers of FileIo, the process's end, and the storage.              *)

HelperStep ==
    /\ F!Helper
    /\ UNCHANGED <<pc, index, latched, callVars, acked, sound>>

Crash == pc # "none" /\ F!Crash /\ NoProcess

PowerLoss == F!PowerLoss /\ NoProcess

WriteBack ==
    /\ F!WriteBack
    /\ UNCHANGED <<pc, index, latched, callVars, acked, sound>>

\* A cell goes bad on storage that is not sound.
Damage ==
    /\ ~sound /\ pc = "none"
    /\ disk = os
    /\ \A i \in DOMAIN os : os[i].is = "asWritten"
    /\ \E i \in DOMAIN os :
          \E is \in CASE os[i].field \in {"magic", "version"} -> {"wild"}
                      [] os[i].field = "operation" -> {"wild", "legal"}
                      [] OTHER -> {"legal"} :
             os' = [os EXCEPT ![i].is = is]
    /\ disk' = os'
    /\ UNCHANGED <<buf, streamError, io, errno, pc, index, latched, callVars, acked, sound>>

-----------------------------------------------------------------------------
Step ==
    \/ Open \/ Construct \/ ReplayRecord \/ RecoverEnd \/ CutTail \/ Repaired
    \/ GiveField \/ GiveFails \/ PushFields \/ SyncRecord \/ WriteReturns
    \/ Truncated \/ HelperStep

Environment ==
    \/ index < MaxIndex /\ \E call \in Calls[index] : Write(call[1], call[2])
    \/ Truncate \/ TruncateFails
    \/ Crash \/ PowerLoss \/ WriteBack \/ Damage

Next == Step \/ Environment

Spec == Init /\ [][Next]_vars

\* A call that was begun goes on.  An interrupted system call that is made again
\* changes nothing, so this includes that signals do not interrupt it for ever.
FairSpec == Spec /\ WF_vars(Step)

-----------------------------------------------------------------------------
(* Properties.                                                             *)

Cell == [field : ToSet(Fields), rec : Record, is : {"asWritten", "legal", "wild"}]

\* Each variable holds a value of its type.
TypeOK ==
    /\ buf \in Seq(Cell) /\ os \in Seq(Cell) /\ disk \in Seq(Cell)
    /\ streamError \in BOOLEAN /\ io \in F!IoStates /\ errno \in F!Errnos
    /\ pc \in {"none", "opened", "recover", "repair", "ready", "append", "sync", "truncate"}
    /\ index \in Nat /\ latched \in BOOLEAN
    /\ req \in Record \cup {NoRecord} /\ given \in 0..Len(Fields)
    /\ pos \in Nat /\ replayed \in Nat
    /\ stop \in {"torn_tail", "corrupt_record"}
    /\ acked \in Nat /\ sound \in BOOLEAN

\* Whatever single field of the file goes bad, and wherever the file is cut
\* short, no record with a damaged field is replayed.
NothingDamagedReplayed ==
    pc = "recover" => \A i \in 1..pos : os[i].is = "asWritten"

\* "torn tail (expected after a crash)": on sound storage, crashes, power losses
\* and failed writes leave nothing that recovery would call corrupt.
CrashIsNotCorruption ==
    [][pc = "recover" /\ pc' = "repair" /\ sound => stop' = "torn_tail"]_vars

\* "corrupt record (possible data loss)": when recovery discards a record that a
\* write() had acknowledged, it does not call it a torn tail.
LossCalledCorruption ==
    [][pc = "recover" /\ pc' = "repair" /\ acked' < acked => stop' = "corrupt_record"]_vars

\* See FileIo.
ErrnoNamesFailure == F!ErrnoNamesFailure

\* Every call returns, whatever fails in it and in every process before it.
CallsReturn == []<>(io = "none" /\ pc \in {"none", "ready"})

\* On sound storage this is the log of module Wal, record by record.
WalPc ==
    CASE pc = "opened" -> "none"
      [] pc \in {"append", "sync"} ->
            LET pushed == given - Len(buf)
            IN  IF pushed = 0 THEN "append"
                ELSE IF pushed < Len(Cells(req)) THEN "partial" ELSE "sync"
      [] pc = "truncate" -> "truncated"
      [] OTHER -> pc

Records == INSTANCE Wal WITH
    wal       <- IF sound THEN Parse(os) ELSE <<>>,
    walDisk   <- IF sound THEN Parse(disk) ELSE <<>>,
    acked     <- IF sound THEN acked ELSE 0,
    walIndex  <- IF sound THEN index ELSE 0,
    walFailed <- sound /\ latched,
    walReq    <- IF sound THEN req ELSE NoRecord,
    walPos    <- IF sound THEN replayed ELSE 0,
    walPc     <- IF sound THEN WalPc ELSE "none"

ImplementsWal == Records!Spec

=============================================================================
