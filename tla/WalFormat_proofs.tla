-------------------------- MODULE WalFormat_proofs --------------------------
(***************************************************************************)
(* What holds of the log field by field, for any keys and values and any   *)
(* number of records.                                                      *)
(***************************************************************************)
EXTENDS WalFormat, SequenceTheorems, Vectors_proofs

-----------------------------------------------------------------------------
(* Which call a helper of FileIo is making, and what it has left in errno.  *)

SyncStates == {"flush", "fsync", "ok", "failed"}
DirStates  == {"open", "dirSync", "closeSynced", "closeUnsynced", "ok", "failed"}

Helping ==
    /\ pc \in {"none", "recover", "ready", "append"} => io = "none"
    /\ pc \in {"sync", "repair", "truncate"} => io \in SyncStates
    /\ pc = "opened" => io \in DirStates
    /\ pc \in {"none", "opened", "recover", "repair", "ready", "append", "sync", "truncate"}

\* A failed sync of a directory closes it with its own errno.
ErrnoOK ==
    /\ io = "failed" => errno \notin {"EINTR", "close"}
    /\ io = "closeUnsynced" => errno = "fsync"

CallOK == Helping /\ ErrnoOK

\* No call is in progress at first.
LEMMA InitCallOK == Init => CallOK
  BY DEF Init, F!Init, CallOK, Helping, ErrnoOK

\* Every step keeps what holds of the call in progress.
LEMMA NextCallOK == CallOK /\ [Next]_vars => CallOK'
<1> SUFFICES ASSUME CallOK, [Next]_vars PROVE CallOK'
  OBVIOUS
<1> USE DEF CallOK, Helping, ErrnoOK, SyncStates, DirStates
<1>1. CASE Open
  BY <1>1 DEF Open, F!SyncParentDirectory
<1>2. CASE Construct
  BY <1>2 DEF Construct, F!Returned, F!Crash, F!StreamGone, NoProcess
<1>3. CASE ReplayRecord
  BY <1>3 DEF ReplayRecord, fileVars
<1>4. CASE RecoverEnd
  BY <1>4 DEF RecoverEnd, Recovered, fileVars
<1>5. CASE CutTail
  BY <1>5 DEF CutTail
<1>6. CASE Repaired
  BY <1>6 DEF Repaired, Recovered, F!Returned, F!Crash, F!StreamGone, NoProcess
<1>7. CASE GiveField
  BY <1>7 DEF GiveField, F!WriteBytes
<1>8. CASE GiveFails
  BY <1>8 DEF GiveFails, F!WriteBytesFails, Latch
<1>9. CASE PushFields
  BY <1>9 DEF PushFields, F!Push
<1>10. CASE SyncRecord
  BY <1>10 DEF SyncRecord, F!SyncFile
<1>11. CASE WriteReturns
  BY <1>11 DEF WriteReturns, Latch, F!Returned
<1>12. CASE Truncated
  BY <1>12 DEF Truncated, F!Returned
<1>13. CASE HelperStep
  BY <1>13 DEF HelperStep, F!Helper, F!Flushed, F!FlushFails, F!Fsynced, F!FsyncFails,
     F!DirOpened, F!DirOpenFails, F!DirFsynced, F!DirFsyncFails, F!DirClosed, F!Interrupted
<1>14. CASE \E call \in Calls[index] : Write(call[1], call[2])
  BY <1>14 DEF Write, fileVars
<1>15. CASE Truncate
  BY <1>15 DEF Truncate
<1>16. CASE TruncateFails
  BY <1>16 DEF TruncateFails, fileVars
<1>17. CASE Crash
  BY <1>17 DEF Crash, F!Crash, F!StreamGone, NoProcess
<1>18. CASE PowerLoss
  BY <1>18 DEF PowerLoss, F!PowerLoss, F!StreamGone, NoProcess
<1>19. CASE WriteBack
  BY <1>19 DEF WriteBack, F!WriteBack
<1>20. CASE Damage
  BY <1>20 DEF Damage
<1>21. CASE UNCHANGED vars
  BY <1>21 DEF vars, fileVars
<1> QED
  BY <1>1, <1>2, <1>3, <1>4, <1>5, <1>6, <1>7, <1>8, <1>9, <1>10, <1>11, <1>12, <1>13, <1>14,
     <1>15, <1>16, <1>17, <1>18, <1>19, <1>20, <1>21 DEF Next, Step, Environment

\* A helper that failed leaves the errno of the step that failed.
THEOREM ErrnoIsKept == Spec => []ErrnoNamesFailure
<1>1. CallOK => ErrnoNamesFailure
  BY DEF CallOK, ErrnoOK, ErrnoNamesFailure, F!ErrnoNamesFailure
<1> QED
  BY <1>1, InitCallOK, NextCallOK, PTL DEF Spec

-----------------------------------------------------------------------------
(* The fields of a record.                                                 *)

\* A record has eight or nine fields, no two of them the same.
LEMMA FieldsAre ==
  ASSUME NEW r
  PROVE  /\ Len(Header) = 6
         /\ Len(FieldsOf(r)) \in {8, 9} /\ DOMAIN FieldsOf(r) = 1..Len(FieldsOf(r))
         /\ \A i \in 1..6 : FieldsOf(r)[i] = Fields[i]
         /\ \A i, j \in 1..Len(FieldsOf(r)) : FieldsOf(r)[i] = FieldsOf(r)[j] => i = j
         /\ \A i \in 1..Len(FieldsOf(r)) : FieldsOf(r)[i] \in ToSet(Fields)
<1>1. Len(Header) = 6
  BY DEF Header
<1>2. /\ Len(Fields) = 9 /\ DOMAIN Fields = 1..9
      /\ Fields[1] = "magic" /\ Fields[2] = "version" /\ Fields[3] = "index"
      /\ Fields[4] = "operation" /\ Fields[5] = "lengths" /\ Fields[6] = "header_crc"
      /\ Fields[7] = "key" /\ Fields[8] = "val" /\ Fields[9] = "record_crc"
  BY DEF Fields
<1>3. \A i \in 1..9 : Fields[i] \in ToSet(Fields)
  BY <1>2 DEF ToSet
<1>4. \A i, j \in 1..9 : Fields[i] = Fields[j] => i = j
  BY <1>2
<1>5. CASE r.val = Tomb
  <2> DEFINE f == <<"magic", "version", "index", "operation", "lengths", "header_crc",
                    "key", "record_crc">>
  <2>1. /\ Len(f) = 8 /\ DOMAIN f = 1..8
        /\ f[1] = "magic" /\ f[2] = "version" /\ f[3] = "index" /\ f[4] = "operation"
        /\ f[5] = "lengths" /\ f[6] = "header_crc" /\ f[7] = "key" /\ f[8] = "record_crc"
    OBVIOUS
  <2>2. FieldsOf(r) = f
    BY <1>5 DEF FieldsOf
  <2> HIDE DEF f
  <2>3. \A i, j \in 1..8 : f[i] = f[j] => i = j
    BY <2>1
  <2>4. \A i \in 1..6 : f[i] = Fields[i]
    BY <1>2, <2>1
  <2>5. \A i \in 1..8 : f[i] \in ToSet(Fields)
    <3> TAKE i \in 1..8
    <3>1. f[i] = Fields[i] \/ f[i] = Fields[9]
      BY <1>2, <2>1
    <3> QED
      BY <1>3, <3>1
  <2>6. Len(f) \in {8, 9} /\ DOMAIN f = 1..Len(f)
    BY <2>1
  <2>7. /\ \A i, j \in 1..Len(f) : f[i] = f[j] => i = j
        /\ \A i \in 1..Len(f) : f[i] \in ToSet(Fields)
    BY <2>1, <2>3, <2>5
  <2> QED
    BY <1>1, <2>2, <2>4, <2>6, <2>7
<1>6. CASE r.val # Tomb
  BY <1>1, <1>2, <1>3, <1>4, <1>6 DEF FieldsOf
<1> QED
  BY <1>5, <1>6

\* Its cells.
LEMMA CellsAre ==
  ASSUME NEW r
  PROVE  /\ DOMAIN Cells(r) = 1..Len(FieldsOf(r)) /\ Len(Cells(r)) = Len(FieldsOf(r))
         /\ \A i \in 1..Len(FieldsOf(r)) :
                /\ Cells(r)[i] = [field |-> FieldsOf(r)[i], rec |-> r, is |-> "asWritten"]
                /\ Cells(r)[i].field = FieldsOf(r)[i] /\ Cells(r)[i].rec = r
                /\ Cells(r)[i].is = "asWritten"
                /\ r \in Record => Cells(r)[i] \in Cell
<1> DEFINE n == Len(FieldsOf(r))
<1>1. n \in Nat /\ DOMAIN FieldsOf(r) = 1..n
  BY FieldsAre
<1>2. \A i \in 1..n : FieldsOf(r)[i] \in ToSet(Fields)
  BY FieldsAre
<1> HIDE DEF n
<1>3. DOMAIN Cells(r) = 1..n
  BY <1>1 DEF Cells
<1>4. \A i \in 1..n : Cells(r)[i] = [field |-> FieldsOf(r)[i], rec |-> r, is |-> "asWritten"]
  BY <1>1 DEF Cells
<1>5. Len(Cells(r)) = n
  BY <1>1, <1>3, LenProperties
<1>6. ASSUME r \in Record, NEW i \in 1..n PROVE Cells(r)[i] \in Cell
  <2>1. FieldsOf(r)[i] \in ToSet(Fields)
    BY <1>2
  <2>2. Cells(r)[i] = [field |-> FieldsOf(r)[i], rec |-> r, is |-> "asWritten"]
    BY <1>4
  <2> QED
    BY <1>6, <2>1, <2>2 DEF Cell
<1> QED
  BY <1>3, <1>4, <1>5, <1>6 DEF n

-----------------------------------------------------------------------------
(* What recover() makes of the cells after at.                             *)

\* What Min is asked about are numbers.
LEMMA StopsAreNumbers == ASSUME NEW f, NEW at PROVE Stops(f, at) \in SUBSET Nat
<1>1. Len(Header) \in Nat /\ Size(f, at) \in Nat
  BY FieldsAre DEF Size
<1> QED
  BY <1>1 DEF Stops

\* Cells that fit a checksum are as they were written.
LEMMA SameIsWritten ==
  ASSUME NEW f, NEW at, NEW first, NEW last, SameRecord(f, at, first, last)
  PROVE  \A i \in first..last : f[at + i].is = "asWritten"
<1>1. PICK r : \A i \in first..last : i \in DOMAIN Cells(r) /\ f[at + i] = Cells(r)[i]
  BY DEF SameRecord
<1>2. \A i \in DOMAIN Cells(r) : Cells(r)[i].is = "asWritten"
  BY CellsAre
<1> QED
  BY <1>1, <1>2

\* A record that is replayed is all there, and none of its cells is damaged.
LEMMA WholeMeans ==
  ASSUME NEW f, NEW at \in Nat, Len(f) \in Nat, Outcome(f, at) = "whole"
  PROVE  /\ Size(f, at) \in {8, 9} /\ at + Size(f, at) <= Len(f)
         /\ \A i \in 1..Size(f, at) : f[at + i].is = "asWritten"
<1> DEFINE n == Size(f, at)
<1>1. Len(Header) = 6 /\ n \in {8, 9}
  BY FieldsAre DEF Size
<1>2. Stops(f, at) = {}
  BY DEF Outcome
<1>3. at + 6 <= Len(f)
  <2> SUFFICES ASSUME at + 6 > Len(f) PROVE FALSE
    BY <1>1
  <2>1. Stops(f, at) = {i \in 1..6 : at + i > Len(f) \/ ~Passes(f, at, i)}
    BY <1>1 DEF Stops
  <2>2. 6 \in Stops(f, at)
    BY <2>1
  <2> QED
    BY <1>2, <2>2
<1> HIDE DEF n
<1>4. \A i \in 1..n : at + i <= Len(f) /\ Passes(f, at, i)
  <2>1. Stops(f, at) = {i \in 1..n : at + i > Len(f) \/ ~Passes(f, at, i)}
    BY <1>1, <1>3 DEF Stops, n
  <2>2. TAKE i \in 1..n
  <2>3. ~ (at + i > Len(f)) /\ Passes(f, at, i)
    BY <1>2, <2>1
  <2> QED
    BY <1>1, <2>3
<1>5. f[at + 1].is = "asWritten"
  BY <1>1, <1>4 DEF Passes
<1>6. \A i \in 2..6 : f[at + i].is = "asWritten"
  <2>1. Passes(f, at, 6)
    BY <1>1, <1>4
  <2>2. SameRecord(f, at, 2, 6)
    BY <1>1, <2>1 DEF Passes, HeaderFits
  <2> QED
    BY <2>2, SameIsWritten
<1>7. \A i \in 6..n : f[at + i].is = "asWritten"
  <2>1. Passes(f, at, n)
    BY <1>1, <1>4
  <2>2. SameRecord(f, at, 6, n)
    BY <1>1, <2>1 DEF Passes, RecordFits, n
  <2> QED
    BY <2>2, SameIsWritten
<1>8. \A i \in 1..n : f[at + i].is = "asWritten"
  <2>1. \A i \in 1..n : i = 1 \/ i \in 2..6 \/ i \in 6..n
    BY <1>1
  <2> QED
    BY <1>5, <1>6, <1>7, <2>1
<1> QED
  BY <1>1, <1>4, <1>8 DEF n

-----------------------------------------------------------------------------
(* The files and the object's fields.                                      *)

Types ==
    /\ buf \in Seq(Cell) /\ os \in Seq(Cell) /\ disk \in Seq(Cell)
    /\ index \in Nat /\ given \in Nat /\ pos \in Nat
    /\ req \in Record \cup {NoRecord}
    /\ pc \in {"append", "sync"} => req \in Record /\ given <= Len(FieldsOf(req))

\* The types at first, and after every step.
LEMMA InitTypes == Init => Types
<1>1. <<>> \in Seq(Cell)
  BY EmptySeq
<1> QED
  BY <1>1 DEF Init, F!Init, Types

\* The induction step for them.
LEMMA NextTypes == CallOK /\ Types /\ [Next]_vars => Types'
<1> SUFFICES ASSUME CallOK, Types, [Next]_vars PROVE Types'
  OBVIOUS
<1> USE DEF Types
<1>0. <<>> \in Seq(Cell)
  BY EmptySeq
<1>1. CASE Open
  BY <1>1 DEF Open, F!SyncParentDirectory, F!fileVars, callVars
<1>2. CASE Construct
  <2>1. CASE F!Returned(TRUE)
    BY <1>2, <2>1 DEF Construct, F!Returned, NoProcess, F!fileVars, callVars
  <2>2. CASE F!Crash /\ NoProcess
    BY <1>0, <2>2 DEF F!Crash, F!StreamGone, NoProcess, F!fileVars
  <2> QED
    BY <1>2, <2>1, <2>2 DEF Construct
<1>3. CASE ReplayRecord
  <2>1. /\ Size(os, pos) \in {8, 9} /\ pos + Size(os, pos) <= Len(os)
    BY <1>3, WholeMeans DEF ReplayRecord
  <2>2. pos + 3 \in 1..Len(os)
    BY <2>1
  <2>3. os[pos + 3] \in Cell
    BY <2>2
  <2>4. os[pos + 3].rec.index \in Nat
    BY <2>3 DEF Cell, Record
  <2> QED
    BY <1>3, <2>1, <2>4 DEF ReplayRecord, fileVars
<1>4. CASE RecoverEnd
  BY <1>4 DEF RecoverEnd, Recovered, fileVars
<1>5. CASE CutTail
  <2>1. SubSeq(os, 1, pos) \in Seq(Cell)
    BY <1>5, SubSeqProperties DEF CutTail
  <2> QED
    BY <1>5, <2>1 DEF CutTail
<1>6. CASE Repaired
  <2>1. CASE F!Returned(TRUE) /\ Recovered /\ UNCHANGED <<index, req, given, acked, sound>>
    BY <2>1 DEF Recovered, F!Returned, F!fileVars
  <2>2. CASE F!Crash /\ NoProcess
    BY <1>0, <2>2 DEF F!Crash, F!StreamGone, NoProcess, F!fileVars
  <2> QED
    BY <1>6, <2>1, <2>2 DEF Repaired
<1>7. CASE GiveField
  <2>1. req \in Record /\ given < Len(FieldsOf(req)) /\ given + 1 \in 1..Len(FieldsOf(req))
    BY <1>7, CellsAre, FieldsAre DEF GiveField
  <2>2. Cells(req)[given + 1] \in Cell
    BY <2>1, CellsAre
  <2>3. Append(buf, Cells(req)[given + 1]) \in Seq(Cell)
    BY <2>2, AppendProperties
  <2>4. given + 1 <= Len(FieldsOf(req))
    BY <2>1
  <2> QED
    BY <1>7, <2>1, <2>3, <2>4 DEF GiveField, F!WriteBytes, F!fileVars
<1>8. CASE GiveFails
  BY <1>8 DEF GiveFails, F!WriteBytesFails, Latch, F!fileVars
<1>9. CASE PushFields
  <2>1. PICK n \in 1..Len(buf) : /\ os' = os \o SubSeq(buf, 1, n)
                                 /\ buf' = SubSeq(buf, n + 1, Len(buf))
    BY <1>9 DEF PushFields, F!Push
  <2>2. /\ SubSeq(buf, 1, n) \in Seq(Cell) /\ SubSeq(buf, n + 1, Len(buf)) \in Seq(Cell)
    BY SubSeqProperties
  <2>3. os \o SubSeq(buf, 1, n) \in Seq(Cell)
    BY <2>2, ConcatProperties
  <2> QED
    BY <1>9, <2>1, <2>2, <2>3 DEF PushFields, F!Push, callVars
<1>10. CASE SyncRecord
  BY <1>10 DEF SyncRecord, F!SyncFile, F!fileVars, callVars
<1>11. CASE WriteReturns
  BY <1>11 DEF WriteReturns, Latch, F!Returned, F!fileVars, callVars
<1>12. CASE Truncated
  BY <1>12 DEF Truncated, F!Returned, F!fileVars, callVars
<1>13. CASE HelperStep
  BY <1>13 DEF HelperStep, F!Helper, F!Flushed, F!FlushFails, F!Fsynced, F!FsyncFails,
     F!DirOpened, F!DirOpenFails, F!DirFsynced, F!DirFsyncFails, F!DirClosed, F!Interrupted,
     F!fileVars, callVars
<1>14. CASE index < MaxIndex /\ \E call \in Calls[index] : Write(call[1], call[2])
  <2>1. PICK call \in Calls[index] : Write(call[1], call[2])
    BY <1>14
  <2>2. Calls[index] \in SUBSET (Key \X (Val \cup {Tomb}))
    BY <1>14, CallsAssumption, BoundAssumption
  <2>3. call[1] \in Key /\ call[2] \in Val \cup {Tomb}
    BY <2>2
  <2>4. [index |-> index, key |-> call[1], val |-> call[2]] \in Record
    BY <2>3 DEF Record
  <2>5. Len(FieldsOf(req')) \in {8, 9}
    BY FieldsAre
  <2> QED
    BY <2>1, <2>4, <2>5 DEF Write, fileVars
<1>15. CASE Truncate
  BY <1>0, <1>15 DEF Truncate, callVars
<1>16. CASE TruncateFails
  BY <1>16 DEF TruncateFails, fileVars, callVars
<1>17. CASE Crash
  BY <1>0, <1>17 DEF Crash, F!Crash, F!StreamGone, NoProcess, F!fileVars
<1>18. CASE PowerLoss
  BY <1>0, <1>18 DEF PowerLoss, F!PowerLoss, F!StreamGone, NoProcess
<1>19. CASE WriteBack
  BY <1>19 DEF WriteBack, F!WriteBack, callVars
<1>20. CASE Damage
  <2>1. PICK i \in DOMAIN os, is \in {"legal", "wild"} : os' = [os EXCEPT ![i].is = is]
    BY <1>20 DEF Damage
  <2>2. os[i] \in Cell
    OBVIOUS
  <2>3. [os[i] EXCEPT !.is = is] \in Cell
    BY <2>2 DEF Cell
  <2>4. [os EXCEPT ![i] = [os[i] EXCEPT !.is = is]] \in Seq(Cell)
    BY <2>3, ExceptSeq
  <2> QED
    BY <1>20, <2>1, <2>4 DEF Damage, callVars
<1>21. CASE UNCHANGED vars
  BY <1>21 DEF vars, fileVars, callVars
<1> QED
  BY <1>1, <1>2, <1>3, <1>4, <1>5, <1>6, <1>7, <1>8, <1>9, <1>10, <1>11, <1>12, <1>13, <1>14,
     <1>15, <1>16, <1>17, <1>18, <1>19, <1>20, <1>21 DEF Next, Step, Environment

-----------------------------------------------------------------------------
(* What recover() has passed is as it was written.                         *)

Undamaged ==
    /\ pc \in {"none", "opened"} => pos = 0
    /\ pc = "recover" => \A i \in 1..pos : os[i].is = "asWritten"

\* Nothing is passed at first.
LEMMA InitUndamaged == Init => Undamaged
  BY DEF Init, Undamaged

\* recover() passes no record that is damaged.
LEMMA NextUndamaged == CallOK /\ Types /\ Undamaged /\ [Next]_vars => Undamaged'
<1> SUFFICES ASSUME CallOK, Types, Undamaged, [Next]_vars PROVE Undamaged'
  OBVIOUS
<1> USE DEF Undamaged
<1>1. CASE Open
  BY <1>1 DEF Open, callVars
<1>2. CASE Construct
  <2>1. pos' = 0 /\ pc = "opened"
    BY <1>2 DEF Construct, NoProcess, callVars
  <2> QED
    BY <2>1
<1>3. CASE ReplayRecord
  <2>1. /\ Size(os, pos) \in {8, 9}
        /\ \A i \in 1..Size(os, pos) : os[pos + i].is = "asWritten"
    BY <1>3, WholeMeans DEF ReplayRecord, Types
  <2>2. os' = os /\ pos' = pos + Size(os, pos) /\ pc = "recover" /\ pc' = "recover"
    BY <1>3 DEF ReplayRecord, fileVars
  <2>3. ASSUME NEW i \in 1..pos' PROVE os[i].is = "asWritten"
    <3>1. CASE i \in 1..pos
      BY <2>2, <3>1
    <3>2. CASE i \notin 1..pos
      <4>1. i - pos \in 1..Size(os, pos) /\ pos + (i - pos) = i
        BY <2>1, <2>2, <3>2 DEF Types
      <4>2. os[pos + (i - pos)].is = "asWritten"
        BY <2>1, <4>1
      <4> QED
        BY <4>1, <4>2
    <3> QED
      BY <3>1, <3>2
  <2> QED
    BY <2>2, <2>3
<1>4. CASE RecoverEnd \/ Repaired
  BY <1>4 DEF RecoverEnd, Repaired, Recovered, NoProcess
<1>5. CASE CutTail
  BY <1>5 DEF CutTail
<1>6. CASE GiveField \/ PushFields \/ GiveFails \/ SyncRecord \/ WriteReturns
  BY <1>6 DEF GiveField, PushFields, GiveFails, SyncRecord, WriteReturns, Latch, callVars
<1>7. CASE HelperStep
  <2>1. io # "none" /\ os' = os /\ pc' = pc /\ pos' = pos
    BY <1>7 DEF HelperStep, F!Helper, F!Flushed, F!FlushFails, F!Fsynced, F!FsyncFails,
       F!DirOpened, F!DirOpenFails, F!DirFsynced, F!DirFsyncFails, F!DirClosed, F!Interrupted,
       F!fileVars, callVars
  <2> QED
    BY <2>1
<1>8. CASE \E call \in Calls[index] : Write(call[1], call[2])
  BY <1>8 DEF Write
<1>9. CASE Truncate \/ TruncateFails \/ Truncated
  BY <1>9 DEF Truncate, TruncateFails, Truncated, callVars
<1>10. CASE Crash \/ PowerLoss
  BY <1>10 DEF Crash, PowerLoss, NoProcess
<1>11. CASE WriteBack \/ UNCHANGED vars
  BY <1>11 DEF WriteBack, F!WriteBack, vars, fileVars, callVars
<1>12. CASE Damage
  BY <1>12 DEF Damage, callVars
<1> QED
  BY <1>1, <1>2, <1>3, <1>4, <1>5, <1>6, <1>7, <1>8, <1>9, <1>10, <1>11, <1>12
     DEF Next, Step, Environment

\* Whatever is damaged and wherever the file ends, what is replayed is as it was
\* written.
THEOREM DamageIsNoticed == Spec => []NothingDamagedReplayed
<1>1. Init => CallOK /\ Types /\ Undamaged
  BY InitCallOK, InitTypes, InitUndamaged
<1>2. CallOK /\ Types /\ Undamaged /\ [Next]_vars => (CallOK /\ Types /\ Undamaged)'
  BY NextCallOK, NextTypes, NextUndamaged
<1>3. Undamaged => NothingDamagedReplayed
  BY DEF Undamaged, NothingDamagedReplayed
<1> QED
  BY <1>1, <1>2, <1>3, PTL DEF Spec

-----------------------------------------------------------------------------
(* The cells of a file that was written and cut, whether or not one of     *)
(* them has gone bad since.                                                *)

\* c is the n-th cell of its record, the last one of it.
Nth(c, n) == n \in 1..Len(FieldsOf(c.rec)) /\ c.field = FieldsOf(c.rec)[n]
EndOf(c) == Nth(c, Len(FieldsOf(c.rec)))

\* d may follow c.
Link(c, d) ==
    \/ EndOf(c) /\ Nth(d, 1)
    \/ d.rec = c.rec /\ \E n \in Nat : Nth(c, n) /\ Nth(d, n + 1)

\* Records one after the other, the last of which may be cut short.
Chained(f) ==
    /\ Len(f) > 0 => Nth(f[1], 1)
    /\ \A i \in 1..Len(f) : i + 1 \in 1..Len(f) => Link(f[i], f[i + 1])

\* None of them has gone bad.
Intact(f) == \A i \in 1..Len(f) : f[i].is = "asWritten"

\* The file is whole records up to at.
Ends(f, at) == at = 0 \/ (at \in 1..Len(f) /\ EndOf(f[at]))

\* A cell has one place in its record.
LEMMA NthIsOne ==
  ASSUME NEW c, NEW n, NEW m, Nth(c, n), Nth(c, m)
  PROVE  n = m
<1>1. /\ n \in 1..Len(FieldsOf(c.rec)) /\ m \in 1..Len(FieldsOf(c.rec))
      /\ FieldsOf(c.rec)[n] = FieldsOf(c.rec)[m]
  BY DEF Nth
<1> QED
  BY <1>1, FieldsAre

\* An intact cell is the one that was written there.
LEMMA NthIntact ==
  ASSUME NEW c \in Cell, NEW n, Nth(c, n), c.is = "asWritten"
  PROVE  c = Cells(c.rec)[n]
<1>1. c = [field |-> c.field, rec |-> c.rec, is |-> c.is]
  BY DEF Cell
<1>2. n \in 1..Len(FieldsOf(c.rec)) /\ c.field = FieldsOf(c.rec)[n]
  BY DEF Nth
<1> DEFINE x == [field |-> FieldsOf(c.rec)[n], rec |-> c.rec, is |-> "asWritten"]
<1>3. Cells(c.rec)[n] = x
  BY <1>2, CellsAre
<1>4. c = x
  BY <1>1, <1>2
<1> HIDE DEF x
<1> QED
  BY <1>3, <1>4

\* The cells of a record come in their places.
LEMMA NthOfCells ==
  ASSUME NEW r, NEW n \in 1..Len(FieldsOf(r))
  PROVE  Nth(Cells(r)[n], n) /\ Cells(r)[n].rec = r
<1>1. Cells(r)[n].field = FieldsOf(r)[n] /\ Cells(r)[n].rec = r
  BY CellsAre
<1> QED
  BY <1>1 DEF Nth

\* From the end of a record on, the cells that are there are those of the next.
LEMMA NextRecord ==
  ASSUME NEW f, Len(f) \in Nat, Chained(f), NEW at \in Nat, Ends(f, at), at < Len(f),
         NEW r, r = f[at + 1].rec
  PROVE  \A i \in 1..Len(FieldsOf(r)) : at + i <= Len(f) => Nth(f[at + i], i) /\ f[at + i].rec = r
<1> DEFINE n == Len(FieldsOf(r))
<1>0. n \in Nat /\ n > 0
  BY FieldsAre
<1> DEFINE Is(i) == Nth(f[at + i], i) /\ f[at + i].rec = r
<1> DEFINE S == {m \in Nat : \A i \in 1..m : i <= n /\ at + i <= Len(f) => Is(i)}
<1>1. 0 \in S
  OBVIOUS
<1>2. Is(1)
  <2>1. Nth(f[at + 1], 1)
    <3>1. CASE at = 0
      BY <3>1 DEF Chained
    <3>2. CASE at # 0
      <4>1. at \in 1..Len(f) /\ at + 1 \in 1..Len(f) /\ EndOf(f[at])
        BY <3>2 DEF Ends
      <4>2. CASE EndOf(f[at]) /\ Nth(f[at + 1], 1)
        BY <4>2
      <4>3. CASE f[at + 1].rec = f[at].rec /\ \E m \in Nat : Nth(f[at], m) /\ Nth(f[at + 1], m + 1)
        <5>1. PICK m \in Nat : Nth(f[at], m) /\ Nth(f[at + 1], m + 1)
          BY <4>3
        <5>2. m = Len(FieldsOf(r))
          BY <4>1, <4>3, <5>1, NthIsOne DEF EndOf
        <5>3. m + 1 <= Len(FieldsOf(r))
          BY <5>1 DEF Nth
        <5> QED
          BY <1>0, <5>2, <5>3
      <4> QED
        BY <4>1, <4>2, <4>3 DEF Chained, Link
    <3> QED
      BY <3>1, <3>2
  <2> QED
    BY <2>1
<1>3. ASSUME NEW m \in S PROVE m + 1 \in S
  <2>1. m \in Nat
    OBVIOUS
  <2>2. ASSUME m # 0, m + 1 <= n, at + (m + 1) <= Len(f)
        PROVE  Is(m + 1)
    <3>1. /\ at + m \in 1..Len(f) /\ (at + m) + 1 \in 1..Len(f) /\ m \in 1..n /\ m <= n
          /\ (at + m) + 1 = at + (m + 1) /\ at + m <= Len(f) /\ m \in 1..m
      BY <1>0, <2>1, <2>2
    <3>3. Nth(f[at + m], m) /\ f[at + m].rec = r
      BY <3>1
    <3>4. Link(f[at + m], f[(at + m) + 1])
      BY <3>1 DEF Chained
    <3>5. ~ EndOf(f[at + m])
      <4> SUFFICES ASSUME EndOf(f[at + m]) PROVE FALSE
        OBVIOUS
      <4>1. m = n
        BY <3>3, NthIsOne DEF EndOf
      <4> QED
        BY <1>0, <2>1, <2>2, <4>1
    <3>6. PICK k \in Nat : Nth(f[at + m], k) /\ Nth(f[(at + m) + 1], k + 1)
      BY <3>4, <3>5 DEF Link
    <3>7. f[(at + m) + 1].rec = r
      BY <3>3, <3>4, <3>5 DEF Link
    <3>8. k = m
      BY <3>3, <3>6, NthIsOne
    <3> QED
      BY <3>1, <3>6, <3>7, <3>8
  <2>3. \A i \in 1..(m + 1) : i \in 1..m \/ i = m + 1
    BY <2>1
  <2>4. CASE m = 0
    <3>1. m + 1 = 1 /\ \A i \in 1..1 : i = 1
      BY <2>4
    <3>2. 1 \in S
      BY <1>2, <3>1
    <3> QED
      BY <3>1, <3>2
  <2>5. CASE m # 0
    BY <2>1, <2>2, <2>3, <2>5
  <2> QED
    BY <2>4, <2>5
<1> HIDE DEF S
<1>4. S = Nat
  <2>1. S \in SUBSET Nat
    BY DEF S
  <2> QED
    BY <1>1, <1>3, <2>1, Everything
<1>5. n \in S /\ \A i \in 1..n : i <= n
  BY <1>0, <1>4
<1> QED
  BY <1>5 DEF S

\* So it passes every check, if it is there and none of its cells has gone bad.
LEMMA UndamagedPasses ==
  ASSUME NEW f \in Seq(Cell), Chained(f), Intact(f), NEW at \in Nat, Ends(f, at), at < Len(f),
         NEW r, r = f[at + 1].rec
  PROVE  Outcome(f, at) = IF at + Len(FieldsOf(r)) <= Len(f) THEN "whole" ELSE "torn_tail"
<1> DEFINE n == Len(FieldsOf(r))
<1>0. n \in {8, 9} /\ Len(Header) = 6 /\ Len(f) \in Nat
  BY FieldsAre
<1>1. ASSUME NEW i \in 1..n, at + i <= Len(f) PROVE f[at + i] = Cells(r)[i]
  <2>1. Nth(f[at + i], i) /\ f[at + i].rec = r
    BY <1>0, <1>1, NextRecord
  <2>2. at + i \in 1..Len(f)
    BY <1>0, <1>1
  <2>3. f[at + i] \in Cell /\ f[at + i].is = "asWritten"
    BY <2>2 DEF Intact
  <2> QED
    BY <2>1, <2>3, NthIntact
<1>c. /\ DOMAIN Cells(r) = 1..n
      /\ \A i \in 1..n : /\ Cells(r)[i].field = FieldsOf(r)[i] /\ Cells(r)[i].rec = r
                         /\ Cells(r)[i].is = "asWritten" /\ Nth(Cells(r)[i], i)
  <2>1. \A i \in 1..n : Nth(Cells(r)[i], i)
    BY NthOfCells
  <2>2. /\ DOMAIN Cells(r) = 1..n
        /\ \A i \in 1..n : /\ Cells(r)[i].field = FieldsOf(r)[i] /\ Cells(r)[i].rec = r
                           /\ Cells(r)[i].is = "asWritten"
    BY CellsAre
  <2> QED
    BY <2>1, <2>2
<1>d. \A i \in 1..6 : FieldsOf(r)[i] = Fields[i]
  BY FieldsAre
<1>e. n = Len(FieldsOf(r))
  OBVIOUS
<1> HIDE DEF n
<1>2. at + 6 <= Len(f) => Size(f, at) = n
  <2> SUFFICES ASSUME at + 6 <= Len(f) PROVE Size(f, at) = n
    OBVIOUS
  <2>1. 6 \in 1..n
    BY <1>0
  <2>2. f[at + 6].rec = r
    BY <1>1, <1>c, <2>1
  <2> QED
    BY <1>0, <1>e, <2>2 DEF Size
<1>3. ASSUME NEW i \in 1..n, at + i <= Len(f), i > 6 => Size(f, at) = n PROVE Passes(f, at, i)
  <2>1. \A j \in 1..i : j \in 1..n /\ at + j <= Len(f)
    BY <1>0, <1>3
  <2>2. ASSUME NEW first \in 1..i PROVE SameRecord(f, at, first, i)
    <3>1. f[at + i].rec = r
      BY <1>1, <1>3, <1>c
    <3>2. \A j \in first..i : j \in DOMAIN Cells(r) /\ f[at + j] = Cells(r)[j]
      BY <1>0, <1>1, <1>c, <2>1
    <3> QED
      BY <3>1, <3>2 DEF SameRecord
  <2>3. f[at + i].is = "asWritten" /\ f[at + i].field = FieldsOf(r)[i]
    BY <1>1, <1>3, <1>c
  <2>4. i <= 6 => f[at + i].field = Fields[i]
    BY <1>d, <2>3
  <2>5. CASE i <= 4
    BY <1>0, <2>3, <2>4, <2>5 DEF Passes
  <2>6. CASE i = 6
    <3>1. SameRecord(f, at, 2, 6)
      BY <2>2, <2>6
    <3> QED
      BY <1>0, <2>6, <3>1 DEF Passes, HeaderFits
  <2>7. CASE i > 6
    <3>1. SameRecord(f, at, 6, i)
      BY <2>2, <2>7
    <3> QED
      BY <1>0, <2>7, <3>1 DEF Passes, RecordFits
  <2>8. CASE i = 5
    BY <1>0, <2>8 DEF Passes
  <2> QED
    BY <1>0, <2>5, <2>6, <2>7, <2>8
<1>4. CASE at + n <= Len(f)
  <2>1. at + 6 <= Len(f) /\ Size(f, at) = n
    BY <1>0, <1>2, <1>4
  <2>2. Stops(f, at) = {i \in 1..n : at + i > Len(f) \/ ~Passes(f, at, i)}
    BY <1>0, <2>1 DEF Stops
  <2>3. \A i \in 1..n : at + i <= Len(f) /\ ~ (at + i > Len(f))
    BY <1>0, <1>4
  <2>4. Stops(f, at) = {}
    BY <1>3, <2>1, <2>2, <2>3
  <2>5. Outcome(f, at) = "whole"
    BY <2>4 DEF Outcome
  <2> QED
    BY <1>4, <1>e, <2>5
<1>5. CASE ~ (at + n <= Len(f))
  <2> DEFINE last == IF at + 6 > Len(f) THEN 6 ELSE n
  <2>1. Stops(f, at) = {i \in 1..last : at + i > Len(f) \/ ~Passes(f, at, i)}
    BY <1>0, <1>2 DEF Stops
  <2>2. last \in 1..n /\ last \in Nat /\ at + last > Len(f) /\ last \in 1..last
        /\ (last > 6 => Size(f, at) = n)
    BY <1>0, <1>2, <1>5
  <2> HIDE DEF last
  <2>3. last \in Stops(f, at)
    BY <2>1, <2>2
  <2>4. Min(Stops(f, at)) \in Stops(f, at)
    BY <2>3, MinIsLeast, StopsAreNumbers
  <2>5. ASSUME NEW i \in Stops(f, at) PROVE at + i > Len(f)
    <3>1. i \in 1..last /\ (at + i > Len(f) \/ ~Passes(f, at, i))
      BY <2>1
    <3>2. i \in 1..n /\ (i > 6 => Size(f, at) = n)
      BY <1>0, <2>2, <3>1
    <3>3. at + i <= Len(f) => Passes(f, at, i)
      BY <1>3, <3>2
    <3> QED
      BY <3>1, <3>2, <3>3
  <2>6. Outcome(f, at) = "torn_tail"
    BY <2>3, <2>4, <2>5 DEF Outcome
  <2> QED
    BY <1>5, <1>e, <2>6
<1> QED
  BY <1>4, <1>5

\* A record that is replayed ends where its fields do.
LEMMA WholeEnds ==
  ASSUME NEW f, Len(f) \in Nat, Chained(f), NEW at \in Nat, Ends(f, at),
         Outcome(f, at) = "whole"
  PROVE  /\ at < Len(f) /\ Size(f, at) = Len(FieldsOf(f[at + 1].rec))
         /\ Ends(f, at + Size(f, at))
<1> DEFINE r == f[at + 1].rec
<1> DEFINE n == Len(FieldsOf(r))
<1>1. Size(f, at) \in {8, 9} /\ at + Size(f, at) <= Len(f)
  BY WholeMeans
<1>2. n \in {8, 9} /\ Len(Header) = 6 /\ at < Len(f)
  BY <1>1, FieldsAre
<1>3. \A i \in 1..n : at + i <= Len(f) => Nth(f[at + i], i) /\ f[at + i].rec = r
  BY <1>2, NextRecord
<1> HIDE DEF r
<1>4. 6 \in 1..n /\ at + 6 <= Len(f)
  <2> HIDE DEF n
  <2> QED
    BY <1>1, <1>2
<1>5. Size(f, at) = n
  BY <1>2, <1>3, <1>4 DEF Size
<1>6. Nth(f[at + n], n) /\ f[at + n].rec = r /\ at + n \in 1..Len(f)
  <2>1. n \in 1..n /\ at + n <= Len(f) /\ at + n \in 1..Len(f)
    <3> HIDE DEF n
    <3> QED
      BY <1>1, <1>2, <1>5
  <2> QED
    BY <1>3, <2>1
<1> QED
  BY <1>2, <1>5, <1>6 DEF Ends, EndOf, r

\* One that is called torn is not all there, whatever has gone bad in it.
LEMMA TornIsShort ==
  ASSUME NEW f, Len(f) \in Nat, Chained(f), NEW at \in Nat, Ends(f, at), at < Len(f),
         Outcome(f, at) = "torn_tail"
  PROVE  at + Len(FieldsOf(f[at + 1].rec)) > Len(f)
<1> DEFINE r == f[at + 1].rec
<1> DEFINE n == Len(FieldsOf(r))
<1>1. n \in {8, 9} /\ Len(Header) = 6
  BY FieldsAre
<1>2. \A i \in 1..n : at + i <= Len(f) => Nth(f[at + i], i) /\ f[at + i].rec = r
  BY NextRecord
<1>3. Stops(f, at) # {} /\ at + Min(Stops(f, at)) > Len(f)
  BY DEF Outcome
<1>4. Min(Stops(f, at)) \in Stops(f, at) /\ Stops(f, at) \in SUBSET Nat
  BY <1>3, MinIsLeast, StopsAreNumbers
<1> HIDE DEF r
<1>5. SUFFICES ASSUME at + n <= Len(f) PROVE FALSE
  <2> HIDE DEF n
  <2>1. ~ (at + n <= Len(f)) => at + n > Len(f)
    BY <1>1
  <2> QED
    BY <1>5, <2>1 DEF n, r
<1>6. 6 \in 1..n /\ at + 6 <= Len(f)
  <2> HIDE DEF n
  <2> QED
    BY <1>1, <1>5
<1>7. Size(f, at) = n
  BY <1>1, <1>2, <1>6 DEF Size
<1> HIDE DEF n
<1>8. Stops(f, at) \subseteq 1..n
  BY <1>1, <1>6, <1>7 DEF Stops
<1>9. Min(Stops(f, at)) \in 1..n
  BY <1>4, <1>8
<1> QED
  BY <1>1, <1>3, <1>5, <1>9

\* Damage does not change what a cell is.
LEMMA ChainedDamaged ==
  ASSUME NEW f, NEW g, Len(f) \in Nat, Len(g) = Len(f), Chained(f),
         \A i \in 1..Len(f) : g[i].field = f[i].field /\ g[i].rec = f[i].rec
  PROVE  Chained(g)
<1>1. \A i \in 1..Len(f) : \A n : Nth(g[i], n) <=> Nth(f[i], n)
  BY DEF Nth
<1>2. \A i \in 1..Len(f) : EndOf(g[i]) <=> EndOf(f[i])
  BY <1>1 DEF EndOf
<1>3. Len(g) > 0 => Nth(g[1], 1)
  <2>1. Len(g) > 0 => 1 \in 1..Len(f) /\ Nth(f[1], 1)
    BY DEF Chained
  <2> QED
    BY <1>1, <2>1
<1>4. ASSUME NEW i \in 1..Len(g), i + 1 \in 1..Len(g) PROVE Link(g[i], g[i + 1])
  <2>1. i \in 1..Len(f) /\ i + 1 \in 1..Len(f) /\ Link(f[i], f[i + 1])
    BY <1>4 DEF Chained
  <2> QED
    BY <1>1, <1>2, <2>1 DEF Link
<1> QED
  BY <1>3, <1>4 DEF Chained

\* What a chain begins with is a chain.
LEMMA ChainedPrefix ==
  ASSUME NEW f, NEW g, Len(f) \in Nat, Len(g) \in Nat, Len(f) <= Len(g),
         \A i \in 1..Len(f) : f[i] = g[i], Chained(g)
  PROVE  Chained(f)
<1>1. Len(f) > 0 => Nth(f[1], 1)
  <2> SUFFICES ASSUME Len(f) > 0 PROVE Nth(f[1], 1)
    OBVIOUS
  <2>1. Len(g) > 0 /\ 1 \in 1..Len(f)
    OBVIOUS
  <2> QED
    BY <2>1 DEF Chained
<1>2. ASSUME NEW i \in 1..Len(f), i + 1 \in 1..Len(f) PROVE Link(f[i], f[i + 1])
  <2>1. i \in 1..Len(g) /\ i + 1 \in 1..Len(g) /\ f[i] = g[i] /\ f[i + 1] = g[i + 1]
    BY <1>2
  <2> QED
    BY <2>1 DEF Chained
<1> QED
  BY <1>1, <1>2 DEF Chained

\* A chain goes on with a first cell after a whole record, or with the cell
\* that comes next.
LEMMA ChainedAppend ==
  ASSUME NEW f \in Seq(Cell), NEW c \in Cell, Chained(f),
         \/ Ends(f, Len(f)) /\ Nth(c, 1)
         \/ Len(f) > 0 /\ Link(f[Len(f)], c)
  PROVE  Chained(Append(f, c))
<1> DEFINE g == Append(f, c)
<1>1. /\ Len(f) \in Nat /\ Len(g) = Len(f) + 1 /\ g[Len(f) + 1] = c
      /\ \A i \in 1..Len(f) : g[i] = f[i]
  BY AppendProperties
<1> HIDE DEF g
<1>2. Len(f) > 0 => Link(f[Len(f)], c)
  BY <1>1 DEF Ends, Link
<1>3. Nth(g[1], 1)
  <2>1. CASE Len(f) = 0
    BY <1>1, <2>1
  <2>2. CASE Len(f) # 0
    <3>1. 1 \in 1..Len(f) /\ Len(f) > 0
      BY <1>1, <2>2
    <3> QED
      BY <1>1, <3>1 DEF Chained
  <2> QED
    BY <2>1, <2>2
<1>4. ASSUME NEW i \in 1..Len(g), i + 1 \in 1..Len(g) PROVE Link(g[i], g[i + 1])
  <2>1. i \in 1..Len(f) /\ g[i] = f[i]
    BY <1>1, <1>4
  <2>2. CASE i = Len(f)
    BY <1>1, <1>2, <2>1, <2>2
  <2>3. CASE i # Len(f)
    <3>1. i + 1 \in 1..Len(f) /\ g[i + 1] = f[i + 1]
      BY <1>1, <2>1, <2>3
    <3> QED
      BY <2>1, <3>1 DEF Chained
  <2> QED
    BY <2>2, <2>3
<1>5. Chained(g)
  BY <1>3, <1>4 DEF Chained
<1> QED
  BY <1>5 DEF g

-----------------------------------------------------------------------------
(* The file with what stdio still holds.                                   *)

\* stdio holds nothing when no record is being written.
InBuffer ==
    /\ pc \in {"none", "opened", "recover", "repair", "truncate"} => buf = <<>>
    /\ pc = "ready" /\ ~latched => buf = <<>>
    /\ pc = "sync" /\ io \in {"fsync", "ok"} => buf = <<>>

\* The cells of the file, those that stdio still holds too.
All == os \o buf

\* They are records one after the other, the last of which may be cut short.
AllOK ==
    /\ Chained(All) /\ Chained(disk)
    /\ pc = "recover" => Ends(os, pos)
    /\ pc \in {"repair", "truncate"} \/ (pc = "ready" /\ ~latched) => Ends(os, Len(os))
    /\ pc = "append" =>
           IF given = 0 THEN Ends(All, Len(All))
           ELSE Len(All) > 0 /\ All[Len(All)] = Cells(req)[given] /\ given <= Len(FieldsOf(req))
    /\ pc = "sync" => Ends(All, Len(All))

\* What is appended to is not damaged: recover() has read it.
Read == pc \in {"repair", "truncate", "append", "sync"} \/ (pc = "ready" /\ ~latched)

IntactOK == (sound \/ Read => Intact(All)) /\ (sound => Intact(disk))

FileOK == InBuffer /\ AllOK /\ IntactOK

\* What the provers need of them as sequences.
AllFacts ==
    /\ Len(os) \in Nat /\ Len(buf) \in Nat /\ Len(disk) \in Nat
    /\ All \in Seq(Cell) /\ Len(All) = Len(os) + Len(buf)
    /\ \A i \in 1..Len(os) : All[i] = os[i]
    /\ buf = <<>> => All = os

\* What is in the file, on its way or in the buffer is one sequence of cells.
LEMMA AllIs == Types => AllFacts
<1> SUFFICES ASSUME Types PROVE AllFacts
  OBVIOUS
<1>1. buf \in Seq(Cell) /\ os \in Seq(Cell) /\ disk \in Seq(Cell)
  BY DEF Types
<1>2. /\ All \in Seq(Cell) /\ Len(All) = Len(os) + Len(buf)
      /\ \A i \in 1 .. Len(os) + Len(buf) : All[i] = IF i <= Len(os) THEN os[i] ELSE buf[i - Len(os)]
  BY <1>1, ConcatProperties DEF All
<1>3. Len(os) \in Nat /\ Len(buf) \in Nat /\ Len(disk) \in Nat
  BY <1>1
<1>4. buf = <<>> => All = os
  BY <1>1, ConcatEmptySeq DEF All
<1>5. \A i \in 1..Len(os) : All[i] = os[i]
  <2> TAKE i \in 1..Len(os)
  <2>1. i \in 1 .. Len(os) + Len(buf) /\ i <= Len(os)
    BY <1>3
  <2> QED
    BY <1>2, <2>1
<1> QED
  BY <1>2, <1>3, <1>4, <1>5 DEF AllFacts

\* The same in the next state.
LEMMA AllIsNext == Types' => AllFacts'
  BY AllIs, PTL

\* Cells that move from the head of a sequence to the end of the one before it
\* leave the whole as it is.
LEMMA Moved ==
  ASSUME NEW S, NEW s \in Seq(S), NEW t \in Seq(S), NEW n \in 1..Len(t)
  PROVE  (s \o SubSeq(t, 1, n)) \o SubSeq(t, n + 1, Len(t)) = s \o t
<1>1. Len(t) \in Nat /\ n \in Nat /\ n >= 1
  OBVIOUS
<1>2. SubSeq(t, 1, n) \in Seq(S) /\ SubSeq(t, n + 1, Len(t)) \in Seq(S)
  BY <1>1, SubSeqProperties
<1>3. SubSeq(t, 1, n) \o SubSeq(t, n + 1, Len(t)) = SubSeq(t, 1, Len(t))
  <2>1. 1 \in 1..Len(t) + 1 /\ n \in 1 - 1 .. Len(t) /\ Len(t) \in n .. Len(t)
    BY <1>1
  <2> QED
    BY <2>1, ConcatAdjacentSubSeq
<1>4. SubSeq(t, 1, Len(t)) = t
  BY SubSeqFull
<1>5. PICK u \in Seq(S) : u = SubSeq(t, 1, n)
  BY <1>2
<1>6. PICK v \in Seq(S) : v = SubSeq(t, n + 1, Len(t))
  BY <1>2
<1>7. u \o v = t
  BY <1>3, <1>4, <1>5, <1>6
<1>8. (s \o u) \o v = s \o (u \o v)
  BY ConcatAssociative
<1>9. (s \o u) \o v = s \o t
  BY <1>7, <1>8
<1> QED
  BY <1>5, <1>6, <1>9

\* stdio handing cells on changes neither.
LEMMA PushedAll == Types /\ F!Push => All' = All
<1> SUFFICES ASSUME Types, F!Push PROVE All' = All
  OBVIOUS
<1>1. PICK n \in 1..Len(buf) : /\ os' = os \o SubSeq(buf, 1, n)
                               /\ buf' = SubSeq(buf, n + 1, Len(buf))
  BY DEF F!Push
<1>2. buf \in Seq(Cell) /\ os \in Seq(Cell)
  BY DEF Types
<1>3. (os \o SubSeq(buf, 1, n)) \o SubSeq(buf, n + 1, Len(buf)) = os \o buf
  BY <1>2, Moved
<1> QED
  BY <1>1, <1>3 DEF All

\* The empty file at first.
LEMMA InitFileOK == Init => FileOK
<1> SUFFICES ASSUME Init PROVE FileOK
  OBVIOUS
<1>1. /\ pc = "none" /\ buf = <<>> /\ os = <<>> /\ disk = <<>>
  BY DEF Init, F!Init
<1>2. Types
  BY InitTypes
<1>3. All = <<>>
  BY <1>1, <1>2, AllIs DEF AllFacts
<1>4. Len(<<>>) = 0
  OBVIOUS
<1> QED
  BY <1>1, <1>3, <1>4 DEF FileOK, InBuffer, AllOK, IntactOK, Intact, Chained

\* The stream buffer holds what the call in progress gave it.
LEMMA NextInBuffer == CallOK /\ InBuffer /\ [Next]_vars => InBuffer'
<1> SUFFICES ASSUME CallOK, InBuffer, [Next]_vars PROVE InBuffer'
  OBVIOUS
<1> USE DEF CallOK, Helping, SyncStates, DirStates, InBuffer
<1>1. CASE Open
  BY <1>1 DEF Open, F!SyncParentDirectory, F!fileVars
<1>2. CASE Construct
  BY <1>2 DEF Construct, F!Returned, F!Crash, F!StreamGone, NoProcess, F!fileVars
<1>3. CASE ReplayRecord \/ RecoverEnd \/ TruncateFails \/ UNCHANGED vars
  BY <1>3 DEF ReplayRecord, RecoverEnd, Recovered, TruncateFails, fileVars, vars
<1>4. CASE CutTail
  BY <1>4 DEF CutTail
<1>5. CASE Repaired
  BY <1>5 DEF Repaired, Recovered, F!Returned, F!Crash, F!StreamGone, NoProcess, F!fileVars
<1>6. CASE GiveField
  BY <1>6 DEF GiveField, F!WriteBytes
<1>7. CASE GiveFails
  BY <1>7 DEF GiveFails, F!WriteBytesFails, Latch
<1>8. CASE PushFields
  BY <1>8 DEF PushFields, F!Push
<1>9. CASE SyncRecord
  BY <1>9 DEF SyncRecord, F!SyncFile
<1>10. CASE WriteReturns
  BY <1>10 DEF WriteReturns, F!Returned, Latch, F!fileVars
<1>11. CASE Truncated
  BY <1>11 DEF Truncated, F!Returned, F!fileVars
<1>12. CASE HelperStep
  BY <1>12 DEF HelperStep, F!Helper, F!Flushed, F!FlushFails, F!Fsynced, F!FsyncFails,
     F!DirOpened, F!DirOpenFails, F!DirFsynced, F!DirFsyncFails, F!DirClosed, F!Interrupted
<1>13. CASE \E call \in Calls[index] : Write(call[1], call[2])
  BY <1>13 DEF Write, fileVars
<1>14. CASE Truncate
  BY <1>14 DEF Truncate
<1>15. CASE Crash \/ PowerLoss
  BY <1>15 DEF Crash, F!Crash, PowerLoss, F!PowerLoss, F!StreamGone, NoProcess
<1>16. CASE WriteBack \/ Damage
  BY <1>16 DEF WriteBack, F!WriteBack, Damage
<1> QED
  BY <1>1, <1>2, <1>3, <1>4, <1>5, <1>6, <1>7, <1>8, <1>9, <1>10, <1>11, <1>12, <1>13, <1>14,
     <1>15, <1>16 DEF Next, Step, Environment

\* Storage is sound or not for the whole of a behaviour.
LEMMA SoundStays == [Next]_vars => sound' = sound
<1>1. Step => sound' = sound
  BY DEF Step, Open, Construct, ReplayRecord, RecoverEnd, CutTail, Repaired, GiveField,
     GiveFails, PushFields, SyncRecord, WriteReturns, Truncated, HelperStep, NoProcess
<1>2. Environment => sound' = sound
  BY DEF Environment, Write, Truncate, TruncateFails, Crash, PowerLoss, WriteBack, Damage,
     NoProcess
<1> QED
  BY <1>1, <1>2 DEF Next, vars

\* A cell added to the second of two sequences is added to both.
LEMMA OneMore ==
  ASSUME NEW S, NEW s \in Seq(S), NEW t \in Seq(S), NEW c \in S
  PROVE  s \o Append(t, c) = Append(s \o t, c)
<1>1. /\ Append(t, c) \in Seq(S) /\ s \o t \in Seq(S) /\ Len(s) \in Nat /\ Len(t) \in Nat
  BY AppendProperties, ConcatProperties
<1>2. PICK u \in Seq(S) : u = s \o t
  BY <1>1
<1>3. PICK v \in Seq(S) : v = Append(t, c)
  BY <1>1
<1>4. /\ Len(v) = Len(t) + 1 /\ v[Len(t) + 1] = c /\ \A i \in 1..Len(t) : v[i] = t[i]
  BY <1>3, AppendProperties
<1>5. /\ Len(u) = Len(s) + Len(t)
      /\ \A i \in 1 .. Len(s) + Len(t) : u[i] = IF i <= Len(s) THEN s[i] ELSE t[i - Len(s)]
  BY <1>2, ConcatProperties
<1>6. /\ s \o v \in Seq(S) /\ Len(s \o v) = Len(s) + Len(v)
      /\ \A i \in 1 .. Len(s) + Len(v) : (s \o v)[i] = IF i <= Len(s) THEN s[i] ELSE v[i - Len(s)]
  BY ConcatProperties
<1>7. /\ Append(u, c) \in Seq(S) /\ Len(Append(u, c)) = Len(u) + 1
      /\ Append(u, c)[Len(u) + 1] = c /\ \A i \in 1..Len(u) : Append(u, c)[i] = u[i]
  BY AppendProperties
<1>8. PICK x \in Seq(S) : x = s \o v
  BY <1>6
<1>9. PICK y \in Seq(S) : y = Append(u, c)
  BY <1>7
<1>10. Len(x) = Len(y)
  BY <1>1, <1>4, <1>5, <1>6, <1>7, <1>8, <1>9
<1>11. ASSUME NEW i \in 1..Len(x) PROVE x[i] = y[i]
  <2>1. i \in 1..Len(s) \/ i - Len(s) \in 1..Len(t) \/ i = Len(s) + Len(t) + 1
    <3>1. Len(x) = Len(s) + Len(t) + 1
      BY <1>1, <1>4, <1>6, <1>8
    <3>2. i \in Nat /\ i >= 1 /\ i <= Len(s) + Len(t) + 1
      BY <1>1, <3>1
    <3>3. Len(s) \in Nat /\ Len(t) \in Nat
      BY <1>1
    <3>4. \A a, b, k \in Nat : k >= 1 /\ k <= a + b + 1 =>
              k \in 1..a \/ k - a \in 1..b \/ k = a + b + 1
      OBVIOUS
    <3> QED
      BY <3>2, <3>3, <3>4
  <2>2. CASE i \in 1..Len(s)
    <3>1. i \in 1 .. Len(s) + Len(v) /\ i \in 1 .. Len(s) + Len(t) /\ i <= Len(s) /\ i \in 1..Len(u)
      BY <1>1, <1>4, <1>5, <2>2
    <3> QED
      BY <1>5, <1>6, <1>7, <1>8, <1>9, <3>1
  <2>3. CASE i - Len(s) \in 1..Len(t)
    <3>1. /\ i \in 1 .. Len(s) + Len(v) /\ i \in 1 .. Len(s) + Len(t) /\ ~ (i <= Len(s))
          /\ i \in 1..Len(u)
      BY <1>1, <1>4, <1>5, <2>3
    <3>2. x[i] = v[i - Len(s)] /\ u[i] = t[i - Len(s)] /\ y[i] = u[i]
      BY <1>5, <1>6, <1>7, <1>8, <1>9, <3>1
    <3> QED
      BY <1>4, <2>3, <3>2
  <2>4. CASE i = Len(s) + Len(t) + 1
    <3>1. /\ i \in 1 .. Len(s) + Len(v) /\ ~ (i <= Len(s)) /\ i - Len(s) = Len(t) + 1
          /\ i = Len(u) + 1
      BY <1>1, <1>4, <1>5, <2>4
    <3> QED
      BY <1>4, <1>6, <1>7, <1>8, <1>9, <3>1
  <2> QED
    BY <2>1, <2>2, <2>3, <2>4
<1>12. x = y
  BY <1>10, <1>11, SeqEqual
<1> QED
  BY <1>2, <1>3, <1>8, <1>9, <1>12

\* What is known before a step, and of the sequences after it.
Before == CallOK /\ Types /\ Types' /\ Undamaged /\ AllOK /\ IntactOK
          /\ InBuffer /\ InBuffer' /\ AllFacts /\ AllFacts' /\ sound' = sound

\* What the system has is a prefix of all cells, so it is a chain.
LEMMA ChainedOs == AllFacts /\ Chained(All) => Chained(os)
<1> SUFFICES ASSUME AllFacts, Chained(All) PROVE Chained(os)
  OBVIOUS
<1>1. /\ Len(os) \in Nat /\ Len(All) \in Nat /\ Len(os) <= Len(All)
      /\ \A i \in 1..Len(os) : os[i] = All[i]
  BY DEF AllFacts
<1> QED
  BY <1>1, ChainedPrefix

\* An empty file is a chain, and ends with a whole record.
LEMMA EmptyIsChained == Chained(<<>>) /\ Ends(<<>>, Len(<<>>))
<1>1. Len(<<>>) = 0
  OBVIOUS
<1> QED
  BY <1>1 DEF Chained, Ends

\* write() gives the next field of the record.
LEMMA Given ==
  ASSUME Before, GiveField
  PROVE  \E c \in Cell :
            /\ c = Cells(req)[given + 1] /\ Nth(c, given + 1) /\ c.rec = req
            /\ All' = Append(All, c) /\ buf' = Append(buf, c)
            /\ given + 1 <= Len(FieldsOf(req)) /\ given' = given + 1
            /\ pc = "append" /\ pc' = "append" /\ req' = req /\ disk' = disk
            /\ Len(All') = Len(All) + 1 /\ All'[Len(All) + 1] = c
            /\ \A i \in 1..Len(All) : All'[i] = All[i]
<1> DEFINE n == Len(FieldsOf(req))
<1> DEFINE c == Cells(req)[given + 1]
<1>1. /\ pc = "append" /\ pc' = "append" /\ given < Len(Cells(req)) /\ given' = given + 1
      /\ req' = req /\ os' = os /\ disk' = disk /\ buf' = Append(buf, c)
  BY DEF GiveField, F!WriteBytes, F!fileVars
<1>2. req \in Record /\ given \in Nat /\ given < n /\ n \in {8, 9}
  BY <1>1, CellsAre, FieldsAre DEF Before, Types
<1>3. given + 1 \in 1..n /\ given + 1 <= n
  BY <1>2
<1>4. c \in Cell /\ Nth(c, given + 1) /\ c.rec = req
  BY <1>2, <1>3, CellsAre, NthOfCells
<1> HIDE DEF c
<1>5. All' = Append(All, c)
  <2>1. All' = os \o Append(buf, c)
    BY <1>1 DEF All
  <2>2. buf \in Seq(Cell) /\ os \in Seq(Cell)
    BY DEF Before, Types
  <2>3. os \o Append(buf, c) = Append(os \o buf, c)
    BY <1>4, <2>2, OneMore
  <2> QED
    BY <2>1, <2>3 DEF All
<1>6. All \in Seq(Cell)
  BY DEF Before, AllFacts
<1>7. /\ Len(All') = Len(All) + 1 /\ All'[Len(All) + 1] = c
      /\ \A i \in 1..Len(All) : All'[i] = All[i]
  BY <1>4, <1>5, <1>6, AppendProperties
<1>8. c = Cells(req)[given + 1]
  BY DEF c
<1> QED
  BY <1>1, <1>3, <1>4, <1>5, <1>7, <1>8

\* The record that is being written goes on where it stopped.
LEMMA GiveFieldAll == Before /\ GiveField => AllOK'
<1> SUFFICES ASSUME Before, GiveField PROVE AllOK'
  OBVIOUS
<1>1. PICK c \in Cell :
            /\ c = Cells(req)[given + 1] /\ Nth(c, given + 1) /\ c.rec = req
            /\ All' = Append(All, c)
            /\ given + 1 <= Len(FieldsOf(req)) /\ given' = given + 1
            /\ pc = "append" /\ pc' = "append" /\ req' = req /\ disk' = disk
            /\ Len(All') = Len(All) + 1 /\ All'[Len(All) + 1] = c
  BY Given
<1>2. All \in Seq(Cell) /\ Len(All) \in Nat /\ given \in Nat
  BY DEF Before, AllFacts, Types
<1>3. Chained(All')
  <2>1. CASE given = 0
    <3>1. Ends(All, Len(All)) /\ Nth(c, 1)
      BY <1>1, <2>1 DEF Before, AllOK
    <3> QED
      BY <1>1, <1>2, <3>1, ChainedAppend DEF Before, AllOK
  <2>2. CASE given # 0
    <3>1. Len(All) > 0 /\ All[Len(All)] = Cells(req)[given] /\ given <= Len(FieldsOf(req))
      BY <1>1, <2>2 DEF Before, AllOK
    <3>2. given \in 1..Len(FieldsOf(req))
      BY <1>2, <2>2, <3>1, FieldsAre
    <3>3. Nth(All[Len(All)], given) /\ All[Len(All)].rec = req
      BY <3>1, <3>2, NthOfCells
    <3>4. Link(All[Len(All)], c)
      BY <1>1, <1>2, <3>3 DEF Link
    <3> QED
      BY <1>1, <1>2, <3>1, <3>4, ChainedAppend DEF Before, AllOK
  <2> QED
    BY <2>1, <2>2
<1>4. Len(All') > 0 /\ All'[Len(All')] = Cells(req)[given + 1] /\ given' # 0
  BY <1>1, <1>2
<1> QED
  BY <1>1, <1>3, <1>4 DEF AllOK, Before

\* recover() passes a record, or cuts the file behind the last one.
LEMMA RecoverAll == Before /\ (ReplayRecord \/ CutTail) => AllOK'
<1> SUFFICES ASSUME Before, ReplayRecord \/ CutTail PROVE AllOK'
  OBVIOUS
<1>1. /\ pc = "recover" /\ buf = <<>> /\ All = os /\ Chained(os) /\ Chained(disk)
      /\ Ends(os, pos) /\ Len(os) \in Nat /\ pos \in Nat /\ os \in Seq(Cell)
  BY DEF Before, AllOK, InBuffer, AllFacts, ReplayRecord, CutTail, Types
<1>2. CASE ReplayRecord
  <2>1. /\ Size(os, pos) \in {8, 9} /\ pos + Size(os, pos) <= Len(os)
    BY <1>1, <1>2, WholeMeans DEF ReplayRecord
  <2>3. Ends(os, pos + Size(os, pos))
    BY <1>1, <1>2, WholeEnds DEF ReplayRecord
  <2>4. /\ pc' = "recover" /\ pos' = pos + Size(os, pos) /\ os' = os /\ buf' = buf
        /\ disk' = disk
    BY <1>1, <1>2 DEF ReplayRecord, fileVars
  <2>5. All' = os
    BY <1>1, <2>4 DEF All
  <2> QED
    BY <1>1, <2>3, <2>4, <2>5 DEF AllOK
<1>3. CASE CutTail
  <2>1. /\ pos < Len(os) /\ os' = SubSeq(os, 1, pos) /\ buf' = <<>> /\ disk' = disk
        /\ pc' = "repair"
    BY <1>1, <1>3 DEF CutTail
  <2>2. \A i \in 1..pos : os[i] \in Cell
    BY <1>1, <2>1
  <2>3. /\ Len(SubSeq(os, 1, pos)) = IF 1 <= pos THEN pos - 1 + 1 ELSE 0
        /\ \A i \in 1 .. pos - 1 + 1 : SubSeq(os, 1, pos)[i] = os[1 + i - 1]
    BY <1>1, <2>2, SubSeqProperties
  <2>4. Len(os') = pos /\ \A i \in 1..pos : os'[i] = os[i]
    BY <1>1, <2>1, <2>3
  <2>5. Chained(os')
    <3>1. /\ Len(os') \in Nat /\ Len(os') <= Len(os)
          /\ \A i \in 1..Len(os') : os'[i] = os[i]
      BY <1>1, <2>1, <2>4
    <3> QED
      BY <1>1, <3>1, ChainedPrefix
  <2>6. Ends(os', Len(os'))
    BY <1>1, <2>4 DEF Ends
  <2>7. All' = os'
    BY <2>1 DEF Before, AllFacts
  <2> QED
    BY <1>1, <2>1, <2>5, <2>6, <2>7 DEF AllOK
<1> QED
  BY <1>2, <1>3

\* A cell that goes bad stays where it is, of the record that it is of.
LEMMA DamageKeeps ==
  ASSUME Types, Damage
  PROVE  /\ Len(os') = Len(os)
         /\ \A i \in 1..Len(os) : os'[i].field = os[i].field /\ os'[i].rec = os[i].rec
<1>1. PICK i \in DOMAIN os : \E is : os' = [os EXCEPT ![i].is = is]
  BY DEF Damage
<1>2. PICK is : os' = [os EXCEPT ![i].is = is]
  BY <1>1
<1>3. os \in Seq(Cell) /\ DOMAIN os = 1..Len(os) /\ Len(os) \in Nat
  BY DEF Types
<1>4. os' = [j \in 1..Len(os) |-> IF j = i THEN [os[i] EXCEPT !.is = is] ELSE os[j]]
  BY <1>2, <1>3
<1>5. Len(os') = Len(os)
  BY <1>3, <1>4, LenProperties
<1>6. ASSUME NEW j \in 1..Len(os) PROVE os'[j].field = os[j].field /\ os'[j].rec = os[j].rec
  <2>1. os[j] \in Cell
    BY <1>3
  <2> QED
    BY <1>4, <2>1 DEF Cell
<1> QED
  BY <1>5, <1>6

\* Every step leaves the cells a chain.
LEMMA NextAllOK == Before /\ [Next]_vars => AllOK'
<1> SUFFICES ASSUME Before, [Next]_vars PROVE AllOK'
  OBVIOUS
<1>a. Chained(os) /\ Chained(All) /\ Chained(disk)
  BY ChainedOs DEF Before, AllOK
<1>b. buf = <<>> => All = os
  BY DEF Before, AllFacts
<1>c. os' = os /\ buf' = buf => All' = All
  BY DEF All
<1>d. buf' = <<>> => All' = os'
  BY DEF Before, AllFacts
<1>e. Chained(<<>>) /\ Ends(<<>>, Len(<<>>))
  BY EmptyIsChained
<1>1. CASE Open
  BY <1>1, <1>a, <1>c DEF Open, F!SyncParentDirectory, F!fileVars, AllOK
<1>2. CASE Construct
  <2>1. CASE F!Returned(TRUE) /\ pc' = "recover" /\ pos' = pos /\ pc = "opened"
    <3>1. pos = 0 /\ os' = os /\ buf' = buf /\ disk' = disk
      BY <2>1 DEF Before, Undamaged, F!Returned, F!fileVars
    <3> QED
      BY <1>a, <1>c, <2>1, <3>1 DEF AllOK, Ends
  <2>2. CASE F!Crash /\ NoProcess
    BY <1>a, <1>d, <2>2 DEF F!Crash, F!StreamGone, NoProcess, F!fileVars, AllOK
  <2> QED
    BY <1>2, <2>1, <2>2 DEF Construct, callVars
<1>3. CASE ReplayRecord \/ CutTail
  BY <1>3, RecoverAll
<1>4. CASE RecoverEnd
  <2>1. Ends(os, Len(os)) /\ os' = os /\ buf' = buf /\ disk' = disk /\ pc' = "ready"
    BY <1>4 DEF RecoverEnd, Recovered, fileVars, Before, AllOK
  <2> QED
    BY <1>a, <1>c, <2>1 DEF AllOK
<1>5. CASE Repaired
  <2>1. CASE F!Returned(TRUE) /\ Recovered
    <3>1. Ends(os, Len(os)) /\ os' = os /\ buf' = buf /\ disk' = disk /\ pc' = "ready"
      BY <1>5, <2>1 DEF Repaired, Recovered, F!Returned, F!fileVars, Before, AllOK
    <3> QED
      BY <1>a, <1>c, <3>1 DEF AllOK
  <2>2. CASE F!Crash /\ NoProcess
    BY <1>a, <1>d, <2>2 DEF F!Crash, F!StreamGone, NoProcess, F!fileVars, AllOK
  <2> QED
    BY <1>5, <2>1, <2>2 DEF Repaired
<1>6. CASE GiveField
  BY <1>6, GiveFieldAll
<1>7. CASE GiveFails
  BY <1>7, <1>a, <1>c DEF GiveFails, F!WriteBytesFails, Latch, F!fileVars, AllOK
<1>8. CASE PushFields
  <2>1. All' = All
    BY <1>8, PushedAll DEF PushFields, Before
  <2>2. /\ disk' = disk /\ pc' = pc /\ pc \in {"append", "sync"} /\ req' = req /\ given' = given
    BY <1>8 DEF PushFields, F!Push, callVars
  <2> QED
    BY <2>1, <2>2 DEF Before, AllOK
<1>9. CASE SyncRecord
  <2>1. /\ pc = "append" /\ pc' = "sync" /\ os' = os /\ buf' = buf /\ disk' = disk
        /\ given = Len(FieldsOf(req))
    BY <1>9, CellsAre DEF SyncRecord, F!SyncFile, F!fileVars
  <2>2. given \in {8, 9} /\ given \in 1..Len(FieldsOf(req))
    <3>1. given \in {8, 9}
      BY <2>1, FieldsAre
    <3>2. given \in 1..given
      BY <3>1
    <3> QED
      BY <2>1, <3>1, <3>2
  <2>3. Len(All) > 0 /\ All[Len(All)] = Cells(req)[given]
    BY <2>1, <2>2 DEF Before, AllOK
  <2>4. Nth(All[Len(All)], given) /\ All[Len(All)].rec = req
    BY <2>2, <2>3, NthOfCells
  <2>5. EndOf(All[Len(All)])
    BY <2>1, <2>4 DEF EndOf
  <2>6. Len(All) \in 1..Len(All)
    BY <2>3 DEF Before, AllFacts
  <2>7. Ends(All, Len(All))
    BY <2>5, <2>6 DEF Ends
  <2> QED
    BY <1>a, <1>c, <2>1, <2>7 DEF AllOK
<1>10. CASE WriteReturns
  <2>1. /\ pc = "sync" /\ pc' = "ready" /\ os' = os /\ buf' = buf /\ disk' = disk
    BY <1>10 DEF WriteReturns, F!Returned, F!fileVars, Latch
  <2>2. ~latched' => buf = <<>>
    BY <2>1 DEF Before, InBuffer
  <2>3. Ends(All, Len(All))
    BY <2>1 DEF Before, AllOK
  <2> QED
    BY <1>a, <1>b, <1>c, <2>1, <2>2, <2>3 DEF AllOK
<1>11. CASE Truncated
  BY <1>11, <1>a, <1>c DEF Truncated, F!Returned, F!fileVars, AllOK, Before
<1>12. CASE HelperStep
  <2>1. /\ os' = os /\ buf' = buf /\ disk' \in {disk, os} /\ pc' = pc /\ pos' = pos
        /\ req' = req /\ given' = given /\ latched' = latched
    BY <1>12 DEF HelperStep, F!Helper, F!Flushed, F!FlushFails, F!Fsynced, F!FsyncFails,
       F!DirOpened, F!DirOpenFails, F!DirFsynced, F!DirFsyncFails, F!DirClosed, F!Interrupted,
       F!fileVars, callVars
  <2> QED
    BY <1>a, <1>c, <2>1 DEF AllOK, Before
<1>13. CASE \E call \in Calls[index] : Write(call[1], call[2])
  <2>1. /\ pc = "ready" /\ ~latched /\ pc' = "append" /\ given' = 0
        /\ os' = os /\ buf' = buf /\ disk' = disk
    BY <1>13 DEF Write, fileVars
  <2>2. Ends(os, Len(os)) /\ buf = <<>>
    BY <2>1 DEF Before, AllOK, InBuffer
  <2> QED
    BY <1>a, <1>b, <1>c, <2>1, <2>2 DEF AllOK
<1>14. CASE Truncate
  BY <1>14, <1>a, <1>d, <1>e DEF Truncate, AllOK
<1>15. CASE TruncateFails
  BY <1>15, <1>a, <1>c DEF TruncateFails, fileVars, AllOK
<1>16. CASE Crash
  BY <1>16, <1>a, <1>d DEF Crash, F!Crash, F!StreamGone, NoProcess, F!fileVars, AllOK
<1>17. CASE PowerLoss
  BY <1>17, <1>a, <1>d DEF PowerLoss, F!PowerLoss, F!StreamGone, NoProcess, AllOK
<1>18. CASE WriteBack
  BY <1>18, <1>a, <1>c DEF WriteBack, F!WriteBack, callVars, AllOK, Before
<1>19. CASE Damage
  <2>1. /\ pc = "none" /\ pc' = "none" /\ disk' = os' /\ All' = os'
    BY <1>19, <1>d DEF Damage, Before, InBuffer
  <2>2. /\ Len(os') = Len(os)
        /\ \A i \in 1..Len(os) : os'[i].field = os[i].field /\ os'[i].rec = os[i].rec
    BY <1>19, DamageKeeps DEF Before
  <2>3. Chained(os')
    BY <1>a, <2>2, ChainedDamaged DEF Before, AllFacts
  <2> QED
    BY <2>1, <2>3 DEF AllOK
<1>20. CASE UNCHANGED vars
  BY <1>20, <1>c DEF vars, fileVars, callVars, AllOK, Before
<1> QED
  BY <1>1, <1>2, <1>3, <1>4, <1>5, <1>6, <1>7, <1>8, <1>9, <1>10, <1>11, <1>12, <1>13, <1>14,
     <1>15, <1>16, <1>17, <1>18, <1>19, <1>20 DEF Next, Step, Environment

\* The file up to pos, where recover() stands.
Passed == SubSeq(os, 1, pos)

\* The cells that the reader has passed.
LEMMA PassedIs ==
  ASSUME os \in Seq(Cell), pos \in Nat, pos <= Len(os)
  PROVE  Passed \in Seq(Cell) /\ Len(Passed) = pos /\ \A i \in 1..pos : Passed[i] = os[i]
<1>1. \A i \in 1..pos : os[i] \in Cell
  OBVIOUS
<1>2. /\ Passed \in Seq(Cell) /\ Len(Passed) = IF 1 <= pos THEN pos - 1 + 1 ELSE 0
      /\ \A i \in 1 .. pos - 1 + 1 : Passed[i] = os[1 + i - 1]
  BY <1>1, SubSeqProperties DEF Passed
<1> QED
  BY <1>2

\* What recover() passed and what write() gives is as it was written.
LEMMA NextIntact == Before /\ [Next]_vars => IntactOK'
<1> SUFFICES ASSUME Before, [Next]_vars PROVE IntactOK'
  OBVIOUS
<1>a. /\ sound' = sound
      /\ sound => Intact(All) /\ Intact(disk)
      /\ Read => Intact(All)
  BY DEF Before, IntactOK
<1>b. os' = os /\ buf' = buf => All' = All
  BY DEF All
<1>c. Intact(All) => Intact(os)
  BY DEF Before, AllFacts, Intact
<1>d. buf = <<>> => All = os
  BY DEF Before, AllFacts
<1>e. buf' = <<>> => All' = os'
  BY DEF Before, AllFacts
<1>1. CASE Open \/ SyncRecord \/ TruncateFails \/ UNCHANGED vars
  BY <1>1, <1>a, <1>b DEF Open, F!SyncParentDirectory, SyncRecord, F!SyncFile, F!fileVars, fileVars,
     TruncateFails, callVars, vars, Read, IntactOK
<1>2. CASE Construct \/ Crash
  <2>1. /\ os' = os /\ disk' = disk /\ (buf' = buf \/ buf' = <<>>)
        /\ pc' \in {"none", "recover"}
    BY <1>2 DEF Construct, Crash, F!Returned, F!Crash, F!StreamGone, F!fileVars, NoProcess
  <2>2. Intact(All) => Intact(All')
    BY <1>b, <1>c, <1>e, <2>1
  <2> QED
    BY <1>a, <2>1, <2>2 DEF IntactOK, Read
<1>3. CASE ReplayRecord
  BY <1>3, <1>a, <1>b DEF ReplayRecord, fileVars, Read, IntactOK
<1>4. CASE RecoverEnd
  <2>1. pc = "recover" /\ pos = Len(os) /\ UNCHANGED <<os, buf, disk>>
    BY <1>4 DEF RecoverEnd, fileVars
  <2>2. Intact(All) /\ All' = All
    BY <1>b, <1>d, <2>1 DEF Before, Undamaged, InBuffer, Intact
  <2> QED
    BY <1>a, <2>1, <2>2 DEF IntactOK
<1>5. CASE CutTail
  <2>1. /\ pc = "recover" /\ os' = SubSeq(os, 1, pos) /\ pos < Len(os) /\ buf' = buf
        /\ disk' = disk
    BY <1>5 DEF CutTail
  <2>2. os \in Seq(Cell) /\ pos \in Nat /\ pos <= Len(os) /\ buf = <<>>
    BY <2>1 DEF Before, Types, InBuffer
  <2>3. Len(os') = pos /\ \A i \in 1..pos : os'[i] = os[i]
    BY <2>1, <2>2, PassedIs DEF Passed
  <2>4. Intact(All')
    BY <1>e, <2>1, <2>2, <2>3 DEF Before, Undamaged, Intact
  <2> QED
    BY <1>a, <2>1, <2>4 DEF IntactOK
<1>6. CASE Repaired
  <2>1. os' = os /\ disk' = disk /\ (buf' = buf \/ buf' = <<>>) /\ Read
    BY <1>6 DEF Repaired, F!Returned, F!Crash, F!StreamGone, F!fileVars, Read
  <2>2. Intact(All')
    BY <1>a, <1>b, <1>c, <1>e, <2>1
  <2> QED
    BY <1>a, <2>1, <2>2 DEF IntactOK
<1>7. CASE GiveField
  <2>1. PICK c \in Cell :
            /\ c = Cells(req)[given + 1] /\ Nth(c, given + 1) /\ c.rec = req
            /\ All' = Append(All, c) /\ pc = "append" /\ disk' = disk
            /\ Len(All') = Len(All) + 1 /\ All'[Len(All) + 1] = c
            /\ \A i \in 1..Len(All) : All'[i] = All[i]
    BY <1>7, Given
  <2>2. c.is = "asWritten"
    <3>1. given + 1 \in 1..Len(FieldsOf(req))
      BY <2>1 DEF Nth
    <3> QED
      BY <2>1, <3>1, CellsAre
  <2>3. Intact(All) /\ Len(All) \in Nat
    BY <1>a, <2>1 DEF Read, Before, AllFacts
  <2>4. Intact(All')
    <3>1. \A i \in 1..Len(All') : i \in 1..Len(All) \/ i = Len(All) + 1
      BY <2>1, <2>3
    <3> QED
      BY <2>1, <2>2, <2>3, <3>1 DEF Intact
  <2> QED
    BY <1>a, <2>1, <2>4 DEF IntactOK
<1>8. CASE GiveFails \/ WriteReturns \/ Truncated
  <2>1. Read /\ UNCHANGED <<os, buf, disk>>
    BY <1>8 DEF GiveFails, F!WriteBytesFails, WriteReturns, Truncated, F!Returned, F!fileVars, Read
  <2> QED
    BY <1>a, <1>b, <2>1 DEF IntactOK
<1>9. CASE PushFields
  <2>1. All' = All /\ disk' = disk /\ Read
    BY <1>9, PushedAll DEF PushFields, F!Push, Before, Read
  <2> QED
    BY <1>a, <2>1 DEF IntactOK
<1>10. CASE HelperStep \/ WriteBack
  <2>1. /\ os' = os /\ buf' = buf /\ disk' \in {disk, os} /\ pc' = pc /\ latched' = latched
    BY <1>10 DEF HelperStep, F!Helper, F!Flushed, F!FlushFails, F!Fsynced, F!FsyncFails,
       F!DirOpened, F!DirOpenFails, F!DirFsynced, F!DirFsyncFails, F!DirClosed, F!Interrupted,
       F!fileVars, callVars, WriteBack, F!WriteBack
  <2>2. All' = All /\ Read' = Read
    BY <1>b, <2>1 DEF Read
  <2> QED
    BY <1>a, <1>c, <2>1, <2>2 DEF IntactOK
<1>11. CASE \E call \in Calls[index] : Write(call[1], call[2])
  <2>1. Read /\ UNCHANGED <<os, buf, disk>>
    BY <1>11 DEF Write, fileVars, Read
  <2> QED
    BY <1>a, <1>b, <2>1 DEF IntactOK
<1>12. CASE Truncate
  <2>1. All' = <<>> /\ disk' = disk /\ Len(<<>>) = 0
    BY <1>12, <1>e DEF Truncate
  <2> QED
    BY <1>a, <2>1 DEF IntactOK, Intact
<1>13. CASE PowerLoss
  <2>1. All' = disk /\ disk' = disk /\ pc' = "none"
    BY <1>13, <1>e DEF PowerLoss, F!PowerLoss, F!StreamGone, NoProcess
  <2> QED
    BY <1>a, <2>1 DEF IntactOK, Read
<1>14. CASE Damage
  BY <1>14, <1>a DEF Damage, IntactOK, Read
<1> QED
  BY <1>1, <1>2, <1>3, <1>4, <1>5, <1>6, <1>7, <1>8, <1>9, <1>10, <1>11, <1>12, <1>13, <1>14
     DEF Next, Step, Environment

\* The inductive invariant.
IInv == CallOK /\ Types /\ Undamaged /\ FileOK

\* The invariant at first.
LEMMA InitIInv == Init => IInv
  BY InitCallOK, InitTypes, InitUndamaged, InitFileOK DEF IInv

\* What it says of this state and the next one.
LEMMA NextBefore == IInv /\ [Next]_vars => Before
<1> SUFFICES ASSUME IInv, [Next]_vars PROVE Before
  OBVIOUS
<1>1. Types' /\ InBuffer'
  BY NextTypes, NextInBuffer DEF IInv, FileOK
<1>2. sound' = sound /\ AllFacts /\ AllFacts'
  BY <1>1, SoundStays, AllIs, AllIsNext DEF IInv
<1> QED
  BY <1>1, <1>2 DEF Before, IInv, FileOK

\* Every step keeps it.
LEMMA NextIInv == IInv /\ [Next]_vars => IInv'
<1> SUFFICES ASSUME IInv, [Next]_vars PROVE IInv'
  OBVIOUS
<1>1. CallOK' /\ Types' /\ Undamaged' /\ InBuffer'
  BY NextCallOK, NextTypes, NextUndamaged, NextInBuffer DEF IInv, FileOK
<1>2. AllOK' /\ IntactOK'
  BY NextBefore, NextAllOK, NextIntact
<1> QED
  BY <1>1, <1>2 DEF IInv, FileOK

\* The log file stays within IInv.
LEMMA Inductive == Spec => []IInv
  BY InitIInv, NextIInv, PTL DEF Spec

\* On sound storage the first field at which recovery stops is one that is missing.
LEMMA CutIsTorn == IInv /\ [Next]_vars => (pc = "recover" /\ pc' = "repair" /\ sound => stop' = "torn_tail")
<1> SUFFICES ASSUME IInv, [Next]_vars, pc = "recover", pc' = "repair", sound
             PROVE  stop' = "torn_tail"
  OBVIOUS
<1>1. CutTail
  BY DEF Next, Step, Environment, vars, Open, Construct, ReplayRecord, RecoverEnd, Recovered,
     Repaired, GiveField, GiveFails, PushFields, SyncRecord, WriteReturns, Truncated, HelperStep,
     Latch, NoProcess, Write, Truncate, TruncateFails, Crash, PowerLoss, WriteBack, Damage
<1>2. /\ Chained(All) /\ Intact(All) /\ buf = <<>> /\ Ends(os, pos) /\ pos \in Nat /\ AllFacts
      /\ os \in Seq(Cell)
  BY AllIs DEF IInv, FileOK, InBuffer, AllOK, IntactOK, Types
<1>3. Chained(os) /\ Intact(os)
  BY <1>2 DEF AllFacts
<1>4. pos < Len(os) /\ Outcome(os, pos) # "whole" /\ stop' = Outcome(os, pos)
  BY <1>1 DEF CutTail
<1> QED
  BY <1>2, <1>3, <1>4, UndamagedPasses

\* A crash, a power loss or a failed write is never called corruption.
THEOREM CrashesLookTorn == Spec => CrashIsNotCorruption
<1>1. IInv /\ [Next]_vars =>
          [pc = "recover" /\ pc' = "repair" /\ sound => stop' = "torn_tail"]_vars
  BY CutIsTorn
<1> QED
  BY <1>1, Inductive, PTL DEF Spec, CrashIsNotCorruption

-----------------------------------------------------------------------------
(* What Parse returns.                                                     *)

Logs == Seq(Record \cup {Torn})

\* One step of its recursion.
ParseAt(f, g, at) ==
    IF at = Len(f) THEN <<>>
    ELSE IF Outcome(f, at) # "whole" THEN <<Torn>>
    ELSE Cons(f[at + 1].rec, g[at + Size(f, at)])

\* A record put before a log makes a log.
LEMMA ConsIsLog ==
  ASSUME NEW r \in Record \cup {Torn}, NEW t \in Logs
  PROVE  Cons(r, t) \in Logs /\ Len(Cons(r, t)) = 1 + Len(t)
<1>1. PICK q \in Logs : q = <<r>> /\ Len(q) = 1
  <2>1. <<r>> \in Logs /\ Len(<<r>>) = 1
    BY DEF Logs
  <2> QED
    BY <2>1
<1>2. q \o t \in Logs /\ Len(q \o t) = Len(q) + Len(t)
  BY ConcatProperties DEF Logs
<1>3. Cons(r, t) = q \o t
  BY <1>1 DEF Cons
<1> QED
  BY <1>1, <1>2, <1>3

\* Putting a record first and adding a log last can be done in either order.
LEMMA ConsConcat ==
  ASSUME NEW r \in Record \cup {Torn}, NEW t \in Logs, NEW u \in Logs
  PROVE  Cons(r, t) \o u = Cons(r, t \o u)
<1>1. PICK q \in Logs : q = <<r>>
  <2>1. <<r>> \in Logs
    BY DEF Logs
  <2> QED
    BY <2>1
<1>2. (q \o t) \o u = q \o (t \o u)
  BY ConcatAssociative DEF Logs
<1>3. Cons(r, t) = q \o t /\ Cons(r, t \o u) = q \o (t \o u)
  BY <1>1 DEF Cons
<1> QED
  BY <1>2, <1>3

\* One step of the reading, if what comes after it is a log.
LEMMA ParseAtIs ==
  ASSUME NEW f \in Seq(Cell), NEW at \in 0..Len(f), NEW g, NEW low \in Nat, low <= at + 1,
         \A b \in low..Len(f) : b > at => g[b] \in Logs
  PROVE  ParseAt(f, g, at) \in Logs
<1>1. Len(f) \in Nat /\ at \in Nat
  OBVIOUS
<1>2. CASE at = Len(f)
  <2>1. <<>> \in Logs
    BY EmptySeq DEF Logs
  <2> QED
    BY <1>2, <2>1 DEF ParseAt
<1>3. CASE at # Len(f) /\ Outcome(f, at) # "whole"
  <2>1. Torn \in Record \cup {Torn}
    OBVIOUS
  <2>2. <<Torn>> \in Logs
    BY <2>1 DEF Logs
  <2> QED
    BY <1>3, <2>2 DEF ParseAt
<1>4. CASE at # Len(f) /\ Outcome(f, at) = "whole"
  <2>1. Size(f, at) \in {8, 9} /\ at + Size(f, at) <= Len(f)
    BY <1>1, <1>4, WholeMeans
  <2>2. at + Size(f, at) \in low..Len(f) /\ at + Size(f, at) > at /\ at + 1 \in 1..Len(f)
    BY <1>1, <2>1
  <2>3. g[at + Size(f, at)] \in Logs
    BY <2>2
  <2>4. f[at + 1].rec \in Record \cup {Torn}
    <3>1. f[at + 1] \in Cell
      BY <2>2
    <3> QED
      BY <3>1 DEF Cell
  <2>5. PICK r \in Record \cup {Torn} : r = f[at + 1].rec
    BY <2>4
  <2>6. PICK t \in Logs : t = g[at + Size(f, at)]
    BY <2>3
  <2>7. Cons(r, t) \in Logs
    BY ConsIsLog
  <2> QED
    BY <1>4, <2>5, <2>6, <2>7 DEF ParseAt
<1> QED
  BY <1>2, <1>3, <1>4

\* A step looks only at what is behind at.
LEMMA ParseAtSame ==
  ASSUME NEW f \in Seq(Cell), NEW at \in 0..Len(f), NEW g, NEW h,
         \A b \in 0..Len(f) : b > at => g[b] = h[b]
  PROVE  ParseAt(f, g, at) = ParseAt(f, h, at)
<1>1. Len(f) \in Nat /\ at \in Nat
  OBVIOUS
<1>2. CASE at # Len(f) /\ Outcome(f, at) = "whole"
  <2>1. Size(f, at) \in {8, 9} /\ at + Size(f, at) <= Len(f)
    BY <1>1, <1>2, WholeMeans
  <2>2. at + Size(f, at) \in 0..Len(f) /\ at + Size(f, at) > at
    BY <1>1, <2>1
  <2>3. g[at + Size(f, at)] = h[at + Size(f, at)]
    BY <2>2
  <2> QED
    BY <2>3 DEF ParseAt
<1>3. CASE at = Len(f) \/ Outcome(f, at) # "whole"
  BY <1>3 DEF ParseAt
<1> QED
  BY <1>2, <1>3

\* The recursion has a solution.
LEMMA ParseExists ==
  ASSUME NEW f \in Seq(Cell)
  PROVE  \E g : g = [at \in 0..Len(f) |-> ParseAt(f, g, at)]
<1> DEFINE n == Len(f)
<1>0. n \in Nat
  OBVIOUS
<1> DEFINE Solves(g, low) == \A at \in low..n : g[at] = ParseAt(f, g, at)
<1> DEFINE S == {m \in Nat : m <= n => \E g \in [0..n -> Logs] : Solves(g, n - m)}
<1> HIDE DEF n
<1>l. n = Len(f)
  BY DEF n
<1>1. 0 \in S
  <2>1. <<>> \in Logs
    BY EmptySeq DEF Logs
  <2> DEFINE g == [at \in 0..n |-> <<>>]
  <2>2. g \in [0..n -> Logs]
    BY <2>1
  <2>3. g[n] = <<>>
    BY <1>0
  <2> HIDE DEF g
  <2>4. \A at \in (n - 0)..n : at = n
    BY <1>0
  <2>5. ParseAt(f, g, n) = <<>>
    BY <1>l DEF ParseAt
  <2>6. Solves(g, n - 0)
    BY <2>3, <2>4, <2>5
  <2> QED
    BY <2>2, <2>6
<1>2. ASSUME NEW m \in S PROVE m + 1 \in S
  <2>1. m \in Nat
    OBVIOUS
  <2>2. ASSUME m + 1 <= n PROVE \E g \in [0..n -> Logs] : Solves(g, n - (m + 1))
    <3> DEFINE low == n - (m + 1)
    <3>1. low \in 0..n /\ low + 1 = n - m /\ m <= n /\ low \in Nat
      BY <1>0, <2>1, <2>2
    <3>2. PICK g \in [0..n -> Logs] : Solves(g, n - m)
      BY <3>1
    <3> DEFINE h == [g EXCEPT ![low] = ParseAt(f, g, low)]
    <3> HIDE DEF low
    <3>3. ParseAt(f, g, low) \in Logs
      <4>1. \A b \in low..Len(f) : b > low => g[b] \in Logs
        BY <1>l, <3>1
      <4> QED
        BY <1>l, <3>1, <4>1, ParseAtIs
    <3>4. /\ h \in [0..n -> Logs] /\ h[low] = ParseAt(f, g, low)
          /\ \A b \in 0..n : b # low => h[b] = g[b]
      BY <3>1, <3>3
    <3> HIDE DEF h
    <3>5. ASSUME NEW at \in low..n PROVE h[at] = ParseAt(f, h, at)
      <4>1. at \in 0..n /\ at >= low /\ \A b \in 0..n : b > at => b # low
        BY <1>0, <3>1
      <4>2. \A b \in 0..Len(f) : b > at => g[b] = h[b]
        BY <1>l, <3>4, <4>1
      <4>3. ParseAt(f, g, at) = ParseAt(f, h, at)
        BY <1>l, <4>1, <4>2, ParseAtSame
      <4>4. CASE at = low
        BY <3>4, <4>3, <4>4
      <4>5. CASE at # low
        <5>1. at \in (n - m)..n
          BY <1>0, <3>1, <4>1, <4>5
        <5>2. g[at] = ParseAt(f, g, at)
          BY <3>2, <5>1
        <5> QED
          BY <3>4, <4>1, <4>3, <4>5, <5>2
      <4> QED
        BY <4>4, <4>5
    <3> QED
      BY <3>4, <3>5 DEF low
  <2> QED
    BY <2>1, <2>2
<1> HIDE DEF Solves
<1>3. S = Nat
  <2>1. S \in SUBSET Nat
    OBVIOUS
  <2> HIDE DEF S
  <2> QED
    BY <1>1, <1>2, <2>1, Everything
<1>4. PICK g \in [0..n -> Logs] : Solves(g, 0)
  <2>1. n \in S
    <3> HIDE DEF S
    <3> QED
      BY <1>0, <1>3
  <2>2. n <= n /\ n - n = 0
    BY <1>0
  <2> QED
    BY <2>1, <2>2
<1>5. g = [at \in 0..n |-> g[at]]
  OBVIOUS
<1>6. \A at \in 0..n : g[at] = ParseAt(f, g, at)
  BY <1>4 DEF Solves
<1>7. g = [at \in 0..n |-> ParseAt(f, g, at)]
  BY <1>5, <1>6
<1> QED
  BY <1>7, <1>l

\* The function that ParseFrom chooses satisfies its recursion.
LEMMA ParseIs ==
  ASSUME NEW f \in Seq(Cell)
  PROVE  /\ \A at \in 0..Len(f) : ParseFrom(f)[at] = ParseAt(f, ParseFrom(f), at)
         /\ \A at \in 0..Len(f) : ParseFrom(f)[at] \in Logs
<1> DEFINE n == Len(f)
<1> DEFINE p == ParseFrom(f)
<1>0. n \in Nat
  OBVIOUS
<1>1. p = [at \in 0..n |-> ParseAt(f, p, at)]
  <2>1. PICK h : h = [at \in 0..n |-> ParseAt(f, h, at)]
    BY ParseExists
  <2> QED
    BY <2>1 DEF ParseFrom, ParseAt
<1> HIDE DEF p, n
<1>l. n = Len(f)
  BY DEF n
<1>2. \A at \in 0..n : p[at] = ParseAt(f, p, at)
  BY <1>1
<1> DEFINE S == {m \in Nat : \A at \in 0..n : at + m >= n => p[at] \in Logs}
<1>3. ASSUME NEW m \in Nat, \A at \in 0..n : at + m > n => p[at] \in Logs PROVE m \in S
  <2>1. ASSUME NEW at \in 0..n, at + m >= n PROVE p[at] \in Logs
    <3>1. \A b \in (at + 1)..Len(f) : b > at => p[b] \in Logs
      BY <1>0, <1>3, <1>l, <2>1
    <3>2. at \in 0..Len(f) /\ at + 1 \in Nat /\ at + 1 <= at + 1
      BY <1>l
    <3>3. ParseAt(f, p, at) \in Logs
      BY <3>1, <3>2, ParseAtIs
    <3> QED
      BY <1>2, <3>3
  <2> QED
    BY <1>3, <2>1
<1>4. 0 \in S
  BY <1>0, <1>3
<1>5. ASSUME NEW m \in S PROVE m + 1 \in S
  <2>1. m \in Nat /\ m + 1 \in Nat /\ \A at \in 0..n : at + (m + 1) > n => p[at] \in Logs
    BY <1>0
  <2> HIDE DEF S
  <2> QED
    BY <1>3, <2>1
<1>6. S = Nat
  <2>1. S \in SUBSET Nat
    OBVIOUS
  <2> HIDE DEF S
  <2> QED
    BY <1>4, <1>5, <2>1, Everything
<1>7. n \in S
  <2> HIDE DEF S
  <2> QED
    BY <1>0, <1>6
<1>8. \A at \in 0..n : p[at] \in Logs
  BY <1>0, <1>7
<1> QED
  BY <1>2, <1>8, <1>l DEF p

-----------------------------------------------------------------------------
(* Parse of a file that is not damaged, record by record.                  *)

\* There is nothing at the end of a file.
LEMMA ParseLast == ASSUME NEW f \in Seq(Cell) PROVE ParseFrom(f)[Len(f)] = <<>>
<1>1. Len(f) \in 0..Len(f)
  OBVIOUS
<1>2. ParseFrom(f)[Len(f)] = ParseAt(f, ParseFrom(f), Len(f))
  BY <1>1, ParseIs
<1> QED
  BY <1>2 DEF ParseAt

\* The record that begins after at, and its number of cells.
RecAt(f, at) == f[at + 1].rec
SizeAt(f, at) == Len(FieldsOf(RecAt(f, at)))

\* Before the end of a chain of intact cells there is a whole record, or a torn
\* one.
LEMMA ParseNext ==
  ASSUME NEW f \in Seq(Cell), Chained(f), Intact(f), NEW at \in Nat, Ends(f, at), at < Len(f)
  PROVE  /\ SizeAt(f, at) \in {8, 9} /\ RecAt(f, at) \in Record
         /\ at + SizeAt(f, at) > Len(f) => ParseFrom(f)[at] = <<Torn>>
         /\ at + SizeAt(f, at) <= Len(f) =>
                /\ ParseFrom(f)[at] = Cons(RecAt(f, at), ParseFrom(f)[at + SizeAt(f, at)])
                /\ Ends(f, at + SizeAt(f, at)) /\ Outcome(f, at) = "whole"
                /\ Size(f, at) = SizeAt(f, at)
<1> DEFINE r == RecAt(f, at)
<1> DEFINE n == SizeAt(f, at)
<1>r. r = f[at + 1].rec /\ n = Len(FieldsOf(r))
  BY DEF RecAt, SizeAt
<1> HIDE DEF r, n
<1>1. n \in {8, 9}
  BY <1>r, FieldsAre
<1>2. Len(f) \in Nat /\ at \in 0..Len(f) /\ at + 1 \in 1..Len(f) /\ at # Len(f)
  OBVIOUS
<1>3. r \in Record
  <2>1. f[at + 1] \in Cell
    BY <1>2
  <2> QED
    BY <1>r, <2>1 DEF Cell
<1>4. /\ Outcome(f, at) = IF at + n <= Len(f) THEN "whole" ELSE "torn_tail"
      /\ Outcome(f, at) = "whole" => Size(f, at) = n /\ Ends(f, at + Size(f, at))
  BY <1>2, <1>r, UndamagedPasses, WholeEnds
<1>5. ParseFrom(f)[at] = ParseAt(f, ParseFrom(f), at)
  BY <1>2, ParseIs
<1>6. CASE at + n > Len(f)
  <2>1. Outcome(f, at) # "whole" /\ ~ (at + n <= Len(f))
    BY <1>1, <1>2, <1>4, <1>6
  <2>2. ParseFrom(f)[at] = <<Torn>>
    BY <1>2, <1>5, <2>1 DEF ParseAt
  <2> QED
    BY <1>1, <1>3, <2>1, <2>2 DEF r, n
<1>7. CASE at + n <= Len(f)
  <2>1. Outcome(f, at) = "whole" /\ Size(f, at) = n /\ Ends(f, at + n)
    BY <1>4, <1>7
  <2>2. ParseFrom(f)[at] = Cons(f[at + 1].rec, ParseFrom(f)[at + Size(f, at)])
    BY <1>2, <1>5, <2>1 DEF ParseAt
  <2>3. ParseFrom(f)[at] = Cons(r, ParseFrom(f)[at + n])
    BY <1>r, <2>1, <2>2
  <2>4. ~ (at + n > Len(f))
    BY <1>1, <1>2, <1>7
  <2> QED
    BY <1>1, <1>3, <2>1, <2>3, <2>4 DEF r, n
<1> QED
  BY <1>1, <1>2, <1>3, <1>6, <1>7 DEF r, n

\* A record does not reach over the end of another.
LEMMA NoEndInside ==
  ASSUME NEW f \in Seq(Cell), Chained(f), NEW at \in Nat, Ends(f, at),
         NEW e \in Nat, e <= Len(f), Ends(f, e), at < e
  PROVE  at + SizeAt(f, at) <= e
<1> DEFINE r == f[at + 1].rec
<1> DEFINE n == Len(FieldsOf(r))
<1>1. n \in {8, 9} /\ Len(f) \in Nat /\ at < Len(f)
  BY FieldsAre
<1>2. \A i \in 1..n : at + i <= Len(f) => Nth(f[at + i], i) /\ f[at + i].rec = r
  BY <1>1, NextRecord
<1> HIDE DEF r
<1>3. SUFFICES ASSUME ~ (at + n <= e) PROVE FALSE
  BY DEF r, SizeAt, RecAt
<1>4. e - at \in 1..n /\ e - at < n /\ at + (e - at) = e
  BY <1>1, <1>3
<1>6. Nth(f[e], e - at) /\ f[e].rec = r
  BY <1>2, <1>4
<1>7. EndOf(f[e])
  BY <1>4 DEF Ends
<1>8. e - at = n
  BY <1>6, <1>7, NthIsOne DEF EndOf
<1> QED
  BY <1>1, <1>4, <1>8

\* The file up to the end of a record, and what is behind it.
LEMMA ParseParts ==
  ASSUME NEW f \in Seq(Cell), Chained(f), Intact(f), NEW g \in Seq(Cell), Len(g) <= Len(f),
         \A i \in 1..Len(g) : g[i] = f[i], Ends(f, Len(g))
  PROVE  \A at \in 0..Len(g) : Ends(f, at) =>
             ParseFrom(f)[at] = ParseFrom(g)[at] \o ParseFrom(f)[Len(g)]
<1> DEFINE e == Len(g)
<1>0. e \in Nat /\ Len(f) \in Nat /\ e <= Len(f)
  OBVIOUS
<1>1. Chained(g) /\ Intact(g)
  BY <1>0, ChainedPrefix DEF Intact
<1>2. ASSUME NEW at \in 0..e, Ends(f, at) PROVE Ends(g, at)
  BY <1>0, <1>2 DEF Ends
<1> DEFINE Splits(at) == ParseFrom(f)[at] = ParseFrom(g)[at] \o ParseFrom(f)[e]
<1> DEFINE S == {m \in Nat : \A at \in 0..e : at + m >= e /\ Ends(f, at) => Splits(at)}
<1>3. ParseFrom(f)[e] \in Logs
  BY <1>0, ParseIs
<1>4. Splits(e)
  <2>1. ParseFrom(g)[e] = <<>>
    BY ParseLast
  <2> QED
    BY <1>3, <2>1, ConcatEmptySeq DEF Logs
<1>5. ASSUME NEW m \in Nat, \A at \in 0..e : at + m > e /\ Ends(f, at) => Splits(at) PROVE m \in S
  <2>1. ASSUME NEW at \in 0..e, at + m >= e, Ends(f, at) PROVE Splits(at)
    <3>1. CASE at = e
      BY <1>4, <3>1
    <3>2. CASE at # e
      <4>1. at < e /\ at < Len(f) /\ at \in Nat /\ at + 1 \in 1..Len(g)
        BY <1>0, <3>2
      <4> DEFINE r == RecAt(f, at)
      <4> DEFINE n == SizeAt(f, at)
      <4>4. at + n <= e
        BY <1>0, <2>1, <4>1, NoEndInside
      <4>5. n \in {8, 9} /\ r \in Record
        BY <2>1, <4>1, ParseNext
      <4>6. at + n <= Len(f) /\ at + n \in 0..e /\ (at + n) + m > e
        BY <1>0, <2>1, <4>1, <4>4, <4>5
      <4>7. ParseFrom(f)[at] = Cons(r, ParseFrom(f)[at + n]) /\ Ends(f, at + n)
        BY <2>1, <4>1, <4>6, ParseNext
      <4>8. Splits(at + n)
        BY <1>5, <4>6, <4>7
      <4>9. r = RecAt(g, at) /\ n = SizeAt(g, at)
        BY <4>1 DEF RecAt, SizeAt
      <4>10. Ends(g, at) /\ at < Len(g) /\ at \in Nat
        BY <1>2, <2>1, <4>1
      <4>11. ParseFrom(g)[at] = Cons(r, ParseFrom(g)[at + n])
        BY <1>1, <4>4, <4>9, <4>10, ParseNext
      <4> HIDE DEF r, n
      <4>12. ParseFrom(g)[at + n] \in Logs
        BY <4>6, ParseIs
      <4>13. PICK t \in Logs : t = ParseFrom(g)[at + n]
        BY <4>12
      <4>14. PICK u \in Logs : u = ParseFrom(f)[e]
        BY <1>3
      <4>15. r \in Record \cup {Torn}
        BY <4>5
      <4>16. Cons(r, t) \o u = Cons(r, t \o u)
        BY <4>15, ConsConcat
      <4>17. ParseFrom(f)[at + n] = t \o u
        BY <4>8, <4>13, <4>14
      <4> QED
        BY <4>7, <4>11, <4>13, <4>14, <4>16, <4>17
    <3> QED
      BY <3>1, <3>2
  <2> QED
    BY <2>1
<1> HIDE DEF Splits, e
<1>6. 0 \in S
  <2>1. \A at \in 0..e : ~ (at + 0 > e)
    BY <1>0
  <2>2. 0 \in Nat
    OBVIOUS
  <2> HIDE DEF S
  <2> QED
    BY <1>5, <2>1, <2>2
<1>7. ASSUME NEW m \in S PROVE m + 1 \in S
  <2>1. m \in Nat /\ m + 1 \in Nat
    OBVIOUS
  <2>2. ASSUME NEW at \in 0..e, at + (m + 1) > e, Ends(f, at) PROVE Splits(at)
    <3>1. at + m >= e
      BY <1>0, <2>1, <2>2
    <3> QED
      BY <2>2, <3>1
  <2> HIDE DEF S
  <2> QED
    BY <1>5, <2>1, <2>2
<1>8. S = Nat
  <2>1. S \in SUBSET Nat
    OBVIOUS
  <2> HIDE DEF S
  <2> QED
    BY <1>6, <1>7, <2>1, Everything
<1>9. e \in S
  <2> HIDE DEF S
  <2> QED
    BY <1>0, <1>8
<1>10. \A at \in 0..e : at + e >= e
  BY <1>0
<1>11. \A at \in 0..e : Ends(f, at) => Splits(at)
  BY <1>9, <1>10
<1> QED
  BY <1>11 DEF Splits, e

\* A file that ends with a whole record, and one that ends with a part of one.
LEMMA ParseAdds ==
  ASSUME NEW f \in Seq(Cell), Chained(f), Intact(f), NEW g \in Seq(Cell), Len(g) < Len(f),
         \A i \in 1..Len(g) : g[i] = f[i], Ends(f, Len(g))
  PROVE  /\ Parse(g) \in Logs /\ RecAt(f, Len(g)) \in Record
         /\ Len(g) + SizeAt(f, Len(g)) = Len(f) => Parse(f) = Append(Parse(g), RecAt(f, Len(g)))
         /\ Len(g) + SizeAt(f, Len(g)) > Len(f) => Parse(f) = Append(Parse(g), Torn)
<1> DEFINE e == Len(g)
<1>0. e \in Nat /\ Len(f) \in Nat /\ 0 \in 0..e /\ Ends(f, 0)
  BY DEF Ends
<1>1. Parse(g) \in Logs
  BY <1>0, ParseIs DEF Parse
<1>2. Parse(f) = Parse(g) \o ParseFrom(f)[e]
  <2>1. Len(g) <= Len(f)
    BY <1>0
  <2>2. \A at \in 0..Len(g) : Ends(f, at) =>
             ParseFrom(f)[at] = ParseFrom(g)[at] \o ParseFrom(f)[Len(g)]
    BY <2>1, ParseParts
  <2>3. ParseFrom(f)[0] = ParseFrom(g)[0] \o ParseFrom(f)[e]
    BY <1>0, <2>2
  <2> QED
    BY <2>3 DEF Parse
<1>3. /\ RecAt(f, e) \in Record
      /\ e + SizeAt(f, e) > Len(f) => ParseFrom(f)[e] = <<Torn>>
      /\ e + SizeAt(f, e) <= Len(f) =>
                ParseFrom(f)[e] = Cons(RecAt(f, e), ParseFrom(f)[e + SizeAt(f, e)])
  BY <1>0, ParseNext
<1>4. ASSUME NEW x \in Record \cup {Torn} PROVE Append(Parse(g), x) = Parse(g) \o <<x>>
  BY <1>1, AppendIsConcat DEF Logs
<1>5. ASSUME e + SizeAt(f, e) = Len(f) PROVE Parse(f) = Append(Parse(g), RecAt(f, e))
  <2> DEFINE r == RecAt(f, e)
  <2>1. ParseFrom(f)[e] = Cons(r, ParseFrom(f)[Len(f)])
    BY <1>0, <1>3, <1>5
  <2>2. ParseFrom(f)[Len(f)] = <<>>
    BY ParseLast
  <2>3. r \in Record \cup {Torn}
    BY <1>3
  <2> HIDE DEF r
  <2>4. PICK q \in Logs : q = <<r>>
    <3>1. <<r>> \in Logs
      BY <2>3 DEF Logs
    <3> QED
      BY <3>1
  <2>5. q \o <<>> = q
    BY ConcatEmptySeq DEF Logs
  <2>6. Cons(r, <<>>) = q \o <<>>
    BY <2>4 DEF Cons
  <2>7. ParseFrom(f)[e] = q
    BY <2>1, <2>2, <2>5, <2>6
  <2>8. Append(Parse(g), r) = Parse(g) \o q
    BY <1>4, <2>3, <2>4
  <2>9. Parse(f) = Append(Parse(g), r)
    BY <1>2, <2>7, <2>8
  <2> QED
    BY <2>9 DEF r
<1>6. ASSUME e + SizeAt(f, e) > Len(f) PROVE Parse(f) = Append(Parse(g), Torn)
  <2>1. Torn \in Record \cup {Torn}
    OBVIOUS
  <2>2. Append(Parse(g), Torn) = Parse(g) \o <<Torn>>
    BY <1>4, <2>1
  <2>3. ParseFrom(f)[e] = <<Torn>>
    BY <1>3, <1>6
  <2> QED
    BY <1>2, <2>2, <2>3
<1> QED
  BY <1>1, <1>3, <1>5, <1>6

-----------------------------------------------------------------------------
(* What the log's own specification has to be told of a call.              *)

\* A process that has not recovered the log has read and written nothing.
Fresh ==
    /\ pc \in {"none", "opened"} => index = 0 /\ ~latched /\ req = NoRecord /\ replayed = 0
    /\ pc = "truncate" => latched

\* When a sync has succeeded, stable storage has what the system has.
Synced == io = "ok" /\ pc \in {"sync", "repair", "truncate"} => disk = os

\* Where the record begins that write() is appending.
Base == Len(All) - given

\* What is there of the record that write() is appending.
Writing ==
    pc \in {"append", "sync"} =>
        /\ given <= Len(All) /\ Len(buf) <= given
        /\ Ends(All, Base)
        /\ given > 0 => RecAt(All, Base) = req
        /\ pc = "sync" => given = Len(FieldsOf(req))

\* The records before pos.
Counted == pc = "recover" => replayed = Len(Parse(SubSeq(os, 1, pos)))

Mapped == Fresh /\ Synced /\ Writing /\ Counted

\* The abstract state at first.
LEMMA InitMapped == Init => Mapped
  BY DEF Init, F!Init, Mapped, Fresh, Synced, Writing, Counted

\* Every step keeps it so.
LEMMA NextFresh == Fresh /\ [Next]_vars => Fresh'
<1> SUFFICES ASSUME Fresh, [Next]_vars PROVE Fresh'
  OBVIOUS
<1> USE DEF Fresh
<1>1. CASE Open
  BY <1>1 DEF Open, callVars
<1>2. CASE Construct
  BY <1>2 DEF Construct, NoProcess
<1>3. CASE ReplayRecord
  BY <1>3 DEF ReplayRecord
<1>4. CASE RecoverEnd
  BY <1>4 DEF RecoverEnd, Recovered
<1>5. CASE CutTail
  BY <1>5 DEF CutTail
<1>6. CASE Repaired
  BY <1>6 DEF Repaired, Recovered, NoProcess
<1>7. CASE GiveField \/ GiveFails
  BY <1>7 DEF GiveField, GiveFails, Latch
<1>8. CASE PushFields \/ SyncRecord
  BY <1>8 DEF PushFields, SyncRecord, callVars
<1>9. CASE WriteReturns
  BY <1>9 DEF WriteReturns, Latch
<1>10. CASE Truncated
  BY <1>10 DEF Truncated
<1>11. CASE HelperStep
  BY <1>11 DEF HelperStep, callVars
<1>12. CASE Environment
  BY <1>12 DEF Environment, Write, Truncate, TruncateFails, Crash, PowerLoss, WriteBack, Damage,
     NoProcess, callVars
<1>13. CASE UNCHANGED vars
  BY <1>13 DEF vars, callVars
<1> QED
  BY <1>1, <1>2, <1>3, <1>4, <1>5, <1>6, <1>7, <1>8, <1>9, <1>10, <1>11, <1>12, <1>13 DEF Next, Step

\* Every step keeps it so.
LEMMA NextSynced == CallOK /\ Synced /\ [Next]_vars => Synced'
<1> SUFFICES ASSUME CallOK, Synced, [Next]_vars PROVE Synced'
  OBVIOUS
<1> USE DEF CallOK, Helping, SyncStates, DirStates, Synced
<1>1. CASE Open \/ Construct
  BY <1>1 DEF Open, Construct, NoProcess
<1>2. CASE ReplayRecord \/ RecoverEnd \/ TruncateFails \/ UNCHANGED vars
  BY <1>2 DEF ReplayRecord, RecoverEnd, Recovered, TruncateFails, fileVars, vars
<1>3. CASE CutTail
  BY <1>3 DEF CutTail
<1>4. CASE Repaired
  BY <1>4 DEF Repaired, Recovered, NoProcess
<1>5. CASE GiveField \/ GiveFails
  BY <1>5 DEF GiveField, F!WriteBytes, GiveFails, Latch
<1>6. CASE PushFields
  BY <1>6 DEF PushFields, F!Push
<1>7. CASE SyncRecord
  BY <1>7 DEF SyncRecord, F!SyncFile
<1>8. CASE WriteReturns
  BY <1>8 DEF WriteReturns, Latch
<1>9. CASE Truncated
  BY <1>9 DEF Truncated
<1>10. CASE HelperStep
  BY <1>10 DEF HelperStep, F!Helper, F!Flushed, F!FlushFails, F!Fsynced, F!FsyncFails,
     F!DirOpened, F!DirOpenFails, F!DirFsynced, F!DirFsyncFails, F!DirClosed, F!Interrupted,
     F!fileVars
<1>11. CASE \E call \in Calls[index] : Write(call[1], call[2])
  BY <1>11 DEF Write
<1>12. CASE Truncate
  BY <1>12 DEF Truncate
<1>13. CASE Crash \/ PowerLoss
  BY <1>13 DEF Crash, PowerLoss, NoProcess
<1>14. CASE WriteBack
  BY <1>14 DEF WriteBack, F!WriteBack
<1>15. CASE Damage
  BY <1>15 DEF Damage
<1> QED
  BY <1>1, <1>2, <1>3, <1>4, <1>5, <1>6, <1>7, <1>8, <1>9, <1>10, <1>11, <1>12, <1>13, <1>14,
     <1>15 DEF Next, Step, Environment

\* Every step keeps what is known of the record being written.
LEMMA NextWriting == Before /\ Writing /\ [Next]_vars => Writing'
<1> SUFFICES ASSUME Before, Writing, [Next]_vars PROVE Writing'
  OBVIOUS
<1>a. /\ Len(os) \in Nat /\ Len(buf) \in Nat /\ Len(All) \in Nat /\ given \in Nat
      /\ buf \in Seq(Cell)
  BY DEF Before, AllFacts, Types
<1>b. os' = os /\ buf' = buf => All' = All
  BY DEF All
<1>1. CASE Open \/ Construct \/ ReplayRecord \/ RecoverEnd \/ CutTail \/ Repaired
  BY <1>1 DEF Open, Construct, ReplayRecord, RecoverEnd, CutTail, Repaired, Recovered, NoProcess,
     Writing
<1>2. CASE GiveFails \/ WriteReturns \/ Truncated \/ Truncate \/ TruncateFails
  BY <1>2 DEF GiveFails, WriteReturns, Truncated, Truncate, TruncateFails, Latch, Writing
<1>3. CASE Crash \/ PowerLoss \/ Damage
  BY <1>3 DEF Crash, PowerLoss, Damage, NoProcess, Writing
<1>4. CASE GiveField
  <2>1. PICK c \in Cell :
            /\ c = Cells(req)[given + 1] /\ Nth(c, given + 1) /\ c.rec = req
            /\ All' = Append(All, c) /\ buf' = Append(buf, c)
            /\ given + 1 <= Len(FieldsOf(req)) /\ given' = given + 1
            /\ pc = "append" /\ pc' = "append" /\ req' = req
            /\ Len(All') = Len(All) + 1 /\ All'[Len(All) + 1] = c
            /\ \A i \in 1..Len(All) : All'[i] = All[i]
    BY <1>4, Given
  <2>2. given <= Len(All) /\ Len(buf) <= given /\ Ends(All, Base)
    BY <2>1 DEF Writing
  <2>3. Len(buf') = Len(buf) + 1
    BY <1>a, <2>1, AppendProperties
  <2>4. Base' = Base /\ Base \in Nat /\ Base <= Len(All)
    BY <1>a, <2>1, <2>2 DEF Base
  <2>5. Ends(All', Base)
    <3>1. CASE Base = 0
      BY <3>1 DEF Ends
    <3>2. CASE Base # 0
      <4>1. Base \in 1..Len(All) /\ Base \in 1..Len(All')
        BY <1>a, <2>1, <2>4, <3>2
      <4>2. All'[Base] = All[Base] /\ EndOf(All[Base])
        BY <2>1, <2>2, <3>2, <4>1 DEF Ends
      <4> QED
        BY <4>1, <4>2 DEF Ends
    <3> QED
      BY <3>1, <3>2
  <2>6. RecAt(All', Base) = req
    <3>1. CASE given = 0
      <4>1. Base + 1 = Len(All) + 1
        BY <1>a, <3>1 DEF Base
      <4> QED
        BY <2>1, <4>1 DEF RecAt
    <3>2. CASE given # 0
      <4>1. Base + 1 \in 1..Len(All)
        BY <1>a, <2>2, <3>2 DEF Base
      <4>2. All'[Base + 1] = All[Base + 1] /\ RecAt(All, Base) = req
        BY <1>a, <2>1, <3>2, <4>1 DEF Writing
      <4> QED
        BY <4>2 DEF RecAt
    <3> QED
      BY <3>1, <3>2
  <2>7. given' <= Len(All') /\ Len(buf') <= given'
    BY <1>a, <2>1, <2>2, <2>3
  <2> QED
    BY <2>1, <2>4, <2>5, <2>6, <2>7 DEF Writing
<1>5. CASE PushFields
  <2>1. All' = All
    BY <1>5, PushedAll DEF PushFields, Before
  <2>2. /\ pc' = pc /\ pc \in {"append", "sync"} /\ req' = req /\ given' = given
    BY <1>5 DEF PushFields, F!Push, callVars
  <2>3. PICK n \in 1..Len(buf) : buf' = SubSeq(buf, n + 1, Len(buf))
    BY <1>5 DEF PushFields, F!Push
  <2>4. Len(buf') <= Len(buf) /\ Len(buf') \in Nat
    <3>1. \A i \in (n + 1)..Len(buf) : buf[i] \in Cell
      BY <1>a
    <3>2. Len(buf') = IF n + 1 <= Len(buf) THEN Len(buf) - (n + 1) + 1 ELSE 0
      BY <1>a, <2>3, <3>1, SubSeqProperties
    <3> QED
      BY <1>a, <3>2
  <2> QED
    BY <1>a, <2>1, <2>2, <2>4 DEF Writing, Base
<1>6. CASE SyncRecord
  <2>1. /\ pc = "append" /\ pc' = "sync" /\ os' = os /\ buf' = buf
        /\ given = Len(FieldsOf(req)) /\ given' = given /\ req' = req
    BY <1>6, CellsAre DEF SyncRecord, F!SyncFile, F!fileVars, callVars
  <2> QED
    BY <1>b, <2>1 DEF Writing, Base
<1>7. CASE HelperStep
  <2>1. /\ os' = os /\ buf' = buf /\ pc' = pc /\ req' = req /\ given' = given
    BY <1>7 DEF HelperStep, F!Helper, F!Flushed, F!FlushFails, F!Fsynced, F!FsyncFails,
       F!DirOpened, F!DirOpenFails, F!DirFsynced, F!DirFsyncFails, F!DirClosed, F!Interrupted,
       F!fileVars, callVars
  <2> QED
    BY <1>b, <2>1 DEF Writing, Base
<1>8. CASE \E call \in Calls[index] : Write(call[1], call[2])
  <2>1. /\ pc = "ready" /\ ~latched /\ pc' = "append" /\ given' = 0
        /\ os' = os /\ buf' = buf
    BY <1>8 DEF Write, fileVars
  <2>2. Ends(os, Len(os)) /\ buf = <<>> /\ All = os
    BY <2>1 DEF Before, AllOK, InBuffer, AllFacts
  <2>3. Base' = Len(All) /\ All' = All /\ Len(buf') = 0
    BY <1>a, <1>b, <2>1, <2>2 DEF Base
  <2> QED
    BY <1>a, <2>1, <2>2, <2>3 DEF Writing
<1>9. CASE WriteBack \/ UNCHANGED vars
  BY <1>9, <1>b DEF WriteBack, F!WriteBack, callVars, vars, fileVars, Writing, Base
<1> QED
  BY <1>1, <1>2, <1>3, <1>4, <1>5, <1>6, <1>7, <1>8, <1>9 DEF Next, Step, Environment

\* Where recover() stands.
LEMMA AtRecover ==
  ASSUME Before, pc = "recover"
  PROVE  /\ os \in Seq(Cell) /\ Len(os) \in Nat /\ Chained(os) /\ pos \in Nat /\ pos <= Len(os)
         /\ Ends(os, pos) /\ Passed \in Seq(Cell) /\ Len(Passed) = pos
         /\ \A i \in 1..pos : Passed[i] = os[i]
         /\ Chained(Passed) /\ Intact(Passed)
<1>1. /\ os \in Seq(Cell) /\ Len(os) \in Nat /\ pos \in Nat
  BY DEF Before, Types
<1>2. Chained(os) /\ Ends(os, pos)
  BY ChainedOs DEF Before, AllOK
<1>3. pos <= Len(os)
  BY <1>1, <1>2 DEF Ends
<1>4. Passed \in Seq(Cell) /\ Len(Passed) = pos /\ \A i \in 1..pos : Passed[i] = os[i]
  BY <1>1, <1>3, PassedIs
<1>5. Chained(Passed)
  BY <1>1, <1>2, <1>3, <1>4, ChainedPrefix
<1>6. Intact(Passed)
  BY <1>1, <1>3, <1>4 DEF Intact, Before, Undamaged
<1> QED
  BY <1>1, <1>2, <1>3, <1>4, <1>5, <1>6

\* One more record is passed.
LEMMA PassesOne ==
  ASSUME Before, ReplayRecord
  PROVE  /\ Parse(Passed') = Append(Parse(Passed), RecAt(os, pos))
         /\ Parse(Passed) \in Logs /\ RecAt(os, pos) \in Record
         /\ pc = "recover" /\ pos < Len(os) /\ pos' <= Len(os) /\ Ends(os, pos')
         /\ pos' = pos + SizeAt(os, pos)
<1>1. /\ pc = "recover" /\ Outcome(os, pos) = "whole" /\ pos' = pos + Size(os, pos) /\ os' = os
  BY DEF ReplayRecord, fileVars
<1>2. /\ os \in Seq(Cell) /\ Len(os) \in Nat /\ Chained(os) /\ pos \in Nat /\ pos <= Len(os)
      /\ Ends(os, pos) /\ Passed \in Seq(Cell) /\ Len(Passed) = pos
      /\ \A i \in 1..pos : Passed[i] = os[i] /\ os[i].is = "asWritten"
  BY <1>1, AtRecover DEF Before, Undamaged
<1>3. Size(os, pos) \in {8, 9} /\ pos + Size(os, pos) <= Len(os)
  BY <1>1, <1>2, WholeMeans
<1>i. \A i \in 1..Size(os, pos) : os[pos + i].is = "asWritten"
  BY <1>1, <1>2, WholeMeans
<1>8. /\ pos < Len(os) /\ Size(os, pos) = SizeAt(os, pos)
      /\ Ends(os, pos + SizeAt(os, pos))
  BY <1>1, <1>2, WholeEnds DEF SizeAt, RecAt
<1>4. pos < Len(os)
  BY <1>8
<1>5. SizeAt(os, pos) \in {8, 9} /\ RecAt(os, pos) \in Record
  <2>1. pos + 1 \in 1..Len(os)
    BY <1>2, <1>4
  <2>2. os[pos + 1] \in Cell
    BY <1>2, <2>1
  <2> QED
    BY <1>3, <1>8, <2>2 DEF RecAt, Cell
<1>7. pos + SizeAt(os, pos) <= Len(os)
  BY <1>3, <1>8
<1> DEFINE n == SizeAt(os, pos)
<1> DEFINE g == SubSeq(os, 1, pos + n)
<1> HIDE DEF n
<1>9. pos + n \in Nat /\ pos < pos + n /\ n \in {8, 9}
  BY <1>2, <1>5 DEF n
<1>10. g \in Seq(Cell) /\ Len(g) = pos + n /\ \A i \in 1..(pos + n) : g[i] = os[i]
  <2>1. \A i \in 1..(pos + n) : os[i] \in Cell
    BY <1>2, <1>7, <1>9 DEF n
  <2>2. /\ g \in Seq(Cell) /\ Len(g) = IF 1 <= pos + n THEN (pos + n) - 1 + 1 ELSE 0
        /\ \A i \in 1 .. (pos + n) - 1 + 1 : g[i] = os[1 + i - 1]
    BY <1>9, <2>1, SubSeqProperties
  <2>3. 1 <= pos + n /\ (pos + n) - 1 + 1 = pos + n
    BY <1>9, <1>2
  <2>4. Len(g) = pos + n
    BY <2>2, <2>3
  <2>5. \A i \in 1..(pos + n) : 1 + i - 1 = i
    BY <1>9
  <2> QED
    BY <2>2, <2>3, <2>4, <2>5
<1> HIDE DEF g
<1>11. Chained(g) /\ Intact(g)
  <2>1. Chained(g)
    BY <1>2, <1>7, <1>9, <1>10, ChainedPrefix DEF n
  <2>2. ASSUME NEW i \in 1..(pos + n) PROVE os[i].is = "asWritten"
    <3>1. i \in 1..pos \/ i - pos \in 1..n
      BY <1>2, <1>9
    <3>2. CASE i \in 1..pos
      BY <1>2, <3>2
    <3>3. CASE i - pos \in 1..n
      <4>1. os[pos + (i - pos)].is = "asWritten"
        BY <1>8, <1>i, <3>3 DEF n
      <4>2. pos + (i - pos) = i
        BY <1>2, <1>9
      <4> QED
        BY <4>1, <4>2
    <3> QED
      BY <3>1, <3>2, <3>3
  <2>3. Intact(g)
    BY <1>10, <2>2 DEF Intact
  <2> QED
    BY <2>1, <2>3
<1>12. Ends(g, pos)
  <2>1. CASE pos = 0
    BY <2>1 DEF Ends
  <2>2. CASE pos # 0
    <3>1. pos \in 1..Len(os) /\ pos \in 1..Len(g) /\ g[pos] = os[pos]
      BY <1>2, <1>9, <1>10, <2>2
    <3> QED
      BY <1>2, <2>2, <3>1 DEF Ends
  <2> QED
    BY <2>1, <2>2
<1>13. RecAt(g, pos) = RecAt(os, pos) /\ SizeAt(g, pos) = n
  <2>1. pos + 1 \in 1..(pos + n)
    BY <1>2, <1>9
  <2>2. g[pos + 1] = os[pos + 1]
    BY <1>10, <2>1
  <2> QED
    BY <2>2 DEF RecAt, SizeAt, n
<1>14. Len(Passed) < Len(g) /\ \A i \in 1..Len(Passed) : Passed[i] = g[i]
  BY <1>2, <1>9, <1>10
<1>15. /\ Parse(Passed) \in Logs
       /\ Parse(g) = Append(Parse(Passed), RecAt(g, pos))
  BY <1>2, <1>10, <1>11, <1>12, <1>13, <1>14, ParseAdds
<1>16. Passed' = g
  BY <1>1, <1>8 DEF Passed, g, n
<1> QED
  BY <1>1, <1>4, <1>5, <1>7, <1>8, <1>13, <1>15, <1>16

\* Every step keeps the count of the records.
LEMMA NextCounted == Before /\ Fresh /\ Counted /\ [Next]_vars => Counted'
<1> SUFFICES ASSUME Before, Fresh, Counted, [Next]_vars PROVE Counted'
  OBVIOUS
<1>c. Counted <=> (pc = "recover" => replayed = Len(Parse(Passed)))
  BY DEF Counted, Passed
<1>d. Counted' <=> (pc' = "recover" => replayed' = Len(Parse(Passed')))
  BY DEF Counted, Passed
<1>1. CASE Construct
  <2>1. CASE pc' = "recover"
    <3>1. pc = "opened" /\ replayed' = replayed /\ pos' = pos /\ os' = os
      BY <1>1, <2>1 DEF Construct, F!Returned, F!fileVars, NoProcess, callVars
    <3>2. pos = 0 /\ replayed = 0 /\ os \in Seq(Cell)
      BY <3>1 DEF Before, Undamaged, Fresh, Types
    <3>3. Passed' \in Seq(Cell) /\ Len(Passed') = 0
      BY <3>1, <3>2, PassedIs DEF Passed
    <3>4. ParseFrom(Passed')[0] = <<>>
      BY <3>3, ParseLast
    <3>5. Len(Parse(Passed')) = 0
      BY <3>4 DEF Parse
    <3> QED
      BY <1>d, <3>1, <3>2, <3>5
  <2> QED
    BY <2>1, <1>d
<1>2. CASE ReplayRecord
  <2>1. /\ Parse(Passed') = Append(Parse(Passed), RecAt(os, pos))
        /\ Parse(Passed) \in Logs /\ RecAt(os, pos) \in Record
    BY <1>2, PassesOne
  <2>2. Len(Append(Parse(Passed), RecAt(os, pos))) = Len(Parse(Passed)) + 1
    BY <2>1, AppendProperties DEF Logs
  <2>3. replayed' = replayed + 1 /\ pc = "recover"
    BY <1>2 DEF ReplayRecord
  <2> QED
    BY <1>c, <1>d, <2>1, <2>2, <2>3
<1>3. CASE Open \/ RecoverEnd \/ CutTail \/ Repaired \/ GiveField \/ GiveFails \/ PushFields
  BY <1>3, <1>d DEF Open, RecoverEnd, CutTail, Repaired, Recovered, NoProcess, GiveField,
     GiveFails, PushFields, Latch
<1>4. CASE SyncRecord \/ WriteReturns \/ Truncated \/ Truncate \/ TruncateFails
  BY <1>4, <1>d DEF SyncRecord, WriteReturns, Truncated, Truncate, TruncateFails, Latch
<1>5. CASE Crash \/ PowerLoss \/ Damage \/ \E call \in Calls[index] : Write(call[1], call[2])
  BY <1>5, <1>d DEF Crash, PowerLoss, Damage, NoProcess, Write
<1>6. CASE HelperStep
  <2>1. /\ os' = os /\ pc' = pc /\ pos' = pos /\ replayed' = replayed
    BY <1>6 DEF HelperStep, F!Helper, F!Flushed, F!FlushFails, F!Fsynced, F!FsyncFails,
       F!DirOpened, F!DirOpenFails, F!DirFsynced, F!DirFsyncFails, F!DirClosed, F!Interrupted,
       F!fileVars, callVars
  <2> QED
    BY <2>1 DEF Counted
<1>7. CASE WriteBack \/ UNCHANGED vars
  BY <1>7 DEF WriteBack, F!WriteBack, callVars, vars, fileVars, Counted
<1> QED
  BY <1>1, <1>2, <1>3, <1>4, <1>5, <1>6, <1>7 DEF Next, Step, Environment

-----------------------------------------------------------------------------
(* Every step on sound storage is one of the log's, or none.               *)

R == INSTANCE Wal_proofs WITH
    wal       <- IF sound THEN Parse(os) ELSE <<>>,
    walDisk   <- IF sound THEN Parse(disk) ELSE <<>>,
    acked     <- IF sound THEN acked ELSE 0,
    walIndex  <- IF sound THEN index ELSE 0,
    walFailed <- sound /\ latched,
    walReq    <- IF sound THEN req ELSE NoRecord,
    walPos    <- IF sound THEN replayed ELSE 0,
    walPc     <- IF sound THEN WalPc ELSE "none"

\* An empty file holds no record.
LEMMA ParseEmpty == Parse(<<>>) = <<>>
<1>1. <<>> \in Seq(Cell) /\ Len(<<>>) = 0
  OBVIOUS
<1>2. ParseFrom(<<>>)[0] = <<>>
  BY <1>1, ParseLast
<1> QED
  BY <1>2 DEF Parse

\* The file while write() appends: the records before, then a part of its own,
\* then all of it.
Whole == SubSeq(All, 1, Base)
Pushed == given - Len(buf)

\* What the file holds while a record is pushed.
Appended ==
    /\ Pushed \in 0..Len(FieldsOf(req)) /\ Parse(Whole) \in Logs
    /\ Pushed = 0 => Parse(os) = Parse(Whole)
    /\ Pushed > 0 /\ Pushed < Len(FieldsOf(req)) => Parse(os) = Append(Parse(Whole), Torn)
    /\ Pushed = Len(FieldsOf(req)) => Parse(os) = Append(Parse(Whole), req)

\* After a record was given in full, the file holds it as its last one.
LEMMA AppendedIs ==
  Types /\ AllFacts /\ Writing /\ Chained(All) /\ Intact(All) /\ pc \in {"append", "sync"} => Appended
<1> SUFFICES ASSUME Types, AllFacts, Writing, Chained(All), Intact(All), pc \in {"append", "sync"}
             PROVE  Appended
  OBVIOUS
<1> DEFINE m == Len(FieldsOf(req))
<1>1. /\ Len(os) \in Nat /\ Len(buf) \in Nat /\ Len(All) \in Nat /\ given \in Nat
      /\ Len(All) = Len(os) + Len(buf) /\ os \in Seq(Cell) /\ All \in Seq(Cell)
      /\ \A i \in 1..Len(os) : All[i] = os[i]
      /\ req \in Record /\ given <= m
  BY DEF Types, AllFacts
<1>2. /\ given <= Len(All) /\ Len(buf) <= given /\ Ends(All, Base)
      /\ given > 0 => RecAt(All, Base) = req
  BY DEF Writing
<1>3. m \in {8, 9}
  BY FieldsAre
<1> HIDE DEF m
<1>4. /\ Base \in Nat /\ Base <= Len(os) /\ Pushed \in 0..m /\ Len(os) = Base + Pushed
  BY <1>1, <1>2, <1>3 DEF Base, Pushed
<1>5. Whole \in Seq(Cell) /\ Len(Whole) = Base /\ \A i \in 1..Base : Whole[i] = os[i]
  <2>1. \A i \in 1..Base : All[i] \in Cell
    BY <1>1, <1>4
  <2>2. /\ Whole \in Seq(Cell) /\ Len(Whole) = IF 1 <= Base THEN Base - 1 + 1 ELSE 0
        /\ \A i \in 1 .. Base - 1 + 1 : Whole[i] = All[1 + i - 1]
    BY <1>4, <2>1, SubSeqProperties DEF Whole
  <2>3. Len(Whole) = Base /\ \A i \in 1..Base : Whole[i] = All[i]
    BY <1>4, <2>2
  <2>4. \A i \in 1..Base : All[i] = os[i]
    BY <1>1, <1>4
  <2> QED
    BY <2>2, <2>3, <2>4
<1>6. Chained(os) /\ Intact(os)
  BY ChainedOs DEF Intact, AllFacts
<1>7. Ends(os, Base)
  <2>1. CASE Base = 0
    BY <2>1 DEF Ends
  <2>2. CASE Base # 0
    <3>1. Base \in 1..Len(os) /\ All[Base] = os[Base]
      BY <1>1, <1>4, <2>2
    <3> QED
      BY <1>2, <2>2, <3>1 DEF Ends
  <2> QED
    BY <2>1, <2>2
<1>8. CASE Pushed = 0
  <2>1. Len(os) = Len(Whole)
    BY <1>4, <1>5, <1>8
  <2>2. os = Whole
    BY <1>1, <1>5, <1>4, <1>8, <2>1, SeqEqual
  <2>3. 0 \in 0..Len(os)
    BY <1>1
  <2>4. Parse(os) \in Logs
    BY <1>1, <2>3, ParseIs DEF Parse
  <2> QED
    <3>1. Parse(os) = Parse(Whole)
      BY <2>2
    <3>2. Parse(Whole) \in Logs
      BY <2>4, <3>1
    <3>3. Pushed \in 0..m /\ m \in Nat /\ m # 0
      BY <1>3, <1>4
    <3> QED
      BY <1>8, <3>1, <3>2, <3>3 DEF Appended, m
<1>9. CASE Pushed # 0
  <2>1. Len(Whole) < Len(os) /\ \A i \in 1..Len(Whole) : Whole[i] = os[i]
    BY <1>1, <1>4, <1>5, <1>9
  <2>2. RecAt(os, Base) = req
    <3>1. Base + 1 \in 1..Len(os) /\ given > 0
      BY <1>1, <1>4, <1>9, <1>2 DEF Pushed
    <3>2. All[Base + 1] = os[Base + 1]
      BY <1>1, <3>1
    <3> QED
      BY <1>2, <3>1, <3>2 DEF RecAt
  <2>3. SizeAt(os, Base) = m
    BY <2>2 DEF SizeAt, m
  <2>4. /\ Parse(Whole) \in Logs
        /\ Base + m = Len(os) => Parse(os) = Append(Parse(Whole), req)
        /\ Base + m > Len(os) => Parse(os) = Append(Parse(Whole), Torn)
    BY <1>1, <1>5, <1>6, <1>7, <2>1, <2>2, <2>3, ParseAdds
  <2>5. /\ Pushed = m => Base + m = Len(os)
        /\ Pushed < m => Base + m > Len(os)
    BY <1>1, <1>3, <1>4
  <2> QED
    BY <1>4, <1>9, <2>4, <2>5 DEF Appended, m
<1> QED
  BY <1>8, <1>9

\* The same in the next state.
LEMMA AppendedIsNext ==
  Types' /\ AllFacts' /\ Writing' /\ Chained(All)' /\ Intact(All)'
  /\ (pc \in {"append", "sync"})' => Appended'
  BY AppendedIs, PTL

\* The step of PushFields that the log sees.
LEMMA PushesFields ==
  ASSUME Before, Writing, AllOK', IntactOK', Writing', sound, PushFields
  PROVE  R!Next \/ UNCHANGED R!vars
<1>1. /\ pc \in {"append", "sync"} /\ pc' = pc /\ given' = given /\ req' = req
      /\ UNCHANGED <<disk, index, latched, replayed, acked, sound>>
  BY DEF PushFields, F!Push, callVars
<1>2. All' = All
  BY PushedAll DEF PushFields, Before
<1>3. Appended
  BY <1>1, AppendedIs DEF Before, AllOK, IntactOK, Read
<1>4. Appended'
  BY <1>1, AppendedIsNext DEF Before, AllOK, IntactOK, Read
<1>5. Whole' = Whole
  BY <1>1, <1>2 DEF Whole, Base
<1>6. PICK n \in 1..Len(buf) : buf' = SubSeq(buf, n + 1, Len(buf))
  BY DEF PushFields, F!Push
<1>7. Len(buf') = Len(buf) - n /\ Len(buf) \in Nat /\ n \in Nat /\ n > 0
  <2>1. buf \in Seq(Cell) /\ Len(buf) \in Nat
    BY DEF Before, Types
  <2>2. \A i \in (n + 1)..Len(buf) : buf[i] \in Cell
    BY <2>1
  <2>3. Len(buf') = IF n + 1 <= Len(buf) THEN Len(buf) - (n + 1) + 1 ELSE 0
    BY <1>6, <2>1, <2>2, SubSeqProperties
  <2> QED
    BY <2>1, <2>3
<1> DEFINE m == Len(FieldsOf(req))
<1> DEFINE before == Parse(Whole)
<1>8. m \in {8, 9} /\ m = Len(Cells(req)) /\ given \in Nat
  BY FieldsAre, CellsAre DEF Before, Types
<1>9. /\ Pushed \in 0..m /\ before \in Logs
      /\ Pushed = 0 => Parse(os) = before
      /\ Pushed > 0 /\ Pushed < m => Parse(os) = Append(before, Torn)
  BY <1>3 DEF Appended
<1>10. /\ Pushed' \in 0..m
       /\ Pushed' > 0 /\ Pushed' < m => Parse(os') = Append(before, Torn)
       /\ Pushed' = m => Parse(os') = Append(before, req)
  BY <1>1, <1>4, <1>5 DEF Appended
<1>11. Pushed' = Pushed + n
  BY <1>1, <1>7, <1>8 DEF Pushed
<1>12. WalPc = IF Pushed = 0 THEN "append" ELSE IF Pushed < m THEN "partial" ELSE "sync"
  BY <1>1, <1>8 DEF WalPc, Pushed
<1>13. WalPc' = IF Pushed' = 0 THEN "append" ELSE IF Pushed' < m THEN "partial" ELSE "sync"
  BY <1>1, <1>8 DEF WalPc, Pushed
<1>s. sound /\ sound'
  BY DEF Before
<1> HIDE DEF m, before
<1>14. Pushed < m /\ Pushed' > 0 /\ Pushed \in Nat
  BY <1>7, <1>8, <1>9, <1>10, <1>11
<1>15. CASE Pushed = 0 /\ Pushed' < m
  <2>1. R!PushPart
    BY <1>1, <1>9, <1>10, <1>12, <1>13, <1>14, <1>15, <1>s DEF R!PushPart, R!objVars
  <2> QED
    BY <2>1 DEF R!Next
<1>16. CASE Pushed = 0 /\ Pushed' = m
  <2>1. R!PushAll
    BY <1>1, <1>8, <1>9, <1>10, <1>12, <1>13, <1>14, <1>16, <1>s DEF R!PushAll, R!objVars
  <2> QED
    BY <2>1 DEF R!Next
<1>17. CASE Pushed # 0 /\ Pushed' < m
  <2>1. Parse(os') = Parse(os) /\ WalPc' = WalPc
    BY <1>9, <1>10, <1>12, <1>13, <1>14, <1>17
  <2> QED
    BY <1>1, <1>s, <2>1 DEF R!vars, R!diskVars, R!objVars
<1>18. CASE Pushed # 0 /\ Pushed' = m
  <2>1. WalPc = "partial" /\ Parse(os) = Append(before, Torn) /\ WalPc' = "sync"
        /\ Parse(os') = Append(before, req)
    BY <1>8, <1>9, <1>10, <1>12, <1>13, <1>14, <1>18
  <2>2. R!Front(Parse(os)) = before
    <3>1. PICK b \in Logs : b = before
      BY <1>9
    <3>2. Torn \in Record \cup {Torn}
      OBVIOUS
    <3>3. SubSeq(Append(b, Torn), 1, Len(Append(b, Torn)) - 1) = b
      BY <3>2 DEF Logs
    <3> QED
      BY <2>1, <3>1, <3>3 DEF R!Front
  <2>3. R!PushAll
    BY <1>1, <1>s, <2>1, <2>2 DEF R!PushAll, R!objVars
  <2> QED
    BY <2>3 DEF R!Next
<1>19. Pushed' < m \/ Pushed' = m
  BY <1>8, <1>10
<1> QED
  BY <1>15, <1>16, <1>17, <1>18, <1>19

\* What is known of a step on sound storage, and of the state after it.
Here == Before /\ AllOK' /\ IntactOK' /\ Mapped /\ Writing' /\ R!IInv /\ sound

\* recover() and the constructor.
LEMMA OsIntact == Here => Intact(os)
  BY DEF Here, Before, IntactOK, AllFacts, Intact

\* Opening the log is a step of Wal, or none.
LEMMA Opening ==
  ASSUME Here, Open \/ Construct
  PROVE  R!Next \/ UNCHANGED R!vars
<1>s. sound /\ sound'
  BY DEF Here, Before
<1>f. /\ pc \in {"none", "opened"} => index = 0 /\ ~latched /\ req = NoRecord /\ replayed = 0
  BY DEF Here, Mapped, Fresh
<1>1. CASE Open
  BY <1>1, <1>s DEF Open, F!SyncParentDirectory, F!fileVars, callVars, WalPc, R!vars, R!diskVars,
     R!objVars
<1>2. CASE Construct
  <2>1. pc = "opened" /\ os' = os /\ disk' = disk /\ acked' = acked
    BY <1>2 DEF Construct, F!Returned, F!Crash, F!StreamGone, F!fileVars, NoProcess
  <2>2. CASE pc' = "recover"
    <3>1. latched' = TRUE /\ UNCHANGED <<index, callVars>>
      BY <1>2, <2>2 DEF Construct, NoProcess
    <3>2. R!Construct
      BY <1>s, <1>f, <2>1, <2>2, <3>1 DEF R!Construct, R!diskVars, WalPc, callVars
    <3> QED
      BY <3>2 DEF R!Next
  <2>3. CASE pc' # "recover"
    <3>1. NoProcess
      BY <1>2, <2>3 DEF Construct
    <3>2. ~latched /\ ~latched' /\ index' = index /\ req' = req /\ replayed' = replayed
      BY <1>f, <2>1, <3>1 DEF NoProcess
    <3>3. WalPc = "none" /\ WalPc' = "none"
      BY <2>1, <3>1 DEF NoProcess, WalPc
    <3> QED
      BY <1>s, <2>1, <3>2, <3>3 DEF R!vars, R!diskVars, R!objVars
  <2> QED
    BY <2>2, <2>3
<1> QED
  BY <1>1, <1>2

\* Replaying a record is one.
LEMMA Replaying ==
  ASSUME Here, ReplayRecord
  PROVE  R!Next
<1>s. sound /\ sound'
  BY DEF Here, Before
<1>1. /\ Parse(Passed) \in Logs /\ RecAt(os, pos) \in Record
      /\ pc = "recover" /\ pos < Len(os) /\ Ends(os, pos')
      /\ pos' = pos + SizeAt(os, pos) /\ pos' <= Len(os)
  BY PassesOne DEF Here
<1>2. /\ os \in Seq(Cell) /\ Len(os) \in Nat /\ Chained(os) /\ pos \in Nat /\ pos <= Len(os)
      /\ Ends(os, pos) /\ Passed \in Seq(Cell) /\ Len(Passed) = pos
      /\ \A i \in 1..pos : Passed[i] = os[i]
  BY <1>1, AtRecover DEF Here
<1>i. Intact(os)
  BY OsIntact
<1>3. replayed = Len(Parse(Passed))
  BY <1>1 DEF Here, Mapped, Counted, Passed
<1>4. Parse(os) = Parse(Passed) \o ParseFrom(os)[pos]
  <2>1. Len(Passed) <= Len(os) /\ Ends(os, Len(Passed)) /\ \A i \in 1..Len(Passed) : Passed[i] = os[i]
    BY <1>2
  <2>2. \A at \in 0..Len(Passed) : Ends(os, at) =>
             ParseFrom(os)[at] = ParseFrom(Passed)[at] \o ParseFrom(os)[Len(Passed)]
    BY <1>2, <1>i, <2>1, ParseParts
  <2>3. 0 \in 0..Len(Passed) /\ Ends(os, 0)
    BY <1>2 DEF Ends
  <2> QED
    BY <1>2, <2>2, <2>3 DEF Parse
<1>5. ParseFrom(os)[pos] = Cons(RecAt(os, pos), ParseFrom(os)[pos'])
  BY <1>1, <1>2, <1>i, ParseNext
<1>6. ParseFrom(os)[pos'] \in Logs
  <2>1. SizeAt(os, pos) \in {8, 9}
    BY <1>1, <1>2, <1>i, ParseNext
  <2>2. pos' \in 0..Len(os)
    BY <1>1, <1>2, <2>1
  <2> QED
    BY <1>2, <2>2, ParseIs
<1>7. Parse(os)[replayed + 1] = RecAt(os, pos) /\ replayed < Len(Parse(os))
  <2> DEFINE r == RecAt(os, pos)
  <2>0. r \in Record \cup {Torn}
    BY <1>1
  <2> HIDE DEF r
  <2>1. PICK q \in Logs : q = <<r>> /\ Len(q) = 1 /\ q[1] = r
    <3>1. <<r>> \in Logs /\ Len(<<r>>) = 1 /\ <<r>>[1] = r
      BY <2>0 DEF Logs
    <3> QED
      BY <3>1
  <2>2. PICK t \in Logs : t = ParseFrom(os)[pos']
    BY <1>6
  <2>3. PICK u \in Logs : u = Parse(Passed)
    BY <1>1
  <2>4. q \o t \in Logs /\ Len(q \o t) = 1 + Len(t) /\ (q \o t)[1] = r
    <3>1. /\ q \o t \in Logs /\ Len(q \o t) = Len(q) + Len(t) 
          /\ \A i \in 1 .. Len(q) + Len(t) : (q \o t)[i] = IF i <= Len(q) THEN q[i] ELSE t[i - Len(q)]
      BY ConcatProperties DEF Logs
    <3>2. Len(t) \in Nat /\ 1 \in 1..Len(q) + Len(t)
      BY <2>1 DEF Logs
    <3> QED
      BY <2>1, <3>1, <3>2
  <2>5. PICK v \in Logs : v = q \o t
    BY <2>4
  <2>6. Len(u \o v) = Len(u) + Len(v) /\ (u \o v)[Len(u) + 1] = r
    <3>1. /\ Len(u \o v) = Len(u) + Len(v)
          /\ \A i \in 1 .. Len(u) + Len(v) : (u \o v)[i] = IF i <= Len(u) THEN u[i] ELSE v[i - Len(u)]
      BY ConcatProperties DEF Logs
    <3>2. Len(u) \in Nat /\ Len(v) \in Nat /\ Len(v) >= 1
      BY <2>4, <2>5 DEF Logs
    <3>3. Len(u) + 1 \in 1..Len(u) + Len(v) /\ ~ (Len(u) + 1 <= Len(u)) /\ (Len(u) + 1) - Len(u) = 1
      BY <3>2
    <3> QED
      BY <2>4, <2>5, <3>1, <3>3
  <2>7. Parse(os) = u \o v
    BY <1>4, <1>5, <2>1, <2>2, <2>3, <2>5 DEF Cons, r
  <2>8. Len(u) \in Nat /\ Len(v) \in Nat /\ Len(v) > 0 /\ replayed = Len(u)
    BY <1>3, <2>3, <2>4, <2>5 DEF Logs
  <2> QED
    BY <2>6, <2>7, <2>8 DEF r
<1>8. os[pos + 3].rec = RecAt(os, pos)
  <2> DEFINE r == os[pos + 1].rec
  <2> DEFINE n == Len(FieldsOf(r))
  <2>1. n \in {8, 9} /\ \A i \in 1..n : pos + i <= Len(os) => os[pos + i].rec = r
    BY <1>1, <1>2, NextRecord, FieldsAre
  <2>2. 3 \in 1..n /\ pos + 3 <= Len(os)
    <3>1. SizeAt(os, pos) \in {8, 9}
      BY <1>1, <1>2, <1>i, ParseNext
    <3>2. pos + 3 <= pos + SizeAt(os, pos)
      BY <1>2, <3>1
    <3> HIDE DEF n, r
    <3>3. 3 \in 1..n
      BY <2>1
    <3> QED
      BY <1>1, <1>2, <3>1, <3>2, <3>3
  <2> HIDE DEF r
  <2>4. os[pos + 3].rec = r
    BY <2>1, <2>2
  <2> QED
    BY <2>4 DEF RecAt, r
<1>9. Parse(os)[replayed + 1] # Torn
  BY <1>1, <1>7, MarkerAssumption
<1>10. /\ os' = os /\ disk' = disk /\ replayed' = replayed + 1 /\ pc' = pc
       /\ index' = RecAt(os, pos).index + 1
       /\ latched' = latched /\ req' = req /\ acked' = acked
  BY <1>8 DEF ReplayRecord, fileVars
<1>11. R!ReplayRecord
  BY <1>1, <1>7, <1>9, <1>10, <1>s DEF R!ReplayRecord, R!diskVars, WalPc
<1> QED
  BY <1>11 DEF R!Next

\* So is each step of the repair.
LEMMA Recovering ==
  ASSUME Here, RecoverEnd \/ CutTail \/ Repaired
  PROVE  R!Next
<1>s. sound /\ sound'
  BY DEF Here, Before
<1>1. CASE RecoverEnd
  <2>1. pc = "recover" /\ pos = Len(os)
    BY <1>1 DEF RecoverEnd
  <2>2. /\ os \in Seq(Cell) /\ Passed \in Seq(Cell) /\ Len(Passed) = pos
        /\ \A i \in 1..pos : Passed[i] = os[i]
    BY <2>1, AtRecover DEF Here
  <2>3. Passed = os
    BY <2>1, <2>2, SeqEqual
  <2>4. replayed = Len(Parse(os))
    BY <2>1, <2>3 DEF Here, Mapped, Counted, Passed
  <2>5. R!RecoverEnd
    BY <1>1, <1>s, <2>1, <2>4 DEF RecoverEnd, Recovered, fileVars, R!RecoverEnd, R!diskVars, WalPc
  <2> QED
    BY <2>5 DEF R!Next
<1>2. CASE CutTail
  <2>1. pc = "recover" /\ pos < Len(os) /\ Outcome(os, pos) # "whole" /\ os' = Passed
    BY <1>2 DEF CutTail, Passed
  <2>2. /\ os \in Seq(Cell) /\ Len(os) \in Nat /\ Chained(os) /\ pos \in Nat /\ pos <= Len(os)
        /\ Ends(os, pos) /\ Passed \in Seq(Cell) /\ Len(Passed) = pos
        /\ \A i \in 1..pos : Passed[i] = os[i]
    BY <2>1, AtRecover DEF Here
  <2>i. Intact(os)
    BY OsIntact
  <2>3. pos + SizeAt(os, pos) > Len(os)
    <3>1. SizeAt(os, pos) \in {8, 9}
      BY <2>1, <2>2, <2>i, ParseNext
    <3>2. pos + SizeAt(os, pos) <= Len(os) => Outcome(os, pos) = "whole"
      BY <2>1, <2>2, <2>i, ParseNext
    <3> QED
      BY <2>1, <2>2, <3>1, <3>2
  <2>4. Parse(Passed) \in Logs /\ Parse(os) = Append(Parse(Passed), Torn)
    <3>1. Len(Passed) < Len(os) /\ \A i \in 1..Len(Passed) : Passed[i] = os[i]
      BY <2>1, <2>2
    <3> QED
      BY <2>2, <2>3, <2>i, <3>1, ParseAdds
  <2>5. replayed = Len(Parse(Passed))
    BY <2>1 DEF Here, Mapped, Counted, Passed
  <2>6. PICK u \in Logs : u = Parse(Passed)
    BY <2>4
  <2>7. /\ Len(Parse(os)) = replayed + 1 /\ Parse(os)[replayed + 1] = Torn
        /\ SubSeq(Parse(os), 1, replayed) = Parse(Passed) /\ replayed \in Nat
    <3>1. Torn \in Record \cup {Torn}
      OBVIOUS
    <3>2. /\ Len(Append(u, Torn)) = Len(u) + 1 /\ Append(u, Torn)[Len(u) + 1] = Torn
          /\ SubSeq(Append(u, Torn), 1, Len(u)) = u /\ Len(u) \in Nat
      BY <3>1 DEF Logs
    <3> QED
      BY <2>4, <2>5, <2>6, <3>2
  <2>8. acked <= replayed /\ acked \in Nat
    <3>1. /\ acked \in Nat /\ acked <= Len(Parse(os))
          /\ \A i \in 1..acked : Parse(os)[i] # Torn
      BY <1>s DEF Here, R!IInv, R!TypeOK, R!FilesOK, R!FileOK, R!Covered
    <3>2. acked # replayed + 1
      BY <2>7, <3>1
    <3> QED
      BY <2>7, <3>1, <3>2
  <2>9. acked' = acked
    <3>1. {acked, replayed} \in SUBSET Nat /\ {acked, replayed} # {}
      BY <2>7, <2>8
    <3>2. Min({acked, replayed}) \in {acked, replayed}
          /\ \A x \in {acked, replayed} : Min({acked, replayed}) <= x
      BY <3>1, MinIsLeast
    <3>3. Min({acked, replayed}) = acked
      BY <2>7, <2>8, <3>2
    <3> QED
      BY <1>2, <3>3 DEF CutTail
  <2>10. R!CutTail
    <3>1. /\ pc' = "repair" /\ disk' = disk /\ index' = index /\ latched' = latched
          /\ req' = req /\ replayed' = replayed
      BY <1>2 DEF CutTail
    <3>2. WalPc = "recover" /\ WalPc' = "repair"
      BY <2>1, <3>1 DEF WalPc
    <3>3. Parse(os') = SubSeq(Parse(os), 1, replayed) /\ replayed < Len(Parse(os))
      BY <2>1, <2>7
    <3> QED
      BY <1>s, <2>7, <2>9, <3>1, <3>2, <3>3 DEF R!CutTail, R!objVars
  <2> QED
    BY <2>10 DEF R!Next
<1>3. CASE Repaired
  <2>1. pc = "repair" /\ os' = os /\ disk' = disk /\ acked' = acked
    BY <1>3 DEF Repaired, F!Returned, F!Crash, F!StreamGone, F!fileVars, NoProcess
  <2>2. CASE pc' = "ready"
    <3>1. io = "ok" /\ Recovered /\ UNCHANGED <<index, req>>
      BY <1>3, <2>2 DEF Repaired, F!Returned, NoProcess
    <3>2. disk = os
      BY <2>1, <3>1 DEF Here, Mapped, Synced
    <3>3. R!SyncRepair
      BY <1>s, <2>1, <3>1, <3>2 DEF R!SyncRepair, Recovered, WalPc
    <3> QED
      BY <3>3 DEF R!Next
  <2>3. CASE pc' # "ready"
    <3>1. NoProcess
      BY <1>3, <2>3 DEF Repaired, Recovered
    <3>2. R!Crash
      BY <1>s, <2>1, <3>1 DEF R!Crash, R!Gone, R!diskVars, NoProcess, WalPc
    <3> QED
      BY <3>2 DEF R!Next
  <2> QED
    BY <2>2, <2>3
<1> QED
  BY <1>1, <1>2, <1>3

\* write() and its fields.
LEMMA Appending ==
  ASSUME Here, GiveField \/ GiveFails \/ SyncRecord \/ WriteReturns
  PROVE  R!Next \/ UNCHANGED R!vars
<1>s. sound /\ sound'
  BY DEF Here, Before
<1>t. given \in Nat /\ Len(buf) \in Nat
  BY DEF Here, Before, Types, AllFacts
<1>l. Len(FieldsOf(req)) \in {8, 9} /\ Len(Cells(req)) = Len(FieldsOf(req))
  BY FieldsAre, CellsAre
<1>p. pc \in {"append", "sync"} => WalPc \in {"append", "partial", "sync"}
  BY DEF WalPc
<1>1. CASE GiveField
  <2>1. /\ pc = "append" /\ pc' = "append" /\ given' = given + 1 /\ req' = req
        /\ buf' = Append(buf, Cells(req)[given + 1])
        /\ UNCHANGED <<os, disk, index, latched, replayed, acked>>
    BY <1>1 DEF GiveField, F!WriteBytes, F!fileVars
  <2>2. PICK c \in Cell : buf' = Append(buf, c)
    BY <1>1, Given DEF Here
  <2>3. Len(buf') = Len(buf) + 1
    <3>1. buf \in Seq(Cell)
      BY DEF Here, Before, Types
    <3> QED
      BY <2>2, <3>1, AppendProperties
  <2>4. given' - Len(buf') = given - Len(buf)
    BY <1>t, <2>1, <2>3
  <2>5. WalPc' = WalPc
    BY <2>1, <2>4 DEF WalPc
  <2> QED
    BY <1>s, <2>1, <2>5 DEF R!vars, R!diskVars, R!objVars
<1>2. CASE GiveFails
  <2>1. /\ pc = "append" /\ pc' = "ready" /\ latched' = TRUE /\ req' = NoRecord
        /\ UNCHANGED <<os, disk, index, replayed, acked>>
    BY <1>2 DEF GiveFails, F!WriteBytesFails, F!fileVars, Latch
  <2>2. WalPc' = "ready"
    BY <2>1 DEF WalPc
  <2>3. R!WriteFail
    BY <1>p, <1>s, <2>1, <2>2 DEF R!WriteFail, R!diskVars
  <2> QED
    BY <2>3 DEF R!Next
<1>3. CASE SyncRecord
  <2>1. /\ pc = "append" /\ pc' = "sync" /\ given' = given /\ req' = req /\ buf' = buf
        /\ UNCHANGED <<os, disk, index, latched, replayed, acked>>
    BY <1>3 DEF SyncRecord, F!SyncFile, F!fileVars, callVars
  <2>2. WalPc' = WalPc
    BY <2>1 DEF WalPc
  <2> QED
    BY <1>s, <2>1, <2>2 DEF R!vars, R!diskVars, R!objVars
<1>4. CASE WriteReturns /\ io = "ok"
  <2>1. /\ pc = "sync" /\ pc' = "ready" /\ req' = NoRecord /\ index' = index + 1
        /\ acked' = Len(Parse(os)) /\ latched' = latched
        /\ UNCHANGED <<os, disk, replayed>>
    BY <1>4 DEF WriteReturns, F!Returned, F!fileVars
  <2>2. disk = os /\ buf = <<>> /\ given = Len(FieldsOf(req))
    BY <1>4, <2>1 DEF Here, Mapped, Synced, Before, InBuffer, Mapped, Writing
  <2>3. Len(buf) = 0
    BY <2>2
  <2>4. WalPc = "sync"
    BY <1>l, <2>1, <2>2, <2>3 DEF WalPc
  <2>5. WalPc' = "ready"
    BY <2>1 DEF WalPc
  <2>6. R!WriteSynced
    BY <1>s, <2>1, <2>2, <2>4, <2>5 DEF R!WriteSynced
  <2> QED
    BY <2>6 DEF R!Next
<1>5. CASE WriteReturns /\ io # "ok"
  <2>1. /\ pc = "sync" /\ pc' = "ready" /\ latched' = TRUE /\ req' = NoRecord
        /\ UNCHANGED <<os, disk, index, replayed, acked>>
    BY <1>5 DEF WriteReturns, F!Returned, F!fileVars, Latch
  <2>2. WalPc' = "ready"
    BY <2>1 DEF WalPc
  <2>3. R!WriteFail
    BY <1>p, <1>s, <2>1, <2>2 DEF R!WriteFail, R!diskVars
  <2> QED
    BY <2>3 DEF R!Next
<1> QED
  BY <1>1, <1>2, <1>3, <1>4, <1>5

\* What the caller asks for, and truncate().
LEMMA Calling ==
  ASSUME Here, \/ index < MaxIndex /\ \E call \in Calls[index] : Write(call[1], call[2])
               \/ Truncate \/ TruncateFails \/ Truncated
  PROVE  R!Next
<1>s. sound /\ sound'
  BY DEF Here, Before
<1>1. CASE index < MaxIndex /\ \E call \in Calls[index] : Write(call[1], call[2])
  <2>1. PICK call \in Calls[index] : Write(call[1], call[2])
    BY <1>1
  <2>2. /\ pc = "ready" /\ ~latched /\ pc' = "append" /\ given' = 0
        /\ req' = [index |-> index, key |-> call[1], val |-> call[2]]
        /\ UNCHANGED <<buf, os, disk, index, latched, replayed, acked>>
    BY <2>1 DEF Write, fileVars
  <2>3. buf = <<>>
    BY <2>2 DEF Here, Before, InBuffer
  <2>4. WalPc = "ready" /\ WalPc' = "append"
    <3>1. buf' = <<>> /\ Len(<<>>) = 0
      BY <2>2, <2>3
    <3>2. Len(buf') = 0 /\ given' = 0
      BY <2>2, <3>1
    <3>3. given' - Len(buf') = 0
      BY <3>2
    <3> QED
      BY <2>2, <3>3 DEF WalPc
  <2>5. call[1] \in Key /\ call[2] \in Val \cup {Tomb}
    <3>1. index \in 0..(MaxIndex - 1)
      BY <1>1, BoundAssumption DEF Here, Before, Types
    <3>2. Calls[index] \in SUBSET (Key \X (Val \cup {Tomb}))
      BY <3>1, CallsAssumption
    <3> QED
      BY <3>2
  <2>6. R!Write(call[1], call[2])
    BY <1>1, <1>s, <2>2, <2>4 DEF R!Write, R!diskVars
  <2> QED
    BY <2>5, <2>6 DEF R!Next
<1>2. CASE Truncate
  <2>1. /\ pc = "ready" /\ pc' = "truncate" /\ latched' = TRUE /\ os' = <<>> /\ acked' = 0
        /\ UNCHANGED <<disk, index, req, replayed>>
    BY <1>2 DEF Truncate, callVars
  <2>2. WalPc = "ready" /\ WalPc' = "truncated"
    BY <2>1 DEF WalPc
  <2>3. R!Truncate
    BY <1>s, <2>1, <2>2, ParseEmpty DEF R!Truncate
  <2> QED
    BY <2>3 DEF R!Next
<1>3. CASE TruncateFails
  <2>1. /\ pc = "ready" /\ pc' = pc /\ latched' = TRUE
        /\ UNCHANGED <<os, disk, acked, index, req, replayed>>
    BY <1>3 DEF TruncateFails, fileVars, callVars
  <2>2. WalPc = "ready" /\ WalPc' = "ready"
    BY <2>1 DEF WalPc
  <2>3. R!TruncateFail
    BY <1>s, <2>1, <2>2 DEF R!TruncateFail, R!diskVars
  <2> QED
    BY <2>3 DEF R!Next
<1>4. CASE Truncated
  <2>1. /\ pc = "truncate" /\ pc' = "ready" /\ latched
        /\ UNCHANGED <<os, disk, acked, index, req, replayed>>
    BY <1>4 DEF Truncated, F!Returned, F!fileVars, callVars, Here, Mapped, Fresh
  <2>2. WalPc = "truncated" /\ WalPc' = "ready"
    BY <2>1 DEF WalPc
  <2>3. CASE latched'
    <3>1. R!TruncateSyncFail
      BY <1>s, <2>1, <2>2, <2>3 DEF R!TruncateSyncFail, R!objVars
    <3> QED
      BY <3>1 DEF R!Next
  <2>4. CASE ~latched'
    <3>1. io = "ok"
      BY <1>4, <2>1, <2>4 DEF Truncated, F!Returned
    <3>2. disk = os
      BY <2>1, <3>1 DEF Here, Mapped, Synced
    <3>3. R!TruncateSynced
      BY <1>s, <2>1, <2>2, <2>4, <3>2 DEF R!TruncateSynced
    <3> QED
      BY <3>3 DEF R!Next
  <2> QED
    BY <2>3, <2>4
<1> QED
  BY <1>1, <1>2, <1>3, <1>4

\* The helpers, the process's end, and the storage.
LEMMA Environs ==
  ASSUME Here, HelperStep \/ WriteBack \/ Crash \/ PowerLoss
  PROVE  R!Next \/ UNCHANGED R!vars
<1>s. sound /\ sound'
  BY DEF Here, Before
<1>1. CASE HelperStep \/ WriteBack
  <2>1. /\ disk' \in {disk, os}
        /\ UNCHANGED <<os, buf, pc, acked, index, latched, req, given, replayed>>
    BY <1>1 DEF HelperStep, F!Helper, F!Flushed, F!FlushFails, F!Fsynced, F!FsyncFails,
       F!DirOpened, F!DirOpenFails, F!DirFsynced, F!DirFsyncFails, F!DirClosed, F!Interrupted,
       F!fileVars, callVars, WriteBack, F!WriteBack
  <2>2. WalPc' = WalPc
    BY <2>1 DEF WalPc
  <2>3. CASE Parse(disk') = Parse(disk)
    BY <1>s, <2>1, <2>2, <2>3 DEF R!vars, R!diskVars, R!objVars
  <2>4. CASE Parse(disk') # Parse(disk)
    <3>1. disk' = os /\ Parse(disk) # Parse(os)
      BY <2>1, <2>4
    <3>2. R!WriteBack
      BY <1>s, <2>1, <2>2, <3>1 DEF R!WriteBack, R!objVars
    <3> QED
      BY <3>2 DEF R!Next
  <2> QED
    BY <2>3, <2>4
<1>2. CASE Crash
  <2>1. /\ pc # "none" /\ pc' = "none" /\ index' = 0 /\ ~latched' /\ req' = NoRecord /\ replayed' = 0
        /\ UNCHANGED <<os, disk, acked>>
    BY <1>2 DEF Crash, F!Crash, F!StreamGone, F!fileVars, NoProcess
  <2>2. WalPc' = "none"
    BY <2>1 DEF WalPc
  <2>3. CASE pc = "opened"
    <3>1. index = 0 /\ ~latched /\ req = NoRecord /\ replayed = 0
      BY <2>3 DEF Here, Mapped, Fresh
    <3>2. WalPc = "none"
      BY <2>3 DEF WalPc
    <3> QED
      BY <1>s, <2>1, <2>2, <3>1, <3>2 DEF R!vars, R!diskVars, R!objVars
  <2>4. CASE pc # "opened"
    <3>1. WalPc # "none"
      BY <2>1, <2>4 DEF WalPc
    <3>2. R!Crash
      BY <1>s, <2>1, <2>2, <3>1 DEF R!Crash, R!Gone, R!diskVars
    <3> QED
      BY <3>2 DEF R!Next
  <2> QED
    BY <2>3, <2>4
<1>3. CASE PowerLoss
  <2>1. /\ pc' = "none" /\ index' = 0 /\ ~latched' /\ req' = NoRecord /\ replayed' = 0
        /\ os' = disk /\ UNCHANGED <<disk, acked>>
    BY <1>3 DEF PowerLoss, F!PowerLoss, F!StreamGone, NoProcess
  <2>2. WalPc' = "none"
    BY <2>1 DEF WalPc
  <2>3. R!PowerLoss
    BY <1>s, <2>1, <2>2 DEF R!PowerLoss, R!Gone
  <2> QED
    BY <2>3 DEF R!Next
<1> QED
  BY <1>1, <1>2, <1>3

\* Every step on sound storage is a step of Wal, or none.
LEMMA SoundStep == Here /\ [Next]_vars => R!Next \/ UNCHANGED R!vars
<1> SUFFICES ASSUME Here, [Next]_vars PROVE R!Next \/ UNCHANGED R!vars
  OBVIOUS
<1>s. sound /\ sound'
  BY DEF Here, Before
<1>1. CASE Open \/ Construct
  BY <1>1, Opening
<1>2. CASE ReplayRecord
  BY <1>2, Replaying
<1>3. CASE RecoverEnd \/ CutTail \/ Repaired
  BY <1>3, Recovering
<1>4. CASE GiveField \/ GiveFails \/ SyncRecord \/ WriteReturns
  BY <1>4, Appending
<1>5. CASE PushFields
  BY <1>5, PushesFields DEF Here, Mapped
<1>6. CASE \/ index < MaxIndex /\ \E call \in Calls[index] : Write(call[1], call[2])
           \/ Truncate \/ TruncateFails \/ Truncated
  BY <1>6, Calling
<1>7. CASE HelperStep \/ WriteBack \/ Crash \/ PowerLoss
  BY <1>7, Environs
<1>8. CASE Damage
  BY <1>8, <1>s DEF Damage
<1>9. CASE UNCHANGED vars
  <2>1. WalPc' = WalPc
    BY <1>9 DEF vars, fileVars, callVars, WalPc
  <2> QED
    BY <1>9, <2>1 DEF vars, fileVars, callVars, R!vars, R!diskVars, R!objVars
<1> QED
  BY <1>1, <1>2, <1>3, <1>4, <1>5, <1>6, <1>7, <1>8, <1>9 DEF Next, Step, Environment

-----------------------------------------------------------------------------
(* The refinement.                                                         *)

RInv == IInv /\ Mapped /\ R!IInv

\* Every step keeps the invariant of the mapping, and maps to a step of Wal, or
\* none.
LEMMA NextRInv == RInv /\ [Next]_vars => RInv' /\ (R!Next \/ UNCHANGED R!vars)
<1> SUFFICES ASSUME RInv, [Next]_vars PROVE RInv' /\ (R!Next \/ UNCHANGED R!vars)
  OBVIOUS
<1>1. IInv' /\ Before
  BY NextIInv, NextBefore DEF RInv
<1>2. sound' = sound
  BY SoundStays
<1>3. Mapped'
  BY <1>1, NextFresh, NextSynced, NextWriting, NextCounted DEF RInv, IInv, Mapped
<1>4. CASE ~sound
  <2>1. UNCHANGED R!vars
    BY <1>2, <1>4 DEF R!vars, R!diskVars, R!objVars
  <2>2. R!IInv'
    BY <2>1, R!NextIInv, BoundAssumption, MarkerAssumption DEF RInv, Record, R!Record
  <2> QED
    BY <1>1, <1>3, <2>1, <2>2 DEF RInv
<1>5. CASE sound
  <2>1. Here
    BY <1>1, <1>3, <1>5 DEF RInv, IInv, FileOK, Mapped, Here
  <2>2. R!Next \/ UNCHANGED R!vars
    BY <2>1, SoundStep
  <2>3. R!IInv'
    BY <2>2, R!NextIInv, BoundAssumption, MarkerAssumption DEF RInv, Record, R!Record
  <2> QED
    BY <1>1, <1>3, <2>2, <2>3 DEF RInv
<1> QED
  BY <1>4, <1>5

\* Initial states map to initial states.
LEMMA InitRInv == Init => RInv /\ R!Init
<1> SUFFICES ASSUME Init PROVE RInv /\ R!Init
  OBVIOUS
<1>1. IInv /\ Mapped
  BY InitIInv, InitMapped
<1>2. R!Init
  <2>1. WalPc = "none"
    BY DEF Init, WalPc
  <2> QED
    BY <2>1, ParseEmpty DEF Init, F!Init, R!Init
<1>3. R!IInv
  BY <1>2, R!InitIInv, BoundAssumption, MarkerAssumption DEF Record, R!Record
<1> QED
  BY <1>1, <1>2, <1>3 DEF RInv

\* The two instances of the log's specification are one.
LEMMA SameLog ==
    /\ R!Init => Records!Init
    /\ R!Next => Records!Next
    /\ UNCHANGED R!vars => UNCHANGED Records!vars
<1> USE DEF R!diskVars, Records!diskVars, R!objVars, Records!objVars, R!Gone, Records!Gone
<1>1. /\ R!Construct => Records!Construct
      /\ R!ReplayRecord => Records!ReplayRecord
      /\ R!RecoverEnd => Records!RecoverEnd
      /\ R!CutTail => Records!CutTail
      /\ R!SyncRepair => Records!SyncRepair
  BY DEF R!Construct, Records!Construct, R!ReplayRecord, Records!ReplayRecord, R!RecoverEnd,
         Records!RecoverEnd, R!CutTail, Records!CutTail, R!SyncRepair, Records!SyncRepair
<1>2. /\ \A k \in Key, v \in Val \cup {Tomb} : R!Write(k, v) => Records!Write(k, v)
      /\ R!PushPart => Records!PushPart
      /\ R!PushAll => Records!PushAll
      /\ R!WriteSynced => Records!WriteSynced
      /\ R!WriteFail => Records!WriteFail
  BY DEF R!Front, Records!Front, R!Write, Records!Write, R!PushPart, Records!PushPart, R!PushAll,
         Records!PushAll, R!WriteSynced, Records!WriteSynced, R!WriteFail, Records!WriteFail
<1>3. /\ R!Truncate => Records!Truncate
      /\ R!TruncateFail => Records!TruncateFail
      /\ R!TruncateSynced => Records!TruncateSynced
      /\ R!TruncateSyncFail => Records!TruncateSyncFail
  BY DEF R!Truncate, Records!Truncate, R!TruncateFail, Records!TruncateFail, R!TruncateSynced,
         Records!TruncateSynced, R!TruncateSyncFail, Records!TruncateSyncFail
<1>4. /\ R!Crash => Records!Crash
      /\ R!PowerLoss => Records!PowerLoss
      /\ R!WriteBack => Records!WriteBack
  BY DEF R!Crash, Records!Crash, R!PowerLoss, Records!PowerLoss, R!WriteBack, Records!WriteBack
<1>5. R!Init => Records!Init
  BY DEF R!Init, Records!Init
<1>6. UNCHANGED R!vars => UNCHANGED Records!vars
  BY DEF R!vars, Records!vars
<1> QED
  BY <1>1, <1>2, <1>3, <1>4, <1>5, <1>6 DEF R!Next, Records!Next

\* On sound storage the log, written field by field through a buffer that goes
\* to the file in pieces, read back field by field and cut where a field is
\* missing, behaves as the log of whole records that module Wal specifies: what
\* is proved of that one (no acknowledged record is lost, none is hidden behind
\* a torn one) holds of the bytes.
THEOREM FieldsImplementRecords == Spec => ImplementsWal
<1>1. Init => RInv /\ Records!Init
  BY InitRInv, SameLog
<1>2. RInv /\ [Next]_vars => RInv' /\ [Records!Next]_Records!vars
  BY NextRInv, SameLog
<1> QED
  BY <1>1, <1>2, PTL DEF Spec, ImplementsWal, Records!Spec

\* What is left of the type invariant.
FileRest == streamError \in BOOLEAN /\ io \in F!IoStates /\ errno \in F!Errnos

\* What else the type of the file says, at first.
LEMMA InitFileRest == Init => FileRest
  BY DEF Init, F!Init, FileRest, F!IoStates, F!Errnos

\* Every step keeps it.
LEMMA NextFileRest == FileRest /\ [Next]_vars => FileRest'
<1> SUFFICES ASSUME FileRest, [Next]_vars PROVE FileRest'
  OBVIOUS
<1> USE DEF FileRest, F!IoStates, F!Errnos
<1>1. CASE Open
  BY <1>1 DEF Open, F!SyncParentDirectory
<1>2. CASE Construct \/ Repaired
  BY <1>2 DEF Construct, Repaired, F!Returned, F!Crash, F!StreamGone
<1>3. CASE ReplayRecord \/ RecoverEnd \/ CutTail
  BY <1>3 DEF ReplayRecord, RecoverEnd, CutTail, fileVars
<1>4. CASE GiveField \/ GiveFails
  BY <1>4 DEF GiveField, F!WriteBytes, GiveFails, F!WriteBytesFails
<1>5. CASE PushFields \/ SyncRecord
  BY <1>5 DEF PushFields, F!Push, SyncRecord, F!SyncFile
<1>6. CASE WriteReturns \/ Truncated
  BY <1>6 DEF WriteReturns, Truncated, F!Returned
<1>7. CASE HelperStep
  BY <1>7 DEF HelperStep, F!Helper, F!Flushed, F!FlushFails, F!Fsynced, F!FsyncFails,
     F!DirOpened, F!DirOpenFails, F!DirFsynced, F!DirFsyncFails, F!DirClosed, F!Interrupted
<1>8. CASE \E call \in Calls[index] : Write(call[1], call[2])
  BY <1>8 DEF Write, fileVars
<1>9. CASE Truncate \/ TruncateFails
  BY <1>9 DEF Truncate, TruncateFails, fileVars
<1>10. CASE Crash \/ PowerLoss
  BY <1>10 DEF Crash, F!Crash, PowerLoss, F!PowerLoss, F!StreamGone
<1>11. CASE WriteBack \/ Damage
  BY <1>11 DEF WriteBack, F!WriteBack, Damage
<1>12. CASE UNCHANGED vars
  BY <1>12 DEF vars, fileVars
<1> QED
  BY <1>1, <1>2, <1>3, <1>4, <1>5, <1>6, <1>7, <1>8, <1>9, <1>10, <1>11, <1>12
     DEF Next, Step, Environment

\* What is left of the type invariant, for the object.
CallRest ==
    /\ latched \in BOOLEAN /\ sound \in BOOLEAN
    /\ stop \in {"torn_tail", "corrupt_record"}
    /\ replayed \in Nat /\ acked \in Nat
    /\ pc \notin {"append", "sync"} => given = 0

\* What else the type of the call says, at first.
LEMMA InitCallRest == Init => CallRest
<1> SUFFICES ASSUME Init PROVE CallRest
  OBVIOUS
<1>1. latched \in BOOLEAN /\ sound \in BOOLEAN
  BY DEF Init
<1>2. replayed = 0 /\ acked = 0 /\ given = 0 /\ stop = "torn_tail"
  BY DEF Init
<1> QED
  BY <1>1, <1>2 DEF CallRest

\* Every step keeps it.
LEMMA NextCallRest == Types /\ CallRest /\ [Next]_vars => CallRest'
<1> SUFFICES ASSUME Types, CallRest, [Next]_vars PROVE CallRest'
  OBVIOUS
<1> USE DEF CallRest
<1>1. CASE Open
  BY <1>1 DEF Open, callVars
<1>2. CASE Construct
  <2>1. CASE NoProcess
    BY <2>1 DEF NoProcess
  <2>2. CASE ~NoProcess
    BY <1>2, <2>2 DEF Construct, callVars
  <2> QED
    BY <2>1, <2>2
<1>3. CASE ReplayRecord
  BY <1>3 DEF ReplayRecord
<1>4. CASE RecoverEnd
  BY <1>4 DEF RecoverEnd, Recovered
<1>5. CASE CutTail
  <2>1. Outcome(os, pos) # "whole" => Outcome(os, pos) \in {"torn_tail", "corrupt_record"}
    BY DEF Outcome
  <2>2. Min({acked, replayed}) \in Nat
    <3>1. {acked, replayed} \in SUBSET Nat /\ {acked, replayed} # {}
      OBVIOUS
    <3>2. Min({acked, replayed}) \in {acked, replayed}
      BY <3>1, MinIsLeast
    <3> QED
      BY <3>1, <3>2
  <2> QED
    BY <1>5, <2>1, <2>2 DEF CutTail
<1>6. CASE Repaired
  <2>1. CASE NoProcess
    BY <2>1 DEF NoProcess
  <2>2. CASE ~NoProcess
    <3>1. pc = "repair" /\ Recovered /\ UNCHANGED <<given, acked, sound>>
      BY <1>6, <2>2 DEF Repaired
    <3> QED
      BY <3>1 DEF Recovered
  <2> QED
    BY <2>1, <2>2
<1>7. CASE GiveField
  BY <1>7 DEF GiveField
<1>8. CASE GiveFails
  BY <1>8 DEF GiveFails, Latch
<1>9. CASE PushFields
  BY <1>9 DEF PushFields, callVars
<1>10. CASE SyncRecord
  BY <1>10 DEF SyncRecord, callVars
<1>11. CASE WriteReturns
  <2>1. Len(Parse(os)) \in Nat
    <3>1. os \in Seq(Cell) /\ 0 \in 0..Len(os)
      BY DEF Types
    <3>2. Parse(os) \in Logs
      BY <3>1, ParseIs DEF Parse
    <3> QED
      BY <3>2 DEF Logs
  <2> QED
    BY <1>11, <2>1 DEF WriteReturns, Latch
<1>12. CASE Truncated
  BY <1>12 DEF Truncated, callVars
<1>13. CASE HelperStep
  BY <1>13 DEF HelperStep, callVars
<1>14. CASE \E call \in Calls[index] : Write(call[1], call[2])
  BY <1>14 DEF Write
<1>15. CASE Truncate
  BY <1>15 DEF Truncate, callVars
<1>16. CASE TruncateFails
  BY <1>16 DEF TruncateFails, callVars
<1>17. CASE Crash
  BY <1>17 DEF Crash, NoProcess
<1>18. CASE PowerLoss
  BY <1>18 DEF PowerLoss, NoProcess
<1>19. CASE WriteBack
  BY <1>19 DEF WriteBack, callVars
<1>20. CASE Damage
  BY <1>20 DEF Damage, callVars
<1>21. CASE UNCHANGED vars
  BY <1>21 DEF vars, callVars
<1> QED
  BY <1>1, <1>2, <1>3, <1>4, <1>5, <1>6, <1>7, <1>8, <1>9, <1>10, <1>11, <1>12, <1>13, <1>14, <1>15, <1>16, 
     <1>17, <1>18, <1>19, <1>20, <1>21
     DEF Next, Step, Environment

Rest == FileRest /\ CallRest

\* Every variable always holds a value of its type: the cells of the file are
\* those of records, whatever was cut off or has gone bad, and what recovery
\* finds in them is a count.
THEOREM TypeCorrect == Spec => []TypeOK
<1>1. Init => IInv /\ Rest
  BY InitIInv, InitFileRest, InitCallRest DEF Rest
<1>2. IInv /\ Rest /\ [Next]_vars => IInv' /\ Rest'
  BY NextIInv, NextFileRest, NextCallRest DEF IInv, Rest
<1>3. IInv /\ Rest => TypeOK
  <2> SUFFICES ASSUME IInv, Rest PROVE TypeOK
    OBVIOUS
  <2>1. given \in 0..Len(Fields)
    <3>1. Len(FieldsOf(req)) \in {8, 9} /\ Len(Fields) = 9
      BY FieldsAre DEF Fields
    <3>n. given \in Nat
      BY DEF IInv, Types
    <3>2. CASE pc \in {"append", "sync"}
      <4>1. given <= Len(FieldsOf(req))
        BY <3>2 DEF IInv, Types
      <4> DEFINE m == Len(FieldsOf(req))
      <4>2. m \in {8, 9} /\ given <= m
        BY <3>1, <4>1
      <4> HIDE DEF m
      <4>3. given \in 0..9
        BY <3>n, <4>2
      <4> QED
        BY <3>1, <4>3
    <3>3. CASE pc \notin {"append", "sync"}
      BY <3>1, <3>3 DEF Rest, CallRest
    <3> QED
      BY <3>2, <3>3
  <2> QED
    BY <2>1 DEF IInv, Types, CallOK, Helping, Rest, FileRest, CallRest, TypeOK
<1> QED
  BY <1>1, <1>2, <1>3, PTL DEF Spec

-----------------------------------------------------------------------------
(* What recovery discards of the acknowledged records.                     *)

\* g is what the first cells of f were before any of them went bad, and ends
\* with a whole record.
Was(g, f) ==
    /\ Chained(g) /\ Intact(g) /\ Ends(g, Len(g)) /\ Len(g) <= Len(f)
    /\ \A i \in 1..Len(g) : g[i].field = f[i].field /\ g[i].rec = f[i].rec

\* n records were written into f, whatever has become of them.
Holds(f, n) == \E g \in Seq(Cell) : Was(g, f) /\ n <= Len(Parse(g))

\* What was acknowledged was once whole, in both copies.
Held == Holds(os, acked) /\ Holds(disk, acked)

\* What a file holds is a log, with a length.
LEMMA LogLength == ASSUME NEW f \in Seq(Cell) PROVE Parse(f) \in Logs /\ Len(Parse(f)) \in Nat
<1>1. 0 \in 0..Len(f)
  OBVIOUS
<1>2. Parse(f) \in Logs
  BY <1>1, ParseIs DEF Parse
<1> QED
  BY <1>2 DEF Logs

\* Nothing is held by every file.
LEMMA HoldsNone == ASSUME NEW f, Len(f) \in Nat PROVE Holds(f, 0)
<1>1. <<>> \in Seq(Cell) /\ Len(<<>>) = 0
  OBVIOUS
<1>2. Was(<<>>, f)
  BY <1>1, EmptyIsChained DEF Was, Intact
<1>3. PICK g \in Seq(Cell) : g = <<>>
  BY <1>1
<1>4. Was(g, f) /\ 0 <= Len(Parse(g))
  BY <1>2, <1>3, LogLength
<1> QED
  BY <1>4 DEF Holds

\* A file of which nothing has gone bad holds its records.
LEMMA HoldsAll ==
  ASSUME NEW f \in Seq(Cell), Chained(f), Intact(f), Ends(f, Len(f)), NEW n \in Nat, n <= Len(Parse(f))
  PROVE  Holds(f, n)
<1>1. Was(f, f)
  BY DEF Was
<1> QED
  BY <1>1 DEF Holds

\* A file that begins with the same fields holds the same.
LEMMA HoldsMore ==
  ASSUME NEW f, NEW g, Len(f) \in Nat, Len(g) \in Nat, Len(f) <= Len(g),
         \A i \in 1..Len(f) : g[i].field = f[i].field /\ g[i].rec = f[i].rec,
         NEW n, Holds(f, n)
  PROVE  Holds(g, n)
<1>1. PICK h \in Seq(Cell) : Was(h, f) /\ n <= Len(Parse(h))
  BY DEF Holds
<1>2. Len(h) \in Nat /\ Len(h) <= Len(f) /\ Len(h) <= Len(g)
  BY <1>1 DEF Was
<1>3. \A i \in 1..Len(h) : h[i].field = g[i].field /\ h[i].rec = g[i].rec
  <2> TAKE i \in 1..Len(h)
  <2>1. i \in 1..Len(f)
    BY <1>2
  <2>2. h[i].field = f[i].field /\ h[i].rec = f[i].rec
    BY <1>1 DEF Was
  <2> QED
    BY <2>1, <2>2
<1>4. Was(h, g)
  BY <1>1, <1>2, <1>3 DEF Was
<1> QED
  BY <1>1, <1>4 DEF Holds

\* A file that holds so many records holds fewer of them.
LEMMA HoldsFewer ==
  ASSUME NEW f, NEW n \in Nat, NEW m \in Nat, m <= n, Holds(f, n)
  PROVE  Holds(f, m)
<1>1. PICK h \in Seq(Cell) : Was(h, f) /\ n <= Len(Parse(h))
  BY DEF Holds
<1>2. Len(Parse(h)) \in Nat
  BY LogLength
<1>3. m <= Len(Parse(h))
  BY <1>1, <1>2
<1> QED
  BY <1>1, <1>3 DEF Holds

\* Where the log is said to be torn, all that was acknowledged has been replayed:
\* a record that is called torn was never whole.
LEMMA TornHidesNone ==
  ASSUME Before, Counted, acked \in Nat, Holds(os, acked),
         pc = "recover", pos < Len(os), Outcome(os, pos) = "torn_tail"
  PROVE  acked <= replayed
<1>1. PICK g \in Seq(Cell) : Was(g, os) /\ acked <= Len(Parse(g))
  BY DEF Holds
<1>2. /\ Chained(g) /\ Intact(g) /\ Ends(g, Len(g)) /\ Len(g) <= Len(os)
      /\ \A i \in 1..Len(g) : g[i].field = os[i].field /\ g[i].rec = os[i].rec
  BY <1>1 DEF Was
<1>3. /\ os \in Seq(Cell) /\ Len(os) \in Nat /\ Chained(os) /\ pos \in Nat /\ pos <= Len(os)
      /\ Ends(os, pos) /\ Passed \in Seq(Cell) /\ Len(Passed) = pos
      /\ \A i \in 1..pos : Passed[i] = os[i]
      /\ Chained(Passed) /\ Intact(Passed)
  BY AtRecover
<1>4. replayed = Len(Parse(Passed)) /\ replayed \in Nat /\ Len(Parse(g)) \in Nat
  BY <1>3, LogLength DEF Counted, Passed
<1>5. Len(g) <= pos
  <2> SUFFICES ASSUME ~ (Len(g) <= pos) PROVE FALSE
    OBVIOUS
  <2>1. Len(g) \in Nat /\ pos < Len(g) /\ pos + 1 \in 1..Len(g)
    BY <1>3
  <2>2. pos + Len(FieldsOf(os[pos + 1].rec)) > Len(os)
    BY <1>3, TornIsShort
  <2>3. Ends(g, pos)
    <3>1. CASE pos = 0
      BY <3>1 DEF Ends
    <3>2. CASE pos # 0
      <4>1. pos \in 1..Len(g) /\ EndOf(os[pos])
        BY <1>3, <2>1, <3>2 DEF Ends
      <4>2. EndOf(g[pos])
        BY <1>2, <4>1 DEF EndOf, Nth
      <4> QED
        BY <4>1, <4>2 DEF Ends
    <3> QED
      BY <3>1, <3>2
  <2>4. pos + SizeAt(g, pos) <= Len(g)
    BY <1>2, <1>3, <2>1, <2>3, NoEndInside
  <2>5. SizeAt(g, pos) = Len(FieldsOf(os[pos + 1].rec))
    BY <1>2, <2>1 DEF SizeAt, RecAt
  <2>6. SizeAt(g, pos) \in {8, 9}
    BY FieldsAre DEF SizeAt
  <2> QED
    BY <1>2, <1>3, <2>1, <2>2, <2>4, <2>5, <2>6
<1>6. \A i \in 1..Len(g) : g[i] = Passed[i]
  <2> TAKE i \in 1..Len(g)
  <2>1. i \in 1..pos /\ i \in 1..Len(os) /\ i \in 1..Len(Passed)
    BY <1>3, <1>5
  <2>2. g[i] \in Cell /\ Passed[i] \in Cell
    BY <1>3, <2>1
  <2>3. g[i].is = "asWritten" /\ Passed[i].is = "asWritten"
    BY <1>2, <1>3, <2>1 DEF Intact
  <2>4. g[i].field = Passed[i].field /\ g[i].rec = Passed[i].rec
    BY <1>2, <1>3, <2>1
  <2> QED
    BY <2>2, <2>3, <2>4 DEF Cell
<1>7. Ends(Passed, Len(g))
  BY <1>2, <1>3, <1>5, <1>6 DEF Ends
<1>8. Len(g) <= Len(Passed) /\ 0 \in 0..Len(g) /\ Ends(Passed, 0)
  BY <1>3, <1>5 DEF Ends
<1>9. \A at \in 0..Len(g) : Ends(Passed, at) =>
          ParseFrom(Passed)[at] = ParseFrom(g)[at] \o ParseFrom(Passed)[Len(g)]
  BY <1>3, <1>6, <1>7, <1>8, ParseParts
<1>10. Parse(Passed) = Parse(g) \o ParseFrom(Passed)[Len(g)]
  BY <1>8, <1>9 DEF Parse
<1>11. Len(g) \in 0..Len(Passed)
  BY <1>8
<1>12. PICK t \in Logs : t = ParseFrom(Passed)[Len(g)]
  BY <1>3, <1>11, ParseIs
<1>13. PICK s \in Logs : s = Parse(g)
  BY LogLength
<1>14. Len(s \o t) = Len(s) + Len(t) /\ Len(t) \in Nat /\ Len(s) \in Nat
  BY ConcatProperties DEF Logs
<1> QED
  BY <1>1, <1>4, <1>10, <1>12, <1>13, <1>14

\* The least of two numbers.
LEMMA LeastOfTwo ==
  ASSUME NEW a \in Nat, NEW b \in Nat
  PROVE  Min({a, b}) \in Nat /\ Min({a, b}) <= a /\ Min({a, b}) <= b /\ (a <= b => Min({a, b}) = a)
<1>1. {a, b} \in SUBSET Nat /\ {a, b} # {}
  OBVIOUS
<1>2. Min({a, b}) \in {a, b} /\ \A x \in {a, b} : Min({a, b}) <= x
  BY <1>1, MinIsLeast
<1> QED
  BY <1>2

\* No step takes an acknowledged record out of the history of a file, other than
\* the cut that discards it.
LEMMA NextHeld ==
  Before /\ Mapped /\ acked \in Nat /\ acked' \in Nat /\ replayed \in Nat /\ Held /\ [Next]_vars => Held'
<1> SUFFICES ASSUME Before, Mapped, acked \in Nat, acked' \in Nat, replayed \in Nat, Held, [Next]_vars
             PROVE  Held'
  OBVIOUS
<1>h. Held' <=> Holds(os', acked') /\ Holds(disk', acked')
  BY DEF Held, Holds, Was, Chained, Intact, Ends
<1>t. os \in Seq(Cell) /\ disk \in Seq(Cell) /\ buf \in Seq(Cell) /\ pos \in Nat /\ os' \in Seq(Cell)
  BY DEF Before, Types
<1>1. CASE CutTail
  <2>1. /\ pc = "recover" /\ os' = Passed /\ disk' = disk /\ acked' = Min({acked, replayed})
    BY <1>1 DEF CutTail, Passed
  <2>2. acked' <= acked /\ acked' <= replayed
    BY <2>1, LeastOfTwo
  <2>3. replayed = Len(Parse(Passed))
    BY <2>1 DEF Mapped, Counted, Passed
  <2>4. /\ Ends(os, pos) /\ Passed \in Seq(Cell) /\ Len(Passed) = pos
        /\ \A i \in 1..pos : Passed[i] = os[i]
        /\ Chained(Passed) /\ Intact(Passed)
    BY <2>1, AtRecover
  <2>5. Ends(Passed, Len(Passed))
    BY <2>4, <1>t DEF Ends
  <2>6. Holds(Passed, acked')
    BY <2>2, <2>3, <2>4, <2>5, HoldsAll
  <2>7. Holds(disk, acked')
    BY <2>2, HoldsFewer DEF Held
  <2> QED
    BY <1>h, <2>1, <2>6, <2>7
<1>2. CASE PushFields
  <2>1. PICK n \in 1..Len(buf) : os' = os \o SubSeq(buf, 1, n)
    BY <1>2 DEF PushFields, F!Push
  <2>2. disk' = disk /\ acked' = acked
    BY <1>2 DEF PushFields, F!Push
  <2>3. SubSeq(buf, 1, n) \in Seq(Cell)
    BY <1>t, SubSeqProperties
  <2>4. PICK t \in Seq(Cell) : t = SubSeq(buf, 1, n)
    BY <2>3
  <2>5. /\ Len(os \o t) = Len(os) + Len(t) /\ Len(os) \in Nat /\ Len(t) \in Nat
        /\ \A i \in 1 .. Len(os) + Len(t) : (os \o t)[i] = IF i <= Len(os) THEN os[i] ELSE t[i - Len(os)]
    BY <1>t, ConcatProperties
  <2>6. os' = os \o t
    BY <2>1, <2>4
  <2> HIDE DEF Held
  <2>7. Len(os') \in Nat /\ Len(os) <= Len(os') /\ \A i \in 1..Len(os) : os'[i] = os[i]
    <3>1. Len(os') \in Nat /\ Len(os) <= Len(os')
      BY <2>5, <2>6
    <3>2. ASSUME NEW i \in 1..Len(os) PROVE os'[i] = os[i]
      <4>1. i \in 1 .. Len(os) + Len(t) /\ i <= Len(os)
        BY <2>5
      <4> QED
        BY <2>5, <2>6, <4>1
    <3> QED
      BY <3>1, <3>2
  <2>8. Holds(os', acked)
    BY <2>5, <2>7, HoldsMore DEF Held
  <2> QED
    BY <1>h, <2>2, <2>8 DEF Held
<1>3. CASE Damage
  <2>1. /\ Len(os') = Len(os) /\ Len(os) \in Nat
        /\ \A i \in 1..Len(os) : os'[i].field = os[i].field /\ os'[i].rec = os[i].rec
    BY <1>3, <1>t, DamageKeeps DEF Before
  <2>2. disk' = os' /\ acked' = acked
    BY <1>3 DEF Damage
  <2>3. Holds(os', acked)
    BY <2>1, HoldsMore DEF Held
  <2> QED
    BY <1>h, <2>2, <2>3
<1>4. CASE WriteReturns
  <2>1. CASE F!Returned(TRUE) /\ acked' = Len(Parse(os))
    <3>1. pc = "sync" /\ io = "ok" /\ os' = os /\ disk' = disk
      BY <1>4, <2>1 DEF WriteReturns, F!Returned, F!fileVars
    <3>2. disk = os /\ buf = <<>>
      BY <3>1 DEF Mapped, Synced, Before, InBuffer
    <3>3. All = os /\ Chained(All) /\ Intact(All) /\ Ends(All, Len(All))
      BY <3>1, <3>2 DEF Before, AllFacts, AllOK, IntactOK, Read
    <3>4. Len(Parse(os)) \in Nat /\ Len(Parse(os)) <= Len(Parse(os))
      BY <1>t, LogLength
    <3>5. Holds(os, Len(Parse(os)))
      BY <1>t, <3>3, <3>4, HoldsAll
    <3> QED
      BY <1>h, <2>1, <3>1, <3>2, <3>5
  <2>2. CASE F!Returned(FALSE) /\ acked' = acked
    BY <1>h, <2>2 DEF F!Returned, F!fileVars, Held
  <2> QED
    BY <1>4, <2>1, <2>2 DEF WriteReturns
<1>5. CASE Truncate
  <2>1. acked' = 0 /\ disk' = disk
    BY <1>5 DEF Truncate
  <2>2. Holds(os', 0) /\ Holds(disk, 0)
    BY <1>t, HoldsNone
  <2> QED
    BY <1>h, <2>1, <2>2
<1>6. CASE HelperStep
  <2>1. acked' = acked /\ os' = os /\ (disk' = disk \/ disk' = os)
    BY <1>6 DEF HelperStep, F!Helper, F!Flushed, F!FlushFails, F!Fsynced, F!FsyncFails,
       F!DirOpened, F!DirOpenFails, F!DirFsynced, F!DirFsyncFails, F!DirClosed, F!Interrupted,
       F!fileVars
  <2> QED
    BY <1>h, <2>1 DEF Held
<1>7. CASE Crash \/ PowerLoss \/ WriteBack
  <2>1. acked' = acked /\ (os' = disk \/ os' = os) /\ (disk' = disk \/ disk' = os)
    BY <1>7 DEF Crash, F!Crash, PowerLoss, F!PowerLoss, WriteBack, F!WriteBack, NoProcess, F!fileVars
  <2> QED
    BY <1>h, <2>1 DEF Held
<1>8. CASE \/ Open \/ Construct \/ ReplayRecord \/ RecoverEnd \/ Repaired
           \/ GiveField \/ GiveFails \/ SyncRecord \/ Truncated \/ TruncateFails
           \/ \E call \in Calls[index] : Write(call[1], call[2])
           \/ UNCHANGED vars
  <2>1. os' = os /\ disk' = disk /\ acked' = acked
    <3>1. CASE Open \/ ReplayRecord \/ RecoverEnd \/ GiveField \/ GiveFails
      BY <3>1 DEF Open, F!SyncParentDirectory, ReplayRecord, RecoverEnd, GiveField, F!WriteBytes,
         GiveFails, F!WriteBytesFails, fileVars, F!fileVars
    <3>2. CASE Construct \/ Repaired
      BY <3>2 DEF Construct, Repaired, F!Returned, F!Crash, NoProcess, F!fileVars
    <3>3. CASE SyncRecord \/ Truncated \/ TruncateFails
      BY <3>3 DEF SyncRecord, F!SyncFile, Truncated, F!Returned, TruncateFails, fileVars, F!fileVars
    <3>4. CASE UNCHANGED vars \/ \E call \in Calls[index] : Write(call[1], call[2])
      BY <3>4 DEF Write, vars, fileVars
    <3> QED
      BY <1>8, <3>1, <3>2, <3>3, <3>4
  <2> QED
    BY <1>h, <2>1 DEF Held
<1> QED
  BY <1>1, <1>2, <1>3, <1>4, <1>5, <1>6, <1>7, <1>8 DEF Next, Step, Environment

LossInv == IInv /\ Mapped /\ Rest /\ Held

\* Nothing is acknowledged at first.
LEMMA InitLossInv == Init => LossInv
<1> SUFFICES ASSUME Init PROVE LossInv
  OBVIOUS
<1>1. IInv /\ Mapped /\ Rest
  BY InitIInv, InitMapped, InitFileRest, InitCallRest DEF Rest
<1>2. os = <<>> /\ disk = <<>> /\ acked = 0 /\ Len(<<>>) = 0
  BY DEF Init, F!Init
<1>3. Holds(<<>>, 0)
  BY <1>2, HoldsNone
<1> QED
  BY <1>1, <1>2, <1>3 DEF LossInv, Held

\* Every step keeps what was acknowledged, or reports that it is gone.
LEMMA NextLossInv == LossInv /\ [Next]_vars => LossInv'
<1> SUFFICES ASSUME LossInv, [Next]_vars PROVE LossInv'
  OBVIOUS
<1>1. Before /\ IInv'
  BY NextBefore, NextIInv DEF LossInv
<1>2. Rest'
  BY NextFileRest, NextCallRest DEF LossInv, IInv, Rest
<1>3. Mapped'
  BY <1>1, NextFresh, NextSynced, NextWriting, NextCounted DEF LossInv, IInv, Mapped
<1>4. acked \in Nat /\ acked' \in Nat /\ replayed \in Nat
  BY <1>2 DEF LossInv, Rest, CallRest
<1>5. Held'
  BY <1>1, <1>4, NextHeld DEF LossInv
<1> QED
  BY <1>1, <1>2, <1>3, <1>5 DEF LossInv

\* When recovery discards a record that a write() had acknowledged, it reports a
\* corrupt record and not a torn tail, whatever field of whatever record has gone
\* bad, a length among them.
THEOREM LossIsReported == Spec => LossCalledCorruption
<1>1. LossInv /\ [Next]_vars =>
          [pc = "recover" /\ pc' = "repair" /\ acked' < acked => stop' = "corrupt_record"]_vars
  <2> SUFFICES ASSUME LossInv, [Next]_vars, pc = "recover", pc' = "repair", acked' < acked
               PROVE  stop' = "corrupt_record"
    OBVIOUS
  <2>1. CutTail
    BY DEF Next, Step, Environment, vars, Open, Construct, ReplayRecord, RecoverEnd, Recovered,
       Repaired, GiveField, GiveFails, PushFields, SyncRecord, WriteReturns, Truncated, HelperStep,
       Latch, NoProcess, Write, Truncate, TruncateFails, Crash, PowerLoss, WriteBack, Damage
  <2>2. /\ pos < Len(os) /\ stop' = Outcome(os, pos) /\ acked' = Min({acked, replayed})
        /\ Outcome(os, pos) # "whole"
    BY <2>1 DEF CutTail
  <2>3. Before /\ Counted /\ Holds(os, acked) /\ acked \in Nat /\ replayed \in Nat
    BY NextBefore DEF LossInv, Mapped, Held, Rest, CallRest
  <2>4. CASE Outcome(os, pos) = "torn_tail"
    <3>1. acked <= replayed
      BY <2>2, <2>3, <2>4, TornHidesNone
    <3>2. acked' = acked
      BY <2>2, <2>3, <3>1, LeastOfTwo
    <3> QED
      BY <2>3, <3>2
  <2>5. CASE Outcome(os, pos) # "torn_tail"
    BY <2>2, <2>5 DEF Outcome
  <2> QED
    BY <2>4, <2>5
<1> QED
  BY <1>1, InitLossInv, NextLossInv, PTL DEF Spec, LossCalledCorruption

=============================================================================
