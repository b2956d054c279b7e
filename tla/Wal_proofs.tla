----------------------------- MODULE Wal_proofs -----------------------------
(* What holds of the write-ahead log for every set of keys and values and  *)
(* any number of records.                                                  *)
EXTENDS Wal, TLAPS

Torns(w)       == \A i \in 1..Len(w) : w[i] = Torn => i = Len(w)
Consecutive(w) == \A i \in 1..Len(w), j \in 1..Len(w) :
                      j = i + 1 /\ w[i] # Torn /\ w[j] # Torn
                          => w[j].index = w[i].index + 1
Covered(w)     == acked <= Len(w) /\ \A i \in 1..acked : w[i] = wal[i] /\ w[i] # Torn

\* What both copies of the file are like at all times.
FileOK(w) == Torns(w) /\ Consecutive(w) /\ Covered(w)
FilesOK   == FileOK(wal) /\ FileOK(walDisk)

\* The next record to be written can follow the first n in the file.
Follows(n) == n > 0 => wal[n].index + 1 = walIndex

\* What the object knows about the file at each point of its methods.
ObjectOK ==
    /\ walPc \in {"append", "partial", "sync"} =>
          ~walFailed /\ walReq \in Record /\ walReq.index = walIndex
    /\ walPc \in {"append", "ready"} /\ ~walFailed => Clean(wal) /\ Follows(Len(wal))
    /\ walPc = "partial" => wal # <<>> /\ wal[Len(wal)] = Torn /\ Follows(Len(wal) - 1)
    /\ walPc = "sync" => wal # <<>> /\ wal[Len(wal)] = walReq
    /\ walPc = "recover" =>
          /\ walPos <= Len(wal) /\ Follows(walPos)
          /\ \A i \in 1..walPos : wal[i] # Torn
    /\ walPc = "repair" => Clean(wal) /\ Follows(Len(wal))
    /\ walPc = "truncated" => wal = <<>>

IInv == TypeOK /\ FilesOK /\ ObjectOK

-----------------------------------------------------------------------------
\* A new database satisfies it.
LEMMA InitIInv == Init => IInv
<1> SUFFICES ASSUME Init PROVE IInv
  OBVIOUS
<1>1. TypeOK
  <2>1. <<>> \in Log
    BY DEF Log
  <2> QED
    BY <2>1 DEF Init, TypeOK, Pcs
<1>2. FilesOK
  <2>1. wal = <<>> /\ walDisk = <<>> /\ acked = 0 /\ Len(<<>>) = 0
    BY DEF Init
  <2> QED
    BY <2>1 DEF FilesOK, FileOK, Torns, Consecutive, Covered
<1>3. ObjectOK
  BY DEF Init, ObjectOK
<1> QED
  BY <1>1, <1>2, <1>3 DEF IInv

\* Every step of the log, of its caller and of the environment preserves it.
LEMMA NextIInv == IInv /\ [Next]_vars => IInv'
<1> SUFFICES ASSUME IInv, [Next]_vars PROVE IInv'
  OBVIOUS
<1> USE TornAssumption, NoRecordAssumption
<1> USE DEF IInv, TypeOK, FilesOK, FileOK, Torns, Consecutive, Covered, ObjectOK, Follows,
            Clean, Log, Pcs, diskVars, objVars
<1>1. CASE Construct
  BY <1>1 DEF Construct
<1>2. CASE ReplayRecord
  BY <1>2 DEF ReplayRecord, Record
<1>3. CASE RecoverEnd
  BY <1>3 DEF RecoverEnd
<1>4. CASE CutTail
  BY <1>4 DEF CutTail
<1>5. CASE SyncRepair
  BY <1>5 DEF SyncRepair
<1>6. ASSUME NEW k \in Key, NEW v \in Val \cup {Tomb}, Write(k, v)
      PROVE  IInv'
  BY <1>6 DEF Write, Record
<1>7. CASE PushPart
  <2>1. /\ wal' = Append(wal, Torn)
        /\ wal' \in Log /\ Len(wal') = Len(wal) + 1 /\ wal'[Len(wal')] = Torn
        /\ \A i \in 1..Len(wal) : wal'[i] = wal[i]
    BY <1>7 DEF PushPart
  <2>2. FileOK(wal)'
    BY <1>7, <2>1 DEF PushPart
  <2>3. FileOK(walDisk)'
    BY <1>7, <2>1 DEF PushPart
  <2> QED
    BY <1>7, <2>1, <2>2, <2>3 DEF PushPart
<1>8. CASE PushAll
  <2> DEFINE before == IF walPc = "partial" THEN Front(wal) ELSE wal
  <2>1. /\ before \in Log /\ Clean(before)
        /\ acked <= Len(before) /\ Len(before) <= Len(wal)
        /\ \A i \in 1..Len(before) : before[i] = wal[i]
        /\ Len(before) > 0 => before[Len(before)].index + 1 = walIndex
    BY <1>8 DEF PushAll, Front
  <2>2. /\ wal' = Append(before, walReq)
        /\ walReq # Torn /\ walReq.index = walIndex
        /\ UNCHANGED <<walDisk, acked, objVars>> /\ walPc' = "sync" /\ ~walFailed
        /\ walReq \in Record
    BY <1>8 DEF PushAll
  <2> HIDE DEF before
  <2>3. /\ wal' \in Log /\ Len(wal') = Len(before) + 1 /\ wal'[Len(wal')] = walReq
        /\ \A i \in 1..Len(before) : wal'[i] = before[i]
    BY <2>1, <2>2
  <2>4. FileOK(wal)'
    <3>1. Torns(wal)'
      BY <2>1, <2>2, <2>3
    <3>2. Consecutive(wal)'
      BY <2>1, <2>2, <2>3
    <3>3. Covered(wal)'
      BY <2>1, <2>2, <2>3
    <3> QED
      BY <3>1, <3>2, <3>3
  <2>5. FileOK(walDisk)'
    BY <2>1, <2>2, <2>3
  <2> QED
    BY <2>1, <2>2, <2>3, <2>4, <2>5
<1>9. CASE WriteSynced
  BY <1>9 DEF WriteSynced
<1>10. CASE WriteFail
  BY <1>10 DEF WriteFail
<1>11. CASE Truncate
  BY <1>11 DEF Truncate
<1>12. CASE TruncateFail
  BY <1>12 DEF TruncateFail
<1>13. CASE TruncateSynced
  <2>1. /\ wal = <<>> /\ wal' = wal /\ walDisk' = wal /\ walPc' = "ready"
        /\ UNCHANGED <<acked, walIndex, walReq, walPos>> /\ walFailed' = FALSE
    BY <1>13 DEF TruncateSynced
  <2>2. TypeOK'
    BY <2>1
  <2>3. acked = 0 /\ acked' = 0 /\ wal' = <<>> /\ Len(<<>>) = 0
    BY <2>1
  <2>4. FilesOK'
    <3>1. walDisk' = <<>>
      BY <2>1
    <3> QED
      BY <2>3, <3>1
  <2>5. ObjectOK'
    BY <2>1
  <2> QED
    BY <2>2, <2>4, <2>5
<1>14. CASE TruncateSyncFail
  <2>1. /\ wal = <<>> /\ wal' = wal /\ walDisk' \in {walDisk, wal} /\ walPc' = "ready"
        /\ UNCHANGED <<acked, objVars>>
    BY <1>14 DEF TruncateSyncFail
  <2>2. TypeOK'
    BY <2>1
  <2>3. acked = 0 /\ acked' = 0 /\ wal' = <<>> /\ Len(<<>>) = 0
    BY <2>1
  <2>4. FileOK(wal)'
    BY <2>3
  <2>5. FileOK(walDisk)'
    <3>1. CASE walDisk' = wal
      BY <2>1, <2>3, <3>1
    <3>2. CASE walDisk' = walDisk
      BY <2>1, <2>3, <3>2
    <3> QED
      BY <2>1, <3>1, <3>2
  <2>6. ObjectOK'
    BY <2>1
  <2> QED
    BY <2>2, <2>4, <2>5, <2>6
<1>15. CASE Crash
  BY <1>15 DEF Crash, Gone
<1>16. CASE PowerLoss
  BY <1>16 DEF PowerLoss, Gone
<1>17. CASE WriteBack
  BY <1>17 DEF WriteBack
<1>18. CASE UNCHANGED vars
  BY <1>18 DEF vars
<1> QED
  BY <1>1, <1>2, <1>3, <1>4, <1>5, <1>6, <1>7, <1>8, <1>9, <1>10, <1>11, <1>12, <1>13,
     <1>14, <1>15, <1>16, <1>17, <1>18 DEF Next

-----------------------------------------------------------------------------
\* The strengthened invariant is one.
LEMMA Inductive == Spec => []IInv
<1> QED
  BY InitIInv, NextIInv, PTL DEF Spec

\* Each variable of the log, its file and its stable copy always holds a value
\* of its type.
THEOREM TypeCorrect == Spec => []TypeOK
<1>1. IInv => TypeOK
  BY DEF IInv
<1> QED
  BY <1>1, Inductive, PTL

\* A record that write() returned true for is never lost, moved or damaged by
\* a crash, a power loss, a torn or failed write or a repair of the tail, in
\* the file or in what a power loss leaves of it.
THEOREM AckedSurvives == Spec => []AckedSurvive
<1>1. IInv => AckedSurvive
  BY DEF IInv, FilesOK, FileOK, Covered, AckedSurvive
<1> QED
  BY <1>1, Inductive, PTL

\* No record is ever appended behind a torn one: recover(), which stops at the
\* first torn record, reaches every complete one.
THEOREM TornIsLast == Spec => []OnlyLastTorn
<1>1. IInv => OnlyLastTorn
  BY DEF IInv, FilesOK, FileOK, Torns, OnlyLastTorn
<1> QED
  BY <1>1, Inductive, PTL

\* The sequence numbers that write() hands out and recover() restores leave no
\* gap and no repetition in the file.
THEOREM NoIndexGap == Spec => []IndicesConsecutive
<1>1. IInv => IndicesConsecutive
  BY DEF IInv, FilesOK, FileOK, Consecutive, IndicesConsecutive
<1> QED
  BY <1>1, Inductive, PTL

\* Whenever write() would accept a record, the file is clean and the number it
\* would give follows the last one in the file.
THEOREM ReadyIsClean == Spec => []ReadyMeansClean
<1>1. IInv => ReadyMeansClean
  BY DEF IInv, TypeOK, ObjectOK, Follows, Clean, Log, ReadyMeansClean, Last
<1> QED
  BY <1>1, Inductive, PTL

=============================================================================
