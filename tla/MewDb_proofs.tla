----------------------------- MODULE MewDb_proofs -----------------------------
(***************************************************************************)
(* The engine: its parts run their own specifications, the invariant of    *)
(* MewDbInvariant is one, the properties of MewDb follow from it, and the  *)
(* engine implements the durable map, step by step.                        *)
(***************************************************************************)
EXTENDS MewDbInvariant

-----------------------------------------------------------------------------
(* The engine drives its parts by their own steps.                         *)

\* The steps, with the commands of the caller in one place.
LEMMA StepCases ==
  ASSUME Next
  PROVE  \/ Start \/ ReplayRecord \/ EndRecovery \/ OpenManifest \/ WriteManifest
         \/ \E k \in Key : Del(k) \/ \E v \in Val : Set(k, v)
         \/ LogStep \/ LogFails \/ Logged \/ ReadThrows
         \/ FlushCreate \/ FlushWrite \/ FlushSyncDir \/ FlushAdd \/ FlushAdded
         \/ FlushTruncate \/ FlushEnd
         \/ Compact \/ CompactToNothing \/ CompactCreate \/ CompactWrite
         \/ CompactSyncDir \/ CompactSwap \/ CompactSwapped \/ CompactRemove
         \/ Throw \/ Crash \/ PowerLoss \/ WriteBack
  BY DEF Next, Step, Environment

\* The instance of Wal that has the proofs is the one that the engine uses.
LEMMA SameWal == W!Next => WP!Next
<1> USE DEF W!diskVars, WP!diskVars, W!objVars, WP!objVars, W!Gone, WP!Gone
<1>1. /\ W!Construct => WP!Construct
      /\ W!ReplayRecord => WP!ReplayRecord
      /\ W!RecoverEnd => WP!RecoverEnd
      /\ W!CutTail => WP!CutTail
      /\ W!SyncRepair => WP!SyncRepair
  BY DEF W!Construct, WP!Construct, W!ReplayRecord, WP!ReplayRecord, W!RecoverEnd,
         WP!RecoverEnd, W!CutTail, WP!CutTail, W!SyncRepair, WP!SyncRepair
<1>2. /\ \A k \in Key, v \in Val \cup {Tomb} : W!Write(k, v) => WP!Write(k, v)
      /\ W!PushPart => WP!PushPart
      /\ W!PushAll => WP!PushAll
      /\ W!WriteSynced => WP!WriteSynced
      /\ W!WriteFail => WP!WriteFail
  BY DEF W!Front, WP!Front, W!Write, WP!Write, W!PushPart, WP!PushPart, W!PushAll, WP!PushAll,
         W!WriteSynced, WP!WriteSynced, W!WriteFail, WP!WriteFail
<1>3. /\ W!Truncate => WP!Truncate
      /\ W!TruncateFail => WP!TruncateFail
      /\ W!TruncateSynced => WP!TruncateSynced
      /\ W!TruncateSyncFail => WP!TruncateSyncFail
  BY DEF W!Truncate, WP!Truncate, W!TruncateFail, WP!TruncateFail, W!TruncateSynced,
         WP!TruncateSynced, W!TruncateSyncFail, WP!TruncateSyncFail
<1>4. /\ W!Crash => WP!Crash
      /\ W!PowerLoss => WP!PowerLoss
      /\ W!WriteBack => WP!WriteBack
  BY DEF W!Crash, WP!Crash, W!PowerLoss, WP!PowerLoss, W!WriteBack, WP!WriteBack
<1> QED
  BY <1>1, <1>2, <1>3, <1>4 DEF W!Next, WP!Next

\* So is that of Manifest.
LEMMA SameManifest == M!Next => MP!Next
<1> USE DEF M!diskVars, MP!diskVars, M!objVars, MP!objVars, M!callVars, MP!callVars,
            M!Gone, MP!Gone, M!StartWrite, MP!StartWrite, M!CanCall, MP!CanCall
<1>0. \A l, r : M!Subtract(l, r) = MP!Subtract(l, r)
  BY DEF M!Subtract, MP!Subtract, M!Picked, MP!Picked, M!InOrder, MP!InOrder, M!Rank, MP!Rank,
         M!Cardinality, MP!Cardinality
<1>1. /\ M!Load => MP!Load
      /\ M!Create => MP!Create
      /\ \A i : M!AddNewIndex(i) => MP!AddNewIndex(i)
      /\ \A l : M!RemoveIndices(l) => MP!RemoveIndices(l)
      /\ \A l, i : M!ReplaceIndices(l, i) => MP!ReplaceIndices(l, i)
      /\ M!CanCall => MP!CanCall
  BY <1>0 DEF M!Load, MP!Load, M!Create, MP!Create, M!AddNewIndex, MP!AddNewIndex,
         M!RemoveIndices, MP!RemoveIndices, M!ReplaceIndices, MP!ReplaceIndices
<1>2. /\ M!WriteTemp => MP!WriteTemp
      /\ M!WriteTempFail => MP!WriteTempFail
      /\ M!Rename => MP!Rename
      /\ M!RenameFail => MP!RenameFail
      /\ M!SyncDir => MP!SyncDir
      /\ M!SyncDirFail => MP!SyncDirFail
      /\ \A r : M!Returned(r) => MP!Returned(r)
  BY DEF M!WriteTemp, MP!WriteTemp, M!WriteTempFail, MP!WriteTempFail, M!Rename, MP!Rename,
         M!RenameFail, MP!RenameFail, M!SyncDir, MP!SyncDir, M!SyncDirFail, MP!SyncDirFail,
         M!Returned, MP!Returned
<1>3. /\ M!Crash => MP!Crash
      /\ M!PowerLoss => MP!PowerLoss
      /\ M!WriteBack => MP!WriteBack
  BY DEF M!Crash, MP!Crash, M!PowerLoss, MP!PowerLoss, M!WriteBack, MP!WriteBack
<1> QED
  BY <1>1, <1>2, <1>3 DEF M!Next, MP!Next

\* A step of the engine is one of the log, or leaves it alone.
LEMMA WalStep == LogControl /\ Next => W!Next \/ UNCHANGED walVars
<1> SUFFICES ASSUME LogControl, Next PROVE W!Next \/ UNCHANGED walVars
  OBVIOUS
<1>1. CASE Start \/ ReplayRecord \/ EndRecovery
  BY <1>1 DEF Start, ReplayRecord, EndRecovery, W!Next
<1>2. ASSUME NEW k \in Key, Del(k) \/ \E v \in Val : Set(k, v)
      PROVE  W!Next
  BY <1>2 DEF Del, Set, W!Next
<1>3. CASE LogStep \/ LogFails \/ Logged
  BY <1>3 DEF LogStep, LogFails, Logged, W!Next
<1>4. CASE FlushTruncate \/ FlushEnd
  BY <1>4 DEF FlushTruncate, FlushEnd, W!Next
<1>5. CASE Throw \/ Crash
  BY <1>5 DEF Throw, Crash, EndProcess, LogControl, W!Next, W!Crash, W!diskVars
<1>6. CASE PowerLoss \/ WriteBack
  BY <1>6 DEF PowerLoss, WriteBack, W!Next
<1>7. CASE OpenManifest \/ WriteManifest \/ ReadThrows
  BY <1>7 DEF OpenManifest, WriteManifest, ReadThrows
<1>8. CASE FlushCreate \/ FlushWrite \/ FlushSyncDir \/ FlushAdd \/ FlushAdded
  BY <1>8 DEF FlushCreate, FlushWrite, FlushSyncDir, FlushAdd, FlushAdded
<1>9. CASE Compact \/ CompactToNothing \/ CompactCreate \/ CompactWrite
  BY <1>9 DEF Compact, CompactToNothing, CompactCreate, CompactWrite
<1>10. CASE CompactSyncDir \/ CompactSwap \/ CompactSwapped \/ CompactRemove
  BY <1>10 DEF CompactSyncDir, CompactSwap, CompactSwapped, CompactRemove
<1> QED
  BY <1>1, <1>2, <1>3, <1>4, <1>5, <1>6, <1>7, <1>8, <1>9, <1>10, StepCases

\* The same of the manifest: the engine adds the index that is next, and takes
\* out the list that is there.
LEMMA ManifestStep == ManControl /\ IndexControl /\ Next => M!Next \/ UNCHANGED manVars
<1> SUFFICES ASSUME ManControl, IndexControl, Next PROVE M!Next \/ UNCHANGED manVars
  OBVIOUS
<1> USE DEF ManControl, manVars
<1>1. CASE Start \/ FlushSyncDir \/ CompactSyncDir
  <2>1. /\ manDisk' = man \/ UNCHANGED manDisk
        /\ UNCHANGED <<man, manNext, manOpen, manArg, tempSynced, manOp, manPc>>
    BY <1>1 DEF Start, FlushSyncDir, CompactSyncDir, DirSynced
  <2> QED
    BY <2>1 DEF M!Next, M!WriteBack, M!objVars, M!callVars
<1>2. CASE OpenManifest
  BY <1>2 DEF OpenManifest, M!Next
<1>3. CASE WriteManifest
  BY <1>3 DEF WriteManifest, M!Next
<1>4. CASE FlushAdd
  BY <1>4 DEF FlushAdd, IndexControl, M!Next, M!AddNewIndex, M!CanCall, Calling
<1>5. CASE CompactToNothing
  BY <1>5 DEF CompactToNothing, IndexControl, M!Next, M!RemoveIndices, Calling
<1>6. CASE CompactSwap
  BY <1>6 DEF CompactSwap, IndexControl, M!Next, M!ReplaceIndices, M!CanCall, Calling
<1>7. CASE FlushAdded \/ CompactSwapped
  BY <1>7 DEF FlushAdded, CompactSwapped, M!Next, Calling
<1>8. CASE Throw \/ Crash
  <2>1. M!Gone /\ UNCHANGED <<man, manDisk>>
    BY <1>8 DEF Throw, Crash, EndProcess
  <2>2. CASE manPc = "none"
    BY <2>1, <2>2 DEF M!Gone
  <2>3. CASE manPc # "none"
    BY <2>1, <2>3 DEF M!Next, M!Crash, M!diskVars
  <2> QED
    BY <2>2, <2>3
<1>9. CASE PowerLoss \/ WriteBack
  BY <1>9 DEF PowerLoss, WriteBack, M!Next
<1>10. CASE ReplayRecord \/ EndRecovery \/ LogStep \/ LogFails \/ Logged \/ ReadThrows
  BY <1>10 DEF ReplayRecord, EndRecovery, LogStep, LogFails, Logged, ReadThrows
<1>11. ASSUME NEW k \in Key, Del(k) \/ \E v \in Val : Set(k, v)
       PROVE  UNCHANGED manVars
  BY <1>11 DEF Del, Set
<1>12. CASE FlushCreate \/ FlushWrite \/ FlushTruncate \/ FlushEnd
  BY <1>12 DEF FlushCreate, FlushWrite, FlushTruncate, FlushEnd
<1>13. CASE Compact \/ CompactCreate \/ CompactWrite \/ CompactRemove
  BY <1>13 DEF Compact, CompactCreate, CompactWrite, CompactRemove
<1> QED
  BY <1>1, <1>2, <1>3, <1>4, <1>5, <1>6, <1>7, <1>8, <1>9, <1>10, <1>11, <1>12, <1>13, StepCases

\* So what is proved of the log and of the manifest holds in the engine.
LEMMA PartsKeep == Control /\ [Next]_vars => WP!IInv' /\ MP!IInv'
<1> SUFFICES ASSUME Control, [Next]_vars PROVE WP!IInv' /\ MP!IInv'
  OBVIOUS
<1>1. WP!IInv /\ [WP!Next]_(WP!vars) => WP!IInv'
  BY WP!NextIInv, CellAssumption, BoundAssumption, MarkerAssumption DEF W!Record, WP!Record
<1>2. MP!IInv /\ [MP!Next]_(MP!vars) => MP!IInv'
  BY MP!NextIInv, FileAssumption, BoundAssumption, MarkerAssumption
     DEF M!Contents, MP!Contents
<1>3. [WP!Next]_(WP!vars)
  BY WalStep, SameWal DEF Control, vars, walVars, WP!vars, WP!diskVars, WP!objVars
<1>4. [MP!Next]_(MP!vars)
  BY ManifestStep, SameManifest
     DEF Control, vars, manVars, MP!vars, MP!diskVars, MP!objVars, MP!callVars
<1> QED
  BY <1>1, <1>2, <1>3, <1>4 DEF Control

\* A new database satisfies it.
LEMMA InitControl == Init => Control
<1> SUFFICES ASSUME Init PROVE Control
  OBVIOUS
<1>1. WP!IInv
  <2>1. WP!Init
    BY DEF Init, W!Init, WP!Init
  <2> QED
    BY <2>1, WP!InitIInv, CellAssumption, BoundAssumption, MarkerAssumption
       DEF W!Record, WP!Record
<1>2. MP!IInv
  <2>1. MP!Init
    BY DEF Init, M!Init, MP!Init
  <2> QED
    BY <2>1, MP!InitIInv, FileAssumption, BoundAssumption, MarkerAssumption
       DEF M!Contents, MP!Contents
<1>3. LogControl
  BY DEF Init, W!Init, LogControl, Pcs
<1>4. ManControl /\ IndexControl
  BY BoundAssumption DEF Init, M!Init, ManControl, IndexControl, Starting, Calling
<1> QED
  BY <1>1, <1>2, <1>3, <1>4 DEF Control

\* Every step keeps the log where the engine takes it to be.
LEMMA NextLogControl == LogControl /\ [Next]_vars => LogControl'
<1> SUFFICES ASSUME LogControl, [Next]_vars PROVE LogControl'
  OBVIOUS
<1> USE DEF LogControl, Pcs, walVars, W!diskVars, W!objVars
<1>1. CASE Start \/ ReplayRecord \/ EndRecovery
  BY <1>1 DEF Start, ReplayRecord, EndRecovery, W!Construct, W!ReplayRecord, W!RecoverEnd,
              W!CutTail, W!SyncRepair
<1>2. ASSUME NEW k \in Key, Del(k) \/ \E v \in Val : Set(k, v)
      PROVE  LogControl'
  BY <1>2 DEF Del, Set, W!Write
<1>3. CASE LogStep \/ LogFails \/ Logged
  BY <1>3 DEF LogStep, LogFails, Logged, W!PushPart, W!PushAll, W!WriteFail, W!WriteSynced
<1>4. CASE FlushTruncate \/ FlushEnd
  BY <1>4 DEF FlushTruncate, FlushEnd, W!Truncate, W!TruncateFail, W!TruncateSyncFail,
              W!TruncateSynced
<1>5. CASE Throw \/ Crash \/ PowerLoss
  BY <1>5 DEF Throw, Crash, EndProcess, PowerLoss, Gone, W!Gone, W!PowerLoss
<1>6. CASE WriteBack
  BY <1>6 DEF WriteBack, W!WriteBack
<1>7. CASE OpenManifest \/ WriteManifest \/ ReadThrows
  <2>1. UNCHANGED walVars /\ pc' \in Pcs /\ pc' \notin {"down", "recover", "log"}
        /\ pc \notin {"down", "recover", "log", "throw", "flushTruncate"}
    BY <1>7 DEF OpenManifest, WriteManifest, ReadThrows
  <2> QED
    BY <2>1
<1>8. CASE FlushCreate \/ FlushWrite \/ FlushSyncDir \/ FlushAdd \/ FlushAdded
  <2>1. UNCHANGED walVars /\ pc' \in Pcs /\ pc' \notin {"down", "recover", "log"}
        /\ pc \notin {"down", "recover", "log", "throw", "flushTruncate"}
    BY <1>8 DEF FlushCreate, FlushWrite, FlushSyncDir, FlushAdd, FlushAdded
  <2> QED
    BY <2>1
<1>9. CASE Compact \/ CompactToNothing \/ CompactCreate \/ CompactWrite
  BY <1>9 DEF Compact, CompactToNothing, CompactCreate, CompactWrite, CompactReturns
<1>10. CASE CompactSyncDir \/ CompactSwap \/ CompactSwapped \/ CompactRemove
  <2>1. UNCHANGED walVars /\ pc' \in Pcs /\ pc' \notin {"down", "recover", "log"}
        /\ pc \notin {"down", "recover", "log", "throw", "flushTruncate"}
    BY <1>10 DEF CompactSyncDir, CompactSwap, CompactSwapped, CompactRemove, CompactReturns
  <2> QED
    BY <2>1
<1>11. CASE UNCHANGED vars
  BY <1>11 DEF vars
<1> QED
  BY <1>1, <1>2, <1>3, <1>4, <1>5, <1>6, <1>7, <1>8, <1>9, <1>10, <1>11, StepCases

\* Every step keeps the manifest where the engine takes it to be.
LEMMA NextManControl == ManControl /\ IndexControl /\ LogControl /\ [Next]_vars => ManControl'
<1> SUFFICES ASSUME ManControl, IndexControl, LogControl, [Next]_vars PROVE ManControl'
  OBVIOUS
<1> USE DEF ManControl, Starting, Calling, manVars, M!diskVars, M!objVars, M!callVars
<1>1. CASE Start \/ ReplayRecord \/ EndRecovery
  BY <1>1 DEF Start, ReplayRecord, EndRecovery, DirSynced
<1>2. ASSUME NEW k \in Key, Del(k) \/ \E v \in Val : Set(k, v)
      PROVE  ManControl'
  BY <1>2 DEF Del, Set
<1>3. CASE LogStep \/ LogFails \/ Logged
  BY <1>3 DEF LogStep, LogFails, Logged
<1>4. CASE FlushTruncate \/ FlushEnd
  BY <1>4 DEF FlushTruncate, FlushEnd
<1>5. CASE Throw \/ Crash \/ PowerLoss
  BY <1>5 DEF Throw, Crash, EndProcess, PowerLoss, Gone, M!Gone, M!PowerLoss
<1>6. CASE WriteBack
  BY <1>6 DEF WriteBack, M!WriteBack
<1>7. CASE OpenManifest
  BY <1>7 DEF OpenManifest, M!Load, M!Create, M!StartWrite, M!Returned
<1>8. CASE WriteManifest
  BY <1>8 DEF WriteManifest, M!WriteTemp, M!WriteTempFail, M!Rename, M!RenameFail, M!SyncDir,
              M!SyncDirFail
<1>9. CASE ReadThrows \/ FlushCreate \/ FlushWrite \/ FlushSyncDir
  BY <1>9 DEF ReadThrows, FlushCreate, FlushWrite, FlushSyncDir, DirSynced
<1>10. CASE FlushAdd \/ FlushAdded
  BY <1>10 DEF FlushAdd, FlushAdded, M!AddNewIndex, M!StartWrite, M!Returned
<1>11. CASE Compact \/ CompactToNothing \/ CompactCreate \/ CompactWrite
  BY <1>11 DEF Compact, CompactToNothing, CompactCreate, CompactWrite, CompactReturns,
               M!RemoveIndices, M!StartWrite
<1>12. CASE CompactSyncDir \/ CompactSwap \/ CompactSwapped \/ CompactRemove
  BY <1>12 DEF CompactSyncDir, CompactSwap, CompactSwapped, CompactRemove, CompactReturns,
               DirSynced, M!ReplaceIndices, M!StartWrite, M!Returned
<1>13. CASE UNCHANGED vars
  BY <1>13 DEF vars
<1> QED
  BY <1>1, <1>2, <1>3, <1>4, <1>5, <1>6, <1>7, <1>8, <1>9, <1>10, <1>11, <1>12, <1>13, StepCases

\* Every step keeps the index of the next table what the manifest says it is.
LEMMA NextIndexControl == Control /\ [Next]_vars => IndexControl'
<1> SUFFICES ASSUME Control, IndexControl, ManControl, [Next]_vars PROVE IndexControl'
  BY DEF Control
<1> USE BoundAssumption DEF IndexControl, Calling
<1>0. /\ manPc # "none" /\ man # NoFile => manNext = man.next
      /\ manDisk # NoFile => man # NoFile /\ manDisk.next <= man.next
      /\ manPc = "ready" => man # NoFile
      /\ man # NoFile => man.next \in Nat
      /\ manDisk # NoFile => manDisk.next \in Nat
      /\ manNext \in Nat
      /\ pc \notin Starting \cup Calling \cup {"throw"} => manPc = "ready"
  BY DEF Control, ManControl, MP!IInv, MP!FilesOK, MP!Good, MP!Contents, MP!ObjectOK, MP!TypeOK
<1>1. CASE Start \/ ReplayRecord \/ EndRecovery
  BY <1>1 DEF Start, ReplayRecord, EndRecovery, DirSynced, manVars, locVars
<1>2. ASSUME NEW k \in Key, Del(k) \/ \E v \in Val : Set(k, v)
      PROVE  IndexControl'
  BY <1>2 DEF Del, Set, manVars, locVars
<1>3. CASE LogStep \/ LogFails \/ Logged
  BY <1>3 DEF LogStep, LogFails, Logged, manVars, locVars
<1>4. CASE FlushTruncate \/ FlushEnd
  BY <1>4 DEF FlushTruncate, FlushEnd, manVars, locVars
<1>5. CASE Throw \/ Crash \/ PowerLoss
  BY <1>5, <1>0 DEF Throw, Crash, EndProcess, PowerLoss, Gone, M!Gone, M!PowerLoss
<1>6. CASE WriteBack
  BY <1>6 DEF WriteBack, M!WriteBack, manVars, locVars, M!objVars, M!callVars
<1>7. CASE OpenManifest
  BY <1>7 DEF OpenManifest, M!Load, M!Create, M!StartWrite, M!Returned, manVars, locVars,
              M!diskVars, M!objVars
<1>8. CASE WriteManifest
  BY <1>8, <1>0 DEF WriteManifest, M!WriteTemp, M!WriteTempFail, M!Rename, M!RenameFail, M!SyncDir,
              M!SyncDirFail, locVars, M!diskVars, M!objVars
<1>9. CASE ReadThrows \/ FlushCreate \/ FlushWrite \/ FlushSyncDir
  BY <1>9, <1>0 DEF ReadThrows, FlushCreate, FlushWrite, FlushSyncDir, DirSynced, manVars,
         locVars, Starting
<1>10. CASE FlushAdd \/ FlushAdded
  BY <1>10, <1>0 DEF FlushAdd, FlushAdded, M!AddNewIndex, M!CanCall, M!StartWrite, M!Returned,
               locVars, M!diskVars, M!objVars, manVars
<1>11. CASE Compact \/ CompactToNothing
  BY <1>11, <1>0 DEF Compact, CompactToNothing, M!RemoveIndices, M!CanCall, M!StartWrite,
               manVars, locVars, M!diskVars, M!objVars, Starting
<1>12. CASE CompactCreate \/ CompactWrite \/ CompactSyncDir
  BY <1>12, <1>0 DEF CompactCreate, CompactWrite, CompactReturns, CompactSyncDir, DirSynced,
               manVars, locVars, Starting
<1>13. CASE CompactSwap \/ CompactSwapped \/ CompactRemove
  BY <1>13, <1>0 DEF CompactSwap, CompactSwapped, CompactRemove, CompactReturns,
               M!ReplaceIndices, M!CanCall, M!StartWrite, M!Returned, manVars, locVars,
               M!diskVars, M!objVars
<1>14. CASE UNCHANGED vars
  BY <1>14 DEF vars, manVars, locVars
<1> QED
  BY <1>1, <1>2, <1>3, <1>4, <1>5, <1>6, <1>7, <1>8, <1>9, <1>10, <1>11, <1>12, <1>13,
     <1>14, StepCases

\* So every step keeps the control part of the invariant.
LEMMA NextControl == Control /\ [Next]_vars => Control'
  BY PartsKeep, NextLogControl, NextManControl, NextIndexControl DEF Control

-----------------------------------------------------------------------------
(* What NewestCell and Replayed return.                                    *)

\* An empty list has no cell.
LEMMA NewestOfNone == ASSUME NEW tabs, NEW k PROVE NewestCell(<<>>, tabs, k) = Absent
  BY DEF NewestCell

\* It looks at the listed tables only.
LEMMA NewestOfSame ==
  ASSUME NEW S, NEW list \in Seq(S), NEW old, NEW new, NEW k,
         \A n \in DOMAIN list : new[list[n]] = old[list[n]]
  PROVE  NewestCell(list, new, k) = NewestCell(list, old, k)
<1> DEFINE holders(tabs) == {n \in DOMAIN list : tabs[list[n]][k] # Absent}
<1>1. holders(old) = holders(new)
  OBVIOUS
<1>2. CASE holders(old) = {}
  BY <1>1, <1>2 DEF NewestCell
<1>3. CASE holders(old) # {}
  <2>1. holders(old) \in SUBSET (0..Len(list)) /\ Len(list) \in Nat
    OBVIOUS
  <2>2. Max(holders(old)) \in holders(old)
    BY <1>3, <2>1, MaxIsGreatest
  <2>3. /\ NewestCell(list, old, k) = old[list[Max(holders(old))]][k]
        /\ NewestCell(list, new, k) = new[list[Max(holders(old))]][k]
    BY <1>1, <1>3 DEF NewestCell
  <2> DEFINE top == Max(holders(old))
  <2>4. top \in DOMAIN list
    BY <2>2
  <2>5. NewestCell(list, old, k) = old[list[top]][k] /\ NewestCell(list, new, k) = new[list[top]][k]
    BY <2>3
  <2> HIDE DEF top
  <2> QED
    BY <2>4, <2>5
<1> QED
  BY <1>2, <1>3

\* It returns the cell of a listed table behind which no other has an entry.
LEMMA NewestIsHeld ==
  ASSUME NEW S, NEW list \in Seq(S), NEW tabs, NEW k
  PROVE  \/ /\ NewestCell(list, tabs, k) = Absent
            /\ \A n \in DOMAIN list : tabs[list[n]][k] = Absent
         \/ \E n \in DOMAIN list :
               /\ NewestCell(list, tabs, k) = tabs[list[n]][k] /\ tabs[list[n]][k] # Absent
               /\ \A m \in DOMAIN list : m > n => tabs[list[m]][k] = Absent
<1> DEFINE holders == {n \in DOMAIN list : tabs[list[n]][k] # Absent}
<1>1. CASE holders = {}
  BY <1>1 DEF NewestCell
<1>2. CASE holders # {}
  <2>1. holders \in SUBSET (0..Len(list)) /\ Len(list) \in Nat
    OBVIOUS
  <2>2. Max(holders) \in holders /\ \A n \in holders : n <= Max(holders)
    BY <1>2, <2>1, MaxIsGreatest
  <2>3. NewestCell(list, tabs, k) = tabs[list[Max(holders)]][k]
    BY <1>2 DEF NewestCell
  <2>4. PICK top \in holders : top = Max(holders) /\ \A n \in holders : n <= top
    BY <2>2
  <2>5. ASSUME NEW m \in DOMAIN list, m > top PROVE m \notin holders
    <3>1. m \in Int /\ top \in Int
      OBVIOUS
    <3> HIDE DEF holders
    <3> QED
      BY <2>4, <2>5, <3>1
  <2>6. \A m \in DOMAIN list : m > top => tabs[list[m]][k] = Absent
    BY <2>5
  <2>7. NewestCell(list, tabs, k) = tabs[list[top]][k]
    BY <2>3, <2>4
  <2> QED
    BY <2>6, <2>7
<1> QED
  BY <1>1, <1>2

\* The newest table decides, if it has an entry.
LEMMA NewestOfAppend ==
  ASSUME NEW S, NEW list \in Seq(S), NEW i \in S, NEW tabs, NEW k
  PROVE  NewestCell(Append(list, i), tabs, k)
            = IF tabs[i][k] # Absent THEN tabs[i][k] ELSE NewestCell(list, tabs, k)
<1> DEFINE more == Append(list, i)
<1>1. /\ more \in Seq(S) /\ Len(more) = Len(list) + 1 /\ more[Len(more)] = i
      /\ \A n \in DOMAIN list : more[n] = list[n]
      /\ DOMAIN list = 1..Len(list) /\ DOMAIN more = 1..Len(more) /\ Len(list) \in Nat
  OBVIOUS
<1> HIDE DEF more
<1>2. CASE tabs[i][k] # Absent
  <2>1. ~ \A n \in DOMAIN more : tabs[more[n]][k] = Absent
    BY <1>1, <1>2
  <2>2. PICK n \in DOMAIN more :
               /\ NewestCell(more, tabs, k) = tabs[more[n]][k] /\ tabs[more[n]][k] # Absent
               /\ \A m \in DOMAIN more : m > n => tabs[more[m]][k] = Absent
    BY <1>1, <2>1, NewestIsHeld
  <2>3. n = Len(more)
    BY <1>1, <1>2, <2>2
  <2> QED
    BY <1>1, <1>2, <2>2, <2>3 DEF more
<1>3. CASE tabs[i][k] = Absent
  <2> DEFINE holders(l) == {n \in DOMAIN l : tabs[l[n]][k] # Absent}
  <2>1. holders(more) = holders(list)
    BY <1>1, <1>3
  <2>2. CASE holders(list) = {}
    BY <1>3, <2>1, <2>2 DEF NewestCell, more
  <2>3. CASE holders(list) # {}
    <3>1. holders(list) \in SUBSET (0..Len(list))
      BY <1>1
    <3>2. Max(holders(list)) \in holders(list)
      BY <1>1, <2>3, <3>1, MaxIsGreatest
    <3>3. NewestCell(list, tabs, k) = tabs[list[Max(holders(list))]][k]
      BY <2>3 DEF NewestCell
    <3>4. NewestCell(more, tabs, k) = tabs[more[Max(holders(list))]][k]
      BY <2>1, <2>3 DEF NewestCell
    <3>5. more[Max(holders(list))] = list[Max(holders(list))]
      BY <1>1, <3>2
    <3> QED
      BY <1>3, <3>3, <3>4, <3>5 DEF more
  <2> QED
    BY <2>2, <2>3
<1> QED
  BY <1>2, <1>3

\* What it returns is a cell.
LEMMA NewestIsCell ==
  ASSUME NEW S, NEW list \in Seq(S), NEW tabs, NEW k \in Key,
         \A n \in DOMAIN list : tabs[list[n]] \in T!Content
  PROVE  NewestCell(list, tabs, k) \in T!Cell
  BY NewestIsHeld DEF T!Content, T!Cell

-----------------------------------------------------------------------------
(* Which files a step leaves alone.                                        *)

\* What the parts' invariants say of the manifest, as the engine needs it.
LEMMA ManFacts ==
  ASSUME Control
  PROVE  /\ man # NoFile =>
               /\ man.list \in Seq(Nat) /\ man.next \in Nat
               /\ \A n \in DOMAIN man.list : man.list[n] < man.next
         /\ manDisk # NoFile =>
               /\ manDisk.list \in Seq(Nat) /\ manDisk.next \in Nat
               /\ man # NoFile /\ manDisk.next <= man.next
               /\ \A n \in DOMAIN manDisk.list : manDisk.list[n] < manDisk.next
         /\ manPc \in {"write", "rename"} =>
               /\ manArg.list \in Seq(Nat) /\ manArg.next \in Nat /\ manArg # NoFile
         /\ manPc # "none" /\ man # NoFile => manNext = man.next
         /\ manNext \in Nat
         /\ manOpen => man # NoFile
         /\ manPc \in {"ready", "dirsync", "ok"} => man # NoFile
         /\ manPc = "rename" => tempSynced
  BY FileAssumption, MarkerAssumption
     DEF Control, MP!IInv, MP!TypeOK, MP!FilesOK, MP!ObjectOK, MP!Good, MP!Contents, M!Contents

\* The index that the next table gets is within the bound.
LEMMA IndexFacts ==
  ASSUME Control
  PROVE  /\ newIdx \in 0..MaxTables
         /\ pc \in {"log", "flush", "flushWrite", "flushDir", "compact", "compactWrite",
                    "compactDir"} => manNext \in T!TableId
         /\ pc \in {"flushWrite", "flushDir", "compactWrite", "compactDir"} =>
               newIdx = manNext /\ newIdx \in T!TableId
         /\ pc \in Calling /\ manPc = "ready" => newIdx = manNext /\ newIdx \in T!TableId
  BY ManFacts, BoundAssumption DEF Control, IndexControl, T!TableId

\* No step that can be taken at pc writes or deletes the table i.
Untouched(i) ==
    /\ pc \in {"flush", "compact"} => i # manNext
    /\ pc \in {"flushWrite", "compactWrite"} => i # newIdx
    /\ pc = "compactRemove" => i # todo[1]

\* A step that may not write or delete a stored table leaves it as it is.
LEMMA StoredKept ==
  ASSUME Typed, [Next]_vars, NEW i, Stored(i), Untouched(i)
  PROVE  Stored(i)' /\ tables'[i] = tables[i]
<1> USE FileAssumption DEF Stored, Typed, T!TypeOK, Untouched, tabVars
<1>1. CASE Start \/ FlushSyncDir \/ CompactSyncDir
  BY <1>1 DEF Start, FlushSyncDir, CompactSyncDir, DirSynced, T!DirSynced, T!Present
<1>2. CASE WriteManifest
  BY <1>2 DEF WriteManifest, T!DirSynced, T!Present
<1>3. CASE FlushCreate \/ CompactCreate
  BY <1>3 DEF FlushCreate, CompactCreate, T!Create
<1>4. CASE FlushWrite
  BY <1>4 DEF FlushWrite, T!WriteSynced, T!WriteFail
<1>5. CASE CompactWrite
  BY <1>5 DEF CompactWrite, T!WriteSynced, T!WriteFail
<1>6. CASE CompactRemove
  BY <1>6 DEF CompactRemove, T!Remove
<1>7. CASE PowerLoss
  BY <1>7 DEF PowerLoss, T!PowerLoss, T!Surviving
<1>8. CASE WriteBack
  BY <1>8 DEF WriteBack, T!WriteBack
<1>9. CASE Throw \/ Crash \/ UNCHANGED vars
  BY <1>9 DEF Throw, Crash, EndProcess, vars
<1>10. CASE ReplayRecord \/ EndRecovery \/ OpenManifest \/ LogStep \/ LogFails \/ Logged
            \/ ReadThrows
  BY <1>10 DEF ReplayRecord, EndRecovery, OpenManifest, LogStep, LogFails, Logged, ReadThrows
<1>11. ASSUME NEW k \in Key, Del(k) \/ \E v \in Val : Set(k, v)
       PROVE  UNCHANGED tabVars
  BY <1>11 DEF Del, Set
<1>12. CASE FlushAdd \/ FlushAdded \/ FlushTruncate \/ FlushEnd
            \/ Compact \/ CompactToNothing \/ CompactSwap \/ CompactSwapped
  BY <1>12 DEF FlushAdd, FlushAdded, FlushTruncate, FlushEnd, Compact, CompactToNothing,
               CompactSwap, CompactSwapped
<1> QED
  BY <1>1, <1>2, <1>3, <1>4, <1>5, <1>6, <1>7, <1>8, <1>9, <1>10, <1>11, <1>12, StepCases

\* A table that a manifest lists, or is about to list, is left alone.
LEMMA ListedUntouched ==
  ASSUME Control, Tables
  PROVE  /\ man # NoFile => \A n \in DOMAIN man.list : Untouched(man.list[n])
         /\ manDisk # NoFile => \A n \in DOMAIN manDisk.list : Untouched(manDisk.list[n])
         /\ manPc # "ready" => \A i : Untouched(i)
         /\ pc \in {"flushDir", "flushAdd", "flushTruncate", "compactDir", "compactSwap"}
               => \A i : Untouched(i)
<1> USE DEF Untouched
<1>1. pc \in {"flush", "flushWrite", "compact", "compactWrite", "compactRemove"} =>
          manPc = "ready" /\ man # NoFile /\ manDisk # NoFile /\ manNext = man.next
  BY ManFacts DEF Control, ManControl, Starting, Calling, Tables, Listed
<1>2. pc \in {"flushWrite", "compactWrite"} => newIdx = manNext
  BY DEF Control, IndexControl
<1>3. man # NoFile => \A n \in DOMAIN man.list : Untouched(man.list[n])
  <2> SUFFICES ASSUME man # NoFile, NEW n \in DOMAIN man.list PROVE Untouched(man.list[n])
    OBVIOUS
  <2>1. man.list[n] < man.next /\ man.list[n] \in Nat /\ man.next \in Nat
    BY ManFacts
  <2>2. pc = "compactRemove" => man.list[n] # todo[1]
    BY DEF Tables, Compacting, Typed
  <2> QED
    BY <1>1, <1>2, <2>1, <2>2
<1>4. manDisk # NoFile => \A n \in DOMAIN manDisk.list : Untouched(manDisk.list[n])
  <2> SUFFICES ASSUME manDisk # NoFile, NEW n \in DOMAIN manDisk.list
               PROVE  Untouched(manDisk.list[n])
    OBVIOUS
  <2>1. /\ manDisk.list[n] < manDisk.next /\ manDisk.next <= man.next
        /\ manDisk.list[n] \in Nat /\ man.next \in Nat /\ manDisk.next \in Nat
    BY ManFacts
  <2>2. pc = "compactRemove" => manDisk.list[n] # todo[1]
    BY DEF Tables, Compacting, Typed
  <2> QED
    BY <1>1, <1>2, <2>1, <2>2
<1> QED
  BY <1>1, <1>3, <1>4

\* What can happen to a process wherever it is.
Anywhere == Crash \/ PowerLoss \/ WriteBack

\* The steps that can be taken at each pc.
LEMMA StepsAt ==
  ASSUME Next
  PROVE  /\ pc = "down" => Start \/ PowerLoss \/ WriteBack
         /\ pc = "throw" => Throw \/ PowerLoss \/ WriteBack
         /\ pc = "recover" => ReplayRecord \/ EndRecovery \/ Anywhere
         /\ pc = "manifest" => OpenManifest \/ WriteManifest \/ Anywhere
         /\ pc = "idle" => \/ \E k \in Key : Del(k) \/ \E v \in Val : Set(k, v)
                           \/ ReadThrows \/ Compact \/ Anywhere
         /\ pc = "log" => LogStep \/ LogFails \/ Logged \/ Anywhere
         /\ pc = "flush" => FlushCreate \/ Anywhere
         /\ pc = "flushWrite" => FlushWrite \/ Anywhere
         /\ pc = "flushDir" => FlushSyncDir \/ Anywhere
         /\ pc = "flushAdd" => FlushAdd \/ WriteManifest \/ FlushAdded \/ Anywhere
         /\ pc = "flushTruncate" => FlushTruncate \/ FlushEnd \/ Anywhere
         /\ pc = "compact" => CompactToNothing \/ CompactCreate \/ Anywhere
         /\ pc = "compactWrite" => CompactWrite \/ Anywhere
         /\ pc = "compactDir" => CompactSyncDir \/ Anywhere
         /\ pc = "compactSwap" => CompactSwap \/ WriteManifest \/ CompactSwapped \/ Anywhere
         /\ pc = "compactRemove" => CompactRemove \/ Anywhere
<1>1. /\ Start => pc = "down"
      /\ Throw => pc = "throw"
      /\ Crash => pc \notin {"down", "throw"}
      /\ ReplayRecord \/ EndRecovery => pc = "recover"
      /\ OpenManifest => pc = "manifest"
      /\ WriteManifest => pc \in {"manifest", "flushAdd", "compactSwap"}
  BY DEF Start, Throw, Crash, ReplayRecord, EndRecovery, OpenManifest, WriteManifest
<1>2. /\ (\E k \in Key : Del(k) \/ \E v \in Val : Set(k, v)) => pc = "idle"
      /\ ReadThrows \/ Compact => pc = "idle"
      /\ LogStep \/ LogFails \/ Logged => pc = "log"
  BY DEF Del, Set, ReadThrows, Compact, LogStep, LogFails, Logged
<1>3. /\ FlushCreate => pc = "flush"
      /\ FlushWrite => pc = "flushWrite"
      /\ FlushSyncDir => pc = "flushDir"
      /\ FlushAdd \/ FlushAdded => pc = "flushAdd"
      /\ FlushTruncate \/ FlushEnd => pc = "flushTruncate"
  BY DEF FlushCreate, FlushWrite, FlushSyncDir, FlushAdd, FlushAdded, FlushTruncate, FlushEnd
<1>4. /\ CompactToNothing \/ CompactCreate => pc = "compact"
      /\ CompactWrite => pc = "compactWrite"
      /\ CompactSyncDir => pc = "compactDir"
      /\ CompactSwap \/ CompactSwapped => pc = "compactSwap"
      /\ CompactRemove => pc = "compactRemove"
  BY DEF CompactToNothing, CompactCreate, CompactWrite, CompactSyncDir, CompactSwap,
         CompactSwapped, CompactRemove
<1> QED
  BY <1>1, <1>2, <1>3, <1>4, StepCases DEF Anywhere

\* How a process ends, and what the kernel's write-back leaves alone.
LEMMA EndsAndWriteBacks ==
  ASSUME Next
  PROVE  /\ Throw \/ Crash =>
               /\ M!Gone /\ W!Gone /\ Gone
               /\ UNCHANGED <<wal, walDisk, acked, man, manDisk, tables, tabData, tabNames>>
         /\ PowerLoss =>
               /\ M!Gone /\ W!Gone /\ Gone
               /\ wal' = walDisk /\ man' = manDisk /\ tables' = T!Surviving
               /\ UNCHANGED <<walDisk, manDisk, tabData, tabNames>>
         /\ WriteBack =>
               /\ UNCHANGED <<wal, acked, walIndex, walFailed, walReq, walPos, walPc>>
               /\ UNCHANGED <<man, manNext, manOpen, manArg, tempSynced, manOp, manPc>>
               /\ UNCHANGED <<tables, mem, memSize, newIdx, merged, todo, pc>>
               /\ walDisk' \in {walDisk, wal} /\ manDisk' \in {manDisk, man}
<1>1. Throw \/ Crash =>
               /\ M!Gone /\ W!Gone /\ Gone
               /\ UNCHANGED <<wal, walDisk, acked, man, manDisk, tables, tabData, tabNames>>
  BY DEF Throw, Crash, EndProcess, tabVars
<1>2. PowerLoss =>
               /\ M!Gone /\ W!Gone /\ Gone
               /\ wal' = walDisk /\ man' = manDisk /\ tables' = T!Surviving
               /\ UNCHANGED <<walDisk, manDisk, tabData, tabNames>>
  BY DEF PowerLoss, W!PowerLoss, M!PowerLoss, T!PowerLoss
<1>3. WriteBack =>
               /\ UNCHANGED <<wal, acked, walIndex, walFailed, walReq, walPos, walPc>>
               /\ UNCHANGED <<man, manNext, manOpen, manArg, tempSynced, manOp, manPc>>
               /\ UNCHANGED <<tables, mem, memSize, newIdx, merged, todo, pc>>
               /\ walDisk' \in {walDisk, wal} /\ manDisk' \in {manDisk, man}
  BY DEF WriteBack, W!WriteBack, M!WriteBack, T!WriteBack, walVars, manVars, tabVars, memVars,
         locVars, W!objVars, M!objVars, M!callVars
<1> QED
  BY <1>1, <1>2, <1>3

\* Where a step can lead from each pc, but for the end of the process.
LEMMA NextPc ==
  ASSUME Next, pc' # "down"
  PROVE  /\ pc = "down" => pc' = "recover"
         /\ pc = "recover" => pc' \in {"recover", "manifest"}
         /\ pc = "manifest" => pc' \in {"manifest", "idle", "throw"}
         /\ pc = "idle" => pc' \in {"idle", "log", "compact", "throw"}
         /\ pc = "log" => pc' \in {"log", "flush", "idle", "throw"}
         /\ pc = "flush" => pc' \in {"flush", "flushWrite", "throw"}
         /\ pc = "flushWrite" => pc' \in {"flushWrite", "flushDir", "throw"}
         /\ pc = "flushDir" => pc' \in {"flushDir", "flushAdd", "throw"}
         /\ pc = "flushAdd" => pc' \in {"flushAdd", "flushTruncate", "throw"}
         /\ pc = "flushTruncate" => pc' \in {"flushTruncate", "idle", "throw"}
         /\ pc = "compact" => pc' \in {"compact", "compactSwap", "compactWrite", "throw"}
         /\ pc = "compactWrite" => pc' \in {"compactWrite", "compactDir", "idle"}
         /\ pc = "compactDir" => pc' \in {"compactDir", "compactSwap", "idle"}
         /\ pc = "compactSwap" => pc' \in {"compactSwap", "compactRemove", "idle"}
         /\ pc = "compactRemove" => pc' \in {"compactRemove", "idle", "throw"}
         /\ pc = "throw" => pc' = "throw"
<1>1. Anywhere \/ Throw => pc' = pc
  BY EndsAndWriteBacks DEF Anywhere, Gone
<1>2. /\ Start => pc' = "recover"
      /\ ReplayRecord => pc' = pc
      /\ EndRecovery => pc' \in {pc, "manifest"}
      /\ OpenManifest => pc' \in {"manifest", "idle", "throw"}
      /\ WriteManifest => pc' = pc
  BY DEF Start, ReplayRecord, EndRecovery, OpenManifest, WriteManifest
<1>3. /\ (\E k \in Key : Del(k) \/ \E v \in Val : Set(k, v)) => pc' = "log"
      /\ ReadThrows => pc' = "throw"
      /\ Compact => pc' = "compact"
      /\ LogStep => pc' = pc
      /\ LogFails => pc' = "throw"
      /\ Logged => pc' \in {"flush", "idle"}
  BY DEF Del, Set, ReadThrows, Compact, LogStep, LogFails, Logged
<1>4. /\ FlushCreate => pc' \in {"flushWrite", "throw"}
      /\ FlushWrite => pc' \in {"flushDir", "throw"}
      /\ FlushSyncDir => pc' \in {"flushAdd", "throw"}
      /\ FlushAdd => pc' \in {pc, "throw"}
      /\ FlushAdded => pc' \in {"flushTruncate", "throw"}
      /\ FlushTruncate => pc' \in {pc, "throw"}
      /\ FlushEnd => pc' = "idle"
  BY DEF FlushCreate, FlushWrite, FlushSyncDir, FlushAdd, FlushAdded, FlushTruncate, FlushEnd
<1>5. /\ CompactToNothing => pc' = "compactSwap"
      /\ CompactCreate => pc' \in {"compactWrite", "throw"}
      /\ CompactWrite => pc' \in {"compactDir", "idle"}
      /\ CompactSyncDir => pc' \in {"compactSwap", "idle"}
      /\ CompactSwap => pc' = pc
      /\ CompactSwapped => pc' \in {"compactRemove", "idle"}
      /\ CompactRemove => pc' \in {pc, "idle", "throw"}
  BY DEF CompactToNothing, CompactCreate, CompactWrite, CompactSyncDir, CompactSwap,
         CompactSwapped, CompactRemove, CompactReturns
<1> QED
  BY <1>1, <1>2, <1>3, <1>4, <1>5, StepsAt DEF Anywhere

Elements(list) == {list[n] : n \in DOMAIN list}

\* Tables that a manifest lists, or is about to list, stay as they are in every step.
LEMMA ListsKept ==
  ASSUME Control, Tables, [Next]_vars,
         NEW i, \/ man # NoFile /\ i \in Elements(man.list)
                \/ manDisk # NoFile /\ i \in Elements(manDisk.list)
                \/ manPc \in {"write", "rename"} /\ i \in Elements(manArg.list)
  PROVE  Stored(i)' /\ tables'[i] = tables[i]
<1>1. Stored(i)
  BY DEF Tables, Listed, AllStored, Elements
<1>2. Untouched(i)
  BY ListedUntouched DEF Elements
<1> QED
  BY <1>1, <1>2, StoredKept DEF Tables

\* What a step does to the manifests.
LEMMA ManEffect ==
  ASSUME Control, Next
  PROVE  /\ \/ man' = man /\ manDisk' \in {manDisk, man}
            \/ PowerLoss /\ man' = manDisk /\ manDisk' = manDisk /\ pc' = "down" /\ manPc' = "none"
            \/ /\ WriteManifest /\ M!Rename
               /\ man' = manArg /\ manDisk' \in {manDisk, manArg}
               /\ manPc = "rename" /\ manPc' = "dirsync" /\ pc' = pc
         /\ manPc' \in {"write", "rename"} =>
              \/ manPc \in {"write", "rename"} /\ manArg' = manArg
              \/ pc \in {"manifest", "compact"} /\ manArg'.list = <<>>
              \/ pc = "flushAdd" /\ manPc = "ready" /\ manArg'.list = Append(man.list, newIdx)
              \/ pc = "compactSwap" /\ manPc = "ready" /\ manArg'.list = <<newIdx>>
<1>0. \A l : M!Subtract(l, l) = <<>>
  <2>1. \A l : MP!Subtract(l, l) = <<>>
    BY MP!SubtractSelf, FileAssumption, BoundAssumption, MarkerAssumption
       DEF M!Contents, MP!Contents
  <2>2. \A l, r : M!Subtract(l, r) = MP!Subtract(l, r)
    BY DEF M!Subtract, MP!Subtract, M!Picked, MP!Picked, M!InOrder, MP!InOrder, M!Rank, MP!Rank,
           M!Cardinality, MP!Cardinality
  <2> QED
    BY <2>1, <2>2
<1> USE DEF manVars
<1>1. CASE Start \/ FlushSyncDir \/ CompactSyncDir
  BY <1>1 DEF Start, FlushSyncDir, CompactSyncDir, DirSynced, Control, ManControl, Starting,
              Calling
<1>2. CASE OpenManifest
  BY <1>2 DEF OpenManifest, M!Load, M!Create, M!StartWrite, M!Returned, M!diskVars
<1>3. CASE WriteManifest
  BY <1>3, ManFacts DEF WriteManifest, M!WriteTemp, M!WriteTempFail, M!Rename, M!RenameFail,
              M!SyncDir, M!SyncDirFail, M!diskVars
<1>4. CASE FlushAdd
  BY <1>4 DEF FlushAdd, M!AddNewIndex, M!CanCall, M!StartWrite, M!diskVars
<1>5. CASE CompactToNothing
  <2>1. manArg'.list = M!Subtract(man.list, todo) /\ UNCHANGED <<man, manDisk>> /\ pc = "compact"
    BY <1>5 DEF CompactToNothing, M!RemoveIndices, M!StartWrite, M!diskVars
  <2>2. todo = man.list
    BY <2>1 DEF Control, IndexControl
  <2> QED
    BY <1>0, <2>1, <2>2
<1>6. CASE CompactSwap
  <2>1. /\ manArg'.list = Append(M!Subtract(man.list, todo), newIdx)
        /\ UNCHANGED <<man, manDisk>> /\ pc = "compactSwap" /\ manPc = "ready"
    BY <1>6 DEF CompactSwap, M!ReplaceIndices, M!CanCall, M!StartWrite, M!diskVars
  <2>2. todo = man.list
    BY <2>1 DEF Control, IndexControl
  <2>3. manArg'.list = Append(<<>>, newIdx)
    BY <1>0, <2>1, <2>2
  <2> QED
    BY <2>1, <2>3
<1>7. CASE FlushAdded \/ CompactSwapped
  BY <1>7 DEF FlushAdded, CompactSwapped, M!Returned, M!diskVars
<1>8. CASE Throw \/ Crash
  BY <1>8 DEF Throw, Crash, EndProcess, M!Gone
<1>9. CASE PowerLoss
  BY <1>9 DEF PowerLoss, M!PowerLoss, M!Gone, Gone
<1>10. CASE WriteBack
  BY <1>10 DEF WriteBack, M!WriteBack, M!callVars
<1>11. CASE ReplayRecord \/ EndRecovery \/ LogStep \/ LogFails \/ Logged \/ ReadThrows
  BY <1>11 DEF ReplayRecord, EndRecovery, LogStep, LogFails, Logged, ReadThrows
<1>12. ASSUME NEW k \in Key, Del(k) \/ \E v \in Val : Set(k, v)
       PROVE  UNCHANGED manVars
  BY <1>12 DEF Del, Set
<1>13. CASE FlushCreate \/ FlushWrite \/ FlushTruncate \/ FlushEnd
  BY <1>13 DEF FlushCreate, FlushWrite, FlushTruncate, FlushEnd
<1>14. CASE Compact \/ CompactCreate \/ CompactWrite \/ CompactRemove
  BY <1>14 DEF Compact, CompactCreate, CompactWrite, CompactRemove
<1> QED
  BY <1>1, <1>2, <1>3, <1>4, <1>5, <1>6, <1>7, <1>8, <1>9, <1>10, <1>11, <1>12, <1>13, <1>14,
     StepCases

\* Every step keeps each manifest, also the one being written, leading to stored tables.
LEMMA NextListed == Control /\ Tables /\ [Next]_vars => Listed'
<1> SUFFICES ASSUME Control, Tables, [Next]_vars PROVE Listed'
  OBVIOUS
<1>1. CASE UNCHANGED vars
  BY <1>1 DEF vars, manVars, tabVars, Tables, Listed, AllStored, Stored
<1>2. CASE Next
  <2>1. man' # NoFile => AllStored(man.list)'
    <3> SUFFICES ASSUME man' # NoFile, NEW n \in DOMAIN man'.list
                 PROVE  Stored(man.list[n])'
      BY DEF AllStored
    <3> USE <1>2, ListsKept, ManEffect DEF Elements, Stored
    <3>1. CASE man' = man
      BY <3>1
    <3>2. CASE man' = manDisk
      BY <3>2
    <3>3. CASE man' = manArg /\ manPc = "rename"
      BY <3>3
    <3> QED
      BY <3>1, <3>2, <3>3
  <2>2. manDisk' # NoFile => AllStored(manDisk.list)'
    <3> SUFFICES ASSUME manDisk' # NoFile, NEW n \in DOMAIN manDisk'.list
                 PROVE  Stored(manDisk.list[n])'
      BY DEF AllStored
    <3> USE <1>2, ListsKept, ManEffect DEF Elements, Stored
    <3>1. CASE manDisk' = man
      BY <3>1
    <3>2. CASE manDisk' = manDisk
      BY <3>2
    <3>3. CASE manDisk' = manArg /\ manPc = "rename"
      BY <3>3
    <3> QED
      BY <3>1, <3>2, <3>3
  <2>3. manPc' \in {"write", "rename"} => AllStored(manArg.list)'
    <3> SUFFICES ASSUME manPc' \in {"write", "rename"}, NEW n \in DOMAIN manArg'.list
                 PROVE  Stored(manArg.list[n])'
      BY DEF AllStored
    <3>1. CASE manPc \in {"write", "rename"} /\ manArg' = manArg
      BY <3>1, ListsKept DEF Elements, Stored
    <3>2. CASE manArg'.list = <<>>
      BY <3>2
    <3>3. ASSUME pc \in {"flushAdd", "compactSwap"}, manPc = "ready", NEW i, i = newIdx
          PROVE  Stored(i)'
      <4>1. Stored(i) /\ Untouched(i)
        BY <3>3, ListedUntouched DEF Tables, Flushing, Compacting
      <4> QED
        BY <4>1, StoredKept DEF Tables
    <3>4. CASE pc = "flushAdd" /\ manPc = "ready" /\ manArg'.list = Append(man.list, newIdx)
      <4>1. man # NoFile /\ man.list \in Seq(Nat)
        BY <3>4, ManFacts
      <4>2. manArg'.list[n] = newIdx \/ (n \in DOMAIN man.list /\ manArg'.list[n] = man.list[n])
        BY <3>4, <4>1
      <4> QED
        BY <3>3, <3>4, <4>1, <4>2, ListsKept DEF Elements, Stored
    <3>5. CASE pc = "compactSwap" /\ manPc = "ready" /\ manArg'.list = <<newIdx>>
      <4>1. manArg'.list[n] = newIdx
        BY <3>5
      <4> QED
        BY <3>3, <3>5, <4>1 DEF Stored
    <3> QED
      BY <1>2, <3>1, <3>2, <3>4, <3>5, ManEffect
  <2>4. pc' \notin Starting \cup {"throw"} => man' # NoFile /\ manDisk' # NoFile
    <3> USE DEF Starting
    <3>1. manPc = "rename" => manArg # NoFile
      BY ManFacts
    <3>2. CASE pc \notin {"down", "recover", "manifest", "throw"}
      <4>1. man # NoFile /\ manDisk # NoFile
        BY <3>2 DEF Tables, Listed
      <4> QED
        BY <1>2, <3>1, <4>1, ManEffect
    <3>3. CASE pc \in {"down", "recover", "throw"}
      BY <1>2, <3>3, StepsAt, EndsAndWriteBacks
         DEF Start, ReplayRecord, EndRecovery, Anywhere, Gone
    <3>4. CASE pc = "manifest"
      <4>1. CASE OpenManifest
        <5>1. manPc \in {"none", "ok"} => manDisk = man
          BY <3>4 DEF Tables, Listed
        <5> QED
          BY <4>1, <5>1, ManFacts DEF OpenManifest, M!Load, M!Create, M!Returned, M!diskVars,
             manVars
      <4>2. CASE WriteManifest \/ Anywhere
        BY <1>2, <3>4, <4>2, EndsAndWriteBacks DEF WriteManifest, Anywhere, Gone
      <4> QED
        BY <1>2, <3>4, <4>1, <4>2, StepsAt
    <3> QED
      BY <3>2, <3>3, <3>4 DEF Control, LogControl, Pcs
  <2>5. pc' \in {"recover", "manifest"} /\ manPc' \in {"none", "ok"} => manDisk' = man'
    <3>0. pc \in {"recover", "manifest"} /\ manPc \in {"none", "ok"} => manDisk = man
      BY DEF Tables, Listed
    <3>1. CASE Anywhere \/ Throw
      BY <1>2, <3>0, <3>1, EndsAndWriteBacks DEF Anywhere, Gone
    <3>2. CASE pc = "down"
      BY <1>2, <3>1, <3>2, StepsAt DEF Start, DirSynced, Anywhere
    <3>3. CASE pc = "recover"
      BY <1>2, <3>0, <3>1, <3>3, StepsAt DEF ReplayRecord, EndRecovery, manVars
    <3>4. CASE pc = "manifest" /\ OpenManifest
      BY <3>0, <3>4, ManFacts DEF OpenManifest, M!Load, M!Create, M!Returned, M!StartWrite,
         M!diskVars, manVars
    <3>5. CASE pc = "manifest" /\ WriteManifest
      BY <3>0, <3>5 DEF WriteManifest, M!WriteTemp, M!WriteTempFail, M!Rename, M!RenameFail,
         M!SyncDir, M!SyncDirFail, M!diskVars
    <3>6. CASE pc \notin {"down", "recover", "manifest"}
      BY <1>2, <3>6, NextPc DEF Control, LogControl, Pcs
    <3> QED
      BY <1>2, <3>1, <3>2, <3>3, <3>4, <3>5, <3>6, StepsAt
  <2> QED
    BY <2>1, <2>2, <2>3, <2>4, <2>5 DEF Listed
<1> QED
  BY <1>1, <1>2

\* What the log's invariant says of it, as the engine needs it.
LEMMA LogFacts ==
  ASSUME Control
  PROVE  /\ wal \in Seq(W!Record \cup {Torn}) /\ walDisk \in Seq(W!Record \cup {Torn})
         /\ walPos \in Nat
         /\ pc = "log" => walReq \in W!Record
         /\ walPc \in {"append", "ready"} /\ ~walFailed => W!Clean(wal)
         /\ walPc = "partial" => wal # <<>> /\ wal[Len(wal)] = Torn
         /\ \A i \in 1..Len(wal) : wal[i] = Torn => i = Len(wal)
         /\ walPc = "recover" =>
               walPos <= Len(wal) /\ \A i \in 1..walPos : wal[i] # Torn
         /\ walPc = "repair" => W!Clean(wal)
         /\ walPc = "truncated" => wal = <<>>
         /\ walPc = "sync" => wal # <<>> /\ wal[Len(wal)] = walReq
<1>1. WP!TypeOK /\ WP!ObjectOK /\ WP!Torns(wal)
  BY DEF Control, WP!IInv, WP!FilesOK, WP!FileOK
<1>2. wal \in Seq(W!Record \cup {Torn}) /\ walDisk \in Seq(W!Record \cup {Torn}) /\ walPos \in Nat
  BY <1>1 DEF WP!TypeOK, WP!Log, WP!Record, W!Record
<1>3. pc = "log" => walReq \in W!Record
  BY <1>1 DEF Control, LogControl, WP!ObjectOK, WP!Record, W!Record
<1> QED
  BY <1>1, <1>2, <1>3 DEF WP!ObjectOK, WP!Clean, W!Clean, WP!Torns

\* What a command, or the replay of its record, does to the memtable.
LEMMA RecordApplied ==
  ASSUME mem \in T!Content, memSize \in Int, NEW r \in W!Record,
         Replay(r) \/ (Apply(r) /\ (r.val = Tomb => mem[r.key] # Tomb))
  PROVE  /\ mem' = [mem EXCEPT ![r.key] = r.val] /\ mem' \in T!Content
         /\ memSize' \in Int
         /\ r.key \in Key /\ r.val \in Val \cup {Tomb}
<1>1. r.key \in Key /\ r.val \in Val \cup {Tomb}
  BY DEF W!Record
<1>2. EntryLen(r.key) \in Int /\ KeyLen[r.key] \in Int
  BY <1>1, LengthAssumption DEF EntryLen, LiveInMem
<1>3. CASE r.val # Tomb
  <2>1. PutSet(r.key, r.val) /\ ValLen[r.val] \in Int
    BY <1>1, <1>3, LengthAssumption DEF Replay, Apply
  <2> QED
    BY <1>1, <1>2, <2>1 DEF PutSet, T!Content, T!Cell
<1>4. CASE r.val = Tomb /\ Replay(r)
  BY <1>1, <1>2, <1>4 DEF Replay, ReplayDel, T!Content, T!Cell
<1>5. CASE r.val = Tomb /\ Apply(r) /\ mem[r.key] # Tomb
  <2>1. mem[r.key] # Absent => ValLen[mem[r.key]] \in Int
    BY <1>1, <1>5, LengthAssumption DEF T!Content, T!Cell
  <2> QED
    BY <1>1, <1>2, <1>5, <2>1 DEF Apply, PutDel, T!Content, T!Cell
<1> QED
  BY <1>3, <1>4, <1>5

\* Every step keeps the types.
LEMMA NextTyped == Control /\ Tables /\ [Next]_vars => Typed'
<1> SUFFICES ASSUME Control, Tables, Typed, [Next]_vars PROVE Typed'
  BY DEF Tables
<1> USE FileAssumption, BoundAssumption DEF Typed, T!TypeOK
<1>0. /\ newIdx \in 0..MaxTables /\ manNext \in Nat
      /\ pc \in {"flush", "flushWrite", "flushDir", "compact", "compactWrite", "compactDir"} =>
            manNext \in T!TableId
      /\ pc \in {"flushWrite", "flushDir", "compactWrite", "compactDir"} => newIdx \in T!TableId
  BY ManFacts, IndexFacts
<1>90. Empty \in T!Content /\ <<>> \in Seq(T!TableId)
  BY DEF Empty, T!Content, T!Cell
<1>1. CASE Start \/ EndRecovery
  BY <1>1 DEF Start, EndRecovery, DirSynced, T!DirSynced, T!Present, tabVars, memVars, locVars
<1>19. CASE ReplayRecord
  <2>1. wal[walPos + 1] \in W!Record
    BY <1>19, LogFacts DEF ReplayRecord, W!ReplayRecord
  <2>2. Replay(wal[walPos + 1]) /\ UNCHANGED <<tabVars, locVars>>
    BY <1>19 DEF ReplayRecord
  <2>3. mem' \in T!Content /\ memSize' \in Int
    BY <2>1, <2>2, RecordApplied
  <2> QED
    BY <2>2, <2>3 DEF tabVars, locVars
<1>2. ASSUME NEW k \in Key, Del(k) \/ \E v \in Val : Set(k, v)
       PROVE  Typed'
  BY <1>2 DEF Del, Set, tabVars, memVars, locVars
<1>3. CASE LogStep \/ LogFails \/ ReadThrows \/ OpenManifest
  BY <1>3 DEF LogStep, LogFails, ReadThrows, OpenManifest, tabVars, memVars, locVars
<1>4. CASE Logged
  <2>1. walReq \in W!Record
    BY <1>4, LogFacts DEF Logged
  <2>2. /\ Apply(walReq) /\ UNCHANGED <<tabVars, locVars>>
        /\ walReq.val = Tomb => mem[walReq.key] # Tomb
    BY <1>4 DEF Logged, Tables, DeletesLive
  <2>3. mem' \in T!Content /\ memSize' \in Int
    BY <2>1, <2>2, RecordApplied
  <2> QED
    BY <2>2, <2>3 DEF tabVars, locVars
<1>5. CASE WriteManifest
  BY <1>5 DEF WriteManifest, T!DirSynced, T!Present, tabVars, memVars, locVars
<1>6. CASE FlushCreate \/ CompactCreate
  BY <1>6 DEF FlushCreate, CompactCreate, T!Create, tabVars, memVars
<1>7. CASE FlushWrite
  BY <1>7 DEF FlushWrite, T!WriteSynced, T!WriteFail, memVars, locVars
<1>8. CASE FlushSyncDir
  BY <1>8 DEF FlushSyncDir, DirSynced, T!DirSynced, T!Present, tabVars, memVars, locVars
<1>9. CASE FlushAdd \/ FlushAdded \/ FlushTruncate
  BY <1>9 DEF FlushAdd, FlushAdded, FlushTruncate, tabVars, memVars, locVars
<1>20. CASE FlushEnd
  BY <1>20, <1>90 DEF FlushEnd, tabVars
<1>10. CASE Compact
  <2>1. /\ man # NoFile /\ man.list \in Seq(Nat) /\ AllStored(man.list)
        /\ merged' = [k \in Key |-> Live(NewestCell(man.list, tables, k))]
        /\ todo' = man.list /\ UNCHANGED <<tabVars, memVars, newIdx>>
    BY <1>10, ManFacts DEF Compact, Tables, Listed
  <2>2. \A k \in Key : NewestCell(man.list, tables, k) \in T!Cell
    BY <2>1, NewestIsCell DEF AllStored, Stored
  <2>3. merged' \in T!Content
    BY <2>1, <2>2 DEF T!Content, T!Cell, Live
  <2>4. \A n \in DOMAIN man.list : man.list[n] \in T!TableId
    BY <2>1 DEF AllStored, Stored
  <2>5. todo' \in Seq(T!TableId)
    BY <2>1, <2>4
  <2> QED
    BY <2>1, <2>3, <2>5 DEF tabVars, memVars
<1>11. CASE CompactToNothing \/ CompactSwap \/ CompactSwapped
  BY <1>11, <1>90 DEF CompactToNothing, CompactSwap, CompactSwapped, CompactReturns, tabVars,
         memVars, locVars
<1>12. CASE CompactWrite
  BY <1>12, <1>90 DEF CompactWrite, CompactReturns, T!WriteSynced, T!WriteFail, memVars, locVars
<1>13. CASE CompactSyncDir
  BY <1>13, <1>90 DEF CompactSyncDir, CompactReturns, DirSynced, T!DirSynced, T!Present, tabVars,
         memVars, locVars
<1>14. CASE CompactRemove
  <2>1. /\ tables' = tables \/ \E i : tables' = [tables EXCEPT ![i] = NoFile]
        /\ UNCHANGED <<tabData, tabNames, mem, memSize>>
        /\ todo' \in {todo, <<>>, Tail(todo)} /\ merged' \in {merged, Empty}
    BY <1>14 DEF CompactRemove, CompactReturns, T!Remove, tabVars, memVars, locVars
  <2>2. todo # <<>>
    BY <1>14 DEF CompactRemove, Tables, Compacting
  <2>3. Tail(todo) \in Seq(T!TableId)
    BY <2>2
  <2> QED
    BY <1>90, <2>1, <2>3
<1>15. CASE Throw \/ Crash
  <2>1. Gone /\ UNCHANGED tabVars
    BY <1>15 DEF Throw, Crash, EndProcess
  <2> QED
    BY <2>1, <1>90 DEF Gone, tabVars
<1>16. CASE PowerLoss
  BY <1>16, <1>90 DEF PowerLoss, T!PowerLoss, T!Surviving, Gone
<1>17. CASE WriteBack
  BY <1>17 DEF WriteBack, T!WriteBack, tabVars, memVars, locVars
<1>18. CASE UNCHANGED vars
  BY <1>18 DEF vars, tabVars, memVars, locVars
<1> QED
  BY <1>1, <1>2, <1>3, <1>4, <1>5, <1>6, <1>7, <1>8, <1>9, <1>10, <1>11, <1>12, <1>13, <1>14,
     <1>15, <1>16, <1>17, <1>18, <1>19, <1>20, StepCases

\* Every step keeps del() to keys that it found.
LEMMA NextDeletesLive == Control /\ Tables /\ [Next]_vars => DeletesLive'
<1> SUFFICES ASSUME Control, Tables, DeletesLive, [Next]_vars, pc' = "log" PROVE DeletesLive'
  BY DEF Tables, DeletesLive
<1>1. CASE pc = "log" /\ (LogStep \/ WriteBack \/ UNCHANGED vars)
  <2>1. UNCHANGED <<mem, walReq>>
    BY <1>1 DEF LogStep, WriteBack, vars, memVars, walVars, W!PushPart, W!PushAll, W!WriteBack,
                W!objVars
  <2> QED
    BY <1>1, <2>1 DEF DeletesLive
<1>2. ASSUME NEW k \in Key, Del(k) \/ \E v \in Val : Set(k, v)
      PROVE  DeletesLive'
  <2>1. mem' = mem /\ (walReq'.val \in Val \/ (Get(k) # Absent /\ walReq'.key = k))
    BY <1>2 DEF Del, Set, W!Write, memVars
  <2>2. Get(k) # Absent => mem[k] # Tomb
    BY CellAssumption DEF Get, Live
  <2> QED
    BY <2>1, <2>2, CellAssumption DEF DeletesLive
<1>3. CASE Logged \/ LogFails \/ ReadThrows \/ Compact
  BY <1>3 DEF Logged, LogFails, ReadThrows, Compact
<1>4. Next => pc \in {"log", "idle"}
  BY NextPc DEF Control, LogControl, Pcs
<1>5. Next => ~ (Crash \/ PowerLoss)
  BY EndsAndWriteBacks DEF Gone
<1>6. pc = "idle" /\ (WriteBack \/ UNCHANGED vars) => pc' = "idle"
  BY EndsAndWriteBacks DEF vars, WriteBack
<1> QED
  BY <1>1, <1>2, <1>3, <1>4, <1>5, <1>6, StepsAt DEF Anywhere, vars

\* Every step keeps empty tables from being written.
LEMMA NextNoEmptyTable == Control /\ Tables /\ [Next]_vars => NoEmptyTable'
<1> SUFFICES ASSUME Control, Tables, Typed, NoEmptyTable, [Next]_vars PROVE NoEmptyTable'
  BY DEF Tables
<1> USE FileAssumption DEF NoEmptyTable, Typed, T!TypeOK
<1>90. Empty \in T!Content
  BY DEF Empty, T!Content, T!Cell
<1>1. CASE UNCHANGED tabVars
  BY <1>1 DEF tabVars
<1>2. CASE DirSynced \/ T!DirSynced
  BY <1>2 DEF DirSynced, T!DirSynced
<1>3. CASE FlushCreate \/ CompactCreate
  BY <1>3, <1>90 DEF FlushCreate, CompactCreate, T!Create, tabVars
<1>4. CASE FlushWrite
  <2>1. mem # Empty
    BY <1>4 DEF FlushWrite, Tables, Flushing
  <2> QED
    BY <1>4, <1>90, <2>1 DEF FlushWrite, T!WriteSynced, T!WriteFail
<1>5. CASE CompactWrite
  <2>1. merged # Empty
    BY <1>5 DEF CompactWrite, Tables, Compacting
  <2> QED
    BY <1>5, <1>90, <2>1 DEF CompactWrite, T!WriteSynced, T!WriteFail
<1>6. CASE CompactRemove
  BY <1>6, <1>90 DEF CompactRemove, T!Remove, tabVars
<1>7. CASE PowerLoss
  BY <1>7, <1>90 DEF PowerLoss, T!PowerLoss, T!Surviving
<1>8. CASE WriteBack
  BY <1>8 DEF WriteBack, T!WriteBack, tabVars
<1>9. CASE Start \/ WriteManifest \/ FlushSyncDir \/ CompactSyncDir
  BY <1>1, <1>2, <1>9 DEF Start, WriteManifest, FlushSyncDir, CompactSyncDir, tabVars
<1>10. CASE ReplayRecord \/ EndRecovery \/ OpenManifest \/ LogStep \/ LogFails \/ Logged
            \/ ReadThrows
  BY <1>1, <1>10 DEF ReplayRecord, EndRecovery, OpenManifest, LogStep, LogFails, Logged, ReadThrows
<1>11. ASSUME NEW k \in Key, Del(k) \/ \E v \in Val : Set(k, v)
       PROVE  NoEmptyTable'
  BY <1>1, <1>11 DEF Del, Set
<1>12. CASE FlushAdd \/ FlushAdded \/ FlushTruncate \/ FlushEnd
            \/ Compact \/ CompactToNothing \/ CompactSwap \/ CompactSwapped
  BY <1>1, <1>12 DEF FlushAdd, FlushAdded, FlushTruncate, FlushEnd, Compact, CompactToNothing,
               CompactSwap, CompactSwapped
<1>13. CASE Throw \/ Crash \/ UNCHANGED vars
  BY <1>1, <1>13 DEF Throw, Crash, EndProcess, vars
<1> QED
  BY <1>3, <1>4, <1>5, <1>6, <1>7, <1>8, <1>9, <1>10, <1>11, <1>12, <1>13, StepCases

InFlush == {"flush", "flushWrite", "flushDir", "flushAdd", "flushTruncate"}

\* Every step keeps what flush() relies on: its table is stored before it is listed,
\* and is the newest listed one before the log is emptied.
LEMMA NextFlushing == Control /\ Tables /\ [Next]_vars => Flushing'
<1> SUFFICES ASSUME Control, Tables, Typed, Flushing, [Next]_vars PROVE Flushing'
  BY DEF Tables
<1>91. ASSUME NEW i, Stored(i), pc \in {"flushDir", "flushAdd", "flushTruncate"}
      PROVE  Stored(i)' /\ tables'[i] = tables[i]
  BY <1>91, ListedUntouched, StoredKept DEF Tables
<1>92. pc \in {"flush", "flushWrite", "flushDir"} => manPc = "ready"
  BY DEF Control, ManControl, Starting, Calling
<1>1. CASE UNCHANGED vars
  BY <1>1 DEF vars, manVars, tabVars, memVars, locVars, Flushing, Stored, Unchanged, Renamed
<1>2. CASE WriteBack
  <2>1. /\ UNCHANGED <<man, manPc, manArg, tables, mem, newIdx, pc>>
        /\ manDisk' \in {manDisk, man}
    BY <1>2, EndsAndWriteBacks DEF Next, Environment
  <2>2. pc = "flushDir" =>
           tabData' = tabData \/ \E i : i # newIdx /\ tabData' = [tabData EXCEPT ![i] = tables[i]]
    BY <1>2 DEF WriteBack, T!WriteBack, tabVars, Flushing
  <2>3. pc = "flushDir" => tabData'[newIdx] = mem
    <3>1. pc = "flushDir" => newIdx \in T!TableId /\ tabData[newIdx] = mem
      BY IndexFacts DEF Flushing
    <3> QED
      BY <2>2, <3>1 DEF Typed, T!TypeOK
  <2>4. pc \in {"flushAdd", "flushTruncate"} => Stored(newIdx)'
    BY <2>1, <1>91 DEF Flushing, Stored
  <2> QED
    BY <2>1, <2>3, <2>4 DEF Flushing, Unchanged, Renamed
<1>3. CASE Logged
  <2>1. walReq \in W!Record /\ Apply(walReq) /\ (walReq.val = Tomb => mem[walReq.key] # Tomb)
    BY <1>3, LogFacts DEF Logged, Tables, DeletesLive
  <2>2. /\ mem' = [mem EXCEPT ![walReq.key] = walReq.val]
        /\ walReq.key \in Key /\ walReq.val \in Val \cup {Tomb}
    BY <2>1, RecordApplied DEF Typed
  <2>3. mem'[walReq.key] # Empty[walReq.key]
    BY <2>2, CellAssumption DEF Typed, T!Content, Empty
  <2>4. mem' # Empty /\ pc' \in {"flush", "idle"}
    BY <1>3, <2>3 DEF Logged
  <2> QED
    BY <2>4 DEF Flushing
<1>4. CASE FlushCreate
  BY <1>4, <1>92 DEF FlushCreate, Flushing, memVars, manVars
<1>5. CASE FlushWrite
  <2>1. newIdx \in T!TableId
    BY <1>5, IndexFacts DEF FlushWrite
  <2> QED
    BY <1>5, <2>1 DEF FlushWrite, Flushing, T!WriteSynced, Typed, T!TypeOK, memVars, locVars
<1>6. CASE FlushSyncDir
  <2>1. /\ pc = "flushDir" /\ mem # Empty /\ tables[newIdx] = mem /\ tabData[newIdx] = mem
        /\ newIdx \in T!TableId /\ manPc = "ready"
    BY <1>6, <1>92, IndexFacts DEF FlushSyncDir, Flushing
  <2>2. UNCHANGED <<mem, newIdx, man, manPc>>
    BY <1>6 DEF FlushSyncDir, memVars, locVars
  <2>3. CASE DirSynced /\ pc' = "flushAdd"
    <3>1. /\ UNCHANGED <<tables, tabData>> /\ tabNames' = T!Present(tables) /\ manDisk' = man
      BY <2>3 DEF DirSynced, T!DirSynced
    <3>2. tables[newIdx] # NoFile /\ tables[newIdx] \in T!Content
      BY <2>1, FileAssumption DEF Typed
    <3>3. Stored(newIdx)'
      BY <2>1, <2>2, <3>1, <3>2 DEF Stored, T!Present
    <3> QED
      BY <2>1, <2>2, <2>3, <3>1, <3>3 DEF Flushing, Renamed
  <2>4. CASE pc' = "throw"
    BY <2>4 DEF Flushing
  <2> QED
    BY <1>6, <2>3, <2>4 DEF FlushSyncDir
<1>7. CASE FlushAdd
  <2>1. pc = "flushAdd" /\ UNCHANGED <<mem, newIdx>>
    BY <1>7 DEF FlushAdd, memVars, locVars
  <2>2. CASE M!AddNewIndex(newIdx) /\ pc' = pc
    <3>1. /\ manPc = "ready" /\ manPc' = "write" /\ UNCHANGED <<man, manDisk>>
          /\ manArg'.list = Append(man.list, newIdx)
      BY <2>2 DEF M!AddNewIndex, M!CanCall, M!StartWrite, M!diskVars
    <3>2. Stored(newIdx) /\ tables[newIdx] = mem /\ mem # Empty /\ manDisk = man
      BY <2>1, <3>1 DEF Flushing, Unchanged
    <3>3. Stored(newIdx)' /\ tables'[newIdx'] = mem'
      BY <2>1, <3>2, <1>91 DEF Stored
    <3> QED
      BY <2>1, <2>2, <3>1, <3>2, <3>3 DEF Flushing, Renamed
  <2>3. CASE pc' = "throw"
    BY <2>3 DEF Flushing
  <2> QED
    BY <1>7, <2>2, <2>3 DEF FlushAdd
<1>8. CASE WriteManifest /\ pc = "flushAdd"
  <2>1. UNCHANGED <<mem, newIdx, pc>> /\ pc = "flushAdd"
    BY <1>8 DEF WriteManifest, memVars, locVars
  <2>2. Stored(newIdx) /\ tables[newIdx] = mem /\ mem # Empty
    BY <2>1 DEF Flushing
  <2>3. Stored(newIdx)' /\ tables'[newIdx'] = mem' /\ mem' # Empty
    BY <2>1, <2>2, <1>91 DEF Stored
  <2>4. CASE M!Rename
    <3>1. /\ manPc = "rename" /\ manPc' = "dirsync" /\ man' = manArg
          /\ manArg.list = Append(man.list, newIdx) /\ manArg.list \in Seq(Nat)
          /\ man # NoFile
      BY <2>1, <2>4, ManFacts DEF M!Rename, Flushing, Tables, Listed, Starting
    <3>2. man.list \in Seq(Nat)
      BY <3>1, ManFacts
    <3>3. man'.list # <<>> /\ man'.list[Len(man'.list)] = newIdx
      BY <3>1, <3>2
    <3> QED
      BY <2>1, <2>3, <3>1, <3>3 DEF Flushing, Unchanged
  <2>5. CASE M!SyncDir
    BY <2>1, <2>3, <2>5 DEF Flushing, M!SyncDir, Unchanged, Renamed
  <2>6. CASE M!WriteTemp \/ M!WriteTempFail \/ M!RenameFail \/ M!SyncDirFail
    BY <2>1, <2>3, <2>6 DEF Flushing, M!WriteTemp, M!WriteTempFail, M!RenameFail, M!SyncDirFail,
       Unchanged, Renamed, M!diskVars
  <2> QED
    BY <1>8, <2>4, <2>5, <2>6 DEF WriteManifest
<1>9. CASE FlushAdded
  <2>1. pc = "flushAdd" /\ UNCHANGED <<mem, newIdx, man, manDisk>>
    BY <1>9 DEF FlushAdded, memVars, locVars, M!Returned, M!diskVars
  <2>2. Stored(newIdx)' /\ tables'[newIdx'] = mem' /\ mem' # Empty
    BY <2>1, <1>91 DEF Stored, Flushing
  <2>3. pc' = "throw" \/ (pc' = "flushTruncate" /\ manPc = "ok")
    BY <1>9 DEF FlushAdded, M!Returned
  <2> QED
    BY <2>1, <2>2, <2>3 DEF Flushing, Renamed
<1>10. CASE FlushTruncate
  <2>1. pc = "flushTruncate" /\ UNCHANGED <<mem, newIdx, man, manDisk>>
    BY <1>10 DEF FlushTruncate, memVars, locVars, manVars
  <2>2. Stored(newIdx)' /\ tables'[newIdx'] = mem' /\ mem' # Empty
    BY <2>1, <1>91 DEF Stored, Flushing
  <2>3. pc' \in {"throw", "flushTruncate"}
    BY <1>10 DEF FlushTruncate
  <2> QED
    BY <2>1, <2>2, <2>3 DEF Flushing
<1>11. CASE pc' \notin InFlush
  BY <1>11 DEF Flushing, InFlush
<1>12. ASSUME Next, pc' \in InFlush
       PROVE  \/ Logged \/ FlushCreate \/ FlushWrite \/ FlushSyncDir \/ FlushAdd \/ FlushAdded
              \/ (WriteManifest /\ pc = "flushAdd") \/ FlushTruncate \/ WriteBack
  <2>1. pc \in InFlush \cup {"log"}
    BY <1>12, NextPc DEF InFlush, Control, LogControl, Pcs
  <2>2. ~ (Crash \/ PowerLoss)
    BY <1>12, EndsAndWriteBacks DEF Gone, InFlush
  <2>3. ~ (LogStep \/ LogFails \/ FlushEnd)
    BY <1>12 DEF LogStep, LogFails, FlushEnd, InFlush
  <2> QED
    BY <1>12, <2>1, <2>2, <2>3, StepsAt DEF InFlush, Anywhere
<1> QED
  BY <1>1, <1>2, <1>3, <1>4, <1>5, <1>6, <1>7, <1>8, <1>9, <1>10, <1>11, <1>12

\* Through every step, the manifests' tables hold the same cells.
LEMMA CellsKept ==
  ASSUME Control, Tables, [Next]_vars, NEW k
  PROVE  /\ man # NoFile => NewestCell(man.list, tables', k) = NewestCell(man.list, tables, k)
         /\ manDisk # NoFile =>
               NewestCell(manDisk.list, tables', k) = NewestCell(manDisk.list, tables, k)
<1>1. man # NoFile =>
         /\ man.list \in Seq(Nat)
         /\ \A n \in DOMAIN man.list : tables'[man.list[n]] = tables[man.list[n]]
  BY ManFacts, ListsKept DEF Elements
<1>2. manDisk # NoFile =>
         /\ manDisk.list \in Seq(Nat)
         /\ \A n \in DOMAIN manDisk.list : tables'[manDisk.list[n]] = tables[manDisk.list[n]]
  BY ManFacts, ListsKept DEF Elements
<1>3. man # NoFile => NewestCell(man.list, tables', k) = NewestCell(man.list, tables, k)
  BY <1>1, NewestOfSame
<1>4. manDisk # NoFile =>
         NewestCell(manDisk.list, tables', k) = NewestCell(manDisk.list, tables, k)
  BY <1>2, NewestOfSame
<1> QED
  BY <1>3, <1>4

InCompact == {"compact", "compactWrite", "compactDir", "compactSwap", "compactRemove"}

\* Every step keeps what compact() relies on: its table is the merge of the listed
\* ones, and is stored before it replaces them.
LEMMA NextCompacting == Control /\ Tables /\ [Next]_vars => Compacting'
<1> SUFFICES ASSUME Control, Tables, Typed, Compacting, [Next]_vars PROVE Compacting'
  BY DEF Tables
<1> DEFINE live(tabs) == [k \in Key |-> Live(NewestCell(man.list, tabs, k))]
<1>91. ASSUME NEW i, Stored(i), pc \in {"compactDir", "compactSwap"}
      PROVE  Stored(i)' /\ tables'[i] = tables[i]
  BY <1>91, ListedUntouched, StoredKept DEF Tables
<1>92. /\ pc \in {"idle", "compact", "compactWrite", "compactDir", "compactRemove"} =>
              manPc = "ready"
       /\ pc \in InCompact => man # NoFile /\ manDisk # NoFile
  BY DEF Control, ManControl, Starting, Calling, Tables, Listed, InCompact
<1>93. pc \in InCompact => live(tables') = live(tables)
  BY <1>92, CellsKept
<1>1. CASE UNCHANGED vars
  BY <1>1 DEF vars, manVars, tabVars, memVars, locVars, Compacting, Compacted, Stored,
         Unchanged, Renamed
<1>2. CASE WriteBack
  <2>1. /\ UNCHANGED <<man, manPc, manArg, tables, newIdx, merged, todo, pc>>
        /\ manDisk' \in {manDisk, man}
    BY <1>2, EndsAndWriteBacks DEF Next, Environment
  <2>2. pc = "compactDir" =>
           tabData' = tabData \/ \E i : i # newIdx /\ tabData' = [tabData EXCEPT ![i] = tables[i]]
    BY <1>2 DEF WriteBack, T!WriteBack, tabVars, Compacting
  <2>3. pc = "compactDir" => tabData'[newIdx] = merged
    <3>1. pc = "compactDir" => newIdx \in T!TableId /\ tabData[newIdx] = merged
      BY IndexFacts DEF Compacting
    <3> QED
      BY <2>2, <3>1 DEF Typed, T!TypeOK
  <2>4. pc = "compactSwap" /\ merged # Empty => Stored(newIdx)'
    BY <2>1, <1>91 DEF Compacting, Stored
  <2> QED
    BY <2>1, <2>3, <2>4 DEF Compacting, Compacted, Unchanged, Renamed
<1>3. CASE Compact
  <2>1. /\ pc' = "compact" /\ man' = man /\ tables' = tables /\ todo' = man.list
        /\ merged' = live(tables) /\ Len(man.list) >= 2
    BY <1>3 DEF Compact, manVars, tabVars
  <2>2. todo' # <<>>
    BY <2>1
  <2> QED
    BY <2>1, <2>2 DEF Compacting
<1>4. CASE CompactToNothing
  <2>1. /\ pc = "compact" /\ pc' = "compactSwap" /\ merged = Empty /\ manPc' = "write"
        /\ UNCHANGED <<man, tables, newIdx, merged, todo>>
    BY <1>4 DEF CompactToNothing, M!RemoveIndices, M!StartWrite, M!diskVars, tabVars, locVars
  <2>2. manArg'.list = <<>>
    BY <1>4, <1>92, <2>1, ManEffect DEF Next, Step
  <2> QED
    BY <2>1, <2>2 DEF Compacting, Compacted, Unchanged, Renamed
<1>5. CASE CompactCreate
  <2>1. /\ pc = "compact" /\ merged # Empty /\ pc' \in {"compactWrite", "throw"}
        /\ UNCHANGED <<man, merged, todo>>
    BY <1>5 DEF CompactCreate, manVars
  <2> QED
    BY <1>93, <2>1 DEF Compacting, InCompact
<1>6. CASE CompactWrite
  <2>1. newIdx \in T!TableId /\ pc = "compactWrite" /\ man' = man
    BY <1>6, IndexFacts DEF CompactWrite, manVars
  <2>2. CASE T!WriteSynced(newIdx, merged) /\ pc' = "compactDir" /\ UNCHANGED locVars
    <3>1. tables'[newIdx] = merged /\ tabData'[newIdx] = merged
      BY <2>1, <2>2 DEF T!WriteSynced, Typed, T!TypeOK
    <3> QED
      BY <1>93, <2>1, <2>2, <3>1 DEF Compacting, InCompact, locVars
  <2>3. CASE CompactReturns
    BY <2>3 DEF CompactReturns, Compacting
  <2> QED
    BY <1>6, <2>2, <2>3 DEF CompactWrite
<1>7. CASE CompactSyncDir
  <2>1. /\ pc = "compactDir" /\ merged # Empty
        /\ tables[newIdx] = merged /\ tabData[newIdx] = merged
        /\ newIdx \in T!TableId /\ manPc = "ready" /\ newIdx = manNext
        /\ todo = man.list /\ todo # <<>> /\ merged = live(tables)
    BY <1>7, <1>92, IndexFacts DEF CompactSyncDir, Compacting
  <2>2. UNCHANGED <<man, manPc>>
    BY <1>7 DEF CompactSyncDir
  <2>3. CASE DirSynced /\ pc' = "compactSwap" /\ UNCHANGED locVars
    <3>1. /\ UNCHANGED <<tables, tabData, newIdx, merged, todo>> /\ tabNames' = T!Present(tables)
      BY <2>3 DEF DirSynced, T!DirSynced, locVars
    <3>2. tables[newIdx] # NoFile /\ tables[newIdx] \in T!Content
      BY <2>1, FileAssumption DEF Typed
    <3>3. Stored(newIdx)'
      BY <2>1, <3>1, <3>2 DEF Stored, T!Present
    <3>4. \A n \in DOMAIN todo : todo[n] # newIdx
      <4>1. man # NoFile /\ manNext = man.next
        BY <1>92, <2>1, ManFacts DEF InCompact
      <4>2. ASSUME NEW n \in DOMAIN man.list PROVE man.list[n] # man.next
        <5>1. man.list[n] < man.next /\ man.next \in Nat
          BY <4>1, ManFacts
        <5> QED
          BY <5>1
      <4> QED
        BY <2>1, <4>1, <4>2
    <3> QED
      BY <2>1, <2>2, <2>3, <3>1, <3>3, <3>4 DEF Compacting, Renamed
  <2>4. CASE CompactReturns
    BY <2>4 DEF CompactReturns, Compacting
  <2> QED
    BY <1>7, <2>3, <2>4 DEF CompactSyncDir
<1>8. CASE CompactSwap
  <2>1. /\ pc = "compactSwap" /\ merged # Empty /\ manPc = "ready" /\ manPc' = "write"
        /\ UNCHANGED <<man, tables, newIdx, merged, todo, pc>>
    BY <1>8 DEF CompactSwap, M!ReplaceIndices, M!CanCall, M!StartWrite, M!diskVars, tabVars, locVars
  <2>2. manArg'.list = <<newIdx>>
    BY <1>8, <2>1, ManEffect DEF Next, Step
  <2>3. Stored(newIdx)'
    BY <2>1, <1>91 DEF Compacting, Stored
  <2> QED
    BY <2>1, <2>2, <2>3 DEF Compacting, Compacted, Unchanged, Renamed
<1>9. CASE WriteManifest /\ pc = "compactSwap"
  <2>1. UNCHANGED <<newIdx, merged, todo, pc>> /\ pc = "compactSwap"
    BY <1>9 DEF WriteManifest, locVars
  <2>2. /\ merged' # Empty => Stored(newIdx)' /\ tables'[newIdx'] = merged'
        /\ merged' # Empty => \A n \in DOMAIN todo' : todo'[n] # newIdx'
        /\ todo' # <<>>
    BY <2>1, <1>91 DEF Stored, Compacting
  <2>3. Compacted' = Compacted
    BY <2>1 DEF Compacted
  <2>4. CASE M!Rename
    BY <2>1, <2>2, <2>3, <2>4 DEF M!Rename, Compacting, Unchanged, Renamed
  <2>5. CASE M!SyncDir
    BY <2>1, <2>2, <2>3, <2>5 DEF M!SyncDir, Compacting, Unchanged, Renamed
  <2>6. CASE M!WriteTemp \/ M!WriteTempFail \/ M!RenameFail \/ M!SyncDirFail
    <3>1. man' = man /\ live(tables') = live(tables)
      BY <1>93, <2>1, <2>6 DEF M!WriteTemp, M!WriteTempFail, M!RenameFail, M!SyncDirFail,
         M!diskVars, InCompact
    <3> QED
      BY <2>1, <2>2, <2>3, <2>6, <3>1 DEF M!WriteTemp, M!WriteTempFail, M!RenameFail, M!SyncDirFail,
         Compacting, Unchanged, Renamed, M!diskVars
  <2> QED
    BY <1>9, <2>4, <2>5, <2>6 DEF WriteManifest
<1>10. CASE CompactSwapped
  <2>1. pc = "compactSwap" /\ UNCHANGED <<man, manDisk>>
    BY <1>10 DEF CompactSwapped, M!Returned, M!diskVars
  <2>2. CASE M!Returned(TRUE) /\ pc' = "compactRemove" /\ UNCHANGED locVars
    <3>1. manPc = "ok"
      BY <2>2 DEF M!Returned
    <3>2. manDisk = man /\ man.list = Compacted /\ todo # <<>>
      BY <2>1, <3>1 DEF Compacting, Renamed
    <3>3. \A n \in DOMAIN todo : \A a \in DOMAIN man.list : todo[n] # man.list[a]
      <4>1. CASE merged = Empty
        BY <3>2, <4>1 DEF Compacted
      <4>2. CASE merged # Empty
        BY <2>1, <3>2, <4>2 DEF Compacted, Compacting
      <4> QED
        BY <4>1, <4>2
    <3> QED
      BY <2>1, <2>2, <3>2, <3>3 DEF Compacting, locVars
  <2>3. CASE CompactReturns
    BY <2>3 DEF CompactReturns, Compacting
  <2> QED
    BY <1>10, <2>2, <2>3 DEF CompactSwapped
<1>11. CASE CompactRemove
  <2>1. /\ pc = "compactRemove" /\ UNCHANGED <<man, manDisk>> /\ todo # <<>> /\ manDisk = man
        /\ \A n \in DOMAIN todo : \A a \in DOMAIN man.list : todo[n] # man.list[a]
    BY <1>11 DEF CompactRemove, manVars, Compacting
  <2>2. CASE todo' = Tail(todo) /\ Len(todo) # 1 /\ pc' = pc
    <3>1. /\ todo' # <<>>
          /\ \A n \in DOMAIN todo' : n + 1 \in DOMAIN todo /\ todo'[n] = todo[n + 1]
      <4>1. todo \in Seq(T!TableId) /\ todo # <<>> /\ Len(todo) # 1
        BY <2>1, <2>2 DEF Typed
      <4>2. /\ Len(Tail(todo)) = Len(todo) - 1 /\ Tail(todo) # <<>>
            /\ \A n \in 1..Len(Tail(todo)) : n + 1 \in 1..Len(todo) /\ Tail(todo)[n] = todo[n + 1]
        BY <4>1
      <4>3. DOMAIN Tail(todo) = 1..Len(Tail(todo)) /\ DOMAIN todo = 1..Len(todo)
        BY <4>1
      <4> QED
        BY <2>2, <4>2, <4>3
    <3> QED
      BY <2>1, <2>2, <3>1 DEF Compacting
  <2>3. CASE CompactReturns \/ pc' = "throw"
    BY <2>3 DEF CompactReturns, Compacting
  <2> QED
    BY <1>11, <2>2, <2>3 DEF CompactRemove
<1>12. CASE pc' \notin InCompact
  BY <1>12 DEF Compacting, InCompact
<1>13. ASSUME Next, pc' \in InCompact
       PROVE  \/ Compact \/ CompactToNothing \/ CompactCreate \/ CompactWrite \/ CompactSyncDir
              \/ CompactSwap \/ (WriteManifest /\ pc = "compactSwap") \/ CompactSwapped
              \/ CompactRemove \/ WriteBack
  <2>1. pc \in InCompact \cup {"idle"}
    BY <1>13, NextPc DEF InCompact, Control, LogControl, Pcs
  <2>2. ~ (Crash \/ PowerLoss)
    BY <1>13, EndsAndWriteBacks DEF Gone, InCompact
  <2>3. /\ ~ ReadThrows
        /\ ~ \E k \in Key : Del(k) \/ \E v \in Val : Set(k, v)
    BY <1>13 DEF ReadThrows, Del, Set, InCompact
  <2> QED
    BY <1>13, <2>1, <2>2, <2>3, StepsAt DEF InCompact, Anywhere
<1> QED
  BY <1>1, <1>2, <1>3, <1>4, <1>5, <1>6, <1>7, <1>8, <1>9, <1>10, <1>11, <1>12, <1>13

\* A new database satisfies it.
LEMMA InitTables == Init => Tables
<1> SUFFICES ASSUME Init PROVE Tables
  OBVIOUS
<1>1. Empty \in T!Content /\ Empty # NoFile /\ Empty # Torn
  BY FileAssumption DEF Empty, T!Content, T!Cell
<1>2. Typed
  BY <1>1 DEF Init, T!Init, Typed, T!TypeOK
<1>3. Listed
  BY DEF Init, M!Init, Listed, Starting
<1>4. DeletesLive /\ Flushing /\ Compacting
  BY DEF Init, DeletesLive, Flushing, Compacting
<1>5. NoEmptyTable
  BY <1>1 DEF Init, T!Init, NoEmptyTable
<1> QED
  BY <1>2, <1>3, <1>4, <1>5 DEF Tables

\* So every step keeps the part of the invariant about the SSTables.
LEMMA NextTables == Control /\ Tables /\ [Next]_vars => Tables'
  BY NextTyped, NextDeletesLive, NextListed, NextFlushing, NextCompacting, NextNoEmptyTable
     DEF Tables

-----------------------------------------------------------------------------
(* What Replayed returns.                                                  *)

\* The records before the first torn one.
Valid(log) == {i \in DOMAIN log : \A j \in 1..i : log[j] # Torn}

\* An empty log has no value.
LEMMA ReplayedOfNone == ASSUME NEW k PROVE Replayed(<<>>, k) = Absent
  BY DEF Replayed

\* It is the value of the last valid record of the key.
LEMMA ReplayedIsHeld ==
  ASSUME NEW S, NEW log \in Seq(S), NEW k
  PROVE  \/ Replayed(log, k) = Absent /\ \A i \in Valid(log) : log[i].key # k
         \/ \E i \in Valid(log) :
               /\ log[i].key = k /\ Replayed(log, k) = log[i].val
               /\ \A j \in Valid(log) : j > i => log[j].key # k
<1> DEFINE hits == {i \in Valid(log) : i \in Valid(log) /\ log[i].key = k}
<1>0. Replayed(log, k) = IF hits = {} THEN Absent ELSE log[Max(hits)].val
  BY DEF Replayed, Valid
<1>1. CASE hits = {}
  BY <1>0, <1>1
<1>2. CASE hits # {}
  <2>1. hits \in SUBSET (0..Len(log)) /\ Len(log) \in Nat /\ hits \in SUBSET Int
    BY DEF Valid
  <2>2. PICK top \in hits : top = Max(hits) /\ \A n \in hits : n <= top
    BY <1>2, <2>1, MaxIsGreatest
  <2>3. ASSUME NEW j \in Valid(log), j > top PROVE j \notin hits
    <3>1. j \in Int /\ top \in Int
      BY <2>1 DEF Valid
    <3> HIDE DEF hits
    <3> QED
      BY <2>2, <2>3, <3>1
  <2>4. Replayed(log, k) = log[top].val
    BY <1>0, <1>2, <2>2
  <2> QED
    BY <2>3, <2>4
<1> QED
  BY <1>1, <1>2

\* Two logs with the same valid records replay to the same values.
LEMMA ReplayedOfSame ==
  ASSUME NEW S, NEW log \in Seq(S), NEW R, NEW other \in Seq(R), NEW k,
         Valid(other) = Valid(log), \A i \in Valid(log) : other[i] = log[i]
  PROVE  Replayed(other, k) = Replayed(log, k)
<1> DEFINE hits(l) == {i \in Valid(l) : i \in Valid(l) /\ l[i].key = k}
<1>0. /\ Replayed(log, k) = IF hits(log) = {} THEN Absent ELSE log[Max(hits(log))].val
      /\ Replayed(other, k) = IF hits(other) = {} THEN Absent ELSE other[Max(hits(other))].val
  BY DEF Replayed, Valid
<1>1. hits(other) = hits(log)
  OBVIOUS
<1>2. CASE hits(log) # {}
  <2>1. hits(log) \in SUBSET (0..Len(log)) /\ Len(log) \in Nat
    BY DEF Valid
  <2>2. Max(hits(log)) \in hits(log)
    BY <1>2, <2>1, MaxIsGreatest
  <2>3. PICK m \in Valid(log) : m = Max(hits(log))
    BY <2>2
  <2>4. Replayed(log, k) = log[m].val /\ Replayed(other, k) = other[m].val
    BY <1>0, <1>1, <1>2, <2>3
  <2> QED
    BY <2>3, <2>4
<1> QED
  BY <1>0, <1>1, <1>2

\* A record appended to a log without a torn one decides its key.
LEMMA ReplayedOfAppend ==
  ASSUME NEW S, NEW log \in Seq(S), NEW r \in S, r # Torn, NEW k,
         \A i \in 1..Len(log) : log[i] # Torn
  PROVE  Replayed(Append(log, r), k) = IF r.key = k THEN r.val ELSE Replayed(log, k)
<1> DEFINE more == Append(log, r)
<1>1. /\ more \in Seq(S) /\ Len(more) = Len(log) + 1 /\ more[Len(more)] = r
      /\ \A n \in 1..Len(log) : more[n] = log[n]
      /\ DOMAIN log = 1..Len(log) /\ DOMAIN more = 1..Len(more) /\ Len(log) \in Nat
  OBVIOUS
<1> HIDE DEF more
<1>2. Valid(log) = 1..Len(log)
  BY <1>1 DEF Valid
<1>3. Valid(more) = 1..Len(more)
  BY <1>1 DEF Valid
<1>4. CASE r.key = k
  <2>1. Len(more) \in Valid(more)
    BY <1>1, <1>3
  <2>2. PICK i \in Valid(more) :
               /\ more[i].key = k /\ Replayed(more, k) = more[i].val
               /\ \A j \in Valid(more) : j > i => more[j].key # k
    BY <1>1, <1>4, <2>1, ReplayedIsHeld
  <2>3. i = Len(more)
    BY <1>1, <1>3, <1>4, <2>1, <2>2
  <2> QED
    BY <1>1, <1>4, <2>2, <2>3 DEF more
<1>5. CASE r.key # k
  <2> DEFINE hits(l) == {i \in Valid(l) : i \in Valid(l) /\ l[i].key = k}
  <2>1. /\ Replayed(log, k) = IF hits(log) = {} THEN Absent ELSE log[Max(hits(log))].val
        /\ Replayed(more, k) = IF hits(more) = {} THEN Absent ELSE more[Max(hits(more))].val
    BY DEF Replayed, Valid
  <2>2. hits(more) = hits(log)
    BY <1>1, <1>2, <1>3, <1>5
  <2>3. CASE hits(log) # {}
    <3>1. hits(log) \in SUBSET (0..Len(log))
      BY <1>1, <1>2
    <3>2. Max(hits(log)) \in hits(log)
      BY <1>1, <2>3, <3>1, MaxIsGreatest
    <3>3. PICK m \in 1..Len(log) : m = Max(hits(log))
      BY <1>2, <3>2
    <3>4. Replayed(log, k) = log[m].val /\ Replayed(more, k) = more[m].val
      BY <2>1, <2>2, <2>3, <3>3
    <3> QED
      BY <1>1, <1>5, <3>3, <3>4 DEF more
  <2> QED
    BY <1>5, <2>1, <2>2, <2>3 DEF more
<1> QED
  BY <1>4, <1>5

\* What a torn record at the end, or anything behind one, cannot change.
LEMMA ReplayedOfCut ==
  ASSUME NEW S, NEW log \in Seq(S), NEW n \in 0..Len(log), NEW k,
         n < Len(log) => log[n + 1] = Torn
  PROVE  Replayed(SubSeq(log, 1, n), k) = Replayed(log, k)
<1> DEFINE cut == SubSeq(log, 1, n)
<1>1. /\ cut \in Seq(S) /\ Len(cut) = n /\ \A i \in 1..n : cut[i] = log[i]
      /\ DOMAIN log = 1..Len(log) /\ DOMAIN cut = 1..n /\ Len(log) \in Nat /\ n \in Nat
  OBVIOUS
<1> HIDE DEF cut
<1>2. ASSUME NEW i \in Valid(log) PROVE i \in 1..n
  <2> SUFFICES ASSUME i > n PROVE FALSE
    BY <1>1 DEF Valid
  <2>1. n + 1 \in 1..i /\ n < Len(log)
    BY <1>1 DEF Valid
  <2> QED
    BY <2>1 DEF Valid
<1>3. Valid(cut) = Valid(log)
  BY <1>1, <1>2 DEF Valid
<1>4. \A i \in Valid(log) : cut[i] = log[i]
  BY <1>1, <1>2
<1>5. Replayed(cut, k) = Replayed(log, k)
  BY <1>1, <1>3, <1>4, ReplayedOfSame
<1> QED
  BY <1>5 DEF cut

\* Where a step leaves the log and the memtable as they are.
LEMMA SameLogAndMem ==
  ASSUME OpenManifest \/ WriteManifest \/ ReadThrows
         \/ FlushCreate \/ FlushWrite \/ FlushSyncDir \/ FlushAdd \/ FlushAdded
         \/ Compact \/ CompactToNothing \/ CompactCreate \/ CompactWrite
         \/ CompactSyncDir \/ CompactSwap \/ CompactSwapped \/ CompactRemove
  PROVE  UNCHANGED walVars /\ UNCHANGED memVars
<1>1. CASE OpenManifest \/ WriteManifest \/ ReadThrows
  BY <1>1 DEF OpenManifest, WriteManifest, ReadThrows
<1>2. CASE FlushCreate \/ FlushWrite \/ FlushSyncDir \/ FlushAdd \/ FlushAdded
  BY <1>2 DEF FlushCreate, FlushWrite, FlushSyncDir, FlushAdd, FlushAdded
<1>3. CASE Compact \/ CompactToNothing \/ CompactCreate \/ CompactWrite
  BY <1>3 DEF Compact, CompactToNothing, CompactCreate, CompactWrite
<1>4. CASE CompactSyncDir \/ CompactSwap \/ CompactSwapped \/ CompactRemove
  BY <1>4 DEF CompactSyncDir, CompactSwap, CompactSwapped, CompactRemove
<1> QED
  BY <1>1, <1>2, <1>3, <1>4

\* A new database satisfies it.
LEMMA InitMem == Init => MemOK
<1> SUFFICES ASSUME Init PROVE MemOK
  OBVIOUS
<1>1. pc = "down" /\ mem = Empty
  BY DEF Init
<1> QED
  BY <1>1 DEF MemOK

\* What the log replays to once a record was added to it.
LEMMA ReplayedOfPush ==
  ASSUME Control, LogStep, NEW k
  PROVE  /\ walPc' = "partial" => Replayed(wal', k) = Replayed(wal, k)
         /\ walPc' = "sync" =>
               Replayed(wal', k) = IF walReq.key = k THEN walReq.val ELSE Replayed(wal, k)
<1> DEFINE R == W!Record \cup {Torn}
<1>0. /\ wal \in Seq(R) /\ walReq \in R /\ Torn \in R /\ pc = "log"
      /\ walReq # Torn
  BY LogFacts, MarkerAssumption DEF LogStep
<1>1. CASE W!PushPart
  <2>1. wal' = Append(wal, Torn) /\ walPc' = "partial"
    BY <1>1 DEF W!PushPart
  <2>2. /\ wal' \in Seq(R) /\ Len(wal) \in 0..Len(wal') /\ wal'[Len(wal) + 1] = Torn
        /\ SubSeq(wal', 1, Len(wal)) = wal
    BY <1>0, <2>1
  <2>3. Replayed(SubSeq(wal', 1, Len(wal)), k) = Replayed(wal', k)
    BY <2>2, ReplayedOfCut
  <2> QED
    BY <2>1, <2>2, <2>3
<1>2. CASE W!PushAll /\ walPc = "append"
  <2>1. wal' = Append(wal, walReq) /\ walPc' = "sync"
    BY <1>2 DEF W!PushAll
  <2>2. \A i \in 1..Len(wal) : wal[i] # Torn
    BY <1>0, <1>2, LogFacts DEF Control, LogControl, W!Clean
  <2> QED
    BY <1>0, <2>1, <2>2, ReplayedOfAppend
<1>3. CASE W!PushAll /\ walPc = "partial"
  <2> DEFINE before == SubSeq(wal, 1, Len(wal) - 1)
  <2>1. wal' = Append(before, walReq) /\ walPc' = "sync"
    BY <1>3 DEF W!PushAll, W!Front
  <2>2. /\ wal # <<>> /\ wal[Len(wal)] = Torn
        /\ \A i \in 1..Len(wal) : wal[i] = Torn => i = Len(wal)
    BY <1>3, LogFacts
  <2>3. /\ before \in Seq(R) /\ \A i \in 1..Len(before) : before[i] = wal[i]
        /\ Len(before) \in 0..Len(wal) /\ Len(wal) = Len(before) + 1
        /\ SubSeq(wal, 1, Len(before)) = before
    <3>1. PICK n \in Nat : Len(wal) = n + 1
      <4>1. Len(wal) \in Nat /\ Len(wal) # 0
        BY <1>0, <2>2
      <4>2. Len(wal) - 1 \in Nat /\ Len(wal) = (Len(wal) - 1) + 1
        BY <4>1
      <4> QED
        BY <4>2
    <3>2. before = SubSeq(wal, 1, n) /\ n \in 0..Len(wal)
      BY <3>1
    <3>3. /\ SubSeq(wal, 1, n) \in Seq(R) /\ Len(SubSeq(wal, 1, n)) = n
          /\ \A i \in 1..n : SubSeq(wal, 1, n)[i] = wal[i]
      BY <1>0, <3>1
    <3> QED
      BY <3>1, <3>2, <3>3
  <2>4. Replayed(before, k) = Replayed(wal, k)
    BY <1>0, <2>2, <2>3, ReplayedOfCut
  <2>5. \A i \in 1..Len(before) : before[i] # Torn
    BY <2>2, <2>3
  <2> HIDE DEF before
  <2>6. Replayed(Append(before, walReq), k)
           = IF walReq.key = k THEN walReq.val ELSE Replayed(before, k)
    BY <1>0, <2>3, <2>5, ReplayedOfAppend
  <2> QED
    BY <2>1, <2>4, <2>6
<1> QED
  BY <1>1, <1>2, <1>3 DEF LogStep, W!PushAll

\* Every step keeps the memtable what the log replays to.
LEMMA NextMem == Control /\ Tables /\ MemOK /\ [Next]_vars => MemOK'
<1> SUFFICES ASSUME Control, Tables, MemOK, [Next]_vars PROVE MemOK'
  OBVIOUS
<1>1. CASE UNCHANGED vars
  BY <1>1 DEF vars, walVars, memVars, MemOK
<1>2. CASE WriteBack
  <2>1. /\ UNCHANGED <<wal, walPos, walPc, walReq, mem, pc>> /\ walDisk' \in {walDisk, wal}
    BY <1>2, EndsAndWriteBacks DEF Next, Environment
  <2> QED
    BY <2>1 DEF MemOK
<1>3. CASE Throw \/ Crash \/ PowerLoss
  <2>1. Gone
    BY <1>3, EndsAndWriteBacks DEF Next, Step, Environment
  <2> QED
    BY <2>1 DEF Gone, MemOK
<1>4. CASE Start
  <2>1. /\ mem = Empty /\ mem' = mem /\ wal' = wal /\ walPos' = 0
        /\ walPc' = "recover" /\ pc' = "recover"
    BY <1>4 DEF Start, MemOK, W!Construct, W!diskVars, memVars
  <2>2. SubSeq(wal', 1, walPos') = <<>>
    BY <2>1
  <2>3. \A k \in Key : mem'[k] = Replayed(SubSeq(wal', 1, walPos'), k)
    BY <2>1, <2>2, ReplayedOfNone DEF Empty
  <2> QED
    BY <2>1, <2>3 DEF MemOK
<1>5. CASE ReplayRecord
  <2> DEFINE R == W!Record \cup {Torn}
             r == wal[walPos + 1]
             done == SubSeq(wal, 1, walPos)
  <2>1. /\ pc = "recover" /\ pc' = pc /\ walPc = "recover" /\ walPc' = walPc
        /\ wal' = wal /\ walPos' = walPos + 1 /\ Replay(r) /\ r # Torn /\ walPos < Len(wal)
    BY <1>5 DEF ReplayRecord, W!ReplayRecord, W!diskVars
  <2>2. wal \in Seq(R) /\ walPos \in Nat /\ \A i \in 1..walPos : wal[i] # Torn
    BY <2>1, LogFacts
  <2>3. r \in R /\ r \in W!Record
    BY <2>1, <2>2
  <2>4. /\ done \in Seq(R) /\ \A i \in 1..Len(done) : done[i] # Torn
        /\ SubSeq(wal', 1, walPos') = Append(done, r)
    BY <2>1, <2>2
  <2>5. mem' = [mem EXCEPT ![r.key] = r.val] /\ mem \in T!Content
    BY <2>1, <2>3, RecordApplied DEF Tables, Typed
  <2> HIDE DEF r, done
  <2>6. \A k \in Key : mem'[k] = Replayed(Append(done, r), k)
    <3> SUFFICES ASSUME NEW k \in Key PROVE mem'[k] = Replayed(Append(done, r), k)
      OBVIOUS
    <3>1. Replayed(Append(done, r), k) = IF r.key = k THEN r.val ELSE Replayed(done, k)
      BY <2>1, <2>3, <2>4, ReplayedOfAppend
    <3>2. mem[k] = Replayed(done, k)
      BY <2>1 DEF MemOK, done
    <3>3. mem'[k] = IF r.key = k THEN r.val ELSE mem[k]
      BY <2>5 DEF T!Content
    <3> QED
      BY <3>1, <3>2, <3>3
  <2> QED
    BY <2>1, <2>4, <2>6 DEF MemOK
<1>6. CASE EndRecovery
  <2> DEFINE R == W!Record \cup {Torn}
  <2>1. pc = "recover" /\ mem' = mem /\ wal \in Seq(R) /\ walPos \in Nat
    BY <1>6, LogFacts DEF EndRecovery, memVars
  <2>2. CASE W!RecoverEnd
    <3>1. /\ walPos = Len(wal) /\ wal' = wal /\ walPc = "recover" /\ walPc' = "ready"
          /\ pc' = "manifest"
      BY <1>6, <2>2 DEF EndRecovery, W!RecoverEnd, W!CutTail, W!SyncRepair, W!diskVars
    <3>2. SubSeq(wal, 1, walPos) = wal
      BY <2>1, <3>1
    <3> QED
      BY <2>1, <3>1, <3>2 DEF MemOK
  <2>3. CASE W!CutTail
    <3>1. /\ walPos < Len(wal) /\ wal[walPos + 1] = Torn /\ wal' = SubSeq(wal, 1, walPos)
          /\ walPc = "recover" /\ walPc' = "repair" /\ pc' = "recover"
      BY <1>6, <2>1, <2>3 DEF EndRecovery, W!CutTail
    <3> QED
      BY <2>1, <3>1 DEF MemOK
  <2>4. CASE W!SyncRepair
    <3>1. wal' = wal /\ walPc = "repair" /\ walPc' = "ready" /\ pc' = "manifest"
      BY <1>6, <2>4 DEF EndRecovery, W!SyncRepair
    <3> QED
      BY <2>1, <3>1 DEF MemOK
  <2> QED
    BY <1>6, <2>2, <2>3, <2>4 DEF EndRecovery
<1>7. ASSUME NEW k \in Key, Del(k) \/ \E v \in Val : Set(k, v)
      PROVE  MemOK'
  <2>1. /\ pc = "idle" /\ pc' = "log" /\ walPc' = "append" /\ UNCHANGED <<wal, mem>>
    BY <1>7 DEF Del, Set, W!Write, W!diskVars, memVars
  <2> QED
    BY <2>1 DEF MemOK
<1>8. CASE LogStep
  <2>1. /\ pc = "log" /\ pc' = "log" /\ mem' = mem /\ walReq' = walReq
        /\ walPc \in {"append", "partial"} /\ walPc' \in {"partial", "sync"}
    BY <1>8 DEF LogStep, W!PushPart, W!PushAll, W!objVars, memVars
  <2>2. \A k \in Key : mem[k] = Replayed(wal, k)
    BY <2>1 DEF MemOK
  <2>3. walPc' = "partial" => \A k \in Key : mem'[k] = Replayed(wal', k)
    BY <1>8, <2>1, <2>2, ReplayedOfPush
  <2>4. walPc' = "sync" =>
           \A k \in Key : Replayed(wal', k) = IF k = walReq'.key THEN walReq'.val ELSE mem'[k]
    BY <1>8, <2>1, <2>2, ReplayedOfPush
  <2> QED
    BY <2>1, <2>3, <2>4 DEF MemOK
<1>9. CASE LogFails
  BY <1>9 DEF LogFails, MemOK
<1>10. CASE Logged
  <2>1. /\ pc = "log" /\ walPc = "sync" /\ wal' = wal /\ walDisk' = wal /\ walPc' = "ready"
        /\ pc' \in {"flush", "idle"}
    BY <1>10 DEF Logged, W!WriteSynced
  <2>2. mem' = [mem EXCEPT ![walReq.key] = walReq.val] /\ mem \in T!Content
    BY <1>10, LogFacts, RecordApplied DEF Logged, Tables, DeletesLive, Typed
  <2>3. \A k \in Key : mem'[k] = Replayed(wal', k)
    BY <2>1, <2>2 DEF MemOK, T!Content
  <2> QED
    BY <2>1, <2>3 DEF MemOK
<1>11. CASE FlushTruncate
  <2>1. pc' = "throw" \/ (pc' = "flushTruncate" /\ walPc' = "truncated")
    BY <1>11 DEF FlushTruncate, W!Truncate
  <2> QED
    BY <2>1 DEF MemOK
<1>12. CASE FlushEnd
  <2>1. wal' = <<>> /\ mem' = Empty /\ pc' = "idle"
    BY <1>12, LogFacts DEF FlushEnd, W!TruncateSynced
  <2>2. \A k \in Key : mem'[k] = Replayed(wal', k)
    BY <2>1, ReplayedOfNone DEF Empty
  <2> QED
    BY <2>1, <2>2 DEF MemOK
<1>13. CASE OpenManifest \/ WriteManifest \/ ReadThrows
            \/ FlushCreate \/ FlushWrite \/ FlushSyncDir \/ FlushAdd \/ FlushAdded
            \/ Compact \/ CompactToNothing \/ CompactCreate \/ CompactWrite
            \/ CompactSyncDir \/ CompactSwap \/ CompactSwapped \/ CompactRemove
  <2>1. UNCHANGED <<wal, walDisk, walPc, walPos, walReq, mem>>
    BY <1>13, SameLogAndMem DEF walVars, memVars
  <2>0. Next
    BY <1>13 DEF Next, Step, Environment
  <2>2. pc \notin {"down", "throw", "recover", "log", "flushTruncate"}
    BY <1>13 DEF OpenManifest, WriteManifest, ReadThrows, FlushCreate, FlushWrite, FlushSyncDir,
       FlushAdd, FlushAdded, Compact, CompactToNothing, CompactCreate, CompactWrite,
       CompactSyncDir, CompactSwap, CompactSwapped, CompactRemove
  <2>3. pc' \notin {"down", "recover", "log"}
    BY <1>13 DEF OpenManifest, WriteManifest, ReadThrows, FlushCreate, FlushWrite, FlushSyncDir,
       FlushAdd, FlushAdded, Compact, CompactToNothing, CompactCreate, CompactWrite,
       CompactSyncDir, CompactSwap, CompactSwapped, CompactRemove, CompactReturns
  <2>4. pc' \in {"flush", "flushWrite", "flushDir", "flushAdd", "flushTruncate"} =>
           pc \in {"flush", "flushWrite", "flushDir", "flushAdd"}
    BY <2>0, <2>2, <2>3, NextPc DEF Control, LogControl, Pcs
  <2> QED
    BY <2>1, <2>2, <2>3, <2>4 DEF MemOK
<1> QED
  BY <1>1, <1>2, <1>3, <1>4, <1>5, <1>6, <1>7, <1>8, <1>9, <1>10, <1>11, <1>12, <1>13, StepCases

\* Every step keeps a manifest that is there from being created again.
LEMMA NextCreating == Control /\ Creating /\ [Next]_vars => Creating'
<1> SUFFICES ASSUME Control, Creating, [Next]_vars,
                    pc' = "manifest", manPc' \in {"write", "rename"}
             PROVE  man' = NoFile /\ manArg'.list = <<>>
  BY DEF Creating
<1>1. CASE UNCHANGED vars
  BY <1>1 DEF vars, manVars, Creating
<1>2. CASE Next
  <2>1. /\ pc = "recover" => manPc = "none"
        /\ pc = "manifest" => manPc # "ready"
    BY DEF Control, ManControl
  <2>2. pc \in {"recover", "manifest"}
    BY <1>2, NextPc DEF Control, LogControl, Pcs
  <2>3. CASE Anywhere
    <3>1. UNCHANGED <<man, manArg, manPc, pc>>
      BY <1>2, <2>3, EndsAndWriteBacks DEF Anywhere, Gone
    <3> QED
      BY <3>1 DEF Creating
  <2>4. CASE ReplayRecord \/ EndRecovery
    BY <2>1, <2>4 DEF ReplayRecord, EndRecovery, manVars
  <2>5. CASE OpenManifest
    BY <2>5 DEF OpenManifest, M!Load, M!Create, M!StartWrite, M!Returned, M!diskVars
  <2>6. CASE WriteManifest /\ pc = "manifest"
    BY <2>6 DEF WriteManifest, Creating, M!WriteTemp, M!WriteTempFail, M!Rename, M!RenameFail,
       M!SyncDir, M!SyncDirFail, M!diskVars
  <2> QED
    BY <1>2, <2>2, <2>3, <2>4, <2>5, <2>6, StepsAt
<1> QED
  BY <1>1, <1>2

\* What is live stays so.
LEMMA LiveOfLive == ASSUME NEW c PROVE Live(Live(c)) = Live(c) /\ Live(Absent) = Absent
  BY CellAssumption DEF Live

\* The rename that puts a flush or a compaction into effect, or creates the
\* manifest, leaves what is served as it is.
LEMMA RenameSame ==
  ASSUME Control, Tables, MemOK, Creating, NEW k \in Key, SameValue(k),
         manPc = "rename", pc \in {"manifest", "flushAdd", "compactSwap"}
  PROVE  \/ Live(CellOf(manDisk, k)) = Live(CellOf(manArg, k))
         \/ pc = "flushAdd" /\ wal = walDisk /\ Replayed(wal, k) # Absent
<1> USE DEF CellOf
<1>0. manArg # NoFile /\ manArg.list \in Seq(Nat)
  BY ManFacts
<1>1. CASE pc = "manifest"
  <2>1. man = NoFile /\ manArg.list = <<>>
    BY <1>1 DEF Creating
  <2>2. manDisk = NoFile
    BY <2>1, ManFacts
  <2> QED
    BY <1>0, <2>1, <2>2, NewestOfNone
<1>2. CASE pc = "flushAdd"
  <2>1. /\ manDisk = man /\ manArg.list = Append(man.list, newIdx) /\ tables[newIdx] = mem
        /\ man # NoFile
    BY <1>2 DEF Tables, Flushing, Unchanged, Listed, Starting
  <2>2. mem[k] = Replayed(wal, k) /\ walDisk = wal
    BY <1>2 DEF MemOK
  <2>3. man.list \in Seq(Nat) /\ newIdx \in Nat
    BY <2>1, ManFacts, IndexFacts, BoundAssumption
  <2>4. NewestCell(manArg.list, tables, k)
           = IF mem[k] # Absent THEN mem[k] ELSE NewestCell(man.list, tables, k)
    BY <2>1, <2>3, NewestOfAppend
  <2> QED
    BY <1>0, <1>2, <2>1, <2>2, <2>4
<1>3. CASE pc = "compactSwap"
  <2>1. /\ merged = [q \in Key |-> Live(NewestCell(man.list, tables, q))]
        /\ manArg.list = Compacted /\ man # NoFile
        /\ merged # Empty => tables[newIdx] = merged
    BY <1>3 DEF Tables, Compacting, Unchanged, Listed, Starting
  <2>2. Live(CellOf(manDisk, k)) = Live(CellOf(man, k))
    BY <1>3 DEF SameValue
  <2>3. merged[k] = Live(CellOf(man, k))
    BY <2>1
  <2>4. CASE merged = Empty
    <3>1. CellOf(manArg, k) = Absent /\ merged[k] = Absent
      BY <1>0, <2>1, <2>4, NewestOfNone DEF Compacted, Empty
    <3> QED
      BY <2>2, <2>3, <3>1, LiveOfLive
  <2>5. CASE merged # Empty
    <3>1. manArg.list = Append(<<>>, newIdx) /\ newIdx \in Nat
      BY <2>1, <2>5, IndexFacts, BoundAssumption DEF Compacted
    <3>2. CellOf(manArg, k) = IF tables[newIdx][k] # Absent THEN tables[newIdx][k]
                              ELSE NewestCell(<<>>, tables, k)
      <4>1. <<>> \in Seq(Nat)
        OBVIOUS
      <4>2. NewestCell(Append(<<>>, newIdx), tables, k)
               = IF tables[newIdx][k] # Absent THEN tables[newIdx][k]
                 ELSE NewestCell(<<>>, tables, k)
        <5>1. \A l \in Seq(Nat), i \in Nat :
                 NewestCell(Append(l, i), tables, k)
                    = IF tables[i][k] # Absent THEN tables[i][k] ELSE NewestCell(l, tables, k)
          BY NewestOfAppend
        <5> QED
          BY <3>1, <4>1, <5>1
      <4> QED
        BY <1>0, <3>1, <4>2
    <3>3. CellOf(manArg, k) = merged[k]
      BY <2>1, <2>5, <3>2, NewestOfNone
    <3> QED
      BY <2>2, <2>3, <3>3, LiveOfLive
  <2> QED
    BY <2>4, <2>5
<1> QED
  BY <1>1, <1>2, <1>3

\* A log that hides the difference does so until the difference is gone.
LEMMA HiddenKept ==
  ASSUME Control, Tables, Next, pc \in {"flushAdd", "throw", "down"}, wal = walDisk
  PROVE  \/ man' = manDisk'
         \/ pc' \in {"flushAdd", "throw", "down"} /\ wal' = wal /\ walDisk' = walDisk
<1>1. CASE Start
  BY <1>1 DEF Start, DirSynced
<1>2. CASE FlushAdd \/ WriteManifest
  BY <1>2, SameLogAndMem DEF FlushAdd, WriteManifest, walVars
<1>3. CASE FlushAdded
  <2>1. UNCHANGED <<man, manDisk, wal, walDisk>>
    BY <1>3, SameLogAndMem DEF FlushAdded, M!Returned, M!diskVars, walVars
  <2>2. pc' = "throw" \/ manPc = "ok"
    BY <1>3 DEF FlushAdded, M!Returned
  <2> QED
    BY <1>3, <2>1, <2>2 DEF Tables, Flushing, FlushAdded
<1>4. CASE Throw \/ Anywhere
  BY <1>4, EndsAndWriteBacks DEF Anywhere, Gone
<1> QED
  BY <1>1, <1>2, <1>3, <1>4, StepsAt DEF Anywhere

\* Every step keeps what the two manifests serve the same.
LEMMA NextSame == Control /\ Tables /\ MemOK /\ Creating /\ SameValues /\ [Next]_vars => SameValues'
<1> SUFFICES ASSUME Control, Tables, MemOK, Creating, [Next]_vars, NEW k \in Key, SameValue(k)
             PROVE  SameValue(k)'
  BY DEF SameValues
<1>1. CASE UNCHANGED vars
  BY <1>1 DEF vars, walVars, manVars, tabVars, SameValue, CellOf
<1>2. CASE manDisk' = man'
  BY <1>2 DEF SameValue
<1>3. CASE Next /\ UNCHANGED <<man, manDisk>>
  <2>1. /\ man # NoFile => NewestCell(man.list, tables', k) = NewestCell(man.list, tables, k)
        /\ manDisk # NoFile =>
              NewestCell(manDisk.list, tables', k) = NewestCell(manDisk.list, tables, k)
    BY CellsKept
  <2>2. /\ (CellOf(man, k))' = CellOf(man, k)
        /\ (CellOf(manDisk, k))' = CellOf(manDisk, k)
    BY <1>3, <2>1 DEF CellOf
  <2>3. CASE Live(CellOf(manDisk, k)) = Live(CellOf(man, k))
    BY <2>2, <2>3 DEF SameValue
  <2>4. CASE /\ pc \in {"flushAdd", "throw", "down"}
             /\ wal = walDisk /\ Replayed(wal, k) # Absent
    BY <1>2, <1>3, <2>4, HiddenKept DEF SameValue
  <2> QED
    BY <2>3, <2>4 DEF SameValue
<1>4. CASE WriteManifest /\ M!Rename /\ manDisk' = manDisk /\ man' = manArg
  <2>1. /\ manPc = "rename" /\ pc \in {"manifest", "flushAdd", "compactSwap"}
        /\ UNCHANGED <<tables, wal, walDisk, pc>>
    BY <1>4 DEF WriteManifest, M!Rename, M!SyncDir, M!WriteTemp, M!WriteTempFail, M!RenameFail,
       M!SyncDirFail, tabVars, walVars, T!DirSynced
  <2>2. (CellOf(man, k))' = CellOf(manArg, k) /\ (CellOf(manDisk, k))' = CellOf(manDisk, k)
    BY <1>4, <2>1 DEF CellOf
  <2> QED
    BY <2>1, <2>2, RenameSame DEF SameValue
<1> QED
  BY <1>1, <1>2, <1>3, <1>4, ManEffect

-----------------------------------------------------------------------------
(* The invariant, and the properties that follow from it.                  *)

\* The strengthened invariant is one.
LEMMA Inductive == Spec => []IInv
<1>1. Init => IInv
  <2> SUFFICES ASSUME Init PROVE IInv
    OBVIOUS
  <2>1. man = NoFile /\ manDisk = NoFile /\ pc = "down"
    BY DEF Init, M!Init
  <2>2. Creating /\ SameValues
    BY <2>1 DEF Creating, SameValues, SameValue
  <2> QED
    BY <2>2, InitControl, InitTables, InitMem DEF IInv
<1>2. IInv /\ [Next]_vars => IInv'
  BY NextControl, NextTables, NextMem, NextCreating, NextSame DEF IInv
<1> QED
  BY <1>1, <1>2, PTL DEF Spec

-----------------------------------------------------------------------------
\* The engine drives its log and its manifest by their own steps only, so what
\* is proved of them holds of them in the engine.
THEOREM PartsRunTheirSpecs == Spec => W!Spec /\ M!Spec
<1>1. Init => W!Init /\ M!Init
  BY DEF Init
<1>2. IInv /\ [Next]_vars => [W!Next]_(W!vars) /\ [M!Next]_(M!vars)
  <2> SUFFICES ASSUME IInv, [Next]_vars PROVE [W!Next]_(W!vars) /\ [M!Next]_(M!vars)
    OBVIOUS
  <2>1. CASE UNCHANGED vars
    BY <2>1 DEF vars, walVars, manVars, W!vars, W!diskVars, W!objVars, M!vars, M!diskVars,
       M!objVars, M!callVars
  <2>2. CASE Next
    BY <2>2, WalStep, ManifestStep DEF IInv, Control, walVars, manVars, W!vars, W!diskVars,
       W!objVars, M!vars, M!diskVars, M!objVars, M!callVars
  <2> QED
    BY <2>1, <2>2
<1> QED
  BY <1>1, <1>2, Inductive, PTL DEF Spec, W!Spec, M!Spec

\* Each variable always holds a value of its type.
THEOREM TypeCorrect == Spec => []TypeOK
<1>1. IInv => TypeOK
  <2> SUFFICES ASSUME IInv PROVE TypeOK
    OBVIOUS
  <2>1. W!TypeOK
    BY DEF IInv, Control, WP!IInv, WP!TypeOK, W!TypeOK, WP!Log, W!Log, WP!Record, W!Record,
       WP!Pcs, W!Pcs
  <2>2. M!TypeOK
    BY DEF IInv, Control, MP!IInv, MP!TypeOK, M!TypeOK, MP!Contents, M!Contents,
       MP!Ops, M!Ops, MP!Pcs, M!Pcs
  <2>3. newIdx \in 0..MaxTables /\ pc \in Pcs
    BY DEF IInv, Control, IndexControl, LogControl
  <2> QED
    BY <2>1, <2>2, <2>3 DEF IInv, Tables, Typed, TypeOK
<1> QED
  BY <1>1, Inductive, PTL

\* A stored table survives a power loss as it is.
LEMMA StoredSurvives == ASSUME NEW i, Stored(i) PROVE T!Surviving[i] = tables[i]
  BY DEF Stored, T!Surviving

\* No manifest, the one that a process finds or the one that a power loss leaves,
\* leads to a missing or incomplete SSTable, whatever failed or was cut short.
THEOREM ListedAreComplete == Spec => []ListedTablesComplete
<1>1. IInv => ListedTablesComplete
  BY StoredSurvives DEF IInv, Tables, Listed, AllStored, Stored, ListedTablesComplete
<1> QED
  BY <1>1, Inductive, PTL

\* flush() and compact() never write to a file that a manifest lists, also not
\* one that a power loss could bring back: they write the one that is next.
THEOREM FilesAreFresh == Spec => []WritesFreshFile
<1>1. IInv => WritesFreshFile
  <2> SUFFICES ASSUME IInv, pc \in {"flushWrite", "flushDir", "compactWrite", "compactDir"},
                      NEW m \in {man, manDisk}, NEW n \in DOMAIN m.list
               PROVE  m.list[n] # newIdx
    BY DEF WritesFreshFile
  <2>1. man # NoFile /\ manDisk # NoFile /\ manPc = "ready"
    BY DEF IInv, Tables, Listed, Control, ManControl, Starting, Calling
  <2>2. newIdx = man.next
    BY <2>1, ManFacts, IndexFacts DEF IInv
  <2>3. CASE m = man
    <3>1. man.list[n] < man.next /\ man.next \in Nat
      BY <2>1, <2>3, ManFacts DEF IInv
    <3> QED
      BY <2>2, <2>3, <3>1
  <2>4. CASE m = manDisk
    <3>1. /\ manDisk.list[n] < manDisk.next /\ manDisk.next <= man.next
          /\ manDisk.list[n] \in Nat /\ man.next \in Nat /\ manDisk.next \in Nat
      BY <2>1, <2>4, ManFacts DEF IInv
    <3> QED
      BY <2>2, <2>4, <3>1
  <2> QED
    BY <2>3, <2>4
<1> QED
  BY <1>1, Inductive, PTL

\* No SSTable without an entry is ever written: the memtable that is flushed has
\* one, and a merge that is empty is not written.
THEOREM TablesHaveEntries == Spec => []NoEmptyTable
<1>1. IInv => NoEmptyTable
  BY DEF IInv, Tables
<1> QED
  BY <1>1, Inductive, PTL

\* While an SSTable is listed its content stays as it is, in the file and on
\* stable storage, also through a power loss.
THEOREM ListedStay == Spec => ListedTablesNeverChange
<1> DEFINE Stay ==
       /\ man # NoFile /\ man' # NoFile =>
             \A i \in ToSet(man.list) \cap ToSet(man'.list) : tables'[i] = tables[i]
       /\ manDisk # NoFile /\ manDisk' # NoFile =>
             \A i \in ToSet(manDisk.list) \cap ToSet(manDisk'.list) :
                (T!Surviving[i])' = T!Surviving[i]
<1>1. IInv /\ [Next]_vars => Stay
  <2> SUFFICES ASSUME IInv, [Next]_vars PROVE Stay
    OBVIOUS
  <2> USE DEF ToSet, Elements
  <2>1. ASSUME man # NoFile, NEW i \in ToSet(man.list) PROVE tables'[i] = tables[i]
    BY <2>1, ListsKept DEF IInv
  <2>2. ASSUME manDisk # NoFile, NEW i \in ToSet(manDisk.list)
        PROVE  (T!Surviving[i])' = T!Surviving[i]
    <3>1. Stored(i) /\ Stored(i)' /\ tables'[i] = tables[i]
      BY <2>2, ListsKept DEF IInv, Tables, Listed, AllStored
    <3>2. T!Surviving[i] = tables[i]
      BY <3>1, StoredSurvives
    <3>3. (T!Surviving[i])' = tables'[i]
      BY <3>1 DEF Stored, T!Surviving
    <3> QED
      BY <3>1, <3>2, <3>3
  <2> QED
    BY <2>1, <2>2
<1> QED
  BY <1>1, Inductive, PTL DEF Spec, ListedTablesNeverChange

\* Between two commands the memtable is what the log replays to: a crash and the
\* recovery after it change nothing in it.
THEOREM MemIsTheLog == Spec => []MemIsReplay
<1>1. IInv => MemIsReplay
  BY DEF IInv, MemOK, MemIsReplay
<1> QED
  BY <1>1, Inductive, PTL

\* What is served for a key that the log has r for and the tables have c for.
ReadAs(r, c) == Live(IF r # Absent THEN r ELSE c)

StoreAt(k)   == Served(wal, man, tables, k)
DurableAt(k) == Served(walDisk, manDisk, T!Surviving, k)

\* The files that a power loss leaves serve as the ones that are there.
LEMMA ServedIs ==
  ASSUME IInv, NEW k
  PROVE  /\ StoreAt(k) = ReadAs(Replayed(wal, k), CellOf(man, k))
         /\ DurableAt(k) = ReadAs(Replayed(walDisk, k), CellOf(manDisk, k))
<1>1. manDisk # NoFile =>
         NewestCell(manDisk.list, T!Surviving, k) = NewestCell(manDisk.list, tables, k)
  <2> SUFFICES ASSUME manDisk # NoFile
               PROVE  NewestCell(manDisk.list, T!Surviving, k) = NewestCell(manDisk.list, tables, k)
    OBVIOUS
  <2>1. manDisk.list \in Seq(Nat)
    BY ManFacts DEF IInv
  <2>2. \A n \in DOMAIN manDisk.list : T!Surviving[manDisk.list[n]] = tables[manDisk.list[n]]
    BY StoredSurvives DEF IInv, Tables, Listed, AllStored
  <2> QED
    BY <2>1, <2>2, NewestOfSame
<1> QED
  BY <1>1 DEF StoreAt, DurableAt, Served, ReadAs, CellOf

\* So they do after a step.
LEMMA ServedIsNext ==
  ASSUME NEW CONSTANT k
  PROVE  (IInv => /\ StoreAt(k) = ReadAs(Replayed(wal, k), CellOf(man, k))
                  /\ DurableAt(k) = ReadAs(Replayed(walDisk, k), CellOf(manDisk, k)))'
<1>1. IInv => /\ StoreAt(k) = ReadAs(Replayed(wal, k), CellOf(man, k))
              /\ DurableAt(k) = ReadAs(Replayed(walDisk, k), CellOf(manDisk, k))
  BY ServedIs
<1> QED
  BY <1>1, PTL

\* What the invariant says of the two manifests, whatever the engine is doing.
LEMMA SameValueOf ==
  ASSUME IInv, NEW k \in Key
  PROVE  \/ Live(CellOf(manDisk, k)) = Live(CellOf(man, k))
         \/ wal = walDisk /\ Replayed(wal, k) # Absent
  BY DEF IInv, SameValues, SameValue

\* A step that leaves the manifest and what the log replays to alone changes
\* nothing that is served, and nothing that is durable but to what is served.
LEMMA Kept ==
  ASSUME IInv, IInv', [Next]_vars, NEW k \in Key,
         man' = man, manDisk' \in {manDisk, man}
  PROVE  /\ Replayed(wal', k) = Replayed(wal, k) => StoreAt(k)' = StoreAt(k)
         /\ walDisk' = walDisk => DurableAt(k)' = DurableAt(k)
         /\ walDisk' = wal => DurableAt(k)' = StoreAt(k)
<1>1. /\ man # NoFile => NewestCell(man.list, tables', k) = NewestCell(man.list, tables, k)
      /\ manDisk # NoFile =>
            NewestCell(manDisk.list, tables', k) = NewestCell(manDisk.list, tables, k)
  BY CellsKept DEF IInv
<1>2. /\ (CellOf(man, k))' = CellOf(man, k)
      /\ (CellOf(manDisk, k))' \in {CellOf(manDisk, k), CellOf(man, k)}
  BY <1>1 DEF CellOf
<1>3. /\ StoreAt(k) = ReadAs(Replayed(wal, k), CellOf(man, k))
      /\ DurableAt(k) = ReadAs(Replayed(walDisk, k), CellOf(manDisk, k))
  BY ServedIs
<1>5. /\ StoreAt(k)' = ReadAs(Replayed(wal', k), (CellOf(man, k))')
      /\ DurableAt(k)' = ReadAs(Replayed(walDisk', k), (CellOf(manDisk, k))')
  BY ServedIsNext DEF ReadAs, Live, Replayed
<1> QED
  BY <1>2, <1>3, <1>5, SameValueOf DEF ReadAs

\* What a step does to the log, as the served values see it.
QuietLog == /\ walReq' = walReq /\ walDisk' \in {walDisk, wal}
            /\ \A k \in Key : Replayed(wal', k) = Replayed(wal, k)

\* There is nothing else a step can do to the log.
LEMMA LogEffect ==
  ASSUME IInv, [Next]_vars
  PROVE  \/ QuietLog
         \/ PowerLoss
         \/ \E k \in Key : Del(k) \/ \E v \in Val : Set(k, v)
         \/ LogStep /\ walPc' = "sync"
         \/ Logged
         \/ walReq' = NoRecord /\ UNCHANGED <<wal, walDisk>>
         \/ FlushTruncate /\ W!Truncate
<1> USE DEF QuietLog
<1>1. CASE UNCHANGED walVars
  BY <1>1 DEF walVars
<1>2. CASE Start \/ ReplayRecord
  BY <1>2 DEF Start, ReplayRecord, W!Construct, W!ReplayRecord, W!diskVars
<1>3. CASE EndRecovery
  <2>1. walReq' = walReq /\ walDisk' \in {walDisk, wal}
    BY <1>3 DEF EndRecovery, W!RecoverEnd, W!CutTail, W!SyncRepair, W!diskVars, W!objVars
  <2>2. wal' = wal \/ W!CutTail
    BY <1>3 DEF EndRecovery, W!RecoverEnd, W!SyncRepair, W!diskVars
  <2>3. ASSUME W!CutTail, NEW k PROVE Replayed(wal', k) = Replayed(wal, k)
    <3>1. /\ wal' = SubSeq(wal, 1, walPos) /\ wal[walPos + 1] = Torn /\ walPos < Len(wal)
          /\ wal \in Seq(W!Record \cup {Torn}) /\ walPos \in Nat
      BY <2>3, LogFacts DEF W!CutTail, IInv
    <3>2. walPos \in 0..Len(wal)
      BY <3>1
    <3> QED
      BY <3>1, <3>2, ReplayedOfCut
  <2> QED
    BY <2>1, <2>2, <2>3
<1>4. CASE LogStep
  <2>1. walReq' = walReq /\ walDisk' = walDisk /\ walPc' \in {"partial", "sync"}
    BY <1>4 DEF LogStep, W!PushPart, W!PushAll, W!objVars
  <2> QED
    BY <1>4, <2>1, ReplayedOfPush DEF IInv
<1>5. CASE LogFails \/ Throw \/ Crash
  BY <1>5 DEF LogFails, W!WriteFail, W!diskVars, Throw, Crash, EndProcess, W!Gone
<1>6. CASE FlushTruncate \/ FlushEnd
  BY <1>6 DEF FlushTruncate, FlushEnd, W!TruncateFail, W!TruncateSyncFail, W!TruncateSynced,
     W!diskVars, W!objVars
<1>7. CASE WriteBack
  BY <1>7, EndsAndWriteBacks DEF Next, Environment
<1>8. CASE UNCHANGED vars
  BY <1>1, <1>8 DEF vars
<1> QED
  BY <1>1, <1>2, <1>3, <1>4, <1>5, <1>6, <1>7, <1>8, StepCases, SameLogAndMem

\* The newest table has the last word.
LEMMA NewestOfLast ==
  ASSUME NEW S, NEW list \in Seq(S), list # <<>>, NEW tabs, NEW k,
         tabs[list[Len(list)]][k] # Absent
  PROVE  NewestCell(list, tabs, k) = tabs[list[Len(list)]][k]
<1>1. Len(list) \in Nat /\ Len(list) # 0 /\ DOMAIN list = 1..Len(list)
  OBVIOUS
<1>2. Len(list) \in DOMAIN list
  BY <1>1
<1>3. PICK n \in DOMAIN list :
             /\ NewestCell(list, tabs, k) = tabs[list[n]][k]
             /\ \A m \in DOMAIN list : m > n => tabs[list[m]][k] = Absent
  BY <1>2, NewestIsHeld
<1>4. n = Len(list)
  BY <1>1, <1>2, <1>3
<1> QED
  BY <1>3, <1>4

\* The log is emptied once its last records are in a listed table.
LEMMA TruncateSame ==
  ASSUME IInv, IInv', Next, FlushTruncate, W!Truncate, NEW k \in Key
  PROVE  StoreAt(k)' = StoreAt(k) /\ DurableAt(k)' = DurableAt(k)
<1>1. /\ pc = "flushTruncate" /\ walPc = "ready" /\ wal' = <<>> /\ walDisk' = walDisk
      /\ UNCHANGED <<man, manDisk, tables>>
  BY DEF FlushTruncate, W!Truncate, manVars, tabVars
<1>2. DurableAt(k)' = DurableAt(k)
  BY <1>1, Kept
<1>3. /\ StoreAt(k) = ReadAs(Replayed(wal, k), CellOf(man, k))
      /\ StoreAt(k)' = ReadAs(Absent, CellOf(man, k))
  BY <1>1, ServedIs, ServedIsNext, ReplayedOfNone DEF ReadAs, Live, CellOf
<1>4. mem[k] = Replayed(wal, k)
  BY <1>1 DEF IInv, MemOK
<1>5. /\ man # NoFile /\ man.list \in Seq(Nat) /\ man.list # <<>>
      /\ tables[man.list[Len(man.list)]] = mem
  BY <1>1, ManFacts DEF IInv, Tables, Listed, Flushing, Starting
<1>6. mem[k] # Absent => CellOf(man, k) = mem[k]
  BY <1>5, NewestOfLast DEF CellOf
<1> QED
  BY <1>2, <1>3, <1>4, <1>6 DEF ReadAs

\* The rename of a manifest into place.
LEMMA RenameKeeps ==
  ASSUME IInv, IInv', Next, NEW k \in Key,
         WriteManifest, M!Rename, man' = manArg, manDisk' \in {manDisk, manArg}
  PROVE  StoreAt(k)' = StoreAt(k) /\ DurableAt(k)' = DurableAt(k)
<1>1. /\ manPc = "rename" /\ pc \in {"manifest", "flushAdd", "compactSwap"}
      /\ UNCHANGED <<tables, wal, walDisk, pc>>
  BY DEF WriteManifest, M!Rename, M!SyncDir, M!WriteTemp, M!WriteTempFail, M!RenameFail,
     M!SyncDirFail, tabVars, walVars, T!DirSynced
<1>2. /\ (CellOf(man, k))' = CellOf(manArg, k)
      /\ (CellOf(manDisk, k))' \in {CellOf(manDisk, k), CellOf(manArg, k)}
  BY <1>1 DEF CellOf
<1>3. /\ StoreAt(k)' = ReadAs(Replayed(wal, k), (CellOf(man, k))')
      /\ DurableAt(k)' = ReadAs(Replayed(walDisk, k), (CellOf(manDisk, k))')
  <2>1. /\ StoreAt(k)' = ReadAs(Replayed(wal', k), (CellOf(man, k))')
        /\ DurableAt(k)' = ReadAs(Replayed(walDisk', k), (CellOf(manDisk, k))')
    BY ServedIsNext DEF ReadAs, Live, Replayed
  <2> QED
    BY <1>1, <2>1
<1>4. \/ Live(CellOf(manDisk, k)) = Live(CellOf(manArg, k))
      \/ wal = walDisk /\ Replayed(wal, k) # Absent
  BY <1>1, RenameSame DEF IInv, SameValues
<1>5. \/ Live(CellOf(manDisk, k)) = Live(CellOf(man, k))
      \/ wal = walDisk /\ Replayed(wal, k) # Absent
  BY SameValueOf
<1> QED
  BY <1>2, <1>3, <1>4, <1>5, ServedIs DEF ReadAs

\* The maps of the abstract specification, and its request, as the engine has them.
Stores   == [k \in Key |-> StoreAt(k)]
Durables == [k \in Key |-> DurableAt(k)]

\* The steps of the abstract specification, written with these maps.
LEMMA AbstractIs ==
  /\ Abstract!Begin <=> /\ Pending = NoRecord /\ Pending' \in Abstract!Update
                        /\ Stores' = Stores /\ Durables' = Durables
  /\ Abstract!Take <=> /\ Pending # NoRecord /\ Pending' = Pending /\ Durables' = Durables
                       /\ Stores' = [Stores EXCEPT ![Pending.key] = Pending.val]
  /\ Abstract!Persist <=> Durables' = Stores /\ Stores' = Stores /\ Pending' = Pending
  /\ Abstract!End <=> /\ Pending # NoRecord /\ Stores[Pending.key] = Pending.val
                      /\ Durables' = Stores /\ Pending' = NoRecord /\ Stores' = Stores
  /\ Abstract!Crash <=> Pending' = NoRecord /\ Stores' = Stores /\ Durables' = Durables
  /\ Abstract!PowerLoss <=> Stores' = Durables /\ Pending' = NoRecord /\ Durables' = Durables
  /\ UNCHANGED Abstract!vars <=> Stores' = Stores /\ Durables' = Durables /\ Pending' = Pending
  BY DEF Abstract!Begin, Abstract!Take, Abstract!Persist, Abstract!End, Abstract!Crash,
     Abstract!PowerLoss, Abstract!vars, Stores, Durables, StoreAt, DurableAt

\* After a step that begins a command there is a record to be written.
LEMMA LogFactsNext == (Control => (pc = "log" => walReq \in W!Record))'
<1>1. Control => (pc = "log" => walReq \in W!Record)
  BY LogFacts
<1> QED
  BY <1>1, PTL

\* Every step of the engine is one of the abstract map, or leaves it as it is.
LEMMA StepRefines ==
  ASSUME IInv, IInv', [Next]_vars
  PROVE  [Abstract!Next]_(Abstract!vars)
<1> USE AbstractIs DEF Abstract!Next, Pending
<1>0. /\ NoRecord \notin W!Record /\ NoRecord \notin [key : Key, val : Val \cup {Absent}]
      /\ pc # "log" => walReq = NoRecord
      /\ pc = "log" => walReq \in W!Record
  BY MarkerAssumption, LogFacts DEF IInv, Control, LogControl
<1>1. PowerLoss => Abstract!PowerLoss
  <2> SUFFICES ASSUME PowerLoss PROVE Abstract!PowerLoss
    OBVIOUS
  <2>1. /\ wal' = walDisk /\ man' = manDisk /\ tables' = T!Surviving /\ walReq' = NoRecord
        /\ UNCHANGED <<walDisk, manDisk, tabData, tabNames>>
    BY DEF PowerLoss, W!PowerLoss, M!PowerLoss, T!PowerLoss, W!Gone
  <2>2. T!Surviving' = T!Surviving
    BY <2>1 DEF T!Surviving
  <2> QED
    BY <2>1, <2>2 DEF Stores, Durables, StoreAt, DurableAt
<1>2. CASE WriteManifest /\ M!Rename /\ man' = manArg /\ manDisk' \in {manDisk, manArg}
  <2>1. walReq' = walReq
    BY <1>2 DEF WriteManifest, walVars
  <2>2. Next
    BY <1>2 DEF Next, Step
  <2>3. Stores' = Stores /\ Durables' = Durables
    BY <1>2, <2>2, RenameKeeps DEF Stores, Durables
  <2> QED
    BY <2>1, <2>3
<1>3. CASE man' = man /\ manDisk' \in {manDisk, man}
  <2>1. CASE QuietLog
    <3>1. Stores' = Stores
      BY <1>3, <2>1, Kept DEF Stores, QuietLog
    <3>2. Durables' = Durables \/ Durables' = Stores
      BY <1>3, <2>1, Kept DEF Stores, Durables, QuietLog
    <3> QED
      BY <2>1, <3>1, <3>2 DEF QuietLog
  <2>2. ASSUME NEW k \in Key, Del(k) \/ \E v \in Val : Set(k, v)
        PROVE  Abstract!Begin
    <3>1. /\ pc = "idle" /\ UNCHANGED <<wal, walDisk>>
          /\ \E v \in Val \cup {Tomb} : walReq' = [index |-> walIndex, key |-> k, val |-> v]
      BY <2>2 DEF Del, Set, W!Write, W!diskVars
    <3>2. Stores' = Stores /\ Durables' = Durables
      BY <1>3, <3>1, Kept DEF Stores, Durables
    <3>3. walReq' # NoRecord
      <4>1. pc' = "log"
        BY <2>2 DEF Del, Set
      <4>2. walReq' \in W!Record
        BY <4>1, LogFactsNext DEF IInv
      <4> QED
        BY <1>0, <4>2
    <3>4. Pending' \in Abstract!Update
      BY <3>1, <3>3, CellAssumption DEF Abstract!Update, Live
    <3> QED
      BY <1>0, <3>1, <3>2, <3>4
  <2>3. CASE LogStep /\ walPc' = "sync"
    <3>1. pc = "log" /\ walReq' = walReq /\ walDisk' = walDisk
      BY <2>3 DEF LogStep, W!PushPart, W!PushAll, W!objVars
    <3>2. walReq # NoRecord /\ walReq.key \in Key /\ walReq.val \in Val \cup {Tomb}
      BY <1>0, <3>1 DEF W!Record
    <3>3. Durables' = Durables
      BY <1>3, <3>1, Kept DEF Durables
    <3>4. ASSUME NEW k \in Key
          PROVE  StoreAt(k)' = IF k = walReq.key THEN Live(walReq.val) ELSE StoreAt(k)
      <4>1. Replayed(wal', k) = IF walReq.key = k THEN walReq.val ELSE Replayed(wal, k)
        BY <2>3, ReplayedOfPush DEF IInv
      <4>2. CASE k = walReq.key
        <5>1. StoreAt(k)' = ReadAs(Replayed(wal', k), (CellOf(man, k))')
          BY ServedIsNext DEF ReadAs, Live, Replayed
        <5> QED
          BY <3>2, <4>1, <4>2, <5>1, CellAssumption DEF ReadAs
      <4>3. CASE k # walReq.key
        BY <1>3, <4>1, <4>3, Kept
      <4> QED
        BY <4>2, <4>3
    <3>5. Stores' = [Stores EXCEPT ![walReq.key] = Live(walReq.val)]
      BY <3>4 DEF Stores
    <3>6. Pending = [key |-> walReq.key, val |-> Live(walReq.val)] /\ Pending \in Abstract!Update
      BY <3>2, CellAssumption DEF Live, Abstract!Update
    <3> QED
      BY <1>0, <3>1, <3>3, <3>5, <3>6 DEF Abstract!Update
  <2>4. CASE Logged
    <3>1. pc = "log" /\ walPc = "sync" /\ wal' = wal /\ walDisk' = wal /\ walReq' = NoRecord
      BY <2>4 DEF Logged, W!WriteSynced
    <3>2. walReq # NoRecord /\ walReq.key \in Key /\ walReq.val \in Val \cup {Tomb}
      BY <1>0, <3>1 DEF W!Record
    <3>3. Stores' = Stores /\ Durables' = Stores
      BY <1>3, <3>1, Kept DEF Stores, Durables
    <3>4. Replayed(wal, walReq.key) = walReq.val
      BY <3>1, <3>2 DEF IInv, MemOK
    <3>5. Stores[walReq.key] = Live(walReq.val)
      BY <3>2, <3>4, ServedIs, CellAssumption DEF Stores, ReadAs
    <3>6. Pending = [key |-> walReq.key, val |-> Live(walReq.val)] /\ Pending \in Abstract!Update
      BY <3>2, CellAssumption DEF Live, Abstract!Update
    <3> QED
      BY <1>0, <3>1, <3>3, <3>5, <3>6 DEF Abstract!Update
  <2>5. CASE walReq' = NoRecord /\ UNCHANGED <<wal, walDisk>>
    <3>1. Stores' = Stores /\ Durables' = Durables
      BY <1>3, <2>5, Kept DEF Stores, Durables
    <3> QED
      BY <2>5, <3>1
  <2>6. CASE FlushTruncate /\ W!Truncate
    <3>1. walReq' = walReq /\ Next
      BY <2>6 DEF W!Truncate, Next, Step
    <3>2. Stores' = Stores /\ Durables' = Durables
      BY <2>6, <3>1, TruncateSame DEF Stores, Durables
    <3> QED
      BY <3>1, <3>2
  <2> QED
    BY <1>1, <2>1, <2>2, <2>3, <2>4, <2>5, <2>6, LogEffect
<1>4. CASE UNCHANGED vars
  BY <1>3, <1>4 DEF vars, manVars
<1> QED
  BY <1>1, <1>2, <1>3, <1>4, ManEffect DEF IInv

\* The engine implements the map with atomic, durable updates.
THEOREM Refinement == Spec => ImplementsDurableMap
<1>1. Init => Abstract!Init
  <2> SUFFICES ASSUME Init PROVE Abstract!Init
    OBVIOUS
  <2>1. /\ wal = <<>> /\ walDisk = <<>> /\ man = NoFile /\ manDisk = NoFile
        /\ walReq = NoRecord
    BY DEF Init, W!Init, M!Init
  <2>2. \A k : /\ Served(wal, man, tables, k) = Absent
               /\ Served(walDisk, manDisk, T!Surviving, k) = Absent
    BY <2>1, ReplayedOfNone, CellAssumption DEF Served, Live
  <2> QED
    BY <2>1, <2>2 DEF Abstract!Init, Pending
<1>2. IInv /\ IInv' /\ [Next]_vars => [Abstract!Next]_(Abstract!vars)
  BY StepRefines
<1> QED
  BY <1>1, <1>2, Inductive, PTL DEF Spec, ImplementsDurableMap, Abstract!Spec

\* While the log is synced, or where it has no record of the key, nothing is at
\* stake: the files that a power loss leaves serve the same.
Settled(k) == StoreAt(k) = DurableAt(k)

LEMMA SyncedSettles ==
  ASSUME IInv, wal = walDisk, NEW k \in Key
  PROVE  Settled(k)
  BY ServedIs, SameValueOf DEF Settled, ReadAs

UnloggedSettled == \A k \in Key : Replayed(wal, k) = Absent => Settled(k)

\* Every step keeps the keys without a record in the log settled.
LEMMA StepSettles ==
  ASSUME IInv, IInv', [Next]_vars, UnloggedSettled
  PROVE  UnloggedSettled'
<1> SUFFICES ASSUME NEW k \in Key, Replayed(wal', k) = Absent
             PROVE  StoreAt(k)' = DurableAt(k)'
  BY DEF UnloggedSettled, Settled
<1>0. Replayed(wal, k) = Absent => StoreAt(k) = DurableAt(k)
  BY DEF UnloggedSettled, Settled
<1>1. CASE PowerLoss
  <2>1. /\ wal' = walDisk /\ man' = manDisk /\ tables' = T!Surviving
        /\ UNCHANGED <<walDisk, manDisk, tabData, tabNames>>
    BY <1>1 DEF PowerLoss, W!PowerLoss, M!PowerLoss, T!PowerLoss
  <2>2. T!Surviving' = T!Surviving
    BY <2>1 DEF T!Surviving
  <2> QED
    BY <2>1, <2>2 DEF StoreAt, DurableAt
<1>2. CASE WriteManifest /\ M!Rename /\ man' = manArg /\ manDisk' \in {manDisk, manArg}
  <2>1. wal' = wal /\ Next
    BY <1>2 DEF WriteManifest, walVars, Next, Step
  <2>2. StoreAt(k)' = StoreAt(k) /\ DurableAt(k)' = DurableAt(k)
    BY <1>2, <2>1, RenameKeeps
  <2> QED
    BY <1>0, <2>1, <2>2
<1>3. CASE man' = man /\ manDisk' \in {manDisk, man}
  <2>1. CASE QuietLog
    BY <1>0, <1>3, <2>1, Kept DEF QuietLog
  <2>2. ASSUME NEW q \in Key, Del(q) \/ \E v \in Val : Set(q, v)
        PROVE  StoreAt(k)' = DurableAt(k)'
    <3>1. UNCHANGED <<wal, walDisk>>
      BY <2>2 DEF Del, Set, W!Write, W!diskVars
    <3> QED
      BY <1>0, <1>3, <3>1, Kept
  <2>3. CASE LogStep /\ walPc' = "sync"
    <3>1. pc = "log" /\ walDisk' = walDisk
      BY <2>3 DEF LogStep, W!PushPart, W!PushAll
    <3>2. walReq.val # Absent
      BY <3>1, LogFacts, CellAssumption DEF IInv, W!Record
    <3>3. Replayed(wal', k) = IF walReq.key = k THEN walReq.val ELSE Replayed(wal, k)
      BY <2>3, ReplayedOfPush DEF IInv
    <3> QED
      BY <1>0, <1>3, <3>1, <3>2, <3>3, Kept
  <2>4. CASE Logged
    <3>1. wal' = wal /\ walDisk' = wal
      BY <2>4 DEF Logged, W!WriteSynced
    <3> QED
      BY <1>3, <3>1, Kept
  <2>5. CASE UNCHANGED <<wal, walDisk>>
    BY <1>0, <1>3, <2>5, Kept
  <2>6. CASE FlushTruncate /\ W!Truncate
    <3>1. wal = walDisk /\ Next
      BY <2>6 DEF FlushTruncate, W!Truncate, IInv, MemOK, Next, Step
    <3>2. StoreAt(k)' = StoreAt(k) /\ DurableAt(k)' = DurableAt(k)
      BY <2>6, <3>1, TruncateSame
    <3> QED
      BY <3>1, <3>2, SyncedSettles DEF Settled
  <2> QED
    BY <1>1, <2>1, <2>2, <2>3, <2>4, <2>5, <2>6, LogEffect
<1>4. CASE UNCHANGED vars
  BY <1>3, <1>4 DEF vars, manVars
<1> QED
  BY <1>1, <1>2, <1>3, <1>4, ManEffect DEF IInv

\* A power loss takes nothing but updates that are in a log not synced since, also
\* between any two steps of a flush or a compaction.
THEOREM OnlyUnsyncedIsLost == Spec => []PowerLossTakesUnsyncedOnly
<1>1. Init => UnloggedSettled
  <2> SUFFICES ASSUME Init PROVE \A k \in Key : Settled(k)
    BY DEF UnloggedSettled
  <2>1. wal = <<>> /\ walDisk = <<>> /\ man = NoFile /\ manDisk = NoFile
    BY DEF Init, W!Init, M!Init
  <2> QED
    BY <2>1 DEF Settled, StoreAt, DurableAt, Served
<1>2. IInv /\ IInv' /\ [Next]_vars /\ UnloggedSettled => UnloggedSettled'
  BY StepSettles
<1>3. IInv /\ UnloggedSettled => PowerLossTakesUnsyncedOnly
  <2> SUFFICES ASSUME IInv, UnloggedSettled, NEW k \in Key, ~ Settled(k)
               PROVE  wal # walDisk /\ Replayed(wal, k) # Absent
    BY DEF PowerLossTakesUnsyncedOnly, Settled, StoreAt, DurableAt
  <2> QED
    BY SyncedSettles DEF UnloggedSettled
<1> QED
  BY <1>1, <1>2, <1>3, Inductive, PTL DEF Spec

-----------------------------------------------------------------------------
(* Sums over a set, which the community modules define by a recursion that  *)
(* takes one element after the other.                                      *)

Pick(s) == CHOOSE x \in s : TRUE
SumAt(f, it, s) == IF s = {} THEN 0 ELSE f[Pick(s)] + it[s \ {Pick(s)}]
IsSum(f, S, it) == it = [s \in SUBSET S |-> SumAt(f, it, s)]
Sum(f, S) == (CHOOSE it : IsSum(f, S, it))[S]

\* A part of a finite set, with one member taken out of it.
LEMMA OneLess ==
  ASSUME NEW S, IsFiniteSet(S), NEW s \in SUBSET S
  PROVE  /\ Cardinality(s) \in Nat /\ IsFiniteSet(s)
         /\ \A x \in s : s \ {x} \in SUBSET S /\ Cardinality(s \ {x}) = Cardinality(s) - 1
         /\ s # {} => Pick(s) \in s /\ Cardinality(s) > 0
         /\ s = {} => Cardinality(s) = 0
<1>1. IsFiniteSet(s) /\ Cardinality(s) \in Nat
  BY FS_Subset, FS_CardinalityType
<1>2. \A x \in s : Cardinality(s \ {x}) = Cardinality(s) - 1
  BY <1>1, FS_RemoveElement
<1>3. s # {} => Pick(s) \in s
  BY DEF Pick
<1>4. s = {} <=> Cardinality(s) = 0
  BY <1>1, FS_EmptySet
<1> QED
  BY <1>1, <1>2, <1>3, <1>4

\* The recursion has a solution.
LEMMA SumExists ==
  ASSUME NEW S, IsFiniteSet(S), NEW f
  PROVE  \E it : IsSum(f, S, it)
<1> DEFINE Solves(it, n) ==
       \A s \in SUBSET S : Cardinality(s) <= n => it[s] = SumAt(f, it, s)
<1> DEFINE N == {n \in Nat : \E it : Solves(it, n)}
<1>1. 0 \in N
  <2> DEFINE none == [s \in SUBSET S |-> 0]
  <2>1. Solves(none, 0)
    <3> TAKE s \in SUBSET S
    <3> HAVE Cardinality(s) <= 0
    <3>1. s = {}
      BY OneLess
    <3> QED
      BY <3>1 DEF SumAt
  <2> QED
    BY <2>1
<1>2. ASSUME NEW n \in N PROVE n + 1 \in N
  <2>1. PICK it : Solves(it, n)
    OBVIOUS
  <2> DEFINE new == [s \in SUBSET S |-> IF Cardinality(s) <= n THEN it[s] ELSE SumAt(f, it, s)]
  <2>2. ASSUME NEW s \in SUBSET S, Cardinality(s) <= n + 1 PROVE new[s] = SumAt(f, new, s)
    <3>1. new[s] = SumAt(f, it, s)
      BY <2>1
    <3>2. SumAt(f, new, s) = SumAt(f, it, s)
      <4>1. CASE s = {}
        BY <4>1 DEF SumAt
      <4>2. CASE s # {}
        <5> DEFINE t == s \ {Pick(s)}
        <5>1. t \in SUBSET S /\ Cardinality(t) = Cardinality(s) - 1 /\ Cardinality(s) \in Nat
          BY <4>2, OneLess
        <5>2. n \in Nat /\ Cardinality(t) <= n
          BY <2>2, <5>1
        <5>3. new[t] = it[t]
          BY <5>1, <5>2
        <5> QED
          BY <4>2, <5>3 DEF SumAt
      <4> QED
        BY <4>1, <4>2
    <3> QED
      BY <3>1, <3>2
  <2> HIDE DEF new
  <2>3. n + 1 \in Nat
    OBVIOUS
  <2> QED
    BY <2>2, <2>3
<1>3. Cardinality(S) \in N
  <2>1. N = Nat
    <3>1. N \in SUBSET Nat
      OBVIOUS
    <3> HIDE DEF N
    <3> QED
      BY <1>1, <1>2, <3>1, Everything
  <2> HIDE DEF N
  <2> QED
    BY <2>1, FS_CardinalityType
<1>4. PICK it : Solves(it, Cardinality(S))
  BY <1>3
<1>5. \A s \in SUBSET S : it[s] = SumAt(f, it, s)
  BY <1>4, FS_Subset
<1> DEFINE sum == [s \in SUBSET S |-> it[s]]
<1>6. ASSUME NEW s \in SUBSET S PROVE SumAt(f, sum, s) = it[s]
  <2>1. s # {} => s \ {Pick(s)} \in SUBSET S
    OBVIOUS
  <2>2. SumAt(f, sum, s) = SumAt(f, it, s)
    BY <2>1 DEF SumAt
  <2> QED
    BY <1>5, <2>2
<1>7. sum = [s \in SUBSET S |-> SumAt(f, sum, s)]
  <2>1. [s \in SUBSET S |-> it[s]] = [s \in SUBSET S |-> SumAt(f, sum, s)]
    BY <1>6
  <2> QED
    BY <2>1
<1> QED
  BY <1>7 DEF IsSum

\* Any element may be taken out first.
LEMMA SumIs ==
  ASSUME NEW S, IsFiniteSet(S), NEW f \in [S -> Nat], NEW it, IsSum(f, S, it)
  PROVE  \A s \in SUBSET S :
             /\ it[s] \in Nat /\ \A x \in s : it[s] = f[x] + it[s \ {x}]
             /\ (\A x \in s : f[x] = 0) => it[s] = 0
<1>0. \A s \in SUBSET S : it[s] = SumAt(f, it, s)
  BY DEF IsSum
<1> DEFINE Fits(s) == /\ it[s] \in Nat /\ \A x \in s : it[s] = f[x] + it[s \ {x}]
                      /\ (\A x \in s : f[x] = 0) => it[s] = 0
<1> DEFINE N == {n \in Nat : \A s \in SUBSET S : Cardinality(s) <= n => Fits(s)}
<1>1. 0 \in N
  <2>1. ASSUME NEW s \in SUBSET S, Cardinality(s) <= 0 PROVE Fits(s)
    <3>1. s = {}
      BY <2>1, OneLess
    <3>2. it[s] = 0
      BY <1>0, <3>1 DEF SumAt
    <3> QED
      BY <3>1, <3>2
  <2> QED
    BY <2>1
<1>2. ASSUME NEW n \in N PROVE n + 1 \in N
  <2>0. n \in Nat /\ \A s \in SUBSET S : Cardinality(s) <= n => Fits(s)
    OBVIOUS
  <2>1. ASSUME NEW s \in SUBSET S, Cardinality(s) <= n + 1, s # {} PROVE Fits(s)
    <3> DEFINE c == Pick(s)
    <3>1. c \in s /\ it[s] = f[c] + it[s \ {c}]
      BY <1>0, <2>1, OneLess DEF SumAt
    <3>2. \A x \in s : s \ {x} \in SUBSET S /\ Cardinality(s \ {x}) <= n
      BY <2>0, <2>1, OneLess
    <3>3. \A x \in s : Fits(s \ {x})
      BY <2>0, <3>2
    <3> HIDE DEF c
    <3>4. ASSUME NEW x \in s PROVE it[s] = f[x] + it[s \ {x}]
      <4>1. CASE x = c
        BY <3>1, <4>1
      <4>2. CASE x # c
        <5>1. it[s \ {c}] = f[x] + it[(s \ {c}) \ {x}]
          BY <3>1, <3>3, <4>2
        <5>2. it[s \ {x}] = f[c] + it[(s \ {x}) \ {c}]
          BY <3>1, <3>3, <4>2
        <5>3. (s \ {c}) \ {x} = (s \ {x}) \ {c}
          OBVIOUS
        <5>4. PICK t : t = (s \ {c}) \ {x} /\ t \in SUBSET S
          OBVIOUS
        <5>5. Cardinality(t) <= n
          <6>1. s \ {c} \in SUBSET S /\ Cardinality(s \ {c}) <= n
            BY <3>1, <3>2
          <6>2. IsFiniteSet(s \ {c}) /\ Cardinality(s \ {c}) \in Nat
            BY <6>1, OneLess
          <6>3. t \in SUBSET (s \ {c})
            BY <5>4
          <6>4. Cardinality(t) \in Nat /\ Cardinality(t) <= Cardinality(s \ {c})
            BY <5>4, <6>2, <6>3, FS_Subset, OneLess
          <6> QED
            BY <2>0, <6>1, <6>2, <6>4
        <5>6. it[t] \in Nat /\ f[x] \in Nat /\ f[c] \in Nat
          BY <2>0, <3>1, <5>4, <5>5
        <5>7. it[s] = f[c] + (f[x] + it[t]) /\ it[s \ {x}] = f[c] + it[t]
          BY <3>1, <5>1, <5>2, <5>3, <5>4
        <5> QED
          BY <5>6, <5>7
      <4> QED
        BY <4>1, <4>2
    <3>5. it[s] \in Nat
      <4>1. it[s \ {c}] \in Nat /\ f[c] \in Nat
        BY <3>1, <3>3
      <4> QED
        BY <3>1, <4>1
    <3>6. (\A x \in s : f[x] = 0) => it[s] = 0
      BY <3>1, <3>3
    <3> QED
      BY <3>4, <3>5, <3>6
  <2>2. ASSUME NEW s \in SUBSET S, s = {} PROVE Fits(s)
    <3>1. it[s] = 0
      BY <1>0, <2>2 DEF SumAt
    <3> QED
      BY <2>2, <3>1
  <2>3. n + 1 \in Nat
    BY <2>0
  <2> HIDE DEF Fits
  <2> QED
    BY <2>1, <2>2, <2>3
<1>3. Cardinality(S) \in N
  <2>1. N \in SUBSET Nat
    OBVIOUS
  <2> HIDE DEF N
  <2>2. N = Nat
    BY <1>1, <1>2, <2>1, Everything
  <2> QED
    BY <2>2, FS_CardinalityType
<1>4. \A s \in SUBSET S : Cardinality(s) <= Cardinality(S)
  BY FS_Subset
<1> QED
  BY <1>3, <1>4

\* Without z two functions that differ in z only have the same sums.
LEMMA SumsAgree ==
  ASSUME NEW S, IsFiniteSet(S), NEW f, NEW g, NEW it, NEW jt, IsSum(f, S, it), IsSum(g, S, jt),
         NEW z, \A x \in S \ {z} : f[x] = g[x]
  PROVE  \A s \in SUBSET S : z \notin s => it[s] = jt[s]
<1>0. \A s \in SUBSET S : it[s] = SumAt(f, it, s) /\ jt[s] = SumAt(g, jt, s)
  BY DEF IsSum
<1> DEFINE N == {n \in Nat : \A s \in SUBSET S : Cardinality(s) <= n /\ z \notin s => it[s] = jt[s]}
<1>1. 0 \in N
  <2>1. ASSUME NEW s \in SUBSET S, Cardinality(s) <= 0 PROVE it[s] = jt[s]
    <3>1. s = {}
      BY <2>1, OneLess
    <3> QED
      BY <1>0, <3>1 DEF SumAt
  <2> QED
    BY <2>1
<1>2. ASSUME NEW n \in N PROVE n + 1 \in N
  <2>0. n \in Nat /\ \A s \in SUBSET S : Cardinality(s) <= n /\ z \notin s => it[s] = jt[s]
    OBVIOUS
  <2>1. ASSUME NEW s \in SUBSET S, Cardinality(s) <= n + 1, z \notin s PROVE it[s] = jt[s]
    <3>1. CASE s = {}
      BY <1>0, <3>1 DEF SumAt
    <3>2. CASE s # {}
      <4> DEFINE c == Pick(s)
      <4>1. c \in s /\ s \ {c} \in SUBSET S /\ Cardinality(s \ {c}) <= n
        BY <2>0, <2>1, <3>2, OneLess
      <4>2. it[s \ {c}] = jt[s \ {c}]
        BY <2>0, <2>1, <4>1
      <4>3. f[c] = g[c]
        BY <2>1, <4>1
      <4> QED
        BY <1>0, <3>2, <4>2, <4>3 DEF SumAt
    <3> QED
      BY <3>1, <3>2
  <2>2. n + 1 \in Nat
    BY <2>0
  <2> QED
    BY <2>1, <2>2
<1>3. Cardinality(S) \in N
  <2>1. N \in SUBSET Nat
    OBVIOUS
  <2> HIDE DEF N
  <2>2. N = Nat
    BY <1>1, <1>2, <2>1, Everything
  <2> QED
    BY <2>2, FS_CardinalityType
<1>4. \A s \in SUBSET S : Cardinality(s) <= Cardinality(S)
  BY FS_Subset
<1> QED
  BY <1>3, <1>4

\* A sum after one of its terms has changed.
LEMMA SumChanges ==
  ASSUME NEW S, IsFiniteSet(S), NEW f \in [S -> Nat], NEW g \in [S -> Nat],
         NEW z \in S, \A x \in S \ {z} : f[x] = g[x]
  PROVE  /\ Sum(f, S) \in Nat /\ Sum(g, S) \in Nat
         /\ Sum(g, S) + f[z] = Sum(f, S) + g[z]
<1> DEFINE it == CHOOSE h : IsSum(f, S, h)
<1> DEFINE jt == CHOOSE h : IsSum(g, S, h)
<1>1. IsSum(f, S, it) /\ IsSum(g, S, jt)
  BY SumExists
<1>2. Sum(f, S) = it[S] /\ Sum(g, S) = jt[S]
  BY DEF Sum
<1> HIDE DEF it, jt
<1>3. S \in SUBSET S /\ S \ {z} \in SUBSET S
  OBVIOUS
<1>4. /\ it[S] \in Nat /\ it[S] = f[z] + it[S \ {z}] /\ it[S \ {z}] \in Nat
  BY <1>1, <1>3, SumIs
<1>5. /\ jt[S] \in Nat /\ jt[S] = g[z] + jt[S \ {z}]
  BY <1>1, <1>3, SumIs
<1>6. it[S \ {z}] = jt[S \ {z}]
  <2>1. \A s \in SUBSET S : z \notin s => it[s] = jt[s]
    BY <1>1, SumsAgree
  <2> QED
    BY <2>1
<1> QED
  BY <1>2, <1>4, <1>5, <1>6

\* A sum of nothing.
LEMMA SumOfNone ==
  ASSUME NEW S, IsFiniteSet(S), NEW f \in [S -> Nat], \A x \in S : f[x] = 0
  PROVE  Sum(f, S) = 0
<1>1. IsSum(f, S, CHOOSE h : IsSum(f, S, h))
  BY SumExists
<1>2. S \in SUBSET S
  OBVIOUS
<1> QED
  BY <1>1, <1>2, SumIs DEF Sum

-----------------------------------------------------------------------------
(* The size of the memtable.                                               *)

\* What each key counts, and what they count together.
LenOf(m) == [k \in Key |-> IF m[k] \in Val THEN KeyLen[k] + ValLen[m[k]] ELSE 0]
Counts == memSize >= Sum(LenOf(mem), Key)

\* SizeCoversLive says that the counter is at least the sum.
LEMMA CountsIs == SizeCoversLive <=> Counts
<1> DEFINE len(k) == IF mem[k] \in Val THEN KeyLen[k] + ValLen[mem[k]] ELSE 0
<1> DEFINE by(it) == [s \in SUBSET Key |-> IF s = {} THEN 0 ELSE len(Pick(s)) + it[s \ {Pick(s)}]]
<1>1. SizeCoversLive <=> memSize >= (CHOOSE it : it = by(it))[Key]
  BY DEF SizeCoversLive, MapThenSumSet, MapThenFoldSet, Pick
<1>2. \A it : it = by(it) <=> IsSum(LenOf(mem), Key, it)
  <2> TAKE it
  <2>1. \A s \in SUBSET Key : s # {} => Pick(s) \in Key
    BY DEF Pick
  <2>2. \A s \in SUBSET Key : s # {} => LenOf(mem)[Pick(s)] = len(Pick(s))
    BY <2>1 DEF LenOf
  <2>3. by(it) = [s \in SUBSET Key |-> SumAt(LenOf(mem), it, s)]
    BY <2>2 DEF SumAt
  <2> QED
    BY <2>3 DEF IsSum
<1> HIDE DEF by
<1>3. (CHOOSE it : it = by(it)) = CHOOSE it : IsSum(LenOf(mem), Key, it)
  BY <1>2, Zenon
<1> QED
  BY <1>1, <1>3 DEF Counts, Sum

\* The lengths that the sum adds are numbers.
LEMMA LenOfIs ==
  ASSUME NEW m
  PROVE  LenOf(m) \in [Key -> Nat]
  BY LengthAssumption DEF LenOf

\* An empty memtable has nothing to count.
LEMMA EmptyCounts == ASSUME mem = Empty, memSize = 0 PROVE Counts
<1>1. \A k \in Key : LenOf(mem)[k] = 0
  BY CellAssumption DEF LenOf, Empty
<1>2. Sum(LenOf(mem), Key) = 0
  BY <1>1, LenOfIs, SumOfNone, KeyAssumption
<1> QED
  BY <1>2 DEF Counts

\* Applying a record, live or on replay, adds at least what the memtable gains.
LEMMA RecordCounted ==
  ASSUME mem \in T!Content, memSize \in Int, NEW r \in W!Record, Counts,
         Replay(r) \/ (Apply(r) /\ (r.val = Tomb => mem[r.key] # Tomb))
  PROVE  memSize' >= Sum(LenOf(mem'), Key)
<1> DEFINE f == LenOf(mem)
<1> DEFINE g == LenOf(mem')
<1>1. /\ mem' = [mem EXCEPT ![r.key] = r.val] /\ memSize' \in Int
      /\ r.key \in Key /\ r.val \in Val \cup {Tomb}
  BY RecordApplied
<1>2. f \in [Key -> Nat] /\ g \in [Key -> Nat]
  BY LenOfIs
<1>3. \A k \in Key \ {r.key} : f[k] = g[k]
  BY <1>1 DEF LenOf, T!Content
<1>4. /\ Sum(f, Key) \in Nat /\ Sum(g, Key) \in Nat
      /\ Sum(g, Key) + f[r.key] = Sum(f, Key) + g[r.key]
  <2> HIDE DEF f, g
  <2>1. r.key \in Key
    BY <1>1
  <2> QED
    BY <1>2, <1>3, <2>1, SumChanges, KeyAssumption
<1>5. /\ f[r.key] = IF mem[r.key] \in Val THEN KeyLen[r.key] + ValLen[mem[r.key]] ELSE 0
      /\ g[r.key] = IF r.val \in Val THEN KeyLen[r.key] + ValLen[r.val] ELSE 0
  BY <1>1 DEF LenOf, T!Content
<1>6. /\ KeyLen[r.key] \in Nat
      /\ \A v \in Val : ValLen[v] \in Nat
      /\ mem[r.key] \in Val \cup {Tomb, Absent}
  BY <1>1, LengthAssumption DEF T!Content, T!Cell
<1>7. memSize >= Sum(f, Key)
  BY DEF Counts
<1> HIDE DEF f, g
<1>8. CASE r.val # Tomb
  <2>1. /\ PutSet(r.key, r.val) /\ r.val \in Val
    BY <1>1, <1>8 DEF Replay, Apply
  <2>2. memSize' = memSize - f[r.key] + g[r.key]
    BY <1>5, <1>6, <2>1 DEF PutSet, EntryLen, LiveInMem
  <2>3. f[r.key] \in Nat /\ g[r.key] \in Nat
    BY <1>1, <1>2
  <2> QED
    BY <1>1, <1>4, <1>7, <2>2, <2>3 DEF g
<1>9. CASE r.val = Tomb /\ Replay(r)
  <2>1. memSize' = memSize - f[r.key] /\ g[r.key] = 0
    BY <1>5, <1>9, CellAssumption DEF Replay, ReplayDel, EntryLen, LiveInMem
  <2>2. f[r.key] \in Nat
    BY <1>1, <1>2
  <2> QED
    BY <1>1, <1>4, <1>7, <2>1, <2>2 DEF g
<1>10. CASE r.val = Tomb /\ Apply(r) /\ mem[r.key] # Tomb
  <2>1. g[r.key] = 0 /\ PutDel(r.key)
    BY <1>5, <1>10, CellAssumption DEF Apply
  <2>2. memSize' >= memSize - f[r.key]
    <3>1. CASE mem[r.key] = Absent
      BY <1>5, <1>6, <2>1, <3>1, CellAssumption DEF PutDel
    <3>2. CASE mem[r.key] \in Val
      BY <1>5, <1>6, <2>1, <3>2, CellAssumption DEF PutDel
    <3> QED
      BY <1>6, <1>10, <3>1, <3>2
  <2>3. f[r.key] \in Nat
    BY <1>1, <1>2
  <2> QED
    BY <1>1, <1>4, <1>7, <2>1, <2>2, <2>3 DEF g
<1> QED
  BY <1>8, <1>9, <1>10

\* Every step of the engine keeps the count.
LEMMA NextCounts == IInv /\ Counts /\ [Next]_vars => Counts'
<1> SUFFICES ASSUME IInv, Counts, [Next]_vars PROVE Counts'
  OBVIOUS
<1>0. mem \in T!Content /\ memSize \in Int /\ Control
  BY DEF IInv, Tables, Typed
<1>1. CASE ReplayRecord
  <2>1. wal[walPos + 1] \in W!Record
    BY <1>0, <1>1, LogFacts DEF ReplayRecord, W!ReplayRecord
  <2>2. PICK r \in W!Record : Replay(r)
    BY <1>1, <2>1 DEF ReplayRecord
  <2>3. memSize' >= Sum(LenOf(mem'), Key)
    BY <1>0, <2>2, RecordCounted
  <2> QED
    BY <2>3 DEF Counts
<1>2. CASE Logged
  <2>1. walReq \in W!Record
    BY <1>0, <1>2, LogFacts DEF Logged
  <2>2. Apply(walReq) /\ (walReq.val = Tomb => mem[walReq.key] # Tomb)
    BY <1>2 DEF Logged, IInv, Tables, DeletesLive
  <2>3. PICK r \in W!Record : Apply(r) /\ (r.val = Tomb => mem[r.key] # Tomb)
    BY <2>1, <2>2
  <2>4. memSize' >= Sum(LenOf(mem'), Key)
    BY <1>0, <2>3, RecordCounted
  <2> QED
    BY <2>4 DEF Counts
<1>3. CASE FlushEnd \/ Throw \/ Crash \/ PowerLoss
  <2>1. mem' = Empty /\ memSize' = 0
    BY <1>3, EndsAndWriteBacks DEF FlushEnd, Throw, Crash, PowerLoss, EndProcess, Gone
  <2>2. mem = Empty /\ memSize = 0 => Counts
    BY EmptyCounts
  <2>3. (mem = Empty /\ memSize = 0 => Counts)'
    BY EmptyCounts, PTL
  <2> QED
    BY <2>1, <2>3 DEF Empty
<1>4. CASE UNCHANGED memVars
  BY <1>4 DEF memVars, Counts
<1>5. \/ ReplayRecord \/ Logged \/ FlushEnd \/ Throw \/ Crash \/ PowerLoss \/ UNCHANGED memVars
  <2>1. CASE Next
    <3>1. (\E k \in Key : Del(k) \/ \E v \in Val : Set(k, v)) => UNCHANGED memVars
      BY DEF Del, Set
    <3> QED
      BY <2>1, <3>1, StepCases DEF Start, EndRecovery, OpenManifest, WriteManifest, LogStep, LogFails,
         ReadThrows, FlushCreate, FlushWrite, FlushSyncDir, FlushAdd, FlushAdded, FlushTruncate,
         Compact, CompactToNothing, CompactCreate, CompactWrite, CompactSyncDir, CompactSwap,
         CompactSwapped, CompactRemove, WriteBack
  <2> QED
    BY <2>1 DEF vars
<1> QED
  BY <1>1, <1>2, <1>3, <1>4, <1>5

\* mem_table_size never is below what the live keys and values of the memtable
\* count, so that taking one of them off it, which set(), del() and the replay
\* do, never wraps the unsigned counter.
THEOREM SizeNeverWraps == Spec => []SizeCoversLive
<1>1. Init => Counts
  BY EmptyCounts DEF Init
<1> QED
  BY <1>1, NextCounts, CountsIs, Inductive, PTL DEF Spec

-----------------------------------------------------------------------------
(* What a scan finds.                                                      *)

\* One table's cells for the keys S, added to those there already.
Older(S, id, acc) ==
    [k \in Key |-> IF acc[k] # Absent \/ k \notin S THEN acc[k] ELSE tables[id][k]]

ScansTo(S, it) ==
    it = [s \in SUBSET DOMAIN man.list |->
             IF s = {} THEN mem ELSE Older(S, man.list[Min(s)], it[s \ {Min(s)}])]

\* A scan in terms of the one function that its recursion defines.
LEMMA ScanIs ==
  ASSUME NEW S
  PROVE  LET all == (CHOOSE it : ScansTo(S, it))[DOMAIN man.list]
         IN  Scan(S) = [k \in {q \in S : Live(all[q]) # Absent} |-> all[k]]
  BY DEF Scan, FoldRight, MapThenFoldSet, ScansTo, Older

\* NewestCell among the tables at the places s.
Among(s, k) ==
    LET holders == {n \in s : tables[man.list[n]][k] # Absent}
    IN  IF holders = {} THEN Absent ELSE tables[man.list[Max(holders)]][k]

\* With the oldest of these tables, and without it.
LEMMA AmongOlder ==
  ASSUME NEW N \in Nat, NEW s \in SUBSET (0..N), s # {}, NEW k
  PROVE  Among(s, k) = IF Among(s \ {Min(s)}, k) # Absent THEN Among(s \ {Min(s)}, k)
                       ELSE tables[man.list[Min(s)]][k]
<1> DEFINE m == Min(s)
<1> DEFINE t == s \ {m}
<1> DEFINE has(n) == tables[man.list[n]][k] # Absent
<1> DEFINE hs == {n \in s : has(n)}
<1> DEFINE ht == {n \in t : has(n)}
<1>0. s \in SUBSET Nat
  OBVIOUS
<1>1. m \in s /\ m \in Nat /\ \A n \in s : m <= n
  BY <1>0, MinIsLeast
<1>2. /\ Among(s, k) = IF hs = {} THEN Absent ELSE tables[man.list[Max(hs)]][k]
      /\ Among(t, k) = IF ht = {} THEN Absent ELSE tables[man.list[Max(ht)]][k]
  BY DEF Among
<1> HIDE DEF m
<1>3. CASE ht # {}
  <2>1. Max(ht) \in ht /\ \A n \in ht : n <= Max(ht)
    <3>1. ht \in SUBSET (0..N)
      OBVIOUS
    <3> HIDE DEF ht
    <3> QED
      BY <1>3, <3>1, MaxIsGreatest
  <2> DEFINE x == Max(ht)
  <2>2. x \in ht /\ x \in Nat /\ \A n \in ht : n <= x
    <3>1. ht \in SUBSET Nat
      BY <1>0
    <3> HIDE DEF ht
    <3> QED
      BY <2>1, <3>1
  <2> HIDE DEF x
  <2>3. x \in hs /\ \A n \in hs : n <= x
    BY <1>1, <2>2
  <2>4. Max(hs) = x
    <3>1. hs \in SUBSET Nat
      BY <1>0
    <3> HIDE DEF hs
    <3> QED
      BY <2>3, <3>1, MaxIs
  <2>5. has(x)
    BY <2>2
  <2> QED
    BY <1>2, <1>3, <2>3, <2>4, <2>5 DEF m, x
<1>4. CASE ht = {} /\ has(m)
  <2>1. hs = {m}
    BY <1>1, <1>4
  <2>2. Max(hs) = m
    <3>1. m \in hs /\ hs \in SUBSET Nat /\ \A n \in hs : n <= m
      BY <1>1, <2>1
    <3> HIDE DEF hs
    <3> QED
      BY <3>1, MaxIs
  <2> QED
    BY <1>2, <1>4, <2>1, <2>2 DEF m
<1>5. CASE ht = {} /\ ~has(m)
  <2>1. hs = {}
    BY <1>5
  <2> QED
    BY <1>2, <1>5, <2>1 DEF m
<1> QED
  BY <1>3, <1>4, <1>5

\* The recursion of the fold has one solution, and this is it.
LEMMA ScansToThis ==
  ASSUME NEW S \in SUBSET Key, mem \in T!Content, man.list \in Seq(Nat), NEW it, ScansTo(S, it),
         NEW k \in Key
  PROVE  \A s \in SUBSET DOMAIN man.list :
             it[s][k] = IF mem[k] # Absent \/ k \notin S THEN mem[k] ELSE Among(s, k)
<1> DEFINE l == man.list
<1> DEFINE n == Len(l)
<1>0. DOMAIN l = 1..n /\ n \in Nat
  OBVIOUS
<1> DEFINE found(s) == IF mem[k] # Absent \/ k \notin S THEN mem[k] ELSE Among(s, k)
<1>1. ASSUME NEW s \in SUBSET DOMAIN l, s # {}
      PROVE  /\ Min(s) \in s /\ s \ {Min(s)} \in SUBSET DOMAIN l
             /\ it[s] = Older(S, l[Min(s)], it[s \ {Min(s)}])
  <2>1. s \in SUBSET Nat
    BY <1>0
  <2>2. Min(s) \in s
    BY <1>1, <2>1, MinIsLeast
  <2> QED
    BY <1>1, <2>2 DEF ScansTo
<1>2. IsFiniteSet(DOMAIN l)
  BY <1>0, FS_Interval
<1> DEFINE Sizes == {m \in Nat : \A s \in SUBSET DOMAIN l : Cardinality(s) <= m => it[s][k] = found(s)}
<1> HIDE DEF l, n
<1>3. ASSUME NEW s \in SUBSET DOMAIN l, s = {} PROVE it[s][k] = found(s)
  <2>1. it[s] = mem
    BY <1>3 DEF ScansTo, l
  <2>2. Among(s, k) = Absent
    BY <1>3 DEF Among
  <2> QED
    BY <2>1, <2>2
<1>4. 0 \in Sizes
  <2>1. ASSUME NEW s \in SUBSET DOMAIN l, Cardinality(s) <= 0 PROVE s = {}
    BY <1>2, <2>1, OneLess
  <2> HIDE DEF found
  <2> QED
    BY <1>3, <2>1
<1>5. ASSUME NEW m \in Sizes PROVE m + 1 \in Sizes
  <2>0. m \in Nat /\ \A s \in SUBSET DOMAIN l : Cardinality(s) <= m => it[s][k] = found(s)
    OBVIOUS
  <2>1. ASSUME NEW s \in SUBSET DOMAIN l, Cardinality(s) <= m + 1, s # {}
        PROVE  it[s][k] = found(s)
    <3> DEFINE x == Min(s)
    <3> DEFINE t == s \ {x}
    <3>1. x \in s /\ t \in SUBSET DOMAIN l /\ it[s] = Older(S, l[x], it[t])
      BY <1>1, <2>1
    <3>2. Cardinality(t) <= m
      BY <1>2, <2>0, <2>1, <3>1, OneLess
    <3>3. it[t][k] = found(t)
      BY <2>0, <3>1, <3>2
    <3>4. Among(s, k) = IF Among(t, k) # Absent THEN Among(t, k) ELSE tables[l[x]][k]
      <4>1. s \in SUBSET (0..n)
        BY <1>0 DEF l, n
      <4>2. n \in Nat
        BY <1>0 DEF l, n
      <4> QED
        BY <2>1, <4>1, <4>2, AmongOlder DEF l
    <3>5. it[s][k] = IF it[t][k] # Absent \/ k \notin S THEN it[t][k] ELSE tables[l[x]][k]
      BY <3>1 DEF Older
    <3> QED
      BY <3>3, <3>4, <3>5
  <2>2. m + 1 \in Nat
    BY <2>0
  <2> HIDE DEF found
  <2> QED
    BY <1>3, <2>1, <2>2
<1>6. Cardinality(DOMAIN l) \in Sizes
  <2>1. Sizes \in SUBSET Nat
    OBVIOUS
  <2> HIDE DEF Sizes
  <2>2. Sizes = Nat
    BY <1>4, <1>5, <2>1, Everything
  <2> QED
    BY <1>2, <2>2, FS_CardinalityType
<1>7. \A s \in SUBSET DOMAIN l : Cardinality(s) <= Cardinality(DOMAIN l)
  BY <1>2, FS_Subset
<1> QED
  BY <1>6, <1>7 DEF l

\* It has one.
LEMMA ScansSomewhere ==
  ASSUME NEW S \in SUBSET Key, mem \in T!Content, man.list \in Seq(Nat)
  PROVE  \E it : ScansTo(S, it)
<1> DEFINE l == man.list
<1> DEFINE n == Len(l)
<1> DEFINE found(s) == [k \in Key |-> IF mem[k] # Absent \/ k \notin S THEN mem[k] ELSE Among(s, k)]
<1> DEFINE it == [s \in SUBSET DOMAIN l |-> found(s)]
<1>0. DOMAIN l = 1..n /\ n \in Nat
  OBVIOUS
<1>1. found({}) = mem
  <2>1. \A k \in Key : Among({}, k) = Absent
    BY DEF Among
  <2>2. \A k \in Key : found({})[k] = mem[k]
    BY <2>1
  <2> QED
    BY <2>2 DEF T!Content
<1>2. ASSUME NEW s \in SUBSET DOMAIN l, s # {}
      PROVE  it[s] = Older(S, l[Min(s)], it[s \ {Min(s)}])
  <2> DEFINE t == s \ {Min(s)}
  <2>1. t \in SUBSET DOMAIN l
    OBVIOUS
  <2>2. \A k : Among(s, k) = IF Among(t, k) # Absent THEN Among(t, k) ELSE tables[l[Min(s)]][k]
    <3>1. s \in SUBSET (0..n)
      BY <1>0
    <3> QED
      BY <1>0, <1>2, <3>1, AmongOlder
  <2>3. it[t] = found(t) /\ it[s] = found(s)
    BY <2>1
  <2> HIDE DEF it, t
  <2>4. \A k \in Key : found(s)[k] = IF found(t)[k] # Absent \/ k \notin S THEN found(t)[k]
                                    ELSE tables[l[Min(s)]][k]
    BY <2>2
  <2>5. found(s) = [k \in Key |-> IF found(t)[k] # Absent \/ k \notin S THEN found(t)[k]
                                  ELSE tables[l[Min(s)]][k]]
    <3> DEFINE g == [k \in Key |-> IF found(t)[k] # Absent \/ k \notin S THEN found(t)[k]
                                  ELSE tables[l[Min(s)]][k]]
    <3>1. \A k \in Key : found(s)[k] = g[k]
      BY <2>4
    <3> QED
      BY <3>1
  <2> HIDE DEF found
  <2> QED
    BY <2>3, <2>5 DEF Older, t
<1>3. it = [s \in SUBSET DOMAIN l |->
               IF s = {} THEN mem ELSE Older(S, l[Min(s)], it[s \ {Min(s)}])]
  <2> DEFINE g(s) == IF s = {} THEN mem ELSE Older(S, l[Min(s)], it[s \ {Min(s)}])
  <2>1. \A s \in SUBSET DOMAIN l : found(s) = g(s)
    <3>1. \A s \in SUBSET DOMAIN l : it[s] = found(s)
      OBVIOUS
    <3> HIDE DEF it, found
    <3> QED
      BY <1>1, <1>2, <3>1
  <2>2. [s \in SUBSET DOMAIN l |-> found(s)] = [s \in SUBSET DOMAIN l |-> g(s)]
    <3> HIDE DEF found, g
    <3> QED
      BY <2>1
  <2> QED
    BY <2>2
<1> HIDE DEF it
<1> QED
  BY <1>3 DEF ScansTo

\* keys(), range() and prefix_scan() list a key if and only if get() finds it, with
\* the value that get() finds, for any number of tables and in whatever of them the
\* key has cells.
THEOREM ScansListWhatGetFinds == Spec => []ScansAgreeWithGets
<1>1. IInv => ScansAgreeWithGets
  <2> SUFFICES ASSUME IInv, pc = "idle", NEW S \in SUBSET Key
               PROVE  Scan(S) = [k \in {q \in S : Get(q) # Absent} |-> Get(k)]
    BY DEF ScansAgreeWithGets
  <2>1. mem \in T!Content /\ man.list \in Seq(Nat)
    BY ManFacts DEF IInv, Tables, Typed, Listed, Starting
  <2> DEFINE it == CHOOSE h : ScansTo(S, h)
  <2> DEFINE all == it[DOMAIN man.list]
  <2>2. Scan(S) = [k \in {q \in S : Live(all[q]) # Absent} |-> all[k]]
    BY ScanIs
  <2>3. ScansTo(S, it)
    BY <2>1, ScansSomewhere
  <2> HIDE DEF it
  <2>4. ASSUME NEW k \in S PROVE Live(all[k]) = Get(k)
    <3>1. all[k] = IF mem[k] # Absent \/ k \notin S THEN mem[k] ELSE Among(DOMAIN man.list, k)
      BY <2>1, <2>3, ScansToThis
    <3>2. Among(DOMAIN man.list, k) = NewestCell(man.list, tables, k)
      BY DEF Among, NewestCell
    <3> QED
      BY <3>1, <3>2 DEF Get
  <2>5. \A c : Live(c) # Absent => Live(c) = c
    BY DEF Live
  <2> HIDE DEF all
  <2>6. {q \in S : Live(all[q]) # Absent} = {q \in S : Get(q) # Absent}
    BY <2>4
  <2>7. \A k \in {q \in S : Get(q) # Absent} : all[k] = Get(k)
    BY <2>4, <2>5
  <2> QED
    BY <2>2, <2>6, <2>7
<1> QED
  BY <1>1, Inductive, PTL

=============================================================================
