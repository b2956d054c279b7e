--------------------------- MODULE Manifest_proofs ---------------------------
(* What holds of the manifest for any number of SSTables.                  *)
EXTENDS Manifest, FiniteSetTheorems, TLAPS

\* A complete manifest whose indices are ascending and below its next one.
Good(m) ==
    /\ m \in Contents
    /\ \A n \in DOMAIN m.list : m.list[n] < m.next
    /\ \A a, b \in DOMAIN m.list : a < b => m.list[a] < m.list[b]

\* Both copies are complete or not there, and stable storage is not ahead.
FilesOK ==
    /\ man = NoFile \/ Good(man)
    /\ manDisk = NoFile \/ (Good(manDisk) /\ man # NoFile /\ manDisk.next <= man.next)

\* What the object knows at each point of write_manifest().
ObjectOK ==
    /\ manOpen => man # NoFile
    /\ manPc # "none" /\ man # NoFile => manNext = man.next
    /\ manPc \in {"ready", "dirsync", "ok"} => man # NoFile
    /\ manPc \notin {"none", "ready"} /\ manOp # "create" => man # NoFile
    /\ manPc \in {"write", "rename"} =>
          Good(manArg) /\ (man # NoFile => man.next <= manArg.next)
    /\ manPc = "rename" => tempSynced

IInv == TypeOK /\ FilesOK /\ ObjectOK

-----------------------------------------------------------------------------
\* Subtracting a list from itself, which is what compaction asks of
\* subtract_vectors(), leaves nothing.
LEMMA SubtractSelf == ASSUME NEW s PROVE Subtract(s, s) = <<>>
<1> DEFINE kept == {p \in DOMAIN s : \A q \in DOMAIN s : s[p] # s[q]}
<1>1. kept = {}
  OBVIOUS
<1>2. Cardinality(kept) = 0
  BY <1>1, FS_EmptySet
<1>3. 1..0 = {}
  OBVIOUS
<1> HIDE DEF kept
<1> DEFINE at(n) == s[CHOOSE p \in kept : Rank(kept, p) = n]
<1>4. Subtract(s, s) = [n \in 1..Cardinality(kept) |-> at(n)]
  BY DEF Subtract, Picked, InOrder, kept
<1> HIDE DEF at
<1> QED
  BY <1>2, <1>3, <1>4

\* An empty manifest is a good one.
LEMMA EmptyGood == ASSUME NEW n \in Nat PROVE Good([next |-> n, list |-> <<>>])
  BY DEF Good, Contents

\* So is one with one more index, which was the next one.
LEMMA AppendGood ==
  ASSUME NEW m, Good(m)
  PROVE  Good([next |-> m.next + 1, list |-> Append(m.list, m.next)])
<1> DEFINE l == Append(m.list, m.next)
<1>1. m.next \in Nat /\ m.list \in Seq(Nat)
  BY DEF Good, Contents
<1>2. l \in Seq(Nat) /\ Len(l) = Len(m.list) + 1 /\ l[Len(l)] = m.next
  BY <1>1
<1>3. \A n \in 1..Len(m.list) : l[n] = m.list[n]
  BY <1>1
<1>4. DOMAIN l = 1..Len(l) /\ DOMAIN m.list = 1..Len(m.list) /\ Len(m.list) \in Nat
  BY <1>1, <1>2
<1> HIDE DEF l
<1>5. \A n \in 1..Len(m.list) : m.list[n] \in Nat /\ m.list[n] < m.next
  BY <1>1, <1>4 DEF Good
<1>6. \A n \in DOMAIN l : l[n] < m.next + 1
  <2> SUFFICES ASSUME NEW n \in 1..Len(l) PROVE l[n] < m.next + 1
    BY <1>4
  <2>1. CASE n = Len(l)
    BY <1>1, <1>2, <2>1
  <2>2. CASE n # Len(l)
    <3>1. n \in 1..Len(m.list)
      BY <1>2, <1>4, <2>2
    <3> QED
      BY <1>1, <1>3, <1>5, <3>1
  <2> QED
    BY <2>1, <2>2
<1>7. \A a, b \in DOMAIN l : a < b => l[a] < l[b]
  <2> SUFFICES ASSUME NEW a \in 1..Len(l), NEW b \in 1..Len(l), a < b PROVE l[a] < l[b]
    BY <1>4
  <2>1. a \in 1..Len(m.list)
    BY <1>2, <1>4
  <2>2. CASE b = Len(l)
    BY <1>2, <1>3, <1>5, <2>1, <2>2
  <2>3. CASE b # Len(l)
    <3>1. b \in 1..Len(m.list)
      BY <1>2, <1>4, <2>3
    <3>2. m.list[a] < m.list[b]
      BY <1>4, <2>1, <3>1 DEF Good
    <3> QED
      BY <1>3, <2>1, <3>1, <3>2
  <2> QED
    BY <2>2, <2>3
<1>8. Good([next |-> m.next + 1, list |-> l])
  BY <1>1, <1>2, <1>6, <1>7 DEF Good, Contents
<1> QED
  BY <1>8 DEF l

-----------------------------------------------------------------------------
\* A new database satisfies the invariant.
LEMMA InitIInv == Init => IInv
<1> SUFFICES ASSUME Init PROVE IInv
  OBVIOUS
<1>1. TypeOK
  BY DEF Init, TypeOK, Ops, Pcs
<1>2. FilesOK
  BY DEF Init, FilesOK
<1>3. ObjectOK
  BY DEF Init, ObjectOK
<1> QED
  BY <1>1, <1>2, <1>3 DEF IInv

\* Calling write_manifest() with a good manifest that does not go back keeps it.
LEMMA StartWriteIInv ==
  ASSUME IInv, NEW op \in Ops \ {"none"}, NEW next \in Nat, NEW list \in Seq(Nat),
         StartWrite(op, next, list),
         manPc \in {"none", "ready"},
         op # "create" => manPc = "ready",
         manPc = "none" => man = NoFile,
         Good([next |-> next, list |-> list]),
         man # NoFile => man.next <= next
  PROVE  IInv'
<1>1. manArg' = [next |-> next, list |-> list] /\ manArg'.next = next /\ Good(manArg')
  BY DEF StartWrite
<1>2. TypeOK'
  BY <1>1 DEF IInv, TypeOK, StartWrite, Pcs, diskVars, objVars, Good
<1>3. FilesOK'
  BY DEF IInv, FilesOK, StartWrite, diskVars, Good
<1>4. ObjectOK'
  BY <1>1 DEF IInv, ObjectOK, StartWrite, diskVars, objVars, Good
<1> QED
  BY <1>2, <1>3, <1>4 DEF IInv

\* Every step of the manifest, of its caller and of the environment preserves it.
LEMMA NextIInv == IInv /\ [Next]_vars => IInv'
<1> SUFFICES ASSUME IInv, [Next]_vars PROVE IInv'
  OBVIOUS
<1> USE NoFileAssumption, NoFileTornAssumption
<1>0. ASSUME manPc = "ready"
      PROVE  Good(man) /\ manNext = man.next /\ man.next \in Nat /\ man.list \in Seq(Nat)
  BY <1>0 DEF IInv, FilesOK, ObjectOK, Good, Contents
<1>1. CASE Load
  BY <1>1 DEF Load, IInv, TypeOK, FilesOK, ObjectOK, Pcs, Ops, Contents, diskVars, Good
<1>2. CASE Create
  <2>1. Good([next |-> 0, list |-> <<>>])
    BY EmptyGood
  <2>2. "create" \in Ops \ {"none"} /\ 0 \in Nat /\ <<>> \in Seq(Nat)
    BY DEF Ops
  <2>3. manPc = "none" /\ man = NoFile /\ StartWrite("create", 0, <<>>)
    BY <1>2 DEF Create
  <2> QED
    BY <2>1, <2>2, <2>3, StartWriteIInv
<1>3. CASE manNext < MaxTables /\ AddNewIndex(manNext)
  <2>1. Good([next |-> man.next + 1, list |-> Append(man.list, man.next)])
    BY <1>3, <1>0, AppendGood DEF AddNewIndex, CanCall
  <2>2. /\ manPc = "ready" /\ manNext = man.next /\ man.next \in Nat /\ man.list \in Seq(Nat)
        /\ StartWrite("add", man.next + 1, Append(man.list, man.next))
    BY <1>3, <1>0 DEF AddNewIndex, CanCall
  <2>3. /\ "add" \in Ops \ {"none"} /\ man.next + 1 \in Nat /\ man.next <= man.next + 1
        /\ Append(man.list, man.next) \in Seq(Nat)
    BY <2>2 DEF Ops
  <2> QED
    BY <2>1, <2>2, <2>3, StartWriteIInv
<1>4. CASE CanCall /\ RemoveIndices(man.list)
  <2>1. Good([next |-> manNext, list |-> <<>>])
    BY <1>4, <1>0, EmptyGood DEF CanCall
  <2>2. manPc = "ready" /\ manNext = man.next /\ man.next \in Nat
    BY <1>4, <1>0 DEF CanCall
  <2>3. StartWrite("remove", manNext, <<>>)
    BY <1>4, SubtractSelf DEF RemoveIndices
  <2>4. "remove" \in Ops \ {"none"} /\ <<>> \in Seq(Nat) /\ man.next <= manNext /\ manNext \in Nat
    BY <2>2 DEF Ops
  <2> QED
    BY <2>1, <2>2, <2>3, <2>4, StartWriteIInv
<1>5. CASE manNext < MaxTables /\ CanCall /\ ReplaceIndices(man.list, manNext)
  <2> DEFINE empty == [next |-> man.next, list |-> <<>>]
             one   == Append(<<>>, man.next)
  <2>1. manPc = "ready" /\ manNext = man.next /\ man.next \in Nat
    BY <1>5, <1>0 DEF CanCall
  <2>2. Good(empty) /\ empty.next = man.next /\ empty.list = <<>>
    BY <2>1, EmptyGood
  <2>3. Good([next |-> empty.next + 1, list |-> Append(empty.list, empty.next)])
    BY <2>2, AppendGood
  <2>4. Good([next |-> man.next + 1, list |-> one])
    BY <2>2, <2>3
  <2>5. StartWrite("replace", man.next + 1, one)
    BY <1>5, <2>1, SubtractSelf DEF ReplaceIndices
  <2>6. /\ "replace" \in Ops \ {"none"} /\ one \in Seq(Nat)
        /\ man.next <= man.next + 1 /\ man.next + 1 \in Nat
    BY <2>1 DEF Ops
  <2> HIDE DEF one
  <2> QED
    BY <2>1, <2>4, <2>5, <2>6, StartWriteIInv
<1>6. CASE WriteTemp
  BY <1>6 DEF WriteTemp, IInv, TypeOK, FilesOK, ObjectOK, Pcs, diskVars, objVars, Good
<1>7. CASE WriteTempFail
  BY <1>7 DEF WriteTempFail, IInv, TypeOK, FilesOK, ObjectOK, Pcs, diskVars, objVars, Good
<1>8. CASE Rename
  <2>1. /\ Good(manArg) /\ man' = manArg /\ manDisk' \in {manDisk, manArg}
        /\ manNext' = manArg.next /\ manArg.next \in Nat /\ man' # NoFile
    BY <1>8 DEF Rename, IInv, ObjectOK, Good, Contents
  <2>2. TypeOK'
    BY <1>8, <2>1 DEF Rename, IInv, TypeOK, Pcs, Good
  <2>3. FilesOK'
    BY <1>8, <2>1 DEF Rename, IInv, FilesOK, ObjectOK, Good, Contents
  <2>4. ObjectOK'
    BY <1>8, <2>1 DEF Rename, IInv, ObjectOK
  <2> QED
    BY <2>2, <2>3, <2>4 DEF IInv
<1>9. CASE RenameFail
  BY <1>9 DEF RenameFail, IInv, TypeOK, FilesOK, ObjectOK, Pcs, diskVars, Good
<1>10. CASE SyncDir
  BY <1>10 DEF SyncDir, IInv, TypeOK, FilesOK, ObjectOK, Pcs, objVars, Good, Contents
<1>11. CASE SyncDirFail
  BY <1>11 DEF SyncDirFail, IInv, TypeOK, FilesOK, ObjectOK, Pcs, diskVars, objVars, Good
<1>12. CASE Returned(TRUE)
  BY <1>12 DEF Returned, IInv, TypeOK, FilesOK, ObjectOK, Pcs, Ops, diskVars, objVars, Good
<1>13. CASE manOp # "create" /\ Returned(FALSE)
  BY <1>13 DEF Returned, IInv, TypeOK, FilesOK, ObjectOK, Pcs, Ops, diskVars, objVars, Good
<1>14. CASE Crash
  BY <1>14 DEF Crash, Gone, IInv, TypeOK, FilesOK, ObjectOK, Pcs, Ops, diskVars, Good
<1>15. CASE PowerLoss
  <2>1. man' = manDisk /\ manDisk' = manDisk /\ manPc' = "none" /\ ~manOpen'
    BY <1>15 DEF PowerLoss, Gone
  <2>2. TypeOK'
    BY <1>15 DEF PowerLoss, Gone, IInv, TypeOK, Pcs, Ops
  <2>3. FilesOK'
    <3>1. manDisk # NoFile => manDisk.next \in Nat
      BY DEF IInv, FilesOK, Good, Contents
    <3> QED
      BY <2>1, <3>1 DEF IInv, FilesOK, Good
  <2>4. ObjectOK'
    BY <2>1 DEF ObjectOK
  <2> QED
    BY <2>2, <2>3, <2>4 DEF IInv
<1>16. CASE WriteBack
  BY <1>16 DEF WriteBack, IInv, TypeOK, FilesOK, ObjectOK, objVars, callVars, Good, Contents
<1>17. CASE UNCHANGED vars
  BY <1>17 DEF vars, IInv, TypeOK, FilesOK, ObjectOK, diskVars, objVars, callVars, Good
<1> QED
  BY <1>1, <1>2, <1>3, <1>4, <1>5, <1>6, <1>7, <1>8, <1>9, <1>10, <1>11, <1>12, <1>13,
     <1>14, <1>15, <1>16, <1>17 DEF Next

-----------------------------------------------------------------------------
\* The strengthened invariant is one.
LEMMA Inductive == Spec => []IInv
<1> QED
  BY InitIInv, NextIInv, PTL DEF Spec

\* Each variable of the manifest always holds a value of its type.
THEOREM TypeCorrect == Spec => []TypeOK
<1>1. IInv => TypeOK
  BY DEF IInv
<1> QED
  BY <1>1, Inductive, PTL

\* Whichever step of write_manifest() fails or is cut short by a crash or a
\* power loss, a complete manifest is found, by a process and on stable storage.
THEOREM ReplacedAtomically == Spec => []NeverTorn
<1>1. IInv => NeverTorn
  BY NoFileAssumption, NoFileTornAssumption DEF IInv, FilesOK, Good, NeverTorn
<1> QED
  BY <1>1, Inductive, PTL

\* No surviving manifest lists an index that could be handed out again, and
\* stable storage is never ahead of what a process finds.
THEOREM IndicesNeverReused == Spec => []NextAboveListed
<1>1. IInv => NextAboveListed
  BY NoFileAssumption DEF IInv, FilesOK, Good, Contents, NextAboveListed
<1> QED
  BY <1>1, Inductive, PTL

\* The next index that the object caches is the one in the file.
THEOREM CacheIsCurrent == Spec => []CachedNextIsCurrent
<1>1. IInv => CachedNextIsCurrent
  BY NoFileAssumption DEF IInv, ObjectOK, CachedNextIsCurrent
<1> QED
  BY <1>1, Inductive, PTL

\* Every list of tables is ascending, as subtract_vectors() and the readers need.
THEOREM ListsAscend == Spec => []ListAscending
<1>1. IInv => ListAscending
  BY NoFileAssumption DEF IInv, FilesOK, Good, ListAscending
<1> QED
  BY <1>1, Inductive, PTL

=============================================================================
