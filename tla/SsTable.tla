------------------------------ MODULE SsTable ------------------------------
(***************************************************************************)
(* The SSTable files data/ss_table_<i>.bin as whole files: class SsTable   *)
(* (src/src/ss_table.cpp) in write mode, the removal of files by           *)
(* DbEngine::compact(), and the operating system below them.               *)
(*                                                                         *)
(* `tables' is what a process finds; on stable storage there are the       *)
(* contents of each file (tabData) and the names in data/ (tabNames).      *)
(* A complete file is its entries: a cell for each key, Absent where the   *)
(* file has no entry.  Headers, blocks, checksums, Bloom filter and sparse *)
(* index make a file readable or Torn; their layout is left out.           *)
(***************************************************************************)
EXTENDS Naturals

CONSTANTS
    Key, Val,
    Tomb,       \* the cell of a delete entry
    Absent,     \* no entry for the key
    NoFile,     \* the file does not exist
    Torn,       \* the file exists and is not a complete SSTable
    MaxTables   \* bound: indices 0 .. MaxTables - 1

Cell    == Val \cup {Tomb, Absent}
Content == [Key -> Cell]
TableId == 0..(MaxTables - 1)

VARIABLES
    tables,     \* the files a process finds
    tabData,    \* what stable storage holds of each file's contents
    tabNames    \* the files whose names stable storage holds

vars == <<tables, tabData, tabNames>>

Present(tabs) == {i \in TableId : tabs[i] # NoFile}

Init ==
    /\ tables = [i \in TableId |-> NoFile]
    /\ tabData = [i \in TableId |-> Torn]
    /\ tabNames = {}

\* SsTable(i, OpenMode::write): "wb" creates the file or empties an old one.
Create(i) ==
    /\ tables' = [tables EXCEPT ![i] = Torn]
    /\ tabData' = IF tables[i] = NoFile THEN [tabData EXCEPT ![i] = Torn] ELSE tabData
    /\ UNCHANGED tabNames

\* Mutant of WriteSynced: the file is not synced.
WriteUnsynced(i, data) ==
    /\ tables' = [tables EXCEPT ![i] = data]
    /\ UNCHANGED <<tabData, tabNames>>

\* write_to_ss_table(): every block is written and the file synced.
WriteSynced(i, data) ==
    /\ tables' = [tables EXCEPT ![i] = data]
    /\ tabData' = [tabData EXCEPT ![i] = data]
    /\ UNCHANGED tabNames

\* A block could not be written, or all were and the sync failed.
WriteFail(i, data) ==
    /\ \E left \in {Torn, data} : tables' = [tables EXCEPT ![i] = left]
    /\ UNCHANGED <<tabData, tabNames>>

\* Any successful sync of data/.
DirSynced ==
    /\ tabNames' = Present(tables)
    /\ UNCHANGED <<tables, tabData>>

\* std::filesystem::remove() of a file that exists.
Remove(i) ==
    /\ tables[i] # NoFile
    /\ tables' = [tables EXCEPT ![i] = NoFile]
    /\ UNCHANGED <<tabData, tabNames>>

\* What a power loss leaves of the files.
Surviving == [i \in TableId |-> IF i \in tabNames THEN tabData[i] ELSE NoFile]

PowerLoss ==
    /\ tables' = Surviving
    /\ UNCHANGED <<tabData, tabNames>>

\* The kernel writes one file's contents, or one name's fate, back on its own.
WriteBack ==
    /\ \E i \in TableId :
          \/ /\ tables[i] \notin {NoFile, tabData[i]}
             /\ tabData' = [tabData EXCEPT ![i] = tables[i]]
             /\ UNCHANGED tabNames
          \/ /\ (tables[i] = NoFile) = (i \in tabNames)
             /\ tabNames' = (IF tables[i] = NoFile THEN tabNames \ {i} ELSE tabNames \cup {i})
             /\ UNCHANGED tabData
    /\ UNCHANGED tables

TypeOK ==
    /\ tables \in [TableId -> Content \cup {NoFile, Torn}]
    /\ tabData \in [TableId -> Content \cup {Torn}]
    /\ tabNames \subseteq TableId

=============================================================================
