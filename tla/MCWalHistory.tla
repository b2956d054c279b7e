---------------------------- MODULE MCWalHistory ----------------------------
(* Wal with a history of the sequence numbers of acknowledged records.     *)
EXTENDS Wal

VARIABLE nextUnused     \* one above the highest acknowledged number

HistoryInit == Init /\ nextUnused = 0

HistoryNext ==
    /\ Next
    /\ nextUnused' = IF walPc = "sync" /\ walIndex' # walIndex /\ walPc' = "ready"
                     THEN walIndex' ELSE nextUnused

HistorySpec == HistoryInit /\ [][HistoryNext]_<<vars, nextUnused>>

\* "... grow for the entire lifetime of the system (offsets, entry counts,
\* ss_table_index, and ... WAL's sequence index)" (ss_table_schema.md): a
\* record is never given a number that an acknowledged one had.
IndexGrows == walReq # NoRecord => walReq.index >= nextUnused

=============================================================================
