------------------------------- MODULE FileIo -------------------------------
(***************************************************************************)
(* The helpers of src/src/file_io.cpp on one file: write_bytes() puts data *)
(* into the stream's buffer, stdio hands it to the kernel in pieces, and   *)
(* sync_file() does so with the rest and calls fsync().                    *)
(* sync_parent_directory() does the same for a directory, which has no     *)
(* stream.  One action is one library or system call; EINTR starts it over.*)
(*                                                                         *)
(* Environment assumption: an fsync() that succeeds makes all of the file  *)
(* durable, also after one that failed.  The Windows branches are left out.*)
(***************************************************************************)
EXTENDS Naturals, Sequences

VARIABLES
    buf,            \* accepted by write_bytes(), still in the process
    os,             \* the file, as any process reads it
    disk,           \* the file on stable storage
    streamError,    \* ferror()
    io,             \* where the process is in sync_file(), sync_parent_directory()
    errno           \* the call that set it last, in the helper that is running

IoStates == {"none", "flush", "fsync",
             "open", "dirSync", "closeSynced", "closeUnsynced",
             "ok", "failed"}
Errnos == {"none", "EINTR", "flush", "fsync", "open", "close"}

fileVars == <<os, disk>>

Init ==
    /\ buf = <<>> /\ os = <<>> /\ disk = <<>>
    /\ streamError = FALSE /\ io = "none" /\ errno = "none"

-----------------------------------------------------------------------------
(* write_bytes(), and stdio.                                               *)

WriteBytes(cell) ==
    /\ io = "none"
    /\ buf' = Append(buf, cell)
    /\ UNCHANGED <<fileVars, streamError, io, errno>>

WriteBytesFails ==
    /\ io = "none"
    /\ streamError' = TRUE
    /\ UNCHANGED <<buf, fileVars, io, errno>>

\* write(2): when the buffer is full, and in fflush(); it may be short.
Push ==
    /\ io \in {"none", "flush"}
    /\ \E n \in 1..Len(buf) :
          /\ os' = os \o SubSeq(buf, 1, n)
          /\ buf' = SubSeq(buf, n + 1, Len(buf))
    /\ UNCHANGED <<disk, streamError, io, errno>>

-----------------------------------------------------------------------------
(* sync_file() and sync_descriptor().                                      *)

SyncFile ==
    /\ io = "none"
    /\ io' = IF streamError THEN "failed" ELSE "flush"
    /\ errno' = "none"
    /\ UNCHANGED <<buf, fileVars, streamError>>

\* Mutant of Flushed: fsync() is called with data left in the buffer.
FlushSkipped ==
    /\ io = "flush"
    /\ io' = "fsync"
    /\ UNCHANGED <<buf, fileVars, streamError, errno>>

Flushed ==
    /\ io = "flush" /\ buf = <<>>
    /\ io' = "fsync"
    /\ UNCHANGED <<buf, fileVars, streamError, errno>>

FlushFails ==
    /\ io = "flush"
    /\ streamError' = TRUE
    /\ io' = "failed" /\ errno' = "flush"
    /\ UNCHANGED <<buf, fileVars>>

Fsynced ==
    /\ io = "fsync"
    /\ disk' = os
    /\ io' = "ok"
    /\ UNCHANGED <<buf, os, streamError, errno>>

\* Mutant of FsyncFails: any error starts it over.
FsyncRetries ==
    /\ io = "fsync"
    /\ errno' = IF errno = "fsync" THEN "EINTR" ELSE "fsync"
    /\ UNCHANGED <<buf, fileVars, streamError, io>>

FsyncFails ==
    /\ io = "fsync"
    /\ io' = "failed" /\ errno' = "fsync"
    /\ UNCHANGED <<buf, fileVars, streamError>>

-----------------------------------------------------------------------------
(* sync_parent_directory().                                                *)

SyncParentDirectory ==
    /\ io = "none"
    /\ io' = "open" /\ errno' = "none"
    /\ UNCHANGED <<buf, fileVars, streamError>>

DirOpened ==
    /\ io = "open"
    /\ io' = "dirSync"
    /\ UNCHANGED <<buf, fileVars, streamError, errno>>

DirOpenFails ==
    /\ io = "open"
    /\ io' = "failed" /\ errno' = "open"
    /\ UNCHANGED <<buf, fileVars, streamError>>

DirFsynced ==
    /\ io = "dirSync"
    /\ io' = "closeSynced"
    /\ UNCHANGED <<buf, fileVars, streamError, errno>>

DirFsyncFails ==
    /\ io = "dirSync"
    /\ io' = "closeUnsynced" /\ errno' = "fsync"
    /\ UNCHANGED <<buf, fileVars, streamError>>

\* Mutant of DirClosed: errno is not restored.
DirClosedErrno ==
    /\ io \in {"closeSynced", "closeUnsynced"}
    /\ io' = IF io = "closeSynced" THEN "ok" ELSE "failed"
    /\ errno' \in {errno, "close"}
    /\ UNCHANGED <<buf, fileVars, streamError>>

\* close(), whose errno gives way to that of the sync.
DirClosed ==
    /\ io \in {"closeSynced", "closeUnsynced"}
    /\ io' = IF io = "closeSynced" THEN "ok" ELSE "failed"
    /\ UNCHANGED <<buf, fileVars, streamError, errno>>

\* A signal: the call that returned EINTR is made again.
Interrupted ==
    /\ io \in {"fsync", "open", "dirSync"}
    /\ errno' = "EINTR"
    /\ UNCHANGED <<buf, fileVars, streamError, io>>

-----------------------------------------------------------------------------
Helper ==
    \/ Flushed \/ FlushFails \/ Fsynced \/ FsyncFails
    \/ DirOpened \/ DirOpenFails \/ DirFsynced \/ DirFsyncFails \/ DirClosed
    \/ Interrupted

\* The caller gets the result (and errno, which nothing looks at later).
Returned(result) ==
    /\ io = IF result THEN "ok" ELSE "failed"
    /\ io' = "none" /\ errno' = "none"
    /\ UNCHANGED <<buf, fileVars, streamError>>

\* The stream of the process is gone, with what is in its buffer.
StreamGone == buf' = <<>> /\ streamError' = FALSE /\ io' = "none" /\ errno' = "none"

Crash == StreamGone /\ UNCHANGED fileVars

PowerLoss == StreamGone /\ os' = disk /\ UNCHANGED disk

WriteBack ==
    /\ disk # os
    /\ disk' = os
    /\ UNCHANGED <<buf, os, streamError, io, errno>>

-----------------------------------------------------------------------------
\* A helper that failed leaves the errno of the step that failed: not that of
\* a signal it got over, nor that of closing the directory afterwards.
ErrnoNamesFailure == io = "failed" => errno \notin {"EINTR", "close"}

=============================================================================
