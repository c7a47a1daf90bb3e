----------------------------- MODULE DurableLog -----------------------------
(* The JSON-file mutation log, DurableMutationLog (cis-wal/src/file_log.rs):*)
(* every FlushEvery changes the whole log is written to a temporary file and*)
(* renamed over wal.json.                                                   *)
EXTENDS MutationLog

CONSTANT FlushEvery  \* CIS_WAL_FLUSH_EVERY

ASSUME FlushAssumption == FlushEvery \in Nat \ {0}

VARIABLES
  dirty,      \* dirty_ops
  flushLock,  \* holder of flush_lock
  snapNext,   \* the snapshot each thread in flush has taken so far
  snapRecs,
  fileNext,   \* wal.json
  fileRecs,
  behind      \* history: the last flush failed, the file lacks what memory has

snap == <<snapNext, snapRecs>>
file == <<fileNext, fileRecs>>
fileVars == <<dirty, flushLock, snap, file, behind>>
logVars == <<nextId, records, state>>

FileTypeOK ==
  /\ dirty \in Nat /\ flushLock \in Threads \cup {None} /\ behind \in BOOLEAN
  /\ snapNext \in [Threads -> 1..(MaxLogId + 1)] /\ snapRecs \in [Threads -> Logs]
  /\ fileNext \in 1..(MaxLogId + 1) /\ fileRecs \in Logs

NoCounter == [t \in Threads |-> 1]
NoRecords == [t \in Threads |-> EmptyLog]

FileInit ==
  /\ dirty = 0 /\ flushLock = None /\ snapNext = NoCounter /\ snapRecs = NoRecords
  /\ fileNext = 1 /\ fileRecs = EmptyLog /\ behind = FALSE

-----------------------------------------------------------------------------
\* Mutant: the flush comes one change late.
NoteDirtyLate(t) ==
  /\ pc[t] = "changed"
  /\ dirty' = dirty + 1
  /\ IF dirty' > FlushEvery
     THEN Go(t, "lock") /\ UNCHANGED <<target, asked, before, acked>>
     ELSE ReturnOk(t)
  /\ UNCHANGED <<logVars, stops, flushLock, snap, file, behind, compacted, raced>>

(* note_dirty_and_maybe_flush.                                              *)
NoteDirty(t) ==
  /\ pc[t] = "changed"
  /\ dirty' = dirty + 1
  /\ IF dirty' >= FlushEvery
     THEN Go(t, "lock") /\ UNCHANGED <<target, asked, before, acked>>
     ELSE ReturnOk(t)
  /\ UNCHANGED <<logVars, stops, flushLock, snap, file, behind, compacted, raced>>

(* flush: under flush_lock the counter is read, then the records, which     *)
(* have a lock of their own; then the file is replaced.  A compaction always*)
(* flushes.                                                                 *)
LockFlushNoMutex(t) ==  \* Mutant: no flush_lock.
  /\ pc[t] \in {"lock", "compacted"}
  /\ flushLock' = t /\ snapNext' = [snapNext EXCEPT ![t] = nextId]
  /\ Go(t, "copy")
  /\ UNCHANGED <<logVars, target, asked, before, stops, dirty, snapRecs, file, behind, history>>

LockFlush(t) ==
  /\ pc[t] \in {"lock", "compacted"} /\ flushLock = None
  /\ flushLock' = t /\ snapNext' = [snapNext EXCEPT ![t] = nextId]
  /\ Go(t, "copy")
  /\ UNCHANGED <<logVars, target, asked, before, stops, dirty, snapRecs, file, behind, history>>

CopyRecords(t) ==
  /\ pc[t] = "copy"
  /\ snapRecs' = [snapRecs EXCEPT ![t] = records]
  /\ Go(t, "rename")
  /\ UNCHANGED <<logVars, target, asked, before, stops, dirty, flushLock, snapNext, file, behind,
                 history>>

Rename(t) ==
  /\ pc[t] = "rename"
  /\ fileNext' = snapNext[t] /\ fileRecs' = snapRecs[t] /\ behind' = FALSE
  /\ flushLock' = None
  /\ snapNext' = [snapNext EXCEPT ![t] = 1] /\ snapRecs' = [snapRecs EXCEPT ![t] = EmptyLog]
  /\ Go(t, "clear")
  /\ UNCHANGED <<logVars, target, asked, before, stops, dirty, history>>

\* Writing the temporary file fails: the call returns the error.
FlushFails(t) ==
  /\ pc[t] = "rename" /\ Stop
  /\ flushLock' = None /\ behind' = TRUE
  /\ snapNext' = [snapNext EXCEPT ![t] = 1] /\ snapRecs' = [snapRecs EXCEPT ![t] = EmptyLog]
  /\ Return(t)
  /\ UNCHANGED <<logVars, dirty, file, history>>

\* The counter is cleared after flush_lock is given back.
ClearDirty(t) ==
  /\ pc[t] = "clear"
  /\ dirty' = 0
  /\ ReturnOk(t)
  /\ UNCHANGED <<logVars, stops, flushLock, snap, file, behind, compacted, raced>>

FileStep(t) ==
  \/ NoteDirty(t) \/ LockFlush(t) \/ CopyRecords(t) \/ Rename(t) \/ FlushFails(t)
  \/ ClearDirty(t)

-----------------------------------------------------------------------------
(* Nothing of the old process but the file survives.                        *)
FileReset ==
  /\ dirty' = 0 /\ flushLock' = None /\ behind' = FALSE
  /\ snapNext' = NoCounter /\ snapRecs' = NoRecords

FileCrash == Stop /\ Restore(fileNext, fileRecs) /\ FileReset /\ UNCHANGED file

(* Drop, once no thread uses the log, flushes what is counted as dirty.     *)
FileShutdown ==
  /\ Stop /\ \A t \in Threads : pc[t] = "idle"
  /\ fileNext' = (IF dirty > 0 THEN nextId ELSE fileNext)
  /\ fileRecs' = (IF dirty > 0 THEN records ELSE fileRecs)
  /\ Restore(fileNext', fileRecs') /\ FileReset
=============================================================================
