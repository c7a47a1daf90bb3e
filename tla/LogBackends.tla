---------------------------- MODULE LogBackends ----------------------------
(* The mutation log of a workspace: open_workspace_wal opens the JSON file  *)
(* or the SQLite table, and a restart may go over from the file to the      *)
(* table, which imports the file.                                           *)
EXTENDS DurableLog, SqliteLog

VARIABLE backend   \* CIS_WAL_BACKEND

vars == <<logVars, calls, stops, history, fileVars, sqlVars, backend>>

TypeOK == LogTypeOK /\ FileTypeOK /\ SqlTypeOK /\ backend \in {"json", "sqlite"}

Init == LogInit /\ FileInit /\ SqlInit /\ backend \in {"json", "sqlite"}

Call(t) == LogCall(t) /\ UNCHANGED <<fileVars, sqlVars, backend>>
OnFile(t) == backend = "json" /\ FileStep(t) /\ UNCHANGED <<sqlVars, backend>>
OnTable(t) == backend = "sqlite" /\ SqlStep(t) /\ UNCHANGED <<fileVars, backend>>

Crash ==
  /\ state = "open" /\ UNCHANGED backend
  /\ \/ backend = "json" /\ FileCrash /\ UNCHANGED sqlVars
     \/ backend = "sqlite" /\ SqlRestart(fileNext, fileRecs) /\ UNCHANGED fileVars

Shutdown ==
  /\ state = "open" /\ backend = "json" /\ FileShutdown
  /\ UNCHANGED <<sqlVars, backend>>

(* The next process is told to use the table; it crashed or was stopped as  *)
(* one that uses the file.                                                  *)
Migrate ==
  /\ state = "open" /\ backend = "json"
  /\ backend' = "sqlite" /\ SqlRestart(fileNext, fileRecs)
  /\ FileReset /\ UNCHANGED file

Next == \/ \E t \in Threads : Call(t) \/ OnFile(t) \/ OnTable(t)
        \/ Crash \/ Shutdown \/ Migrate

Spec == Init /\ [][Next]_vars

-----------------------------------------------------------------------------
\* What a restart finds; a file that is refused is what a migration leaves.
Saved == IF backend = "json" \/ state = "refused" THEN fileRecs ELSE rows

(* A call that returned Ok is saved: whatever crashes, failed writes, other *)
(* threads' calls and a change of the backend follow, the record is there at*)
(* least as far as that call brought it, unless compaction removed it       *)
(* (append, update_phase and flush, with FlushEvery = 1; persist_record).   *)
(* The table may go back on a record that two calls changed at once.        *)
AckedSurvives ==
  \A i \in LogIds : \/ Rank(Saved[i]) >= Rank(acked[i]) \/ i \in compacted
                    \/ backend = "sqlite" /\ i \in raced

(* What is saved never goes back: no flush or row replaces a record by an   *)
(* earlier phase of it, or loses one that compaction did not remove,        *)
(* although threads take snapshots and write concurrently (flush_lock; the  *)
(* table again only for a record with one call at a time).                  *)
SavedMovesForward ==
  [][\A i \in LogIds : \/ Rank(Saved'[i]) >= Rank(Saved[i]) \/ i \in compacted
                       \/ backend = "sqlite" /\ i \in raced]_vars

(* Between calls, memory and disk agree on every record whose last write did*)
(* not fail: what a reader of the log sees is what a restart would find     *)
(* (flush, persist_record, truncate_committed; the table again only for a   *)
(* record with one call at a time, and one that no compaction dropped       *)
(* without having found it: its row stays).                                 *)
SavedIsCurrent ==
  state = "open" /\ (\A t \in Threads : pc[t] = "idle") /\ ~(backend = "json" /\ behind) =>
    \A i \in LogIds \ (IF backend = "json" THEN {} ELSE raced \cup broken) :
      Saved[i] = records[i]

(* No two records answered Ok share an id, across restarts too: append      *)
(* never inserts at an id that an earlier Ok call used.  The table keeps    *)
(* that promise only while no append fails or is cut off (append, restore,  *)
(* load_records).                                                           *)
AppendIsFresh ==
  [][\A t \in Threads : pc[t] = "insert" /\ pc'[t] = "changed" =>
        \/ acked[target[t]] = "absent"
        \/ backend = "sqlite" /\ (torn \/ target[t] \in raced)]_vars

(* Concurrent writers cannot tear the snapshot: the file on disk is one     *)
(* that open accepts (flush, restore).  Refuted with two threads.           *)
SnapshotReopens == \A i \in Held(fileRecs) : i < fileNext

(* The table is never behind the calls answered Ok.  Refuted: a thread and  *)
(* the reconciler move one record, and the earlier phase is written last.   *)
AckedIsInTable ==
  backend = "sqlite" => \A i \in LogIds : Rank(rows[i]) >= Rank(acked[i]) \/ i \in compacted

(* An id is used once.  Refuted: a crash between the two statements of an   *)
(* append, then a compaction of that record and a restart; or a compaction  *)
(* that keeps only a record whose row is not written, which empties the     *)
(* table, and a crash.                                                      *)
IdsAreFresh ==
  [][\A t \in Threads : pc[t] = "insert" /\ pc'[t] = "changed" =>
        acked[target[t]] = "absent"]_vars
=============================================================================
