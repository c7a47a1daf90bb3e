------------------------------ MODULE SqliteLog ------------------------------
(* The SQLite mutation log, SqliteMutationLog (cis-core/src/sqlite_wal.rs): *)
(* a call changes the memory, reads the record back and then, under the lock*)
(* of the connection, writes its row; an append also writes the counter, in *)
(* a statement of its own.  No lock is held from the change to the row.     *)
EXTENDS MutationLog

VARIABLES
  rows,       \* the table wal
  metaNext,   \* the row next_id of wal_meta, 0 when there is none
  read,       \* what a call read back and is to write
  broken,     \* history: ids whose row was not written or not deleted
  torn        \* history: an append failed or was cut off

table == <<rows, metaNext>>
sqlVars == <<table, read, broken, torn>>
memoryVars == <<nextId, records, state>>

SqlTypeOK ==
  /\ rows \in Logs /\ metaNext \in 0..(MaxLogId + 1) /\ read \in [Threads -> MaybePhases]
  /\ broken \subseteq LogIds /\ torn \in BOOLEAN

NothingRead == [t \in Threads |-> "absent"]

SqlInit == rows = EmptyLog /\ metaNext = 0 /\ read = NothingRead /\ broken = {} /\ torn = FALSE

Unread(t) == read' = [read EXCEPT ![t] = "absent"]

(* The mutex of the connection is held over several statements.             *)
ConnFree == \A t \in Threads : pc[t] \notin {"meta", "delete"}

-----------------------------------------------------------------------------
(* append and update_phase: get returns nothing when a compaction dropped   *)
(* the record meanwhile.                                                    *)
ReadBack(t) ==
  /\ pc[t] = "changed"
  /\ IF records[target[t]] = "absent" THEN ReturnOk(t) /\ UNCHANGED read
     ELSE /\ Go(t, "persist") /\ read' = [read EXCEPT ![t] = records[target[t]]]
          /\ UNCHANGED <<target, asked, before, acked>>
  /\ UNCHANGED <<memoryVars, stops, table, broken, torn, compacted, raced>>

\* Mutant: the first state of a record stays in the table.
PersistRowOnce(t) ==
  /\ pc[t] = "persist" /\ ConnFree
  /\ rows' = [rows EXCEPT ![target[t]] = IF @ = "absent" THEN read[t] ELSE @] /\ Unread(t)
  /\ broken' = broken \ {target[t]}
  /\ IF asked[t] = "Pending" THEN Go(t, "meta") /\ UNCHANGED <<target, asked, before, acked>>
     ELSE ReturnOk(t)
  /\ UNCHANGED <<memoryVars, stops, metaNext, torn, compacted, raced>>

(* upsert_record; persist_record goes on with the counter, persist_phase    *)
(* returns.                                                                 *)
PersistRow(t) ==
  /\ pc[t] = "persist" /\ ConnFree
  /\ rows' = [rows EXCEPT ![target[t]] = read[t]] /\ Unread(t)
  /\ broken' = broken \ {target[t]}
  /\ IF asked[t] = "Pending" THEN Go(t, "meta") /\ UNCHANGED <<target, asked, before, acked>>
     ELSE ReturnOk(t)
  /\ UNCHANGED <<memoryVars, stops, metaNext, torn, compacted, raced>>

PersistCounter(t) ==
  /\ pc[t] = "meta"
  /\ metaNext' = nextId /\ ReturnOk(t)
  /\ UNCHANGED <<memoryVars, stops, rows, read, broken, torn, compacted, raced>>

PersistFails(t) ==
  /\ pc[t] \in {"persist", "meta"} /\ Stop /\ Return(t) /\ Unread(t)
  /\ broken' = IF pc[t] = "persist" THEN broken \cup {target[t]} ELSE broken
  /\ torn' = (torn \/ asked[t] = "Pending")
  /\ UNCHANGED <<memoryVars, table, history>>

(* truncate_committed deletes what the log had before and has no more, row  *)
(* by row; an error leaves the rest in the table.                           *)
LockDelete(t) ==
  /\ pc[t] = "compacted" /\ ConnFree
  /\ Go(t, "delete")
  /\ UNCHANGED <<memoryVars, target, asked, before, stops, sqlVars, history>>

DeleteRow(t) ==
  /\ pc[t] = "delete"
  /\ \E i \in before[t] : /\ rows' = [rows EXCEPT ![i] = "absent"]
                          /\ before' = [before EXCEPT ![t] = @ \ {i}]
  /\ UNCHANGED <<memoryVars, pc, target, asked, stops, metaNext, read, broken, torn, history>>

DeleteFails(t) ==
  /\ pc[t] = "delete" /\ before[t] # {} /\ Stop /\ Return(t)
  /\ broken' = broken \cup before[t]
  /\ UNCHANGED <<memoryVars, table, read, torn, history>>

EndDelete(t) ==
  /\ pc[t] = "delete" /\ before[t] = {}
  /\ ReturnOk(t)
  /\ UNCHANGED <<memoryVars, stops, sqlVars, compacted, raced>>

SqlStep(t) ==
  \/ ReadBack(t) \/ PersistRow(t) \/ PersistCounter(t) \/ PersistFails(t)
  \/ LockDelete(t) \/ DeleteRow(t) \/ DeleteFails(t) \/ EndDelete(t)

-----------------------------------------------------------------------------
(* load_records: the counter is past the stored one and past every row; an  *)
(* empty table starts from one whatever is stored.                          *)
PastRows(recs) == CHOOSE n \in LogIds \cup {MaxLogId + 1} :
                    /\ \A i \in Held(recs) : i < n
                    /\ n > 1 => recs[n - 1] # "absent"

LoadedNext(next, recs) ==
  IF Held(recs) = {} THEN 1
  ELSE IF next > PastRows(recs) THEN next ELSE PastRows(recs)

SqlReset == read' = NothingRead /\ broken' = {}

(* open, on a table without rows, first imports wal.json, which here holds  *)
(* recs; a file that cannot be opened fails the open.                       *)
Imports(recs) == Held(rows) = {} /\ Held(recs) # {}

OpenTable(next, recs) ==
  IF ~Imports(recs) THEN Restore(LoadedNext(metaNext, rows), rows) /\ UNCHANGED table
  ELSE /\ Restore(next, recs)
       /\ rows' = (IF state' = "open" THEN recs ELSE rows)
       /\ metaNext' = (IF state' = "open" THEN next ELSE metaNext)

SqlRestart(next, recs) ==
  /\ Stop /\ OpenTable(next, recs)
  /\ torn' = (torn \/ \E t \in Threads : asked[t] = "Pending")
  /\ SqlReset
=============================================================================
