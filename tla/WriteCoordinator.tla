-------------------------- MODULE WriteCoordinator --------------------------
(* The write path of the code graph: WriteCoordinator                       *)
(* (cis-core/src/coordinator.rs) with the clients that drive it (batch      *)
(* ingest, promote and revert of speculative rows, the reconciler), the     *)
(* stores it keeps in step (mutation log, mutation index, graph, vector     *)
(* registry), and process crashes followed by startup replay.  One action   *)
(* is the code between two points where another thread, or a crash, can be  *)
(* observed: a lock taken or released, or a durable write.                  *)
EXTENDS Naturals, FiniteSets, MutationPhase

CONSTANTS
  Threads,        \* request threads: MCP handlers and the fs-sync thread
  Recon,          \* the actor that runs reconcile_now
  None,           \* no holder of commit_lock
  Files,          \* source files, each with one symbol
  FilesOf,        \* FilesOf[t]: the files thread t is asked to work on
  KindsOf,        \* KindsOf[t]: the kinds of mutations thread t issues
  MaxLogId,       \* bound: mutations begun in a behaviour
  MaxFaults,      \* bound: crashes and errors in a behaviour
  SqlitePrimary,  \* graph backend: SQLite with a RAM overlay, or JSON snapshots
  Periodic        \* whether PeriodicReconciler runs beside the threads

ASSUME ActorAssumption == Recon \notin Threads /\ None \notin Threads \cup {Recon}
ASSUME WorkAssumption == /\ FilesOf \in [Threads -> SUBSET Files]
                         /\ KindsOf \in [Threads -> SUBSET MutationKinds]
ASSUME FilesAssumption == Files # {}
ASSUME BoundAssumption == MaxLogId \in Nat /\ MaxFaults \in Nat
ASSUME ModeAssumption == SqlitePrimary \in BOOLEAN /\ Periodic \in BOOLEAN

Actors == Threads \cup {Recon}
LogIds == 1..MaxLogId

(* A revision id: the stable slot of a file's symbol, a content-addressed   *)
(* slot for its later bodies (one slot stands for them all), or the         *)
(* sentinel a file deletion logs, which is never a row of the graph.        *)
Rows == Files \X {"stable", "edited", "del"}
Stable(f) == <<f, "stable">>
Edited(f) == <<f, "edited">>
Sentinel(f) == <<f, "del">>

(* A row's content is the stamp of the closure that last wrote it (0: no    *)
(* row) and whether the row is Active or Speculative rather than Tombstone. *)
Contents == [stamp : 0..MaxLogId, live : BOOLEAN]
NoContent == [stamp |-> 0, live |-> FALSE]
Stores == [Rows -> Contents]
EmptyStore == [r \in Rows |-> NoContent]
Present(s) == {r \in Rows : s[r].stamp # 0}
RowsOf(f) == {r \in Rows : r[1] = f}
LiveRows(s, f) == {r \in RowsOf(f) : s[r].live}

Records == [kind : MutationKinds, affected : SUBSET Rows, phase : MaybePhases]
NoRecord == [kind |-> "Index", affected |-> {}, phase |-> "absent"]
NoIndex == [r \in Rows |-> "absent"]
NoRequest == [t \in Threads |-> [kind |-> "Index", file |-> CHOOSE f \in Files : TRUE]]

VARIABLES
  wal,        \* MutationLogStore: records by log id, durable with every call
  nextId,     \* the next log id
  index,      \* MutationIndex: phase by revision id, "absent" for no entry
  graph,      \* InMemoryGraph: the whole graph, or the overlay over SQLite
  disk,       \* graph.json, or the revisions table
  chunks,     \* chunks registered in the vector store
  chunksDisk, \* vector.json, or the sqlite vector table
  defer,      \* defer_snapshot_flush
  lock,       \* holder of commit_lock
  proc,       \* "replay" until startup replay ends, then "ready" or "refused"
  pc,         \* where each actor is in its handler
  req,        \* the mutation a thread was asked for
  mid,        \* the log id an actor works on
  batch,      \* log ids a thread's request has finished so far
  rows,       \* replay_inflight_wal: phases in its snapshot still to handle
  rebuilt,    \* sync_rebuild_index_from_wal: the index it is about to install
  replayErr,  \* wal_replay_failed
  faults,     \* crashes and errors so far
  stampOf,    \* history: order in which closures were applied, 0 if not yet
  wrote,      \* history: rows each closure wrote
  acked,      \* history: mutations whose request was answered Ok
  embedded,   \* history: how often a mutation's jobs were queued in this life
  swept       \* history: mutations whose rows merge recovery dropped unsaved

stores == <<graph, disk, chunks, chunksDisk>>
control == <<proc, pc, req, mid, batch>>
recon == <<rows, rebuilt, replayErr>>
history == <<stampOf, wrote, acked, embedded, swept>>
vars == <<wal, nextId, index, stores, defer, lock, control, recon, faults, history>>

Labels == {"idle", "tombs", "event", "preload", "append", "register",
           "lockgraph", "apply", "graphdone", "graphindex", "flushgraph",
           "lockvector", "enqueue", "vectordone", "committed", "flushvector",
           "finalize", "finalflush", "endflush", "discard",
           "mergeflush", "mergediscard", "snapshot", "replay", "rebuild", "install"}

(* The types; index entries are phases in flight only, so that a settled    *)
(* mutation can never make a query wait (MutationIndex).                    *)
IndexEntries == InFlight \cup {"absent"}
LogOK ==
  /\ wal \in [LogIds -> Records] /\ nextId \in 1..(MaxLogId + 1)
  /\ index \in [Rows -> IndexEntries]
  /\ rows \in [LogIds -> IndexEntries] /\ rebuilt \in [Rows -> IndexEntries]
  /\ replayErr \in BOOLEAN
StoresOK ==
  /\ graph \in Stores /\ disk \in Stores
  /\ chunks \subseteq Rows /\ chunksDisk \subseteq Rows
ControlOK ==
  /\ defer \in BOOLEAN /\ lock \in Actors \cup {None}
  /\ proc \in {"replay", "ready", "refused"}
  /\ pc \in [Actors -> Labels]
  /\ req \in [Threads -> [kind : MutationKinds, file : Files]]
  /\ mid \in [Actors -> 0..MaxLogId]
  /\ batch \in [Threads -> SUBSET LogIds]
  /\ faults \in 0..MaxFaults
HistoryOK ==
  /\ stampOf \in [LogIds -> 0..MaxLogId] /\ wrote \in [LogIds -> SUBSET Rows]
  /\ acked \subseteq LogIds /\ embedded \in [LogIds -> Nat] /\ swept \subseteq LogIds
TypeOK == LogOK /\ StoresOK /\ ControlOK /\ HistoryOK

-----------------------------------------------------------------------------
(* What the operations compute.                                             *)

(* A log id is left besides those of threads on their way to append, so     *)
(* that a thread that has chosen its work can append it: a bound.           *)
Room == nextId + Cardinality({t \in Threads : pc[t] \in {"preload", "append"}})
          <= MaxLogId

(* What the closure of each kind of mutation writes, given the graph it     *)
(* runs on.  Indexing a file writes the stable slot when no live row        *)
(* exists, rewrites the primary row when the body is unchanged, and         *)
(* otherwise retires the primary row and appends a content-addressed one.   *)
IndexWrites(s, f) ==
  IF LiveRows(s, f) = {} THEN { {Stable(f)} }
  ELSE UNION { { {p}, {p, Edited(f)} } : p \in LiveRows(s, f) }

Written(s, id, f) ==
  CASE wal[id].kind = "Index" -> IndexWrites(s, f)
    [] wal[id].kind = "Delete" -> { LiveRows(s, f) }
    [] OTHER -> { wal[id].affected \cap Present(s) }

LiveAfter(id, W, r) ==
  CASE wal[id].kind = "Index" -> (Edited(r[1]) \in W => r = Edited(r[1]))
    [] OTHER -> wal[id].kind = "Promote"

Write(s, id, W, stamp) ==
  [r \in Rows |-> IF r \in W THEN [stamp |-> stamp, live |-> LiveAfter(id, W, r)]
                             ELSE s[r]]

\* The stamp of the next closure to run.
Stamp == 1 + Cardinality({i \in LogIds : stampOf[i] # 0})

Affected(k, f) ==
  CASE k = "Index" -> {Stable(f)}
    [] k = "Delete" -> {Sentinel(f)}
    [] OTHER -> LiveRows(graph, f)

\* Mutant: only the affected rows, not the content-addressed ones beside them.
FlushSetAffectedOnly(A) == A \cap Present(graph)

(* The revisions apply_delta upserts: every overlay row of the files the    *)
(* affected rows belong to, or the whole overlay if none is present.        *)
FlushSet(A) ==
  LET paths == {r[1] : r \in A \cap Present(graph)}
  IN IF paths = {} THEN Present(graph)
     ELSE {r \in Present(graph) : r[1] \in paths}

DeltaFlush(A) == [r \in Rows |-> IF r \in FlushSet(A) THEN graph[r] ELSE disk[r]]

(* rebuild_from_wal: the phase of the newest in-flight record per revision. *)
InFlightOn(r) == {i \in LogIds : wal[i].phase \in InFlight /\ r \in wal[i].affected}
NewestOn(r) == {i \in InFlightOn(r) : \A j \in InFlightOn(r) : j <= i}
IndexFromWal ==
  [r \in Rows |-> IF NewestOn(r) = {} THEN "absent"
                  ELSE wal[CHOOSE i \in NewestOn(r) : TRUE].phase]

\* Mutant: a settled mutation stays in the index.
IndexSetKeeps(A, p) == [r \in Rows |-> IF r \in A THEN p ELSE index[r]]

\* MutationIndex::apply_transition and register_new_record.
IndexSet(A, p) == [r \in Rows |-> IF r \notin A THEN index[r]
                                  ELSE IF p \in Terminal THEN "absent" ELSE p]

SetPhase(id, p) == wal' = [wal EXCEPT ![id].phase = p]
Go(a, l) == pc' = [pc EXCEPT ![a] = l]

-----------------------------------------------------------------------------
Init ==
  /\ wal = [i \in LogIds |-> NoRecord] /\ nextId = 1
  /\ index = NoIndex
  /\ graph = EmptyStore /\ disk = EmptyStore
  /\ chunks = {} /\ chunksDisk = {}
  /\ defer = FALSE /\ lock = None
  /\ proc = "ready" /\ pc = [a \in Actors |-> "idle"]
  /\ req = NoRequest
  /\ mid = [a \in Actors |-> 0]
  /\ batch = [t \in Threads |-> {}]
  /\ rows = [i \in LogIds |-> "absent"] /\ rebuilt = NoIndex
  /\ replayErr = FALSE /\ faults = 0
  /\ stampOf = [i \in LogIds |-> 0] /\ wrote = [i \in LogIds |-> {}]
  /\ acked = {} /\ embedded = [i \in LogIds |-> 0] /\ swept = {}

-----------------------------------------------------------------------------
(* Errors.  An error leaves the handler at once: commit_lock is released,   *)
(* the thread's request ends, the replay gives up and rebuilds the index.   *)
(* Nothing else is undone; in particular a failed batch leaves defer set.   *)
FailKeepsLock(a) ==  \* Mutant: an error path without the guard's drop.
  /\ Go(a, IF a = Recon THEN "rebuild" ELSE "idle")
  /\ replayErr' = (replayErr \/ a = Recon)
  /\ UNCHANGED lock

Fail(a) ==
  /\ Go(a, IF a = Recon THEN "rebuild" ELSE "idle")
  /\ lock' = IF lock = a THEN None ELSE lock
  /\ replayErr' = (replayErr \/ a = Recon)

Fault == faults < MaxFaults /\ faults' = faults + 1

-----------------------------------------------------------------------------
(* Batch ingest: apply_index_events_with_config.                            *)
StartBatch(t) ==
  /\ proc = "ready" /\ pc[t] = "idle" /\ Room /\ KindsOf[t] \cap SingleKinds # {}
  /\ Go(t, IF SqlitePrimary THEN "tombs" ELSE "event")
  /\ defer' = TRUE
  /\ graph' = IF SqlitePrimary THEN EmptyStore ELSE graph
  /\ batch' = [batch EXCEPT ![t] = {}]
  /\ UNCHANGED <<wal, nextId, index, disk, chunks, chunksDisk, lock, proc,
                 req, mid, recon, faults, history>>

\* preload_branch_tombstones, once per batch.
PreloadTombstones(t) ==
  /\ pc[t] = "tombs"
  /\ Go(t, "event")
  /\ graph' = [r \in Rows |-> IF r \in Present(disk) /\ ~disk[r].live THEN disk[r] ELSE graph[r]]
  /\ UNCHANGED <<wal, nextId, index, disk, chunks, chunksDisk, defer, lock, proc,
                 req, mid, batch, recon, faults, history>>

(* The next event of the batch.  A rename is a deletion of the old path     *)
(* followed by an index of the new one.                                     *)
NextEvent(t) ==
  /\ pc[t] = "event" /\ Room
  /\ \E k \in KindsOf[t] \cap SingleKinds, f \in FilesOf[t] :
       /\ req' = [req EXCEPT ![t] = [kind |-> k, file |-> f]]
       /\ Go(t, IF k = "Delete" THEN "append" ELSE "preload")
  /\ UNCHANGED <<wal, nextId, index, stores, defer, lock, proc, mid, batch,
                 recon, faults, history>>

\* The events are done: defer is cleared, then the snapshots are written.
FinishBatch(t) ==
  /\ pc[t] = "event"
  /\ Go(t, "endflush")
  /\ defer' = FALSE
  /\ UNCHANGED <<wal, nextId, index, stores, lock, proc, req, mid, batch, recon,
                 faults, history>>

\* Mutant: the last flush honours defer, which another batch may have set again.
EndFlushUnforced(t) ==
  /\ pc[t] = "endflush"
  /\ Go(t, "discard")
  /\ disk' = IF SqlitePrimary \/ defer THEN disk ELSE graph
  /\ chunksDisk' = IF SqlitePrimary \/ ~defer THEN chunks ELSE chunksDisk
  /\ UNCHANGED <<wal, nextId, index, graph, chunks, defer, lock, proc, req, mid,
                 batch, recon, faults, history>>

EndFlush(t) ==
  /\ pc[t] = "endflush"
  /\ Go(t, "discard")
  /\ disk' = IF SqlitePrimary THEN disk ELSE graph
  /\ chunksDisk' = chunks
  /\ UNCHANGED <<wal, nextId, index, graph, chunks, defer, lock, proc, req, mid,
                 batch, recon, faults, history>>

EndFlushFails(t) ==
  /\ pc[t] = "endflush" /\ Fault /\ ~SqlitePrimary
  /\ Fail(t)
  /\ UNCHANGED <<wal, nextId, index, stores, defer, proc, req, mid, batch, rows,
                 rebuilt, history>>

(* The last step of a batch and of a promote or revert: the overlay is      *)
(* dropped and the request answered Ok.                                     *)
DiscardOverlay(t) ==
  /\ pc[t] = "discard"
  /\ Go(t, "idle")
  /\ graph' = IF SqlitePrimary THEN EmptyStore ELSE graph
  /\ acked' = acked \cup batch[t]
  /\ batch' = [batch EXCEPT ![t] = {}]
  /\ req' = [req EXCEPT ![t] = NoRequest[t]] /\ mid' = [mid EXCEPT ![t] = 0]
  /\ UNCHANGED <<wal, nextId, index, disk, chunks, chunksDisk, defer, lock, proc, recon,
                 faults, stampOf, wrote, embedded, swept>>

-----------------------------------------------------------------------------
(* Promote and revert: wal_promote_speculative, wal_revert_speculative.     *)
RequestStatus(t) ==
  /\ proc = "ready" /\ pc[t] = "idle" /\ Room
  /\ \E k \in KindsOf[t] \cap GraphOnlyKinds, f \in FilesOf[t] :
       req' = [req EXCEPT ![t] = [kind |-> k, file |-> f]]
  /\ batch' = [batch EXCEPT ![t] = {}]
  /\ Go(t, "preload")
  /\ UNCHANGED <<wal, nextId, index, stores, defer, lock, proc, mid, recon,
                 faults, history>>

-----------------------------------------------------------------------------
(* preload_working_set: the file's committed rows replace the overlay's.    *)
(* A deletion begins its mutation first, the others preload first.          *)
Preload(t) ==
  /\ pc[t] = "preload"
  /\ graph' = [r \in Rows |-> IF SqlitePrimary /\ r \in RowsOf(req[t].file) \cap Present(disk)
                              THEN disk[r] ELSE graph[r]]
  /\ Go(t, IF req[t].kind = "Delete" THEN "lockgraph" ELSE "append")
  /\ UNCHANGED <<wal, nextId, index, disk, chunks, chunksDisk, defer, lock, proc,
                 req, mid, batch, recon, faults, history>>

PreloadFails(t) ==
  /\ pc[t] = "preload" /\ Fault /\ SqlitePrimary /\ req[t].kind \in SingleKinds
  /\ Fail(t)
  /\ UNCHANGED <<wal, nextId, index, stores, defer, proc, req, mid, batch, rows,
                 rebuilt, history>>

(* begin_mutation and begin_status_mutation: the record is appended, then   *)
(* entered in the index.                                                    *)
Append(t) ==
  /\ pc[t] = "append"
  /\ LET A == Affected(req[t].kind, req[t].file) IN
       IF A = {}
       THEN /\ Go(t, "idle")
            /\ UNCHANGED <<wal, nextId, mid>>
       ELSE /\ nextId <= MaxLogId
            /\ wal' = [wal EXCEPT ![nextId] = [kind |-> req[t].kind, affected |-> A,
                                               phase |-> "Pending"]]
            /\ mid' = [mid EXCEPT ![t] = nextId]
            /\ nextId' = nextId + 1
            /\ Go(t, "register")
  /\ UNCHANGED <<index, stores, defer, lock, proc, req, batch, recon, faults, history>>

Register(t) ==
  /\ pc[t] = "register"
  /\ index' = IF wal[mid[t]].phase \in Terminal THEN index
              ELSE IndexSet(wal[mid[t]].affected, wal[mid[t]].phase)
  /\ Go(t, IF req[t].kind = "Delete" THEN "preload" ELSE "lockgraph")
  /\ UNCHANGED <<wal, nextId, stores, defer, lock, proc, req, mid, batch, recon,
                 faults, history>>

-----------------------------------------------------------------------------
(* commit_graph, under commit_lock.                                         *)
LockGraph(t) ==
  /\ pc[t] = "lockgraph" /\ lock = None
  /\ IF wal[mid[t]].phase = "Pending"
     THEN lock' = t /\ Go(t, "apply") /\ UNCHANGED replayErr
     ELSE Fail(t)
  /\ UNCHANGED <<wal, nextId, index, stores, defer, proc, req, mid, batch, rows,
                 rebuilt, faults, history>>

RunClosure(t) ==
  \E W \in Written(graph, mid[t], req[t].file) :
    /\ graph' = Write(graph, mid[t], W, Stamp)
    /\ wrote' = [wrote EXCEPT ![mid[t]] = W]
    /\ stampOf' = [stampOf EXCEPT ![mid[t]] = Stamp]

Apply(t) ==
  /\ pc[t] = "apply"
  /\ RunClosure(t)
  /\ Go(t, "graphdone")
  /\ UNCHANGED <<wal, nextId, index, disk, chunks, chunksDisk, defer, lock, proc,
                 req, mid, batch, recon, faults, acked, embedded, swept>>

\* Replacing the edges fails after the rows were put; the rows stay.
ApplyFails(t) ==
  /\ pc[t] = "apply" /\ Fault /\ req[t].kind = "Index"
  /\ RunClosure(t)
  /\ Fail(t)
  /\ UNCHANGED <<wal, nextId, index, disk, chunks, chunksDisk, defer, proc,
                 req, mid, batch, rows, rebuilt, acked, embedded, swept>>

GraphDone(t) ==
  /\ pc[t] = "graphdone"
  /\ IF CanTransitionTo(wal[mid[t]].phase, "GraphDone")
     THEN SetPhase(mid[t], "GraphDone") /\ Go(t, "graphindex") /\ UNCHANGED <<lock, replayErr>>
     ELSE Fail(t) /\ UNCHANGED wal
  /\ UNCHANGED <<nextId, index, stores, defer, proc, req, mid, batch, rows, rebuilt,
                 faults, history>>

\* Mutant: the index is left at Pending.
GraphIndexForgotten(t) ==
  /\ pc[t] = "graphindex"
  /\ Go(t, "flushgraph")
  /\ UNCHANGED <<wal, nextId, index, stores, defer, lock, proc, req, mid, batch, recon,
                 faults, history>>

GraphIndex(t) ==
  /\ pc[t] = "graphindex"
  /\ index' = IndexSet(wal[mid[t]].affected, "GraphDone")
  /\ Go(t, "flushgraph")
  /\ UNCHANGED <<wal, nextId, stores, defer, lock, proc, req, mid, batch, recon,
                 faults, history>>

(* flush_graph_delta, the last step under the lock.  A deletion goes on to  *)
(* the next event from here: nothing calls commit_vector for it.            *)
FlushGraph(t) ==
  /\ pc[t] = "flushgraph"
  /\ disk' = IF SqlitePrimary THEN DeltaFlush(wal[mid[t]].affected)
             ELSE IF defer THEN disk ELSE graph
  /\ lock' = None
  /\ Go(t, CASE req[t].kind = "Index" -> "lockvector"
             [] req[t].kind = "Delete" -> "event"
             [] OTHER -> "finalize")
  /\ batch' = IF req[t].kind = "Delete" THEN [batch EXCEPT ![t] = @ \cup {mid[t]}] ELSE batch
  /\ UNCHANGED <<wal, nextId, index, graph, chunks, chunksDisk, defer, proc, req,
                 mid, recon, faults, history>>

FlushGraphFails(t) ==
  /\ pc[t] = "flushgraph" /\ Fault /\ (SqlitePrimary \/ ~defer)
  /\ Fail(t)
  /\ UNCHANGED <<wal, nextId, index, stores, defer, proc, req, mid, batch, rows,
                 rebuilt, history>>

-----------------------------------------------------------------------------
(* commit_vector, under commit_lock; called by the thread that began the    *)
(* mutation and by the replay.                                              *)
\* Mutant: the phase is not checked again under the lock.
LockVectorUnchecked(a) ==
  /\ pc[a] = "lockvector" /\ lock = None
  /\ lock' = a /\ Go(a, "enqueue")
  /\ UNCHANGED <<wal, nextId, index, stores, defer, proc, req, mid, batch, recon,
                 faults, history>>

LockVector(a) ==
  /\ pc[a] = "lockvector" /\ lock = None
  /\ IF wal[mid[a]].phase = "GraphDone"
     THEN lock' = a /\ Go(a, "enqueue") /\ UNCHANGED replayErr
     ELSE Fail(a)
  /\ UNCHANGED <<wal, nextId, index, stores, defer, proc, req, mid, batch, rows,
                 rebuilt, faults, history>>

(* Every affected row in the graph gets an embed job, which embedded        *)
(* counts, and a registered chunk; the sqlite vector store writes the       *)
(* registration through.                                                    *)
Enqueue(a) ==
  /\ pc[a] = "enqueue"
  /\ LET A == wal[mid[a]].affected \cap Present(graph) IN
       /\ chunks' = chunks \cup A
       /\ chunksDisk' = IF SqlitePrimary THEN chunks \cup A ELSE chunksDisk
  /\ embedded' = [embedded EXCEPT ![mid[a]] = @ + 1]
  /\ Go(a, "vectordone")
  /\ UNCHANGED <<wal, nextId, index, graph, disk, defer, lock, proc, req, mid, batch, recon,
                 faults, stampOf, wrote, acked, swept>>

VectorDone(a) ==
  /\ pc[a] = "vectordone"
  /\ IF CanTransitionTo(wal[mid[a]].phase, "VectorDone")
     THEN SetPhase(mid[a], "VectorDone") /\ Go(a, "committed") /\ UNCHANGED <<lock, replayErr>>
     ELSE Fail(a) /\ UNCHANGED wal
  /\ UNCHANGED <<nextId, index, stores, defer, proc, req, mid, batch, rows, rebuilt,
                 faults, history>>

Committed(a) ==
  /\ pc[a] = "committed"
  /\ index' = IndexSet(wal[mid[a]].affected, "VectorDone")
  /\ IF CanTransitionTo(wal[mid[a]].phase, "Committed")
     THEN SetPhase(mid[a], "Committed") /\ Go(a, "flushvector") /\ UNCHANGED <<lock, replayErr>>
     ELSE Fail(a) /\ UNCHANGED wal
  /\ UNCHANGED <<nextId, stores, defer, proc, req, mid, batch, rows, rebuilt,
                 faults, history>>

FlushVector(a) ==
  /\ pc[a] = "flushvector"
  /\ index' = IndexSet(wal[mid[a]].affected, "Committed")
  /\ disk' = IF SqlitePrimary \/ defer THEN disk ELSE graph
  /\ chunksDisk' = IF SqlitePrimary \/ defer THEN chunksDisk ELSE chunks
  /\ lock' = None
  /\ Go(a, IF a = Recon THEN "replay" ELSE "event")
  /\ batch' = IF a = Recon THEN batch ELSE [batch EXCEPT ![a] = @ \cup {mid[a]}]
  /\ UNCHANGED <<wal, nextId, graph, chunks, defer, proc, req, mid, recon, faults,
                 history>>

FlushVectorFails(a) ==
  /\ pc[a] = "flushvector" /\ Fault /\ ~SqlitePrimary /\ ~defer
  /\ index' = IndexSet(wal[mid[a]].affected, "Committed")
  /\ Fail(a)
  /\ UNCHANGED <<wal, nextId, stores, defer, proc, req, mid, batch, rows, rebuilt,
                 history>>

-----------------------------------------------------------------------------
(* finalize_graph_only for a status mutation and finalize_committed for the *)
(* others: no commit_lock, and a flush that defer does not suppress.        *)
\* Mutant: finalize_committed expects the phase commit_vector starts from.
FinalizableAtGraphDone(id) == wal[id].phase = "GraphDone"

Finalizable(id) ==
  wal[id].phase \in (IF wal[id].kind \in GraphOnlyKinds THEN {"GraphDone", "VectorDone"}
                     ELSE {"VectorDone"})

Finalize(a) ==
  /\ pc[a] = "finalize"
  /\ IF Finalizable(mid[a])
     THEN SetPhase(mid[a], "Committed") /\ Go(a, "finalflush") /\ UNCHANGED <<lock, replayErr>>
     ELSE Fail(a) /\ UNCHANGED wal
  /\ UNCHANGED <<nextId, index, stores, defer, proc, req, mid, batch, rows, rebuilt,
                 faults, history>>

FinalFlush(a) ==
  /\ pc[a] = "finalflush"
  /\ index' = IndexSet(wal[mid[a]].affected, "Committed")
  /\ disk' = IF SqlitePrimary THEN disk ELSE graph
  /\ chunksDisk' = IF wal[mid[a]].kind \in GraphOnlyKinds THEN chunksDisk ELSE chunks
  /\ Go(a, IF a = Recon THEN "replay" ELSE "discard")
  /\ batch' = IF a = Recon THEN batch ELSE [batch EXCEPT ![a] = {mid[a]}]
  /\ UNCHANGED <<wal, nextId, graph, chunks, defer, lock, proc, req, mid, recon,
                 faults, history>>

FinalFlushFails(a) ==
  /\ pc[a] = "finalflush" /\ Fault /\ ~SqlitePrimary
  /\ index' = IndexSet(wal[mid[a]].affected, "Committed")
  /\ Fail(a)
  /\ UNCHANGED <<wal, nextId, stores, defer, proc, req, mid, batch, rows, rebuilt,
                 history>>

-----------------------------------------------------------------------------
(* PeriodicReconciler::run_once: merge recovery, then reconcile_now.        *)
(* Recovery runs in with_merge_write, which on SQLite starts from an empty  *)
(* overlay, flushes whatever the overlay holds then and drops it; an error  *)
(* of the flush skips the drop and nothing else.  The recovery itself finds *)
(* no merge here.                                                           *)
Unsaved == {id \in LogIds : \E r \in wrote[id] :
              graph[r].stamp = stampOf[id] /\ disk[r].stamp < stampOf[id]}

StartReconcile ==
  /\ Periodic /\ proc = "ready" /\ pc[Recon] = "idle"
  /\ Go(Recon, IF SqlitePrimary THEN "mergeflush" ELSE "snapshot")
  /\ graph' = IF SqlitePrimary THEN EmptyStore ELSE graph
  /\ swept' = IF SqlitePrimary THEN swept \cup Unsaved ELSE swept
  /\ UNCHANGED <<wal, nextId, index, disk, chunks, chunksDisk, defer, lock, proc,
                 req, mid, batch, recon, faults, stampOf, wrote, acked, embedded>>

MergeFlush ==
  /\ pc[Recon] = "mergeflush"
  /\ disk' = DeltaFlush({})
  /\ Go(Recon, "mergediscard")
  /\ UNCHANGED <<wal, nextId, index, graph, chunks, chunksDisk, defer, lock, proc,
                 req, mid, batch, recon, faults, history>>

MergeFlushFails ==
  /\ pc[Recon] = "mergeflush" /\ Fault
  /\ Go(Recon, "snapshot")
  /\ UNCHANGED <<wal, nextId, index, stores, defer, lock, proc, req, mid, batch,
                 recon, history>>

MergeDiscard ==
  /\ pc[Recon] = "mergediscard"
  /\ graph' = EmptyStore /\ swept' = swept \cup Unsaved
  /\ Go(Recon, "snapshot")
  /\ UNCHANGED <<wal, nextId, index, disk, chunks, chunksDisk, defer, lock, proc,
                 req, mid, batch, recon, faults, stampOf, wrote, acked, embedded>>

Snapshot ==
  /\ pc[Recon] = "snapshot"
  /\ Go(Recon, "replay")
  /\ rows' = [i \in LogIds |-> IF wal[i].phase \in InFlight THEN wal[i].phase ELSE "absent"]
  /\ replayErr' = FALSE
  /\ UNCHANGED <<wal, nextId, index, stores, defer, lock, proc, req, mid, batch,
                 rebuilt, faults, history>>

\* Mutant: replay stops at the vector phase.
ToReplayNoVectorDone == {i \in LogIds : rows[i] \in {"Pending", "GraphDone"}}

ToReplay == {i \in LogIds : rows[i] # "absent"}

\* The phase decided on is the snapshot's, not the record's current one.
ReplayRow(id) ==
  /\ pc[Recon] = "replay" /\ id \in ToReplay /\ \A j \in ToReplay : id <= j
  /\ rows' = [rows EXCEPT ![id] = "absent"]
  /\ UNCHANGED <<nextId, index, disk, chunks, chunksDisk, defer, proc, req, batch,
                 rebuilt, faults, history>>

ReplayPendingCommits(id) ==  \* Mutant: a pending mutation is taken as done.
  /\ ReplayRow(id) /\ rows[id] = "Pending"
  /\ SetPhase(id, "Committed")
  /\ UNCHANGED <<graph, mid, pc, lock, replayErr>>

ReplayPending(id) ==
  /\ ReplayRow(id) /\ rows[id] = "Pending"
  /\ IF CanTransitionTo(wal[id].phase, "Failed")
     THEN SetPhase(id, "Failed") /\ UNCHANGED <<pc, lock, replayErr>>
     ELSE Fail(Recon) /\ UNCHANGED wal
  /\ UNCHANGED <<graph, mid>>

ReplayVector(id) ==
  /\ ReplayRow(id) /\ rows[id] = "GraphDone" /\ wal[id].kind \in SingleKinds
  /\ mid' = [mid EXCEPT ![Recon] = id] /\ Go(Recon, "lockvector")
  /\ UNCHANGED <<wal, graph, lock, replayErr>>

(* reapply_status_mutation, over the rows the graph holds now.              *)
ReplayStatus(id) ==
  /\ ReplayRow(id) /\ rows[id] = "GraphDone" /\ wal[id].kind \in GraphOnlyKinds
  /\ mid' = [mid EXCEPT ![Recon] = id] /\ Go(Recon, "finalize")
  /\ graph' = [r \in Rows |->
                 IF r \in wal[id].affected \cap Present(graph)
                 THEN [stamp |-> IF graph[r].stamp < stampOf[id] THEN stampOf[id]
                                 ELSE graph[r].stamp,
                       live |-> wal[id].kind = "Promote"]
                 ELSE graph[r]]
  /\ UNCHANGED <<wal, lock, replayErr>>

ReplayFinalize(id) ==
  /\ ReplayRow(id) /\ rows[id] = "VectorDone"
  /\ mid' = [mid EXCEPT ![Recon] = id] /\ Go(Recon, "finalize")
  /\ UNCHANGED <<wal, graph, lock, replayErr>>

ReplayEnds ==
  /\ pc[Recon] = "replay" /\ ToReplay = {}
  /\ Go(Recon, "rebuild")
  /\ UNCHANGED <<wal, nextId, index, stores, defer, lock, proc, req, mid, batch,
                 recon, faults, history>>

(* sync_rebuild_index_from_wal reads the log, then locks the index.  The    *)
(* code runs it twice in a row after a replay without error; the second run *)
(* is the one modelled, its result replaces the first's.                    *)
Rebuild ==
  /\ pc[Recon] = "rebuild"
  /\ Go(Recon, "install")
  /\ rebuilt' = IndexFromWal
  /\ UNCHANGED <<wal, nextId, index, stores, defer, lock, proc, req, mid, batch,
                 rows, replayErr, faults, history>>

\* reconcile_on_startup refuses to serve after a replay error.
Install ==
  /\ pc[Recon] = "install"
  /\ Go(Recon, "idle")
  /\ index' = rebuilt /\ rebuilt' = NoIndex
  /\ proc' = IF proc # "replay" THEN proc ELSE IF replayErr THEN "refused" ELSE "ready"
  /\ replayErr' = FALSE /\ mid' = [mid EXCEPT ![Recon] = 0]
  /\ UNCHANGED <<wal, nextId, stores, defer, lock, req, batch, rows, faults, history>>

-----------------------------------------------------------------------------
(* WriteCoordinator::open on what is durable, then reconcile_on_startup     *)
(* before any thread runs.                                                  *)
Open ==
  /\ graph' = IF SqlitePrimary THEN EmptyStore ELSE disk
  /\ chunks' = chunksDisk
  /\ index' = NoIndex /\ defer' = FALSE /\ lock' = None
  /\ proc' = "replay"
  /\ pc' = [a \in Actors |-> IF a = Recon THEN "snapshot" ELSE "idle"]
  /\ req' = NoRequest /\ mid' = [a \in Actors |-> 0]
  /\ batch' = [t \in Threads |-> {}]
  /\ rows' = [i \in LogIds |-> "absent"] /\ rebuilt' = NoIndex /\ replayErr' = FALSE
  /\ embedded' = [i \in LogIds |-> 0]
  /\ UNCHANGED <<wal, nextId, disk, chunksDisk, stampOf, wrote, acked, swept>>

Crash == proc # "refused" /\ Fault /\ Open
Restart == proc = "refused" /\ Open /\ UNCHANGED faults

-----------------------------------------------------------------------------
ThreadStep(t) ==
  \/ StartBatch(t) \/ PreloadTombstones(t) \/ NextEvent(t) \/ FinishBatch(t)
  \/ EndFlush(t) \/ DiscardOverlay(t)
  \/ RequestStatus(t) \/ Preload(t) \/ Append(t) \/ Register(t)
  \/ LockGraph(t) \/ Apply(t) \/ GraphDone(t) \/ GraphIndex(t) \/ FlushGraph(t)

CommitStep(a) ==
  \/ LockVector(a) \/ Enqueue(a) \/ VectorDone(a) \/ Committed(a) \/ FlushVector(a)
  \/ Finalize(a) \/ FinalFlush(a)

Replay(id) ==
  ReplayPending(id) \/ ReplayVector(id) \/ ReplayStatus(id) \/ ReplayFinalize(id)

ReconStep ==
  \/ StartReconcile \/ MergeFlush \/ MergeDiscard
  \/ Snapshot \/ ReplayEnds \/ Rebuild \/ Install
  \/ \E id \in LogIds : Replay(id)

ErrorStep(a) == FlushVectorFails(a) \/ FinalFlushFails(a)
ThreadError(t) ==
  EndFlushFails(t) \/ PreloadFails(t) \/ ApplyFails(t) \/ FlushGraphFails(t)

Next ==
  \/ \E t \in Threads : ThreadStep(t) \/ ThreadError(t)
  \/ \E a \in Actors : CommitStep(a) \/ ErrorStep(a)
  \/ ReconStep \/ MergeFlushFails \/ Crash \/ Restart

Spec == Init /\ [][Next]_vars

(* Threads and the reconciler are OS threads that keep running, a refused   *)
(* daemon is started again, and requests need not come: nothing forces a    *)
(* StartBatch or a RequestStatus.                                           *)
Fairness ==
  /\ \A a \in Actors : WF_vars(CommitStep(a))
  /\ \A t \in Threads : WF_vars(ThreadStep(t) /\ pc[t] # "idle")
  /\ WF_vars(ReconStep)
  /\ WF_vars(Restart)

FairSpec == Spec /\ Fairness

-----------------------------------------------------------------------------
(* What an Ok answer promises: every row the closure of an answered         *)
(* mutation wrote is in the durable graph at least as new as that closure   *)
(* left it, through other requests, the reconciler, errors and crashes      *)
(* (commit_graph, flush_graph_delta, flush_committed_snapshots).  The       *)
(* exception is a mutation whose rows the periodic merge recovery dropped   *)
(* from the overlay of SQLite before its flush.                             *)
AckedIsDurable ==
  \A id \in acked \ swept : \A r \in wrote[id] : disk[r].stamp >= stampOf[id]

(* A mutation is embedded at most once in a life of the process, whoever    *)
(* drives it: its thread and the reconciler both call commit_vector         *)
(* (coordinator.rs, commit_lock).                                           *)
EmbeddedOnce == \A id \in LogIds : embedded[id] <= 1

(* The daemon serves requests only when replay has settled every mutation   *)
(* of the previous life (reconcile_on_startup).                             *)
ReadyAfterReplay ==
  [][proc = "replay" /\ proc' = "ready" =>
       \A id \in LogIds : wal'[id].phase \notin InFlight]_vars

(* A mutation the index is behind: the newest of a revision is in flight,   *)
(* its handler is not between the log and the index, and the entry of the   *)
(* revision, which is_stale_for_query answers from, is not its phase.       *)
Newest(id, r) == r \in wal[id].affected /\ \A j \in LogIds : r \in wal[j].affected => j <= id
InTransit(id) ==
  \E a \in Actors : mid[a] = id /\ pc[a] \in {"register", "graphindex", "committed"}
IsBehind(id) ==
  /\ wal[id].phase \in InFlight /\ ~InTransit(id)
  /\ \E r \in Rows : Newest(id, r) /\ index[r] # wal[id].phase

(* However requests, errors and replays interleave, two steps only put the  *)
(* index of a serving daemon behind the log: the periodic rebuild installs a*)
(* view of the log it read earlier, and a step of another mutation of the   *)
(* same revision writes its own phase (MutationIndex, its callers).         *)
StepOfAnother(id) ==
  \E a \in Actors : /\ mid[a] \notin {0, id} /\ pc'[a] # pc[a]
                    /\ wal[mid[a]].affected \cap wal[id].affected # {}
IndexKeepsUp ==
  [][proc = "ready" /\ proc' = "ready" /\ pc[Recon] # "install" =>
       \A id \in LogIds : IsBehind(id)' => IsBehind(id) \/ StepOfAnother(id)]_vars

(* The index is never behind; refuted by both.                              *)
IndexFollowsLog == proc = "ready" => \A id \in LogIds : ~IsBehind(id)

(* The write path implements MutationLifecycle: threads, reconciler, errors *)
(* and crashes together never run a closure twice, reopen a settled         *)
(* mutation, commit one that never ran or embed one after its commit        *)
(* (commit_graph, commit_vector, replay_inflight_wal).                      *)
Outcome(p) == CASE p = "absent" -> "absent"
                [] p \in InFlight -> "open"
                [] p = "Committed" -> "committed"
                [] OTHER -> "failed"
Lifecycle == INSTANCE MutationLifecycle WITH
  Ids <- LogIds, outcome <- [i \in LogIds |-> Outcome(wal[i].phase)],
  ran <- {i \in LogIds : stampOf[i] # 0}
ImplementsLifecycle == Lifecycle!ASpec

(* With the reconciler running, every mutation that is begun reaches        *)
(* Committed or Failed (PeriodicReconciler, reconcile_now); a deletion has  *)
(* no other way to get there.                                               *)
EveryMutationSettles ==
  \A id \in LogIds : wal[id].phase \in InFlight ~> wal[id].phase \in Terminal

(* commit_lock is always given back, on the error paths too.                *)
LockIsReleased == []<>(lock = None)

(* No crash leaves a log that replay cannot get through: the daemon always  *)
(* becomes ready again (reconcile_on_startup).                              *)
DaemonBecomesReady == []<>(proc = "ready")

(* Durable cross-store completion, the documented meaning of Committed      *)
(* (cis-wal/src/phase.rs).                                                  *)
CommittedIsDurable ==
  \A id \in LogIds : wal[id].phase = "Committed" =>
                        \A r \in wrote[id] : disk[r].stamp >= stampOf[id]

(* The documented condition for marking a mutation Failed: no partial graph *)
(* is left without rollback (cis-wal/src/phase.rs).  Nothing rolls rows     *)
(* back, so a closure must not have run.                                    *)
FailedLeavesNoGraph ==
  \A id \in LogIds : wal[id].phase = "Failed" => \A r \in wrote[id] : graph[r].stamp # stampOf[id]
=============================================================================
