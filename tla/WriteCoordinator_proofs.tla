----------------------- MODULE WriteCoordinator_proofs -----------------------
(* Proofs about WriteCoordinator for every set of threads and files and     *)
(* every bound, in both backends, with and without the periodic reconciler. *)
EXTENDS WriteCoordinator, FiniteSetTheorems, TLAPS

USE ActorAssumption, WorkAssumption, FilesAssumption, BoundAssumption, ModeAssumption

-----------------------------------------------------------------------------
(* Where actors are.                                                        *)
Critical == {"apply", "graphdone", "graphindex", "flushgraph",
             "enqueue", "vectordone", "committed", "flushvector"}
Begun == Critical \cup {"register", "lockgraph", "lockvector", "finalize", "finalflush"}

(* commit_lock is held exactly by the actor in a commit section.            *)
LockInv == \A a \in Actors : pc[a] \in Critical <=> lock = a

(* Threads and the reconciler run their own code.                           *)
CodeInv ==
  /\ \A t \in Threads : pc[t] \notin {"mergeflush", "mergediscard", "snapshot", "replay",
                                 "rebuild", "install"}
  /\ pc[Recon] \notin {"tombs", "event", "preload", "append", "register", "lockgraph",
                       "apply", "graphdone", "graphindex", "flushgraph"}

(* A thread has begun its mutation and not yet run its closure.             *)
Waiting(t) ==
  \/ pc[t] \in {"register", "lockgraph", "apply"}
  \/ pc[t] = "preload" /\ req[t].kind = "Delete"

(* An actor past append works on a log id.                                  *)
BegunHasId == \A a \in Actors : pc[a] \in Begun => mid[a] \in LogIds

(* A waiting thread's id is taken, its closure has not run, and no other    *)
(* waiting thread has the same id; an id not yet taken has no record and    *)
(* no closure.                                                              *)
WaitingHasId ==
  \A t \in Threads : Waiting(t) =>
    mid[t] \in LogIds /\ mid[t] < nextId /\ stampOf[mid[t]] = 0
WaitingApart ==
  \A t, u \in Threads : Waiting(t) /\ Waiting(u) /\ t # u => mid[t] # mid[u]
FutureEmpty ==
  \A i \in LogIds : i >= nextId => wal[i].phase = "absent" /\ stampOf[i] = 0
IdInv == BegunHasId /\ WaitingHasId /\ WaitingApart /\ FutureEmpty

(* A mutation about to be embedded has not been embedded in this life and   *)
(* is past Pending; one that has been is past the graph phase too, or the   *)
(* holder of the lock is about to record that it is.                        *)
EnqueueOnce == \A a \in Actors : pc[a] = "enqueue" => embedded[mid[a]] = 0
EnqueuePhase ==
  \A a \in Actors : pc[a] \in {"enqueue", "vectordone"} =>
                       wal[mid[a]].phase \notin {"absent", "Pending"}
EmbeddedPhase ==
  \A i \in LogIds : embedded[i] # 0 =>
    \/ wal[i].phase \in {"VectorDone", "Committed", "Failed"}
    \/ lock \in Actors /\ pc[lock] = "vectordone" /\ mid[lock] = i
EmbedInv == EmbeddedOnce /\ EnqueueOnce /\ EnqueuePhase /\ EmbeddedPhase

(* A record is appended at the next id as Pending, and then moves as        *)
(* update_phase allows.                                                     *)
LegalStep ==
  \A i \in LogIds :
    \/ wal'[i].phase = wal[i].phase
    \/ /\ wal[i].phase = "absent" /\ wal'[i].phase = "Pending"
       /\ i = nextId /\ nextId' = nextId + 1
    \/ CanTransitionTo(wal[i].phase, wal'[i].phase)

(* A step lets no thread begin to wait, and leaves the ids and closures of  *)
(* those that wait alone.                                                   *)
WaitingQuiet ==
  /\ UNCHANGED <<nextId, stampOf>>
  /\ \A u \in Threads : Waiting(u)' => Waiting(u) /\ mid'[u] = mid[u]

(* A step embeds nothing and leaves alone whoever is embedding.             *)
EmbedQuiet ==
  /\ UNCHANGED embedded
  /\ \A b \in Actors : pc'[b] \in {"enqueue", "vectordone"} =>
                           pc'[b] = pc[b] /\ mid'[b] = mid[b]
  /\ lock \in Actors /\ pc[lock] = "vectordone" =>
       UNCHANGED lock /\ pc'[lock] = pc[lock] /\ mid'[lock] = mid[lock]

IndInv == TypeOK /\ CodeInv /\ LockInv /\ IdInv /\ EmbedInv

-----------------------------------------------------------------------------
(* What the operators return.                                               *)
\* A closure that has not run leaves a stamp for itself.
LEMMA StampInRange ==
  ASSUME TypeOK, NEW id \in LogIds, stampOf[id] = 0
  PROVE  Stamp \in 1..MaxLogId
<1> DEFINE R == {i \in LogIds : stampOf[i] # 0}
<1>1. IsFiniteSet(LogIds) /\ Cardinality(LogIds) = MaxLogId
  BY FS_Interval DEF LogIds
<1>2. R \in SUBSET LogIds /\ R # LogIds
  OBVIOUS
<1>3. Cardinality(R) \in Nat /\ Cardinality(R) < MaxLogId
  <2>1. IsFiniteSet(R) /\ Cardinality(R) <= MaxLogId
    BY <1>1, <1>2, FS_Subset
  <2>2. Cardinality(R) # MaxLogId
    BY <1>1, <1>2, FS_Subset
  <2>3. Cardinality(R) \in Nat
    BY <2>1, FS_CardinalityType
  <2> QED
    BY <2>1, <2>2, <2>3
<1> QED
  BY <1>3 DEF Stamp

\* Every set of rows a closure may write consists of rows (apply_index_events).
LEMMA WrittenRows ==
  ASSUME NEW id, NEW f \in Files, NEW W \in Written(graph, id, f)
  PROVE  W \subseteq Rows
<1>1. Stable(f) \in Rows /\ Edited(f) \in Rows
  BY DEF Rows, Stable, Edited
<1>2. LiveRows(graph, f) \subseteq Rows
  BY DEF LiveRows, RowsOf
<1>3. Present(graph) \subseteq Rows
  BY DEF Present
<1>4. CASE W \in IndexWrites(graph, f)
  BY <1>1, <1>2, <1>4 DEF IndexWrites
<1>5. CASE W = LiveRows(graph, f)
  BY <1>2, <1>5
<1>6. CASE W = wal[id].affected \cap Present(graph)
  BY <1>3, <1>6
<1> QED
  BY <1>4, <1>5, <1>6 DEF Written

\* Writing rows in a store leaves a store.
LEMMA WriteType ==
  ASSUME TypeOK, NEW id, NEW W, NEW stamp \in 0..MaxLogId
  PROVE  Write(graph, id, W, stamp) \in Stores
<1>1. \A r : LiveAfter(id, W, r) \in BOOLEAN
  BY DEF LiveAfter
<1> QED
  BY <1>1 DEF TypeOK, LogOK, StoresOK, HistoryOK, Write, Stores, Contents

\* apply_transition leaves only phases in flight in the index.
LEMMA IndexSetType ==
  ASSUME TypeOK, NEW A, NEW p \in MaybePhases
  PROVE  IndexSet(A, p) \in [Rows -> IndexEntries]
BY DEF TypeOK, LogOK, StoresOK, HistoryOK, IndexSet, IndexEntries, MaybePhases, Phases, Terminal, InFlight

\* So does the rebuild from the log.
LEMMA IndexFromWalType == ASSUME TypeOK PROVE IndexFromWal \in [Rows -> IndexEntries]
<1>1. ASSUME NEW r \in Rows, NewestOn(r) # {}
      PROVE  wal[CHOOSE i \in NewestOn(r) : TRUE].phase \in InFlight
  BY <1>1 DEF NewestOn, InFlightOn
<1> QED
  BY <1>1 DEF IndexFromWal, IndexEntries

\* What a new record lists as affected are rows.
LEMMA AffectedRows ==
  ASSUME NEW k, NEW f \in Files
  PROVE  Affected(k, f) \subseteq Rows
BY DEF Affected, Rows, Stable, Sentinel, LiveRows, RowsOf

\* The empty overlay is a store.
LEMMA NoContentType == EmptyStore \in Stores
BY DEF EmptyStore, Stores, NoContent, Contents

\* apply_delta leaves a store on disk.
LEMMA DeltaFlushType == ASSUME TypeOK, NEW A PROVE DeltaFlush(A) \in Stores
BY DEF TypeOK, LogOK, StoresOK, HistoryOK, DeltaFlush, Stores

\* The placeholder of an idle thread is a request.
LEMMA NoRequestType == NoRequest \in [Threads -> [kind : MutationKinds, file : Files]]
BY DEF NoRequest, MutationKinds, SingleKinds, GraphOnlyKinds

-----------------------------------------------------------------------------
(* What the pieces shared by many actions leave well typed.                 *)
LEMMA GoType ==
  ASSUME TypeOK, NEW a, NEW l \in Labels, Go(a, l)
  PROVE  pc' \in [Actors -> Labels]
BY DEF TypeOK, ControlOK, Go

\* An error path leaves pc, commit_lock and wal_replay_failed well typed.
LEMMA FailType ==
  ASSUME TypeOK, NEW a, Fail(a)
  PROVE  /\ pc' \in [Actors -> Labels] /\ lock' \in Actors \cup {None}
         /\ replayErr' \in BOOLEAN
<1>1. pc' \in [Actors -> Labels]
  BY DEF TypeOK, ControlOK, Fail, Go, Labels
<1>2. lock' \in Actors \cup {None}
  BY DEF TypeOK, ControlOK, Fail
<1>3. replayErr' \in BOOLEAN
  BY DEF Fail
<1> QED
  BY <1>1, <1>2, <1>3

\* The fault counter stays within its bound.
LEMMA FaultType == ASSUME TypeOK, Fault PROVE faults' \in 0..MaxFaults
BY DEF TypeOK, ControlOK, Fault

\* update_phase to a phase leaves a well-typed log.
LEMMA SetPhaseType ==
  ASSUME TypeOK, NEW id \in LogIds, NEW q \in Phases, SetPhase(id, q)
  PROVE  wal' \in [LogIds -> Records]
BY DEF TypeOK, LogOK, SetPhase, Records, MaybePhases

\* A new process is well typed.
LEMMA OpenType == ASSUME TypeOK, Open, faults' \in 0..MaxFaults PROVE TypeOK'
<1> USE DEF TypeOK
<1>1. LogOK'
  BY DEF Open, LogOK, NoIndex, IndexEntries
<1>2. StoresOK'
  BY NoContentType DEF Open, StoresOK
<1>3. ControlOK'
  <2>1. pc' \in [Actors -> Labels]
    BY DEF Open, Labels
  <2>2. mid' \in [Actors -> 0..MaxLogId]
    BY DEF Open
  <2> QED
    BY <2>1, <2>2, NoRequestType DEF Open, ControlOK
<1>4. HistoryOK'
  BY DEF Open, HistoryOK
<1> QED
  BY <1>1, <1>2, <1>3, <1>4

\* Running a closure leaves the graph and the history well typed.
LEMMA RunClosureType ==
  ASSUME TypeOK, NEW t \in Threads, mid[t] \in LogIds, stampOf[mid[t]] = 0, RunClosure(t)
  PROVE  /\ graph' \in Stores /\ wrote' \in [LogIds -> SUBSET Rows]
         /\ stampOf' = [stampOf EXCEPT ![mid[t]] = Stamp] /\ Stamp \in 1..MaxLogId
<1>1. PICK W \in Written(graph, mid[t], req[t].file) :
        /\ graph' = Write(graph, mid[t], W, Stamp)
        /\ wrote' = [wrote EXCEPT ![mid[t]] = W]
        /\ stampOf' = [stampOf EXCEPT ![mid[t]] = Stamp]
  BY DEF RunClosure
<1>2. Stamp \in 1..MaxLogId
  BY StampInRange
<1>3. req[t].file \in Files
  BY DEF TypeOK, ControlOK
<1>4. W \subseteq Rows
  BY <1>3, WrittenRows
<1>5. graph' \in Stores
  <2>1. Stamp \in 0..MaxLogId
    BY <1>2
  <2> QED
    BY <1>1, <2>1, WriteType
<1>6. wrote' \in [LogIds -> SUBSET Rows]
  BY <1>1, <1>4 DEF TypeOK, HistoryOK
<1> QED
  BY <1>1, <1>2, <1>5, <1>6

-----------------------------------------------------------------------------
(* Type correctness of every step.                                          *)
LEMMA TypeStep == IndInv /\ [Next]_vars => TypeOK'
<1> SUFFICES ASSUME IndInv, [Next]_vars PROVE TypeOK'
  OBVIOUS
<1> USE DEF IndInv, TypeOK
<1>0. CASE UNCHANGED vars
  BY <1>0 DEF vars, stores, control, recon, history, LogOK, StoresOK, ControlOK, HistoryOK
<1>1. ASSUME NEW t \in Threads, StartBatch(t) PROVE TypeOK'
  <2>1. LogOK' /\ HistoryOK'
    BY <1>1 DEF StartBatch, recon, LogOK, history, HistoryOK
  <2>2. StoresOK'
    BY <1>1, NoContentType DEF StartBatch, stores, StoresOK
  <2>3. ControlOK'
    BY <1>1, GoType DEF StartBatch, control, ControlOK, Labels, Actors
  <2> QED
    BY <2>1, <2>2, <2>3
<1>2. ASSUME NEW t \in Threads, PreloadTombstones(t) PROVE TypeOK'
  <2>1. LogOK' /\ HistoryOK'
    BY <1>2 DEF PreloadTombstones, recon, LogOK, history, HistoryOK
  <2>2. StoresOK'
    BY <1>2 DEF PreloadTombstones, stores, StoresOK, Stores
  <2>3. ControlOK'
    BY <1>2, GoType DEF PreloadTombstones, control, ControlOK, Labels, Actors
  <2> QED
    BY <2>1, <2>2, <2>3
<1>3. ASSUME NEW t \in Threads, NextEvent(t) PROVE TypeOK'
  <2>1. LogOK' /\ StoresOK' /\ HistoryOK'
    BY <1>3 DEF NextEvent, recon, LogOK, stores, StoresOK, history, HistoryOK
  <2>2. ControlOK'
    BY <1>3, GoType
       DEF NextEvent, control, ControlOK, Labels, Actors, SingleKinds, MutationKinds
  <2> QED
    BY <2>1, <2>2
<1>4. ASSUME NEW t \in Threads, FinishBatch(t) PROVE TypeOK'
  <2>1. LogOK'
    BY <1>4 DEF FinishBatch, recon, LogOK
  <2>2. StoresOK'
    BY <1>4, NoContentType DEF FinishBatch, stores, StoresOK
  <2>3. ControlOK'
    BY <1>4, GoType DEF FinishBatch, control, ControlOK, Labels, Actors
  <2>4. HistoryOK'
    BY <1>4 DEF FinishBatch, history, HistoryOK, ControlOK
  <2> QED
    BY <2>1, <2>2, <2>3, <2>4
<1>5. ASSUME NEW t \in Threads, RequestStatus(t) PROVE TypeOK'
  <2>1. LogOK' /\ StoresOK' /\ HistoryOK'
    BY <1>5 DEF RequestStatus, recon, LogOK, stores, StoresOK, history, HistoryOK
  <2>2. ControlOK'
    BY <1>5, GoType
       DEF RequestStatus, control, ControlOK, Labels, Actors, GraphOnlyKinds, MutationKinds
  <2> QED
    BY <2>1, <2>2
<1>6. ASSUME NEW t \in Threads, Preload(t) PROVE TypeOK'
  <2>1. LogOK' /\ HistoryOK'
    BY <1>6 DEF Preload, recon, LogOK, history, HistoryOK
  <2>2. StoresOK'
    BY <1>6 DEF Preload, stores, StoresOK, Stores
  <2>3. ControlOK'
    BY <1>6, GoType DEF Preload, control, ControlOK, Labels, Actors
  <2> QED
    BY <2>1, <2>2, <2>3
<1>7. ASSUME NEW t \in Threads, Append(t) PROVE TypeOK'
  <2>p. mid' \in [Actors -> 0..MaxLogId]
    BY <1>7 DEF Append, LogOK, ControlOK
  <2>q. pc' \in [Actors -> Labels]
    BY <1>7, GoType DEF Append, Labels
  <2>1. StoresOK' /\ HistoryOK'
    BY <1>7 DEF Append, stores, StoresOK, history, HistoryOK
  <2>2. LogOK'
    <3>1. Affected(req[t].kind, req[t].file) \subseteq Rows /\ req[t].kind \in MutationKinds
      BY AffectedRows DEF ControlOK
    <3>2. CASE UNCHANGED <<wal, nextId>>
      BY <1>7, <3>2 DEF Append, recon, LogOK
    <3>3. CASE /\ nextId <= MaxLogId /\ nextId' = nextId + 1
               /\ wal' = [wal EXCEPT ![nextId] =
                    [kind |-> req[t].kind, affected |-> Affected(req[t].kind, req[t].file),
                     phase |-> "Pending"]]
      <4>1. wal' \in [LogIds -> Records]
        BY <3>1, <3>3 DEF LogOK, Records, MaybePhases, Phases, InFlight
      <4> QED
        BY <1>7, <3>3, <4>1 DEF Append, recon, LogOK
    <3> QED
      BY <1>7, <3>2, <3>3 DEF Append
  <2>3. ControlOK'
    BY <1>7, <2>p, <2>q DEF Append, control, ControlOK
  <2> QED
    BY <2>1, <2>2, <2>3
<1>8. ASSUME NEW t \in Threads, Register(t) PROVE TypeOK'
  <2>m. mid[t] \in LogIds
    BY <1>8 DEF Register, IdInv, BegunHasId, Begun, Critical, Actors
  <2>1. StoresOK' /\ HistoryOK'
    BY <1>8 DEF Register, stores, StoresOK, history, HistoryOK
  <2>2. LogOK'
    BY <1>8, IndexSetType, <2>m DEF Register, recon, LogOK, Records
  <2>3. ControlOK'
    BY <1>8, GoType DEF Register, control, ControlOK, Labels, Actors
  <2> QED
    BY <2>1, <2>2, <2>3
<1>9. ASSUME NEW t \in Threads, LockGraph(t) PROVE TypeOK'
  <2>1. StoresOK' /\ HistoryOK'
    BY <1>9 DEF LockGraph, stores, StoresOK, history, HistoryOK
  <2>2. LogOK'
    BY <1>9, FailType DEF LockGraph, recon, LogOK
  <2>3. ControlOK'
    BY <1>9, GoType, FailType DEF LockGraph, control, ControlOK, Labels, Actors
  <2> QED
    BY <2>1, <2>2, <2>3
<1>10. ASSUME NEW t \in Threads, Apply(t) PROVE TypeOK'
  <2>m. mid[t] \in LogIds
    BY <1>10 DEF Apply, IdInv, BegunHasId, Begun, Critical, Actors
  <2>z. stampOf[mid[t]] = 0
    BY <1>10 DEF Apply, IdInv, WaitingHasId, Waiting
  <2>1. LogOK'
    BY <1>10 DEF Apply, recon, LogOK
  <2>2. StoresOK'
    BY <1>10, RunClosureType, <2>m, <2>z DEF Apply, stores, StoresOK
  <2>3. ControlOK'
    BY <1>10, GoType DEF Apply, control, ControlOK, Labels, Actors
  <2>4. HistoryOK'
    BY <1>10, RunClosureType, <2>m, <2>z DEF Apply, history, HistoryOK
  <2> QED
    BY <2>1, <2>2, <2>3, <2>4
<1>11. ASSUME NEW t \in Threads, GraphDone(t) PROVE TypeOK'
  <2>m. mid[t] \in LogIds
    BY <1>11 DEF GraphDone, IdInv, BegunHasId, Begun, Critical, Actors
  <2>1. StoresOK' /\ HistoryOK'
    BY <1>11 DEF GraphDone, stores, StoresOK, history, HistoryOK
  <2>2. LogOK'
    BY <1>11, SetPhaseType, FailType, <2>m
       DEF GraphDone, recon, LogOK, Phases, Terminal, InFlight
  <2>3. ControlOK'
    BY <1>11, GoType, FailType DEF GraphDone, control, ControlOK, Labels, Actors
  <2> QED
    BY <2>1, <2>2, <2>3
<1>12. ASSUME NEW t \in Threads, GraphIndex(t) PROVE TypeOK'
  <2>1. StoresOK' /\ HistoryOK'
    BY <1>12 DEF GraphIndex, stores, StoresOK, history, HistoryOK
  <2>2. LogOK'
    BY <1>12, IndexSetType
       DEF GraphIndex, recon, LogOK, MaybePhases, Phases, Terminal, InFlight
  <2>3. ControlOK'
    BY <1>12, GoType DEF GraphIndex, control, ControlOK, Labels, Actors
  <2> QED
    BY <2>1, <2>2, <2>3
<1>13. ASSUME NEW t \in Threads, FlushGraph(t) PROVE TypeOK'
  <2>m. mid[t] \in LogIds
    BY <1>13 DEF FlushGraph, IdInv, BegunHasId, Begun, Critical, Actors
  <2>1. LogOK' /\ HistoryOK'
    BY <1>13 DEF FlushGraph, recon, LogOK, history, HistoryOK
  <2>2. StoresOK'
    BY <1>13, DeltaFlushType DEF FlushGraph, stores, StoresOK
  <2>3. ControlOK'
    BY <1>13, GoType, <2>m DEF FlushGraph, control, ControlOK, Labels, Actors
  <2> QED
    BY <2>1, <2>2, <2>3
<1>14. ASSUME NEW t \in Threads, EndFlushFails(t) PROVE TypeOK'
  <2>1. StoresOK' /\ HistoryOK'
    BY <1>14 DEF EndFlushFails, stores, StoresOK, history, HistoryOK
  <2>2. LogOK'
    BY <1>14, FailType DEF EndFlushFails, recon, LogOK
  <2>3. ControlOK'
    BY <1>14, FailType, FaultType DEF EndFlushFails, control, ControlOK, Actors
  <2> QED
    BY <2>1, <2>2, <2>3
<1>15. ASSUME NEW t \in Threads, PreloadFails(t) PROVE TypeOK'
  <2>1. StoresOK' /\ HistoryOK'
    BY <1>15 DEF PreloadFails, stores, StoresOK, history, HistoryOK
  <2>2. LogOK'
    BY <1>15, FailType DEF PreloadFails, recon, LogOK
  <2>3. ControlOK'
    BY <1>15, FailType, FaultType DEF PreloadFails, control, ControlOK, Actors
  <2> QED
    BY <2>1, <2>2, <2>3
<1>16. ASSUME NEW t \in Threads, ApplyFails(t) PROVE TypeOK'
  <2>m. mid[t] \in LogIds
    BY <1>16 DEF ApplyFails, IdInv, BegunHasId, Begun, Critical, Actors
  <2>z. stampOf[mid[t]] = 0
    BY <1>16 DEF ApplyFails, IdInv, WaitingHasId, Waiting
  <2>1. LogOK'
    BY <1>16, FailType DEF ApplyFails, recon, LogOK
  <2>2. StoresOK'
    BY <1>16, RunClosureType, <2>m, <2>z DEF ApplyFails, stores, StoresOK
  <2>3. ControlOK'
    BY <1>16, FailType, FaultType DEF ApplyFails, control, ControlOK, Actors
  <2>4. HistoryOK'
    BY <1>16, RunClosureType, <2>m, <2>z DEF ApplyFails, history, HistoryOK
  <2> QED
    BY <2>1, <2>2, <2>3, <2>4
<1>17. ASSUME NEW t \in Threads, FlushGraphFails(t) PROVE TypeOK'
  <2>1. StoresOK' /\ HistoryOK'
    BY <1>17 DEF FlushGraphFails, stores, StoresOK, history, HistoryOK
  <2>2. LogOK'
    BY <1>17, FailType DEF FlushGraphFails, recon, LogOK
  <2>3. ControlOK'
    BY <1>17, FailType, FaultType DEF FlushGraphFails, control, ControlOK, Actors
  <2> QED
    BY <2>1, <2>2, <2>3
<1>18. ASSUME NEW a \in Actors, LockVector(a) PROVE TypeOK'
  <2>1. StoresOK' /\ HistoryOK'
    BY <1>18 DEF LockVector, stores, StoresOK, history, HistoryOK
  <2>2. LogOK'
    BY <1>18, FailType DEF LockVector, recon, LogOK
  <2>3. ControlOK'
    BY <1>18, GoType, FailType DEF LockVector, control, ControlOK, Labels, Actors
  <2> QED
    BY <2>1, <2>2, <2>3
<1>19. ASSUME NEW a \in Actors, Enqueue(a) PROVE TypeOK'
  <2>m. mid[a] \in LogIds
    BY <1>19 DEF Enqueue, IdInv, BegunHasId, Begun, Critical, Actors
  <2>1. LogOK'
    BY <1>19 DEF Enqueue, recon, LogOK
  <2>2. StoresOK'
    BY <1>19, <2>m DEF Enqueue, stores, StoresOK, Present
  <2>3. ControlOK'
    BY <1>19, GoType DEF Enqueue, control, ControlOK, Labels, Actors
  <2>4. HistoryOK'
    BY <1>19, <2>m DEF Enqueue, history, HistoryOK
  <2> QED
    BY <2>1, <2>2, <2>3, <2>4
<1>20. ASSUME NEW a \in Actors, VectorDone(a) PROVE TypeOK'
  <2>m. mid[a] \in LogIds
    BY <1>20 DEF VectorDone, IdInv, BegunHasId, Begun, Critical, Actors
  <2>1. StoresOK' /\ HistoryOK'
    BY <1>20 DEF VectorDone, stores, StoresOK, history, HistoryOK
  <2>2. LogOK'
    BY <1>20, SetPhaseType, FailType, <2>m
       DEF VectorDone, recon, LogOK, Phases, Terminal, InFlight
  <2>3. ControlOK'
    BY <1>20, GoType, FailType DEF VectorDone, control, ControlOK, Labels, Actors
  <2> QED
    BY <2>1, <2>2, <2>3
<1>21. ASSUME NEW a \in Actors, Committed(a) PROVE TypeOK'
  <2>m. mid[a] \in LogIds
    BY <1>21 DEF Committed, IdInv, BegunHasId, Begun, Critical, Actors
  <2>1. StoresOK' /\ HistoryOK'
    BY <1>21 DEF Committed, stores, StoresOK, history, HistoryOK
  <2>2. LogOK'
    BY <1>21, SetPhaseType, FailType, IndexSetType, <2>m
       DEF Committed, recon, LogOK, MaybePhases, Phases, Terminal, InFlight
  <2>3. ControlOK'
    BY <1>21, GoType, FailType DEF Committed, control, ControlOK, Labels, Actors
  <2> QED
    BY <2>1, <2>2, <2>3
<1>22. ASSUME NEW a \in Actors, FlushVector(a) PROVE TypeOK'
  <2>m. mid[a] \in LogIds
    BY <1>22 DEF FlushVector, IdInv, BegunHasId, Begun, Critical, Actors
  <2>1. HistoryOK'
    BY <1>22 DEF FlushVector, history, HistoryOK
  <2>2. LogOK'
    BY <1>22, IndexSetType
       DEF FlushVector, recon, LogOK, MaybePhases, Phases, Terminal, InFlight
  <2>3. StoresOK'
    BY <1>22 DEF FlushVector, stores, StoresOK
  <2>4. ControlOK'
    BY <1>22, GoType, <2>m DEF FlushVector, control, ControlOK, Labels, Actors
  <2> QED
    BY <2>1, <2>2, <2>3, <2>4
<1>23. ASSUME NEW a \in Actors, Finalize(a) PROVE TypeOK'
  <2>m. mid[a] \in LogIds
    BY <1>23 DEF Finalize, IdInv, BegunHasId, Begun, Critical, Actors
  <2>1. StoresOK' /\ HistoryOK'
    BY <1>23 DEF Finalize, stores, StoresOK, history, HistoryOK
  <2>2. LogOK'
    BY <1>23, SetPhaseType, FailType, <2>m
       DEF Finalize, recon, LogOK, Phases, Terminal, InFlight
  <2>3. ControlOK'
    BY <1>23, GoType, FailType DEF Finalize, control, ControlOK, Labels, Actors
  <2> QED
    BY <2>1, <2>2, <2>3
<1>24. ASSUME NEW a \in Actors, FinalFlush(a) PROVE TypeOK'
  <2>m. mid[a] \in LogIds
    BY <1>24 DEF FinalFlush, IdInv, BegunHasId, Begun, Critical, Actors
  <2>1. LogOK'
    BY <1>24, IndexSetType
       DEF FinalFlush, recon, LogOK, MaybePhases, Phases, Terminal, InFlight
  <2>2. StoresOK'
    BY <1>24, NoContentType DEF FinalFlush, stores, StoresOK
  <2>3. ControlOK'
    BY <1>24, <2>m, GoType DEF FinalFlush, ControlOK, Labels, Actors
  <2>4. HistoryOK'
    BY <1>24, <2>m DEF FinalFlush, history, HistoryOK
  <2> QED
    BY <2>1, <2>2, <2>3, <2>4
<1>25. ASSUME NEW a \in Actors, FlushVectorFails(a) PROVE TypeOK'
  <2>1. StoresOK' /\ HistoryOK'
    BY <1>25 DEF FlushVectorFails, stores, StoresOK, history, HistoryOK
  <2>2. LogOK'
    BY <1>25, FailType, IndexSetType
       DEF FlushVectorFails, recon, LogOK, MaybePhases, Phases, Terminal, InFlight
  <2>3. ControlOK'
    BY <1>25, FailType, FaultType DEF FlushVectorFails, control, ControlOK, Actors
  <2> QED
    BY <2>1, <2>2, <2>3
<1>26. ASSUME NEW a \in Actors, FinalFlushFails(a) PROVE TypeOK'
  <2>1. StoresOK' /\ HistoryOK'
    BY <1>26 DEF FinalFlushFails, stores, StoresOK, history, HistoryOK
  <2>2. LogOK'
    BY <1>26, FailType, IndexSetType
       DEF FinalFlushFails, recon, LogOK, MaybePhases, Phases, Terminal, InFlight
  <2>3. ControlOK'
    BY <1>26, FailType, FaultType DEF FinalFlushFails, control, ControlOK, Actors
  <2> QED
    BY <2>1, <2>2, <2>3
<1>27. CASE StartReconcile
  <2>1. LogOK' /\ HistoryOK'
    BY <1>27 DEF StartReconcile, Unsaved, recon, LogOK, history, HistoryOK
  <2>2. StoresOK'
    BY <1>27, NoContentType DEF StartReconcile, stores, StoresOK
  <2>3. ControlOK'
    BY <1>27, GoType DEF StartReconcile, control, ControlOK, Labels, Actors
  <2> QED
    BY <2>1, <2>2, <2>3
<1>28. CASE Snapshot
  <2>1. StoresOK' /\ HistoryOK'
    BY <1>28 DEF Snapshot, stores, StoresOK, history, HistoryOK
  <2>2. LogOK'
    BY <1>28 DEF Snapshot, recon, LogOK, IndexEntries
  <2>3. ControlOK'
    BY <1>28, GoType DEF Snapshot, control, ControlOK, Labels, Actors
  <2> QED
    BY <2>1, <2>2, <2>3
<1>29. CASE ReplayEnds
  <2>1. LogOK' /\ StoresOK' /\ HistoryOK'
    BY <1>29 DEF ReplayEnds, recon, LogOK, stores, StoresOK, history, HistoryOK
  <2>2. ControlOK'
    BY <1>29, GoType DEF ReplayEnds, control, ControlOK, Labels, Actors
  <2> QED
    BY <2>1, <2>2
<1>30. CASE Rebuild
  <2>1. StoresOK' /\ HistoryOK'
    BY <1>30 DEF Rebuild, stores, StoresOK, history, HistoryOK
  <2>2. LogOK'
    BY <1>30, IndexFromWalType DEF Rebuild, recon, LogOK
  <2>3. ControlOK'
    BY <1>30, GoType DEF Rebuild, control, ControlOK, Labels, Actors
  <2> QED
    BY <2>1, <2>2, <2>3
<1>31. CASE Install
  <2>1. StoresOK' /\ HistoryOK'
    BY <1>31 DEF Install, stores, StoresOK, history, HistoryOK
  <2>2. LogOK'
    BY <1>31 DEF Install, recon, LogOK, NoIndex, IndexEntries
  <2>3. ControlOK'
    BY <1>31, GoType DEF Install, control, ControlOK, Labels, Actors
  <2> QED
    BY <2>1, <2>2, <2>3
<1>32. ASSUME NEW t \in Threads, EndFlush(t) PROVE TypeOK'
  <2>1. LogOK' /\ HistoryOK'
    BY <1>32 DEF EndFlush, recon, LogOK, history, HistoryOK
  <2>2. StoresOK'
    BY <1>32, NoContentType DEF EndFlush, stores, StoresOK
  <2>3. ControlOK'
    BY <1>32, GoType DEF EndFlush, control, ControlOK, Labels, Actors
  <2> QED
    BY <2>1, <2>2, <2>3
<1>33. ASSUME NEW id \in LogIds, ReplayPending(id) PROVE TypeOK'
  <2>1. StoresOK' /\ HistoryOK'
    BY <1>33 DEF ReplayPending, ReplayRow, stores, StoresOK, history, HistoryOK
  <2>2. LogOK'
    BY <1>33, SetPhaseType, FailType
       DEF ReplayPending, ReplayRow, recon, LogOK, Phases, Terminal, InFlight, IndexEntries
  <2>3. ControlOK'
    BY <1>33, FailType DEF ReplayPending, ReplayRow, control, ControlOK
  <2> QED
    BY <2>1, <2>2, <2>3
<1>34. ASSUME NEW id \in LogIds, ReplayVector(id) PROVE TypeOK'
  <2>i. id \in 0..MaxLogId
    BY DEF LogIds
  <2>p. mid' \in [Actors -> 0..MaxLogId]
    BY <1>34, <2>i DEF ReplayVector, ControlOK
  <2>q. pc' \in [Actors -> Labels]
    BY <1>34, GoType DEF ReplayVector, Labels
  <2>1. StoresOK' /\ HistoryOK'
    BY <1>34 DEF ReplayVector, ReplayRow, stores, StoresOK, history, HistoryOK
  <2>2. LogOK'
    BY <1>34 DEF ReplayVector, ReplayRow, recon, LogOK, IndexEntries
  <2>3. ControlOK'
    BY <1>34, <2>p, <2>q DEF ReplayVector, ReplayRow, control, ControlOK
  <2> QED
    BY <2>1, <2>2, <2>3
<1>35. ASSUME NEW id \in LogIds, ReplayStatus(id) PROVE TypeOK'
  <2>s. graph' \in Stores
    BY <1>35 DEF ReplayStatus, StoresOK, HistoryOK, Stores, Contents
  <2>i. id \in 0..MaxLogId
    BY DEF LogIds
  <2>p. mid' \in [Actors -> 0..MaxLogId]
    BY <1>35, <2>i DEF ReplayStatus, ControlOK
  <2>q. pc' \in [Actors -> Labels]
    BY <1>35, GoType DEF ReplayStatus, Labels
  <2>1. HistoryOK'
    BY <1>35 DEF ReplayStatus, ReplayRow, history, HistoryOK
  <2>2. LogOK'
    BY <1>35 DEF ReplayStatus, ReplayRow, recon, LogOK, IndexEntries
  <2>3. StoresOK'
    BY <1>35, <2>s DEF ReplayStatus, ReplayRow, stores, StoresOK
  <2>4. ControlOK'
    BY <1>35, <2>p, <2>q DEF ReplayStatus, ReplayRow, control, ControlOK
  <2> QED
    BY <2>1, <2>2, <2>3, <2>4
<1>36. ASSUME NEW id \in LogIds, ReplayFinalize(id) PROVE TypeOK'
  <2>i. id \in 0..MaxLogId
    BY DEF LogIds
  <2>p. mid' \in [Actors -> 0..MaxLogId]
    BY <1>36, <2>i DEF ReplayFinalize, ControlOK
  <2>q. pc' \in [Actors -> Labels]
    BY <1>36, GoType DEF ReplayFinalize, Labels
  <2>1. StoresOK' /\ HistoryOK'
    BY <1>36 DEF ReplayFinalize, ReplayRow, stores, StoresOK, history, HistoryOK
  <2>2. LogOK'
    BY <1>36 DEF ReplayFinalize, ReplayRow, recon, LogOK, IndexEntries
  <2>3. ControlOK'
    BY <1>36, <2>p, <2>q DEF ReplayFinalize, ReplayRow, control, ControlOK
  <2> QED
    BY <2>1, <2>2, <2>3
<1>37. CASE Crash
  BY <1>37, OpenType, FaultType DEF Crash
<1>38. CASE Restart
  BY <1>38, OpenType DEF Restart, ControlOK
<1>39. CASE MergeFlush
  <2>1. LogOK' /\ HistoryOK'
    BY <1>39 DEF MergeFlush, recon, LogOK, history, HistoryOK
  <2>2. StoresOK'
    BY <1>39, DeltaFlushType DEF MergeFlush, StoresOK
  <2>3. ControlOK'
    BY <1>39, GoType DEF MergeFlush, ControlOK, Labels, Actors
  <2> QED
    BY <2>1, <2>2, <2>3
<1>40. CASE MergeFlushFails
  <2>1. LogOK' /\ HistoryOK'
    BY <1>40 DEF MergeFlushFails, recon, LogOK, history, HistoryOK
  <2>2. StoresOK'
    BY <1>40 DEF MergeFlushFails, stores, StoresOK
  <2>3. ControlOK'
    BY <1>40, GoType, FaultType DEF MergeFlushFails, ControlOK, Labels, Actors
  <2> QED
    BY <2>1, <2>2, <2>3
<1>41. CASE MergeDiscard
  <2>1. LogOK' /\ HistoryOK'
    BY <1>41 DEF MergeDiscard, Unsaved, recon, LogOK, history, HistoryOK
  <2>2. StoresOK'
    BY <1>41, NoContentType DEF MergeDiscard, StoresOK
  <2>3. ControlOK'
    BY <1>41, GoType DEF MergeDiscard, ControlOK, Labels, Actors
  <2> QED
    BY <2>1, <2>2, <2>3
<1>42. ASSUME NEW t \in Threads, DiscardOverlay(t) PROVE TypeOK'
  <2>1. LogOK' /\ HistoryOK'
    BY <1>42 DEF DiscardOverlay, recon, LogOK, history, HistoryOK, ControlOK
  <2>2. StoresOK'
    BY <1>42, NoContentType DEF DiscardOverlay, stores, StoresOK
  <2>r. req' \in [Threads -> [kind : MutationKinds, file : Files]]
    BY <1>42, NoRequestType DEF DiscardOverlay, ControlOK
  <2>p. pc' \in [Actors -> Labels]
    BY <1>42, GoType DEF DiscardOverlay, Labels
  <2>3. ControlOK'
    BY <1>42, <2>r, <2>p DEF DiscardOverlay, ControlOK, Actors
  <2> QED
    BY <2>1, <2>2, <2>3
<1> QED
  BY <1>0, <1>1, <1>2, <1>3, <1>4, <1>5, <1>6, <1>7, <1>8, <1>9, <1>10,
     <1>11, <1>12, <1>13, <1>14, <1>15, <1>16, <1>17, <1>18, <1>19, <1>20,
     <1>21, <1>22, <1>23, <1>24, <1>25, <1>26, <1>27, <1>28, <1>29, <1>30,
     <1>31, <1>32, <1>33, <1>34, <1>35, <1>36, <1>37, <1>38, <1>39, <1>40,
     <1>41, <1>42
     DEF Next, ThreadStep, ThreadError, CommitStep, ErrorStep, ReconStep, Replay

-----------------------------------------------------------------------------
(* Threads and the reconciler stay in their own code.                       *)
LEMMA CodeStep == IndInv /\ [Next]_vars => CodeInv'
<1> SUFFICES ASSUME IndInv, [Next]_vars PROVE CodeInv'
  OBVIOUS
<1> USE DEF IndInv, TypeOK, CodeInv
<1>0. CASE UNCHANGED vars
  BY <1>0 DEF vars, stores, control, recon, history
<1>1. ASSUME NEW t \in Threads, StartBatch(t) PROVE CodeInv'
  BY <1>1 DEF StartBatch, Go, control, Actors, ControlOK
<1>2. ASSUME NEW t \in Threads, PreloadTombstones(t) PROVE CodeInv'
  BY <1>2 DEF PreloadTombstones, Go, control, Actors, ControlOK
<1>3. ASSUME NEW t \in Threads, NextEvent(t) PROVE CodeInv'
  BY <1>3 DEF NextEvent, Go, control, Actors, ControlOK
<1>4. ASSUME NEW t \in Threads, FinishBatch(t) PROVE CodeInv'
  BY <1>4 DEF FinishBatch, Go, control, Actors, ControlOK
<1>5. ASSUME NEW t \in Threads, RequestStatus(t) PROVE CodeInv'
  BY <1>5 DEF RequestStatus, Go, control, Actors, ControlOK
<1>6. ASSUME NEW t \in Threads, Preload(t) PROVE CodeInv'
  BY <1>6 DEF Preload, Go, control, Actors, ControlOK
<1>7. ASSUME NEW t \in Threads, Append(t) PROVE CodeInv'
  BY <1>7 DEF Append, Go, control, Actors, ControlOK
<1>8. ASSUME NEW t \in Threads, Register(t) PROVE CodeInv'
  BY <1>8 DEF Register, Go, control, Actors, ControlOK
<1>9. ASSUME NEW t \in Threads, LockGraph(t) PROVE CodeInv'
  BY <1>9 DEF LockGraph, Go, Fail, control, Actors, ControlOK
<1>10. ASSUME NEW t \in Threads, Apply(t) PROVE CodeInv'
  BY <1>10 DEF Apply, Go, control, Actors, ControlOK
<1>11. ASSUME NEW t \in Threads, GraphDone(t) PROVE CodeInv'
  BY <1>11 DEF GraphDone, Go, Fail, control, Actors, ControlOK
<1>12. ASSUME NEW t \in Threads, GraphIndex(t) PROVE CodeInv'
  BY <1>12 DEF GraphIndex, Go, control, Actors, ControlOK
<1>13. ASSUME NEW t \in Threads, FlushGraph(t) PROVE CodeInv'
  BY <1>13 DEF FlushGraph, Go, control, Actors, ControlOK
<1>14. ASSUME NEW t \in Threads, EndFlushFails(t) PROVE CodeInv'
  BY <1>14 DEF EndFlushFails, Go, Fail, control, Actors, ControlOK
<1>15. ASSUME NEW t \in Threads, PreloadFails(t) PROVE CodeInv'
  BY <1>15 DEF PreloadFails, Go, Fail, control, Actors, ControlOK
<1>16. ASSUME NEW t \in Threads, ApplyFails(t) PROVE CodeInv'
  BY <1>16 DEF ApplyFails, Go, Fail, control, Actors, ControlOK
<1>17. ASSUME NEW t \in Threads, FlushGraphFails(t) PROVE CodeInv'
  BY <1>17 DEF FlushGraphFails, Go, Fail, control, Actors, ControlOK
<1>18. ASSUME NEW a \in Actors, LockVector(a) PROVE CodeInv'
  BY <1>18 DEF LockVector, Go, Fail, control, Actors, ControlOK
<1>19. ASSUME NEW a \in Actors, Enqueue(a) PROVE CodeInv'
  BY <1>19 DEF Enqueue, Go, control, Actors, ControlOK
<1>20. ASSUME NEW a \in Actors, VectorDone(a) PROVE CodeInv'
  BY <1>20 DEF VectorDone, Go, Fail, control, Actors, ControlOK
<1>21. ASSUME NEW a \in Actors, Committed(a) PROVE CodeInv'
  BY <1>21 DEF Committed, Go, Fail, control, Actors, ControlOK
<1>22. ASSUME NEW a \in Actors, FlushVector(a) PROVE CodeInv'
  BY <1>22 DEF FlushVector, Go, control, Actors, ControlOK
<1>23. ASSUME NEW a \in Actors, Finalize(a) PROVE CodeInv'
  BY <1>23 DEF Finalize, Go, Fail, control, Actors, ControlOK
<1>24. ASSUME NEW a \in Actors, FinalFlush(a) PROVE CodeInv'
  BY <1>24 DEF FinalFlush, Go, control, Actors, ControlOK
<1>25. ASSUME NEW a \in Actors, FlushVectorFails(a) PROVE CodeInv'
  BY <1>25 DEF FlushVectorFails, Go, Fail, control, Actors, ControlOK
<1>26. ASSUME NEW a \in Actors, FinalFlushFails(a) PROVE CodeInv'
  BY <1>26 DEF FinalFlushFails, Go, Fail, control, Actors, ControlOK
<1>27. CASE StartReconcile
  BY <1>27 DEF StartReconcile, Go, control, Actors, ControlOK
<1>28. CASE Snapshot
  BY <1>28 DEF Snapshot, Go, control, Actors, ControlOK
<1>29. CASE ReplayEnds
  BY <1>29 DEF ReplayEnds, Go, control, Actors, ControlOK
<1>30. CASE Rebuild
  BY <1>30 DEF Rebuild, Go, control, Actors, ControlOK
<1>31. CASE Install
  BY <1>31 DEF Install, Go, control, Actors, ControlOK
<1>32. ASSUME NEW t \in Threads, EndFlush(t) PROVE CodeInv'
  BY <1>32 DEF EndFlush, Go, control, Actors, ControlOK
<1>33. CASE Crash
  BY <1>33 DEF Crash, Open, Go, control, Actors, ControlOK
<1>34. CASE Restart
  BY <1>34 DEF Restart, Open, Go, control, Actors, ControlOK
<1>35. ASSUME NEW id \in LogIds, ReplayPending(id) PROVE CodeInv'
  BY <1>35 DEF ReplayPending, ReplayRow, Go, Fail, control, Actors, ControlOK
<1>36. ASSUME NEW id \in LogIds, ReplayVector(id) PROVE CodeInv'
  BY <1>36 DEF ReplayVector, ReplayRow, Go, control, Actors, ControlOK
<1>37. ASSUME NEW id \in LogIds, ReplayStatus(id) PROVE CodeInv'
  BY <1>37 DEF ReplayStatus, ReplayRow, Go, control, Actors, ControlOK
<1>38. ASSUME NEW id \in LogIds, ReplayFinalize(id) PROVE CodeInv'
  BY <1>38 DEF ReplayFinalize, ReplayRow, Go, control, Actors, ControlOK
<1>39. CASE MergeFlush
  BY <1>39 DEF MergeFlush, Go, control, Actors, ControlOK
<1>40. CASE MergeFlushFails
  BY <1>40 DEF MergeFlushFails, Go, control, Actors, ControlOK
<1>41. CASE MergeDiscard
  BY <1>41 DEF MergeDiscard, Go, control, Actors, ControlOK
<1>42. ASSUME NEW t \in Threads, DiscardOverlay(t) PROVE CodeInv'
  BY <1>42 DEF DiscardOverlay, Go, control, Actors, ControlOK
<1> QED
  BY <1>0, <1>1, <1>2, <1>3, <1>4, <1>5, <1>6, <1>7, <1>8, <1>9, <1>10,
     <1>11, <1>12, <1>13, <1>14, <1>15, <1>16, <1>17, <1>18, <1>19, <1>20,
     <1>21, <1>22, <1>23, <1>24, <1>25, <1>26, <1>27, <1>28, <1>29, <1>30,
     <1>31, <1>32, <1>33, <1>34, <1>35, <1>36, <1>37, <1>38, <1>39, <1>40,
     <1>41, <1>42
     DEF Next, ThreadStep, ThreadError, CommitStep, ErrorStep, ReconStep, Replay

-----------------------------------------------------------------------------
(* commit_lock is taken and given back with the commit sections.            *)
LEMMA LockStep == IndInv /\ [Next]_vars => LockInv'
<1> SUFFICES ASSUME IndInv, [Next]_vars PROVE LockInv'
  OBVIOUS
<1> USE DEF IndInv, TypeOK, LockInv
<1>0. CASE UNCHANGED vars
  BY <1>0 DEF vars, stores, control, recon, history
<1>1. ASSUME NEW t \in Threads, StartBatch(t) PROVE LockInv'
  BY <1>1 DEF StartBatch, Go, control, Actors, ControlOK, CodeInv, Critical
<1>2. ASSUME NEW t \in Threads, PreloadTombstones(t) PROVE LockInv'
  BY <1>2 DEF PreloadTombstones, Go, control, Actors, ControlOK, CodeInv, Critical
<1>3. ASSUME NEW t \in Threads, NextEvent(t) PROVE LockInv'
  BY <1>3 DEF NextEvent, Go, control, Actors, ControlOK, CodeInv, Critical
<1>4. ASSUME NEW t \in Threads, FinishBatch(t) PROVE LockInv'
  BY <1>4 DEF FinishBatch, Go, control, Actors, ControlOK, CodeInv, Critical
<1>5. ASSUME NEW t \in Threads, RequestStatus(t) PROVE LockInv'
  BY <1>5 DEF RequestStatus, Go, control, Actors, ControlOK, CodeInv, Critical
<1>6. ASSUME NEW t \in Threads, Preload(t) PROVE LockInv'
  BY <1>6 DEF Preload, Go, control, Actors, ControlOK, CodeInv, Critical
<1>7. ASSUME NEW t \in Threads, Append(t) PROVE LockInv'
  BY <1>7 DEF Append, Go, control, Actors, ControlOK, CodeInv, Critical
<1>8. ASSUME NEW t \in Threads, Register(t) PROVE LockInv'
  BY <1>8 DEF Register, Go, control, Actors, ControlOK, CodeInv, Critical
<1>9. ASSUME NEW t \in Threads, LockGraph(t) PROVE LockInv'
  BY <1>9 DEF LockGraph, Go, Fail, control, Actors, ControlOK, CodeInv, Critical
<1>10. ASSUME NEW t \in Threads, Apply(t) PROVE LockInv'
  BY <1>10 DEF Apply, Go, control, Actors, ControlOK, CodeInv, Critical
<1>11. ASSUME NEW t \in Threads, GraphDone(t) PROVE LockInv'
  BY <1>11 DEF GraphDone, Go, Fail, control, Actors, ControlOK, CodeInv, Critical
<1>12. ASSUME NEW t \in Threads, GraphIndex(t) PROVE LockInv'
  BY <1>12 DEF GraphIndex, Go, control, Actors, ControlOK, CodeInv, Critical
<1>13. ASSUME NEW t \in Threads, FlushGraph(t) PROVE LockInv'
  BY <1>13 DEF FlushGraph, Go, control, Actors, ControlOK, CodeInv, Critical
<1>14. ASSUME NEW t \in Threads, EndFlushFails(t) PROVE LockInv'
  BY <1>14 DEF EndFlushFails, Go, Fail, control, Actors, ControlOK, CodeInv, Critical
<1>15. ASSUME NEW t \in Threads, PreloadFails(t) PROVE LockInv'
  BY <1>15 DEF PreloadFails, Go, Fail, control, Actors, ControlOK, CodeInv, Critical
<1>16. ASSUME NEW t \in Threads, ApplyFails(t) PROVE LockInv'
  BY <1>16 DEF ApplyFails, Go, Fail, control, Actors, ControlOK, CodeInv, Critical
<1>17. ASSUME NEW t \in Threads, FlushGraphFails(t) PROVE LockInv'
  BY <1>17 DEF FlushGraphFails, Go, Fail, control, Actors, ControlOK, CodeInv, Critical
<1>18. ASSUME NEW a \in Actors, LockVector(a) PROVE LockInv'
  BY <1>18 DEF LockVector, Go, Fail, control, Actors, ControlOK, CodeInv, Critical
<1>19. ASSUME NEW a \in Actors, Enqueue(a) PROVE LockInv'
  BY <1>19 DEF Enqueue, Go, control, Actors, ControlOK, CodeInv, Critical
<1>20. ASSUME NEW a \in Actors, VectorDone(a) PROVE LockInv'
  BY <1>20 DEF VectorDone, Go, Fail, control, Actors, ControlOK, CodeInv, Critical
<1>21. ASSUME NEW a \in Actors, Committed(a) PROVE LockInv'
  BY <1>21 DEF Committed, Go, Fail, control, Actors, ControlOK, CodeInv, Critical
<1>22. ASSUME NEW a \in Actors, FlushVector(a) PROVE LockInv'
  BY <1>22 DEF FlushVector, Go, control, Actors, ControlOK, CodeInv, Critical
<1>23. ASSUME NEW a \in Actors, Finalize(a) PROVE LockInv'
  BY <1>23 DEF Finalize, Go, Fail, control, Actors, ControlOK, CodeInv, Critical
<1>24. ASSUME NEW a \in Actors, FinalFlush(a) PROVE LockInv'
  BY <1>24 DEF FinalFlush, Go, control, Actors, ControlOK, CodeInv, Critical
<1>25. ASSUME NEW a \in Actors, FlushVectorFails(a) PROVE LockInv'
  BY <1>25 DEF FlushVectorFails, Go, Fail, control, Actors, ControlOK, CodeInv, Critical
<1>26. ASSUME NEW a \in Actors, FinalFlushFails(a) PROVE LockInv'
  BY <1>26 DEF FinalFlushFails, Go, Fail, control, Actors, ControlOK, CodeInv, Critical
<1>27. CASE StartReconcile
  BY <1>27 DEF StartReconcile, Go, control, Actors, ControlOK, CodeInv, Critical
<1>28. CASE Snapshot
  BY <1>28 DEF Snapshot, Go, control, Actors, ControlOK, CodeInv, Critical
<1>29. CASE ReplayEnds
  BY <1>29 DEF ReplayEnds, Go, control, Actors, ControlOK, CodeInv, Critical
<1>30. CASE Rebuild
  BY <1>30 DEF Rebuild, Go, control, Actors, ControlOK, CodeInv, Critical
<1>31. CASE Install
  BY <1>31 DEF Install, Go, control, Actors, ControlOK, CodeInv, Critical
<1>32. ASSUME NEW t \in Threads, EndFlush(t) PROVE LockInv'
  BY <1>32 DEF EndFlush, Go, control, Actors, ControlOK, CodeInv, Critical
<1>33. CASE Crash
  BY <1>33 DEF Crash, Open, Go, control, Actors, ControlOK, CodeInv, Critical
<1>34. CASE Restart
  BY <1>34 DEF Restart, Open, Go, control, Actors, ControlOK, CodeInv, Critical
<1>35. ASSUME NEW id \in LogIds, ReplayPending(id) PROVE LockInv'
  BY <1>35 DEF ReplayPending, ReplayRow, Go, Fail, control, Actors, ControlOK, CodeInv,
     Critical
<1>36. ASSUME NEW id \in LogIds, ReplayVector(id) PROVE LockInv'
  BY <1>36 DEF ReplayVector, ReplayRow, Go, control, Actors, ControlOK, CodeInv,
     Critical
<1>37. ASSUME NEW id \in LogIds, ReplayStatus(id) PROVE LockInv'
  BY <1>37 DEF ReplayStatus, ReplayRow, Go, control, Actors, ControlOK, CodeInv,
     Critical
<1>38. ASSUME NEW id \in LogIds, ReplayFinalize(id) PROVE LockInv'
  BY <1>38 DEF ReplayFinalize, ReplayRow, Go, control, Actors, ControlOK, CodeInv,
     Critical
<1>39. CASE MergeFlush
  BY <1>39 DEF MergeFlush, Go, control, Actors, ControlOK, CodeInv, Critical
<1>40. CASE MergeFlushFails
  BY <1>40 DEF MergeFlushFails, Go, control, Actors, ControlOK, CodeInv, Critical
<1>41. CASE MergeDiscard
  BY <1>41 DEF MergeDiscard, Go, control, Actors, ControlOK, CodeInv, Critical
<1>42. ASSUME NEW t \in Threads, DiscardOverlay(t) PROVE LockInv'
  BY <1>42 DEF DiscardOverlay, Go, control, Actors, ControlOK, CodeInv, Critical
<1> QED
  BY <1>0, <1>1, <1>2, <1>3, <1>4, <1>5, <1>6, <1>7, <1>8, <1>9, <1>10,
     <1>11, <1>12, <1>13, <1>14, <1>15, <1>16, <1>17, <1>18, <1>19, <1>20,
     <1>21, <1>22, <1>23, <1>24, <1>25, <1>26, <1>27, <1>28, <1>29, <1>30,
     <1>31, <1>32, <1>33, <1>34, <1>35, <1>36, <1>37, <1>38, <1>39, <1>40,
     <1>41, <1>42
     DEF Next, ThreadStep, ThreadError, CommitStep, ErrorStep, ReconStep, Replay

-----------------------------------------------------------------------------
(* What an actor past append works on is a log id.                          *)
LEMMA BegunStep == IndInv /\ [Next]_vars => BegunHasId'
<1> SUFFICES ASSUME IndInv, [Next]_vars PROVE BegunHasId'
  OBVIOUS
<1> USE DEF IndInv, TypeOK, BegunHasId
<1>0. CASE UNCHANGED vars
  BY <1>0 DEF vars, stores, control, recon, history, IdInv, Begun, Critical
<1>1. ASSUME NEW t \in Threads, StartBatch(t) PROVE BegunHasId'
  BY <1>1 DEF StartBatch, IdInv, Go, control, ControlOK, Begun, Critical
<1>2. ASSUME NEW t \in Threads, PreloadTombstones(t) PROVE BegunHasId'
  BY <1>2 DEF PreloadTombstones, IdInv, Go, control, ControlOK, Begun, Critical
<1>3. ASSUME NEW t \in Threads, NextEvent(t) PROVE BegunHasId'
  BY <1>3 DEF NextEvent, IdInv, Go, control, ControlOK, Begun, Critical
<1>4. ASSUME NEW t \in Threads, FinishBatch(t) PROVE BegunHasId'
  BY <1>4 DEF FinishBatch, IdInv, Go, control, ControlOK, Begun, Critical
<1>5. ASSUME NEW t \in Threads, RequestStatus(t) PROVE BegunHasId'
  BY <1>5 DEF RequestStatus, IdInv, Go, control, ControlOK, Begun, Critical
<1>6. ASSUME NEW t \in Threads, Preload(t) PROVE BegunHasId'
  BY <1>6 DEF Preload, IdInv, Go, control, ControlOK, Begun, Critical, WaitingHasId,
     Waiting
<1>7. ASSUME NEW t \in Threads, Append(t) PROVE BegunHasId'
  BY <1>7 DEF Append, IdInv, BegunHasId, Go, control, ControlOK, LogOK, LogIds, Begun, Critical
<1>8. ASSUME NEW t \in Threads, Register(t) PROVE BegunHasId'
  BY <1>8 DEF Register, IdInv, Go, control, ControlOK, Begun, Critical
<1>9. ASSUME NEW t \in Threads, LockGraph(t) PROVE BegunHasId'
  BY <1>9 DEF LockGraph, IdInv, Go, Fail, control, ControlOK, Begun, Critical
<1>10. ASSUME NEW t \in Threads, Apply(t) PROVE BegunHasId'
  BY <1>10 DEF Apply, IdInv, Go, control, ControlOK, Begun, Critical
<1>11. ASSUME NEW t \in Threads, GraphDone(t) PROVE BegunHasId'
  BY <1>11 DEF GraphDone, IdInv, Go, Fail, control, ControlOK, Begun, Critical
<1>12. ASSUME NEW t \in Threads, GraphIndex(t) PROVE BegunHasId'
  BY <1>12 DEF GraphIndex, IdInv, Go, control, ControlOK, Begun, Critical
<1>13. ASSUME NEW t \in Threads, FlushGraph(t) PROVE BegunHasId'
  BY <1>13 DEF FlushGraph, IdInv, Go, control, ControlOK, Begun, Critical
<1>14. ASSUME NEW t \in Threads, EndFlushFails(t) PROVE BegunHasId'
  BY <1>14 DEF EndFlushFails, IdInv, Go, Fail, control, ControlOK, Begun, Critical
<1>15. ASSUME NEW t \in Threads, PreloadFails(t) PROVE BegunHasId'
  BY <1>15 DEF PreloadFails, IdInv, Go, Fail, control, ControlOK, Begun, Critical
<1>16. ASSUME NEW t \in Threads, ApplyFails(t) PROVE BegunHasId'
  BY <1>16 DEF ApplyFails, IdInv, Go, Fail, control, ControlOK, Begun, Critical
<1>17. ASSUME NEW t \in Threads, FlushGraphFails(t) PROVE BegunHasId'
  BY <1>17 DEF FlushGraphFails, IdInv, Go, Fail, control, ControlOK, Begun, Critical
<1>18. ASSUME NEW a \in Actors, LockVector(a) PROVE BegunHasId'
  BY <1>18 DEF LockVector, IdInv, Go, Fail, control, ControlOK, Begun, Critical
<1>19. ASSUME NEW a \in Actors, Enqueue(a) PROVE BegunHasId'
  BY <1>19 DEF Enqueue, IdInv, Go, control, ControlOK, Begun, Critical
<1>20. ASSUME NEW a \in Actors, VectorDone(a) PROVE BegunHasId'
  BY <1>20 DEF VectorDone, IdInv, Go, Fail, control, ControlOK, Begun, Critical
<1>21. ASSUME NEW a \in Actors, Committed(a) PROVE BegunHasId'
  BY <1>21 DEF Committed, IdInv, Go, Fail, control, ControlOK, Begun, Critical
<1>22. ASSUME NEW a \in Actors, FlushVector(a) PROVE BegunHasId'
  BY <1>22 DEF FlushVector, IdInv, Go, control, ControlOK, Begun, Critical
<1>23. ASSUME NEW a \in Actors, Finalize(a) PROVE BegunHasId'
  BY <1>23 DEF Finalize, IdInv, Go, Fail, control, ControlOK, Begun, Critical
<1>24. ASSUME NEW a \in Actors, FinalFlush(a) PROVE BegunHasId'
  BY <1>24 DEF FinalFlush, IdInv, Go, control, ControlOK, Begun, Critical
<1>25. ASSUME NEW a \in Actors, FlushVectorFails(a) PROVE BegunHasId'
  BY <1>25 DEF FlushVectorFails, IdInv, Go, Fail, control, ControlOK, Begun, Critical
<1>26. ASSUME NEW a \in Actors, FinalFlushFails(a) PROVE BegunHasId'
  BY <1>26 DEF FinalFlushFails, IdInv, Go, Fail, control, ControlOK, Begun, Critical
<1>27. CASE StartReconcile
  BY <1>27 DEF StartReconcile, IdInv, Go, control, ControlOK, Begun, Critical
<1>28. CASE Snapshot
  BY <1>28 DEF Snapshot, IdInv, Go, control, ControlOK, Begun, Critical
<1>29. CASE ReplayEnds
  BY <1>29 DEF ReplayEnds, IdInv, Go, control, ControlOK, Begun, Critical
<1>30. CASE Rebuild
  BY <1>30 DEF Rebuild, IdInv, Go, control, ControlOK, Begun, Critical
<1>31. CASE Install
  BY <1>31 DEF Install, IdInv, Go, control, ControlOK, Begun, Critical
<1>32. ASSUME NEW t \in Threads, EndFlush(t) PROVE BegunHasId'
  BY <1>32 DEF EndFlush, IdInv, Go, control, ControlOK, Begun, Critical
<1>33. CASE Crash
  BY <1>33 DEF Crash, Open, IdInv, Go, control, ControlOK, Begun, Critical
<1>34. CASE Restart
  BY <1>34 DEF Restart, Open, IdInv, Go, control, ControlOK, Begun, Critical
<1>35. ASSUME NEW id \in LogIds, ReplayPending(id) PROVE BegunHasId'
  BY <1>35 DEF ReplayPending, ReplayRow, IdInv, Go, Fail, control, ControlOK, Begun,
     Critical
<1>36. ASSUME NEW id \in LogIds, ReplayVector(id) PROVE BegunHasId'
  BY <1>36 DEF ReplayVector, ReplayRow, IdInv, Go, control, ControlOK, Begun, Critical
<1>37. ASSUME NEW id \in LogIds, ReplayStatus(id) PROVE BegunHasId'
  BY <1>37 DEF ReplayStatus, ReplayRow, IdInv, Go, control, ControlOK, Begun, Critical
<1>38. ASSUME NEW id \in LogIds, ReplayFinalize(id) PROVE BegunHasId'
  BY <1>38 DEF ReplayFinalize, ReplayRow, IdInv, Go, control, ControlOK, Begun, Critical
<1>39. CASE MergeFlush
  BY <1>39 DEF MergeFlush, IdInv, Go, control, ControlOK, Begun, Critical
<1>40. CASE MergeFlushFails
  BY <1>40 DEF MergeFlushFails, IdInv, Go, control, ControlOK, Begun, Critical
<1>41. CASE MergeDiscard
  BY <1>41 DEF MergeDiscard, IdInv, Go, control, ControlOK, Begun, Critical
<1>42. ASSUME NEW t \in Threads, DiscardOverlay(t) PROVE BegunHasId'
  BY <1>42 DEF DiscardOverlay, IdInv, Go, control, ControlOK, Begun, Critical
<1> QED
  BY <1>0, <1>1, <1>2, <1>3, <1>4, <1>5, <1>6, <1>7, <1>8, <1>9, <1>10,
     <1>11, <1>12, <1>13, <1>14, <1>15, <1>16, <1>17, <1>18, <1>19, <1>20,
     <1>21, <1>22, <1>23, <1>24, <1>25, <1>26, <1>27, <1>28, <1>29, <1>30,
     <1>31, <1>32, <1>33, <1>34, <1>35, <1>36, <1>37, <1>38, <1>39, <1>40,
     <1>41, <1>42
     DEF Next, ThreadStep, ThreadError, CommitStep, ErrorStep, ReconStep, Replay

\* update_phase changes the phase of its own record and nothing else of the log.
LEMMA SetPhaseEffect ==
  ASSUME TypeOK, NEW id \in LogIds, NEW q, SetPhase(id, q)
  PROVE  /\ wal'[id].phase = q
         /\ \A i \in LogIds : i # id => wal'[i] = wal[i]
BY DEF TypeOK, LogOK, Records, SetPhase

-----------------------------------------------------------------------------
(* The phases of a record only ever move as update_phase allows.             *)
LEMMA LogStep == IndInv /\ [Next]_vars => LegalStep
<1> SUFFICES ASSUME IndInv, [Next]_vars PROVE LegalStep
  OBVIOUS
<1> USE DEF IndInv, TypeOK, LegalStep
<1>0. CASE UNCHANGED vars
  BY <1>0 DEF vars, stores, control, recon, history
<1>1. ASSUME NEW t \in Threads,
        StartBatch(t) \/ PreloadTombstones(t) \/ NextEvent(t) \/
        FinishBatch(t) \/ EndFlush(t) \/ DiscardOverlay(t) \/
        RequestStatus(t) \/ Preload(t) \/ Register(t) \/
        LockGraph(t) \/ Apply(t) \/ GraphIndex(t) \/ FlushGraph(t) \/
        EndFlushFails(t) \/ PreloadFails(t) \/ ApplyFails(t) \/
        FlushGraphFails(t)
      PROVE  LegalStep
  BY <1>1 DEF StartBatch, PreloadTombstones, NextEvent, FinishBatch,
         EndFlush, DiscardOverlay, RequestStatus, Preload, Register, LockGraph, Apply, GraphIndex,
         FlushGraph, EndFlushFails, PreloadFails, ApplyFails,
         FlushGraphFails
<1>2. ASSUME NEW t \in Threads, Append(t) PROVE LegalStep
  <2>1. CASE UNCHANGED wal
    BY <2>1
  <2>2. CASE /\ nextId <= MaxLogId /\ nextId' = nextId + 1
             /\ wal' = [wal EXCEPT ![nextId] =
                  [kind |-> req[t].kind, affected |-> Affected(req[t].kind, req[t].file),
                   phase |-> "Pending"]]
    <3>1. nextId \in LogIds /\ wal[nextId].phase = "absent"
      BY <2>2 DEF LogOK, LogIds, IdInv, FutureEmpty
    <3> QED
      BY <2>2, <3>1 DEF LogOK
  <2> QED
    BY <1>2, <2>1, <2>2 DEF Append
<1>3. ASSUME NEW t \in Threads, GraphDone(t) PROVE LegalStep
  <2>1. mid[t] \in LogIds
    BY <1>3 DEF GraphDone, IdInv, BegunHasId, Begun, Critical, Actors
  <2>2. CASE UNCHANGED wal
    BY <2>2
  <2>3. CASE SetPhase(mid[t], "GraphDone") /\ CanTransitionTo(wal[mid[t]].phase, "GraphDone")
    BY <2>3, <2>1, SetPhaseEffect
  <2> QED
    BY <1>3, <2>2, <2>3 DEF GraphDone
<1>4. ASSUME NEW a \in Actors,
        LockVector(a) \/ Enqueue(a) \/ FlushVector(a) \/ FinalFlush(a) \/
        FlushVectorFails(a) \/ FinalFlushFails(a)
      PROVE  LegalStep
  BY <1>4 DEF LockVector, Enqueue, FlushVector, FinalFlush, FlushVectorFails,
         FinalFlushFails
<1>5. ASSUME NEW a \in Actors, VectorDone(a) PROVE LegalStep
  <2>1. mid[a] \in LogIds
    BY <1>5 DEF VectorDone, IdInv, BegunHasId, Begun, Critical, Actors
  <2>2. CASE UNCHANGED wal
    BY <2>2
  <2>3. CASE SetPhase(mid[a], "VectorDone") /\ CanTransitionTo(wal[mid[a]].phase, "VectorDone")
    BY <2>3, <2>1, SetPhaseEffect
  <2> QED
    BY <1>5, <2>2, <2>3 DEF VectorDone
<1>6. ASSUME NEW a \in Actors, Committed(a) PROVE LegalStep
  <2>1. mid[a] \in LogIds
    BY <1>6 DEF Committed, IdInv, BegunHasId, Begun, Critical, Actors
  <2>2. CASE UNCHANGED wal
    BY <2>2
  <2>3. CASE SetPhase(mid[a], "Committed") /\ CanTransitionTo(wal[mid[a]].phase, "Committed")
    BY <2>3, <2>1, SetPhaseEffect
  <2> QED
    BY <1>6, <2>2, <2>3 DEF Committed
<1>7. ASSUME NEW a \in Actors, Finalize(a) PROVE LegalStep
  <2>1. mid[a] \in LogIds
    BY <1>7 DEF Finalize, IdInv, BegunHasId, Begun, Critical, Actors
  <2>2. CASE UNCHANGED wal
    BY <2>2
  <2>3. CASE SetPhase(mid[a], "Committed") /\ CanTransitionTo(wal[mid[a]].phase, "Committed")
    BY <2>3, <2>1, SetPhaseEffect
  <2> QED
    BY <1>7, <2>2, <2>3 DEF Finalize, Finalizable, CanTransitionTo
<1>8. CASE StartReconcile \/ MergeFlush \/ MergeFlushFails \/ MergeDiscard \/ Snapshot \/
        ReplayEnds \/ Rebuild \/ Install \/ Crash \/ Restart
  BY <1>8 DEF StartReconcile, MergeFlush, MergeFlushFails, MergeDiscard, Snapshot, ReplayEnds, Rebuild, Install,
         Crash, Restart, Open
<1>9. ASSUME NEW id \in LogIds,
        ReplayVector(id) \/ ReplayStatus(id) \/ ReplayFinalize(id)
      PROVE  LegalStep
  BY <1>9 DEF ReplayVector, ReplayStatus, ReplayFinalize, ReplayRow
<1>10. ASSUME NEW id \in LogIds, ReplayPending(id) PROVE LegalStep
  <2>2. CASE UNCHANGED wal
    BY <2>2
  <2>3. CASE SetPhase(id, "Failed") /\ CanTransitionTo(wal[id].phase, "Failed")
    BY <2>3, SetPhaseEffect
  <2> QED
    BY <1>10, <2>2, <2>3 DEF ReplayPending
<1> QED
  BY <1>0, <1>1, <1>2, <1>3, <1>4, <1>5, <1>6, <1>7, <1>8, <1>9, <1>10
     DEF Next, ThreadStep, ThreadError, CommitStep, ErrorStep, ReconStep, Replay

-----------------------------------------------------------------------------
(* What a step does to the threads that have yet to run their closure: only *)
(* Append and Apply (or its error) do anything to them.                     *)
LEMMA WaitingEffect ==
  IndInv /\ [Next]_vars => WaitingQuiet \/ (\E t \in Threads : Append(t) \/ Apply(t) \/ ApplyFails(t))
<1> SUFFICES ASSUME IndInv, [Next]_vars, ~(\E t \in Threads : Append(t) \/ Apply(t) \/ ApplyFails(t))
             PROVE  WaitingQuiet
  OBVIOUS
<1> USE DEF IndInv, TypeOK, WaitingQuiet
<1>0. CASE UNCHANGED vars
  BY <1>0 DEF vars, stores, control, recon, history, Waiting
<1>1. ASSUME NEW t \in Threads, StartBatch(t) PROVE WaitingQuiet
  BY <1>1 DEF StartBatch, Go, ControlOK, CodeInv, Actors, Waiting, control, history
<1>2. ASSUME NEW t \in Threads, PreloadTombstones(t) PROVE WaitingQuiet
  BY <1>2 DEF PreloadTombstones, Go, ControlOK, CodeInv, Actors, Waiting, control,
     history
<1>3. ASSUME NEW t \in Threads, NextEvent(t) PROVE WaitingQuiet
  BY <1>3 DEF NextEvent, Go, ControlOK, CodeInv, Actors, Waiting, control, history
<1>4. ASSUME NEW t \in Threads, FinishBatch(t) PROVE WaitingQuiet
  BY <1>4 DEF FinishBatch, Go, ControlOK, CodeInv, Actors, Waiting, control, history
<1>5. ASSUME NEW t \in Threads, RequestStatus(t) PROVE WaitingQuiet
  BY <1>5 DEF RequestStatus, Go, GraphOnlyKinds, ControlOK, CodeInv, Actors, Waiting,
     control, history
<1>6. ASSUME NEW t \in Threads, Preload(t) PROVE WaitingQuiet
  BY <1>6 DEF Preload, Go, ControlOK, CodeInv, Actors, Waiting, control, history
<1>7. ASSUME NEW t \in Threads, Append(t) PROVE WaitingQuiet
  BY <1>7
<1>8. ASSUME NEW t \in Threads, Register(t) PROVE WaitingQuiet
  BY <1>8 DEF Register, Go, ControlOK, CodeInv, Actors, Waiting, control, history
<1>9. ASSUME NEW t \in Threads, LockGraph(t) PROVE WaitingQuiet
  BY <1>9 DEF LockGraph, Go, Fail, ControlOK, CodeInv, Actors, Waiting, control,
     history
<1>10. ASSUME NEW t \in Threads, Apply(t) PROVE WaitingQuiet
  BY <1>10
<1>11. ASSUME NEW t \in Threads, GraphDone(t) PROVE WaitingQuiet
  BY <1>11 DEF GraphDone, Go, Fail, ControlOK, CodeInv, Actors, Waiting, control,
     history
<1>12. ASSUME NEW t \in Threads, GraphIndex(t) PROVE WaitingQuiet
  BY <1>12 DEF GraphIndex, Go, ControlOK, CodeInv, Actors, Waiting, control, history
<1>13. ASSUME NEW t \in Threads, FlushGraph(t) PROVE WaitingQuiet
  BY <1>13 DEF FlushGraph, Go, ControlOK, CodeInv, Actors, Waiting, control, history
<1>14. ASSUME NEW t \in Threads, EndFlushFails(t) PROVE WaitingQuiet
  BY <1>14 DEF EndFlushFails, Go, Fail, ControlOK, CodeInv, Actors, Waiting,
     control, history
<1>15. ASSUME NEW t \in Threads, PreloadFails(t) PROVE WaitingQuiet
  BY <1>15 DEF PreloadFails, Go, Fail, ControlOK, CodeInv, Actors, Waiting, control,
     history
<1>16. ASSUME NEW t \in Threads, ApplyFails(t) PROVE WaitingQuiet
  BY <1>16
<1>17. ASSUME NEW t \in Threads, FlushGraphFails(t) PROVE WaitingQuiet
  BY <1>17 DEF FlushGraphFails, Go, Fail, ControlOK, CodeInv, Actors, Waiting, control,
     history
<1>18. ASSUME NEW a \in Actors, LockVector(a) PROVE WaitingQuiet
  BY <1>18 DEF LockVector, Go, Fail, ControlOK, CodeInv, Actors, Waiting, control,
     history
<1>19. ASSUME NEW a \in Actors, Enqueue(a) PROVE WaitingQuiet
  BY <1>19 DEF Enqueue, Go, ControlOK, CodeInv, Actors, Waiting, control, history
<1>20. ASSUME NEW a \in Actors, VectorDone(a) PROVE WaitingQuiet
  BY <1>20 DEF VectorDone, Go, Fail, ControlOK, CodeInv, Actors, Waiting, control,
     history
<1>21. ASSUME NEW a \in Actors, Committed(a) PROVE WaitingQuiet
  BY <1>21 DEF Committed, Go, Fail, ControlOK, CodeInv, Actors, Waiting, control,
     history
<1>22. ASSUME NEW a \in Actors, FlushVector(a) PROVE WaitingQuiet
  BY <1>22 DEF FlushVector, Go, ControlOK, CodeInv, Actors, Waiting, control, history
<1>23. ASSUME NEW a \in Actors, Finalize(a) PROVE WaitingQuiet
  BY <1>23 DEF Finalize, Go, Fail, ControlOK, CodeInv, Actors, Waiting, control, history
<1>24. ASSUME NEW a \in Actors, FinalFlush(a) PROVE WaitingQuiet
  BY <1>24 DEF FinalFlush, Go, ControlOK, CodeInv, Actors, Waiting, control, history
<1>25. ASSUME NEW a \in Actors, FlushVectorFails(a) PROVE WaitingQuiet
  BY <1>25 DEF FlushVectorFails, Go, Fail, ControlOK, CodeInv, Actors, Waiting,
     control, history
<1>26. ASSUME NEW a \in Actors, FinalFlushFails(a) PROVE WaitingQuiet
  BY <1>26 DEF FinalFlushFails, Go, Fail, ControlOK, CodeInv, Actors, Waiting, control,
     history
<1>27. CASE StartReconcile
  BY <1>27 DEF StartReconcile, Go, ControlOK, CodeInv, Actors, Waiting, control, history
<1>28. CASE Snapshot
  BY <1>28 DEF Snapshot, Go, ControlOK, CodeInv, Actors, Waiting, control, history
<1>29. CASE ReplayEnds
  BY <1>29 DEF ReplayEnds, Go, ControlOK, CodeInv, Actors, Waiting, control, history
<1>30. CASE Rebuild
  BY <1>30 DEF Rebuild, Go, ControlOK, CodeInv, Actors, Waiting, control, history
<1>31. CASE Install
  BY <1>31 DEF Install, Go, ControlOK, CodeInv, Actors, Waiting, control, history
<1>32. ASSUME NEW t \in Threads, EndFlush(t) PROVE WaitingQuiet
  BY <1>32 DEF EndFlush, Go, ControlOK, CodeInv, Actors, Waiting, control, history
<1>33. CASE Crash
  BY <1>33 DEF Crash, Open, Go, ControlOK, CodeInv, Actors, Waiting, control, history
<1>34. CASE Restart
  BY <1>34 DEF Restart, Open, Go, ControlOK, CodeInv, Actors, Waiting, control, history
<1>35. ASSUME NEW id \in LogIds, ReplayPending(id) PROVE WaitingQuiet
  BY <1>35 DEF ReplayPending, ReplayRow, Go, Fail, ControlOK, CodeInv, Actors, Waiting,
     control, history
<1>36. ASSUME NEW id \in LogIds, ReplayVector(id) PROVE WaitingQuiet
  BY <1>36 DEF ReplayVector, ReplayRow, Go, ControlOK, CodeInv, Actors, Waiting,
     control, history
<1>37. ASSUME NEW id \in LogIds, ReplayStatus(id) PROVE WaitingQuiet
  BY <1>37 DEF ReplayStatus, ReplayRow, Go, ControlOK, CodeInv, Actors, Waiting,
     control, history
<1>38. ASSUME NEW id \in LogIds, ReplayFinalize(id) PROVE WaitingQuiet
  BY <1>38 DEF ReplayFinalize, ReplayRow, Go, ControlOK, CodeInv, Actors, Waiting,
     control, history
<1>39. CASE MergeFlush
  BY <1>39 DEF MergeFlush, Go, ControlOK, CodeInv, Actors, Waiting, control, history
<1>40. CASE MergeFlushFails
  BY <1>40 DEF MergeFlushFails, Go, ControlOK, CodeInv, Actors, Waiting, control, history
<1>41. CASE MergeDiscard
  BY <1>41 DEF MergeDiscard, Go, ControlOK, CodeInv, Actors, Waiting, control, history
<1>42. ASSUME NEW t \in Threads, DiscardOverlay(t) PROVE WaitingQuiet
  BY <1>42 DEF DiscardOverlay, Go, ControlOK, CodeInv, Actors, Waiting, control, history
<1> QED
  BY <1>0, <1>1, <1>2, <1>3, <1>4, <1>5, <1>6, <1>7, <1>8, <1>9, <1>10,
     <1>11, <1>12, <1>13, <1>14, <1>15, <1>16, <1>17, <1>18, <1>19, <1>20,
     <1>21, <1>22, <1>23, <1>24, <1>25, <1>26, <1>27, <1>28, <1>29, <1>30,
     <1>31, <1>32, <1>33, <1>34, <1>35, <1>36, <1>37, <1>38, <1>39, <1>40,
     <1>41, <1>42
     DEF Next, ThreadStep, ThreadError, CommitStep, ErrorStep, ReconStep, Replay

-----------------------------------------------------------------------------
(* A thread that appends takes an id nobody has; one that runs its closure  *)
(* stops waiting.                                                           *)
LEMMA AppendEffect ==
  ASSUME IndInv, NEW t \in Threads, Append(t)
  PROVE  WaitingHasId' /\ WaitingApart' /\ FutureEmpty'
<1> USE DEF IndInv, TypeOK, IdInv
<1>1. \A u \in Threads : Waiting(u)' => Waiting(u) \/ u = t
  BY DEF Append, Go, ControlOK, Actors, Waiting
<1>2. UNCHANGED stampOf
  BY DEF Append, history
<1>3. CASE UNCHANGED <<wal, nextId, mid>> /\ pc'[t] = "idle"
  <2>1. ~Waiting(t)'
    BY <1>3 DEF Waiting
  <2> QED
    BY <1>1, <1>2, <1>3, <2>1 DEF WaitingHasId, WaitingApart, FutureEmpty
<1>4. ASSUME NEW rec, wal' = [wal EXCEPT ![nextId] = rec], nextId <= MaxLogId,
             mid' = [mid EXCEPT ![t] = nextId], nextId' = nextId + 1
      PROVE  WaitingHasId' /\ WaitingApart' /\ FutureEmpty'
  <2>1. nextId \in LogIds /\ nextId \in Nat /\ stampOf[nextId] = 0
    BY <1>4 DEF LogOK, LogIds, FutureEmpty
  <2>2. mid'[t] = nextId /\ \A u \in Threads : u # t => mid'[u] = mid[u]
    BY <1>4 DEF ControlOK, Actors
  <2>3. WaitingHasId' /\ WaitingApart'
    BY <1>1, <1>2, <1>4, <2>1, <2>2 DEF WaitingHasId, WaitingApart, LogIds
  <2>4. FutureEmpty'
    BY <1>2, <1>4 DEF FutureEmpty, LogOK, LogIds
  <2> QED
    BY <2>3, <2>4
<1> QED
  BY <1>3, <1>4 DEF Append, Go, ControlOK, Actors

(* Running the closure takes its thread out of those that wait and disturbs *)
(* none of the others.                                                      *)
LEMMA ApplyEffect ==
  ASSUME IndInv, NEW t \in Threads, Apply(t) \/ ApplyFails(t)
  PROVE  WaitingHasId' /\ WaitingApart' /\ FutureEmpty'
<1> USE DEF IndInv, TypeOK, IdInv
<1>1. \A u \in Threads : Waiting(u)' => Waiting(u) /\ u # t
  BY DEF Apply, ApplyFails, Go, Fail, ControlOK, Actors, Waiting, control
<1>2. /\ Waiting(t) /\ UNCHANGED <<wal, mid, nextId>>
      /\ stampOf' = [stampOf EXCEPT ![mid[t]] = Stamp]
  BY DEF Apply, ApplyFails, RunClosure, Waiting
<1>3. WaitingHasId' /\ WaitingApart'
  BY <1>1, <1>2 DEF WaitingHasId, WaitingApart, HistoryOK
<1>4. FutureEmpty'
  BY <1>2 DEF WaitingHasId, FutureEmpty, LogOK, HistoryOK, LogIds
<1> QED
  BY <1>3, <1>4

(* A thread that has yet to run its closure keeps a log id of its own whose *)
(* closure has not run (begin_mutation, commit_graph).                      *)
LEMMA WaitingStep ==
  IndInv /\ [Next]_vars => WaitingHasId' /\ WaitingApart' /\ FutureEmpty'
<1> SUFFICES ASSUME IndInv, [Next]_vars
             PROVE  WaitingHasId' /\ WaitingApart' /\ FutureEmpty'
  OBVIOUS
<1>1. CASE WaitingQuiet
  <2>1. WaitingHasId' /\ WaitingApart'
    BY <1>1 DEF WaitingQuiet, IndInv, IdInv, WaitingHasId, WaitingApart
  <2>2. FutureEmpty'
    BY <1>1, LogStep DEF WaitingQuiet, IndInv, IdInv, TypeOK, LogOK, FutureEmpty, LegalStep,
                         CanTransitionTo, InFlight
  <2> QED
    BY <2>1, <2>2
<1> QED
  BY <1>1, WaitingEffect, AppendEffect, ApplyEffect

-----------------------------------------------------------------------------
(* Only Enqueue, its neighbours and a new process touch what is embedded.   *)
LEMMA EmbedEffect ==
  IndInv /\ [Next]_vars => EmbedQuiet \/ (Crash \/ Restart \/ \E a \in Actors : LockVector(a) \/ Enqueue(a) \/ VectorDone(a))
<1> SUFFICES ASSUME IndInv, [Next]_vars, ~(Crash \/ Restart \/ \E a \in Actors : LockVector(a) \/ Enqueue(a) \/ VectorDone(a))
             PROVE  EmbedQuiet
  OBVIOUS
<1> USE DEF IndInv, TypeOK, EmbedQuiet
<1>0. CASE UNCHANGED vars
  BY <1>0 DEF vars, stores, control, recon, history, EmbedQuiet
<1>1. ASSUME NEW t \in Threads, StartBatch(t) PROVE EmbedQuiet
  BY <1>1 DEF StartBatch, Go, ControlOK, CodeInv, LockInv, Critical, Actors, control,
     history
<1>2. ASSUME NEW t \in Threads, PreloadTombstones(t) PROVE EmbedQuiet
  BY <1>2 DEF PreloadTombstones, Go, ControlOK, CodeInv, LockInv, Critical, Actors,
     control, history
<1>3. ASSUME NEW t \in Threads, NextEvent(t) PROVE EmbedQuiet
  BY <1>3 DEF NextEvent, Go, ControlOK, CodeInv, LockInv, Critical, Actors, control,
     history
<1>4. ASSUME NEW t \in Threads, FinishBatch(t) PROVE EmbedQuiet
  BY <1>4 DEF FinishBatch, Go, ControlOK, CodeInv, LockInv, Critical, Actors, control,
     history
<1>5. ASSUME NEW t \in Threads, RequestStatus(t) PROVE EmbedQuiet
  BY <1>5 DEF RequestStatus, Go, ControlOK, CodeInv, LockInv, Critical, Actors,
     control, history
<1>6. ASSUME NEW t \in Threads, Preload(t) PROVE EmbedQuiet
  BY <1>6 DEF Preload, Go, ControlOK, CodeInv, LockInv, Critical, Actors, control,
     history
<1>7. ASSUME NEW t \in Threads, Append(t) PROVE EmbedQuiet
  BY <1>7 DEF Append, Go, ControlOK, CodeInv, LockInv, Critical, Actors, control,
     history
<1>8. ASSUME NEW t \in Threads, Register(t) PROVE EmbedQuiet
  BY <1>8 DEF Register, Go, ControlOK, CodeInv, LockInv, Critical, Actors, control,
     history
<1>9. ASSUME NEW t \in Threads, LockGraph(t) PROVE EmbedQuiet
  BY <1>9 DEF LockGraph, Go, Fail, ControlOK, CodeInv, LockInv, Critical, Actors,
     control, history
<1>10. ASSUME NEW t \in Threads, Apply(t) PROVE EmbedQuiet
  BY <1>10 DEF Apply, Go, ControlOK, CodeInv, LockInv, Critical, Actors, control,
     history
<1>11. ASSUME NEW t \in Threads, GraphDone(t) PROVE EmbedQuiet
  BY <1>11 DEF GraphDone, Go, Fail, ControlOK, CodeInv, LockInv, Critical, Actors,
     control, history
<1>12. ASSUME NEW t \in Threads, GraphIndex(t) PROVE EmbedQuiet
  BY <1>12 DEF GraphIndex, Go, ControlOK, CodeInv, LockInv, Critical, Actors, control,
     history
<1>13. ASSUME NEW t \in Threads, FlushGraph(t) PROVE EmbedQuiet
  BY <1>13 DEF FlushGraph, Go, ControlOK, CodeInv, LockInv, Critical, Actors, control,
     history
<1>14. ASSUME NEW t \in Threads, EndFlushFails(t) PROVE EmbedQuiet
  BY <1>14 DEF EndFlushFails, Go, Fail, ControlOK, CodeInv, LockInv, Critical,
     Actors, control, history
<1>15. ASSUME NEW t \in Threads, PreloadFails(t) PROVE EmbedQuiet
  BY <1>15 DEF PreloadFails, Go, Fail, ControlOK, CodeInv, LockInv, Critical, Actors,
     control, history
<1>16. ASSUME NEW t \in Threads, ApplyFails(t) PROVE EmbedQuiet
  BY <1>16 DEF ApplyFails, Go, Fail, ControlOK, CodeInv, LockInv, Critical, Actors,
     control, history
<1>17. ASSUME NEW t \in Threads, FlushGraphFails(t) PROVE EmbedQuiet
  BY <1>17 DEF FlushGraphFails, Go, Fail, ControlOK, CodeInv, LockInv, Critical,
     Actors, control, history
<1>18. ASSUME NEW a \in Actors, LockVector(a) PROVE EmbedQuiet
  BY <1>18
<1>19. ASSUME NEW a \in Actors, Enqueue(a) PROVE EmbedQuiet
  BY <1>19
<1>20. ASSUME NEW a \in Actors, VectorDone(a) PROVE EmbedQuiet
  BY <1>20
<1>21. ASSUME NEW a \in Actors, Committed(a) PROVE EmbedQuiet
  BY <1>21 DEF Committed, Go, Fail, ControlOK, CodeInv, LockInv, Critical, Actors,
     control, history
<1>22. ASSUME NEW a \in Actors, FlushVector(a) PROVE EmbedQuiet
  BY <1>22 DEF FlushVector, Go, ControlOK, CodeInv, LockInv, Critical, Actors, control,
     history
<1>23. ASSUME NEW a \in Actors, Finalize(a) PROVE EmbedQuiet
  BY <1>23 DEF Finalize, Go, Fail, ControlOK, CodeInv, LockInv, Critical, Actors,
     control, history
<1>24. ASSUME NEW a \in Actors, FinalFlush(a) PROVE EmbedQuiet
  BY <1>24 DEF FinalFlush, Go, ControlOK, CodeInv, LockInv, Critical, Actors, control,
     history
<1>25. ASSUME NEW a \in Actors, FlushVectorFails(a) PROVE EmbedQuiet
  BY <1>25 DEF FlushVectorFails, Go, Fail, ControlOK, CodeInv, LockInv, Critical,
     Actors, control, history
<1>26. ASSUME NEW a \in Actors, FinalFlushFails(a) PROVE EmbedQuiet
  BY <1>26 DEF FinalFlushFails, Go, Fail, ControlOK, CodeInv, LockInv, Critical,
     Actors, control, history
<1>27. CASE StartReconcile
  BY <1>27 DEF StartReconcile, Go, ControlOK, CodeInv, LockInv, Critical, Actors,
     control, history
<1>28. CASE Snapshot
  BY <1>28 DEF Snapshot, Go, ControlOK, CodeInv, LockInv, Critical, Actors, control,
     history
<1>29. CASE ReplayEnds
  BY <1>29 DEF ReplayEnds, Go, ControlOK, CodeInv, LockInv, Critical, Actors, control,
     history
<1>30. CASE Rebuild
  BY <1>30 DEF Rebuild, Go, ControlOK, CodeInv, LockInv, Critical, Actors, control,
     history
<1>31. CASE Install
  BY <1>31 DEF Install, Go, ControlOK, CodeInv, LockInv, Critical, Actors, control,
     history
<1>32. ASSUME NEW t \in Threads, EndFlush(t) PROVE EmbedQuiet
  BY <1>32 DEF EndFlush, Go, ControlOK, CodeInv, LockInv, Critical, Actors,
     control, history
<1>33. CASE Crash
  BY <1>33
<1>34. CASE Restart
  BY <1>34
<1>35. ASSUME NEW id \in LogIds, ReplayPending(id) PROVE EmbedQuiet
  BY <1>35 DEF ReplayPending, ReplayRow, Go, Fail, ControlOK, CodeInv, LockInv,
     Critical, Actors, control, history
<1>36. ASSUME NEW id \in LogIds, ReplayVector(id) PROVE EmbedQuiet
  BY <1>36 DEF ReplayVector, ReplayRow, Go, ControlOK, CodeInv, LockInv, Critical,
     Actors, control, history
<1>37. ASSUME NEW id \in LogIds, ReplayStatus(id) PROVE EmbedQuiet
  BY <1>37 DEF ReplayStatus, ReplayRow, Go, ControlOK, CodeInv, LockInv, Critical,
     Actors, control, history
<1>38. ASSUME NEW id \in LogIds, ReplayFinalize(id) PROVE EmbedQuiet
  BY <1>38 DEF ReplayFinalize, ReplayRow, Go, ControlOK, CodeInv, LockInv, Critical,
     Actors, control, history
<1>39. CASE MergeFlush
  BY <1>39 DEF MergeFlush, Go, ControlOK, CodeInv, LockInv, Critical, Actors,
     control, history
<1>40. CASE MergeFlushFails
  BY <1>40 DEF MergeFlushFails, Go, ControlOK, CodeInv, LockInv, Critical, Actors,
     control, history
<1>41. CASE MergeDiscard
  BY <1>41 DEF MergeDiscard, Go, ControlOK, CodeInv, LockInv, Critical, Actors,
     control, history
<1>42. ASSUME NEW t \in Threads, DiscardOverlay(t) PROVE EmbedQuiet
  BY <1>42 DEF DiscardOverlay, Go, ControlOK, CodeInv, LockInv, Critical, Actors,
     control, history
<1> QED
  BY <1>0, <1>1, <1>2, <1>3, <1>4, <1>5, <1>6, <1>7, <1>8, <1>9, <1>10,
     <1>11, <1>12, <1>13, <1>14, <1>15, <1>16, <1>17, <1>18, <1>19, <1>20,
     <1>21, <1>22, <1>23, <1>24, <1>25, <1>26, <1>27, <1>28, <1>29, <1>30,
     <1>31, <1>32, <1>33, <1>34, <1>35, <1>36, <1>37, <1>38, <1>39, <1>40,
     <1>41, <1>42
     DEF Next, ThreadStep, ThreadError, CommitStep, ErrorStep, ReconStep, Replay

-----------------------------------------------------------------------------
(* The embedding invariant.                                                 *)
LEMMA EmbedStep == IndInv /\ [Next]_vars => EmbedInv'
<1> SUFFICES ASSUME IndInv, [Next]_vars PROVE EmbedInv'
  OBVIOUS
<1> USE DEF IndInv, TypeOK
<1>1. CASE EmbedQuiet
  <2>1. EmbeddedOnce' /\ EnqueueOnce'
    BY <1>1 DEF EmbedQuiet, EmbedInv, EmbeddedOnce, EnqueueOnce
  <2>2. EnqueuePhase'
    BY <1>1, LogStep DEF EmbedQuiet, EmbedInv, EnqueuePhase, IdInv, BegunHasId, Begun, Critical,
                         LegalStep, CanTransitionTo, InFlight
  <2>3. EmbeddedPhase'
    BY <1>1, LogStep DEF EmbedQuiet, EmbedInv, EmbeddedPhase, LegalStep, CanTransitionTo, InFlight
  <2> QED
    BY <2>1, <2>2, <2>3 DEF EmbedInv
<1>2. CASE Crash \/ Restart
  <2>1. \A b \in Actors : pc'[b] \in {"idle", "snapshot"}
    BY <1>2 DEF Crash, Restart, Open
  <2>2. embedded' = [i \in LogIds |-> 0]
    BY <1>2 DEF Crash, Restart, Open
  <2> QED
    BY <2>1, <2>2 DEF EmbedInv, EmbeddedOnce, EnqueueOnce, EnqueuePhase, EmbeddedPhase
<1>3. ASSUME NEW a \in Actors, LockVector(a) PROVE EmbedInv'
  <2>1. \A b \in Actors : /\ mid'[b] = mid[b] /\ (b # a => pc'[b] = pc[b])
                           /\ pc'[a] # "vectordone"
    BY <1>3 DEF LockVector, Go, Fail, ControlOK, Actors
  <2>2. UNCHANGED <<wal, embedded>> /\ lock = None
    BY <1>3 DEF LockVector, history
  <2>3. pc'[a] = "enqueue" => wal[mid[a]].phase = "GraphDone"
    BY <1>3 DEF LockVector, Go, Fail, ControlOK, Actors
  <2>4. mid[a] \in LogIds
    BY <1>3 DEF LockVector, IdInv, BegunHasId, Begun
  <2>5. EmbeddedOnce' /\ EmbeddedPhase'
    BY <2>2 DEF EmbedInv, EmbeddedOnce, EmbeddedPhase, Actors
  <2>6. EnqueueOnce' /\ EnqueuePhase'
    BY <2>1, <2>2, <2>3, <2>4 DEF EmbedInv, EnqueueOnce, EnqueuePhase, EmbeddedPhase, Actors
  <2> QED
    BY <2>5, <2>6 DEF EmbedInv
<1>4. ASSUME NEW a \in Actors, Enqueue(a) PROVE EmbedInv'
  <2>1. /\ pc[a] = "enqueue" /\ lock = a /\ mid[a] \in LogIds
        /\ \A b \in Actors : pc[b] \in Critical => b = a
    BY <1>4 DEF Enqueue, IdInv, BegunHasId, Begun, Critical, LockInv
  <2>2. /\ UNCHANGED <<wal, lock, mid>>
        /\ pc'[a] = "vectordone" /\ \A b \in Actors : b # a => pc'[b] = pc[b]
    BY <1>4 DEF Enqueue, Go, ControlOK
  <2>3. embedded' = [embedded EXCEPT ![mid[a]] = @ + 1] /\ embedded[mid[a]] = 0
    BY <1>4, <2>1 DEF Enqueue, EmbedInv, EnqueueOnce
  <2>4. EmbeddedOnce' /\ EmbeddedPhase'
    BY <2>1, <2>2, <2>3 DEF EmbedInv, EmbeddedOnce, EmbeddedPhase, HistoryOK
  <2>5. EnqueueOnce' /\ EnqueuePhase'
    BY <2>1, <2>2 DEF EmbedInv, EnqueueOnce, EnqueuePhase, Critical
  <2> QED
    BY <2>4, <2>5 DEF EmbedInv
<1>5. ASSUME NEW a \in Actors, VectorDone(a) PROVE EmbedInv'
  <2>1. /\ mid[a] \in LogIds /\ lock = a /\ wal[mid[a]].phase \notin {"absent", "Pending"}
        /\ \A b \in Actors : pc[b] \in Critical => b = a
    BY <1>5 DEF VectorDone, IdInv, BegunHasId, Begun, Critical, LockInv, EmbedInv, EnqueuePhase
  <2>2. wal'[mid[a]].phase \in {"VectorDone", "Committed", "Failed"}
    <3>1. CASE SetPhase(mid[a], "VectorDone")
      BY <2>1, <3>1, SetPhaseEffect
    <3>2. CASE UNCHANGED wal /\ ~CanTransitionTo(wal[mid[a]].phase, "VectorDone")
      BY <2>1, <3>2 DEF CanTransitionTo, LogOK, Records, MaybePhases, Phases, InFlight, Terminal
    <3> QED
      BY <1>5, <3>1, <3>2 DEF VectorDone
  <2>3. \A i \in LogIds : i # mid[a] => wal'[i] = wal[i]
    BY <1>5, <2>1, SetPhaseEffect DEF VectorDone
  <2>4. UNCHANGED <<embedded, mid>> /\ \A b \in Actors : pc'[b] \notin {"enqueue", "vectordone"}
    BY <1>5, <2>1 DEF VectorDone, Go, Fail, ControlOK, history, Critical
  <2>5. EmbeddedPhase'
    BY <2>1, <2>2, <2>3, <2>4 DEF EmbedInv, EmbeddedPhase
  <2> QED
    BY <2>4, <2>5 DEF EmbedInv, EmbeddedOnce, EnqueueOnce, EnqueuePhase
<1> QED
  BY <1>1, <1>2, <1>3, <1>4, <1>5, EmbedEffect

-----------------------------------------------------------------------------
\* The inductive invariant holds of a fresh repository.
LEMMA InitInv == Init => IndInv
<1> SUFFICES ASSUME Init PROVE IndInv
  OBVIOUS
<1>1. LogOK
  <2>1. NoRecord \in Records
    BY DEF NoRecord, Records, MutationKinds, SingleKinds, MaybePhases
  <2>2. NoIndex \in [Rows -> IndexEntries] /\ rows \in [LogIds -> IndexEntries]
    BY DEF Init, NoIndex, IndexEntries
  <2>3. wal = [i \in LogIds |-> NoRecord] /\ nextId = 1 /\ index = NoIndex
    BY DEF Init
  <2>4. rebuilt = NoIndex /\ replayErr \in BOOLEAN
    BY DEF Init
  <2> QED
    BY <2>1, <2>2, <2>3, <2>4 DEF LogOK
<1>2. StoresOK
  BY NoContentType DEF Init, StoresOK
<1>3. ControlOK
  <2>1. pc \in [Actors -> Labels] /\ mid \in [Actors -> 0..MaxLogId]
    BY DEF Init, Labels
  <2> QED
    <3>0. 0 \in 0..MaxFaults
      OBVIOUS
    <3>1. lock = None /\ faults = 0 /\ defer \in BOOLEAN
      BY DEF Init
    <3>2. proc = "ready" /\ batch \in [Threads -> SUBSET LogIds] /\ req = NoRequest
      BY DEF Init
    <3> QED
      BY <2>1, <3>0, <3>1, <3>2, NoRequestType DEF ControlOK
<1>4. HistoryOK
  BY DEF Init, HistoryOK
<1>5. \A a \in Actors : pc[a] = "idle"
  BY DEF Init
<1>6. CodeInv /\ LockInv
  BY <1>5 DEF CodeInv, LockInv, Critical, Actors, Init
<1>7. IdInv
  <2>1. BegunHasId /\ WaitingHasId /\ WaitingApart
    BY <1>5 DEF BegunHasId, WaitingHasId, WaitingApart, Waiting, Begun, Critical, Actors
  <2>2. FutureEmpty
    BY DEF FutureEmpty, Init, NoRecord
  <2> QED
    BY <2>1, <2>2 DEF IdInv
<1>8. EmbedInv
  BY <1>5 DEF EmbedInv, EmbeddedOnce, EnqueueOnce, EnqueuePhase, EmbeddedPhase, Init
<1> QED
  BY <1>1, <1>2, <1>3, <1>4, <1>6, <1>7, <1>8 DEF IndInv, TypeOK

\* Every step of threads, reconciler, errors and crashes preserves it.
LEMMA StepInv == IndInv /\ [Next]_vars => IndInv'
BY TypeStep, CodeStep, LockStep, BegunStep, WaitingStep, EmbedStep DEF IndInv, IdInv

(* The inductive invariant always holds: types, code points, commit_lock,   *)
(* log ids and the embedding count agree (WriteCoordinator).                *)
THEOREM Invariance == Spec => []IndInv
BY InitInv, StepInv, PTL DEF Spec

(* Every variable keeps its type: in particular a settled mutation is never *)
(* in the index, whatever threads, replay, errors and crashes do            *)
(* (MutationIndex::apply_transition, rebuild_from_wal).                     *)
THEOREM TypeCorrect == Spec => []TypeOK
BY Invariance, PTL DEF IndInv

(* No mutation is embedded twice in a life of the process, although its     *)
(* thread and the reconciler may both be on their way to commit_vector.     *)
THEOREM NeverEmbeddedTwice == Spec => []EmbeddedOnce
<1>1. IndInv => EmbeddedOnce
  BY DEF IndInv, EmbedInv
<1> QED
  BY <1>1, Invariance, PTL

(* A mutation once settled stays settled as it is, and no phase is skipped: *)
(* neither replay on a stale snapshot nor a crash moves a record in a way   *)
(* that update_phase forbids.                                               *)
THEOREM PhasesMoveLegally == Spec => [][LegalStep]_vars
<1>1. IndInv /\ [Next]_vars => [LegalStep]_vars
  BY LogStep
<1> QED
  BY <1>1, Invariance, PTL DEF Spec

(* commit_lock is held exactly while an actor is in commit_graph or         *)
(* commit_vector: two actors are never in a commit section together.        *)
THEOREM CommitSectionsExclude ==
  Spec => [](\A a, b \in Actors : pc[a] \in Critical /\ pc[b] \in Critical => a = b)
<1>1. IndInv => \A a, b \in Actors : pc[a] \in Critical /\ pc[b] \in Critical => a = b
  BY DEF IndInv, LockInv
<1> QED
  BY <1>1, Invariance, PTL

-----------------------------------------------------------------------------
(* Closures and phases: which mutations have run, and whose they are.       *)
GraphWork == {"graphdone", "graphindex", "flushgraph"}
VectorWork == {"lockvector", "enqueue", "vectordone", "committed", "flushvector"}
FinalWork == {"finalize", "finalflush"}
PastClosure == GraphWork \cup VectorWork \cup FinalWork
Ran(i) == stampOf[i] # 0

(* A mutation past Pending has run its closure, in the log as in the        *)
(* snapshot the replay works from; so has one an actor is committing and    *)
(* one a request counts as done.                                            *)
PhaseRan ==
  \A i \in LogIds : wal[i].phase \in {"GraphDone", "VectorDone", "Committed"} => Ran(i)
ActorRan == \A a \in Actors : pc[a] \in PastClosure => Ran(mid[a])
RowRan == \A i \in LogIds : rows[i] \in {"GraphDone", "VectorDone"} => Ran(i)
BatchRan == \A t \in Threads : \A i \in batch[t] : Ran(i)
PastPresent == \A i \in LogIds : i < nextId => wal[i].phase # "absent"
RanInv == PhaseRan /\ ActorRan /\ RowRan /\ BatchRan /\ PastPresent

(* The record of a thread's mutation is of the kind it was asked for; only  *)
(* index and delete mutations go through commit_vector, and the phase       *)
(* commit_vector has checked under the lock can only become Failed.         *)
ThreadKind ==
  \A t \in Threads : Waiting(t) \/ pc[t] \in GraphWork => wal[mid[t]].kind = req[t].kind
VectorKind ==
  \A a \in Actors : pc[a] \in {"lockvector", "enqueue"} => wal[mid[a]].kind \in SingleKinds
EnqueueOpen ==
  \A a \in Actors : pc[a] = "enqueue" => wal[mid[a]].phase \in {"GraphDone", "Failed"}
KindInv == ThreadKind /\ VectorKind /\ EnqueueOpen

RunInv == IndInv /\ RanInv /\ KindInv

(* What a step does to the log: nothing, a new record, or the phase of one  *)
(* record, moved by the actor at the point of its code that moves it.       *)
MovedTo(i, p) == wal'[i] = [wal[i] EXCEPT !.phase = p] /\ CanTransitionTo(wal[i].phase, p)
Mover(i) ==
  \/ MovedTo(i, "GraphDone") /\ \E t \in Threads : pc[t] = "graphdone" /\ mid[t] = i
  \/ MovedTo(i, "VectorDone") /\ \E a \in Actors : pc[a] = "vectordone" /\ mid[a] = i
  \/ /\ MovedTo(i, "Committed")
     /\ \E a \in Actors : /\ mid[a] = i
                         /\ \/ pc[a] = "committed"
                            \/ pc[a] = "finalize" /\ Finalizable(i)
  \/ MovedTo(i, "Failed")
LogMoves ==
  \/ UNCHANGED <<wal, nextId>>
  \/ /\ nextId' = nextId + 1 /\ nextId \in LogIds
     /\ wal'[nextId].phase = "Pending" /\ \A i \in LogIds : i # nextId => wal'[i] = wal[i]
  \/ /\ UNCHANGED nextId
     /\ \E i \in LogIds : Mover(i) /\ \A j \in LogIds : j # i => wal'[j] = wal[j]

\* update_phase on one record, as LogMoves describes it.
LEMMA SetPhaseMoves ==
  ASSUME TypeOK, NEW id \in LogIds, NEW q, SetPhase(id, q), CanTransitionTo(wal[id].phase, q)
  PROVE  MovedTo(id, q) /\ \A j \in LogIds : j # id => wal'[j] = wal[j]
BY DEF TypeOK, LogOK, Records, SetPhase, MovedTo

\* What every step does to the log.
LEMMA LogMovesStep == IndInv /\ [Next]_vars => LogMoves
<1> SUFFICES ASSUME IndInv, [Next]_vars PROVE LogMoves
  OBVIOUS
<1> USE DEF LogMoves
<1>0. CASE UNCHANGED vars
  BY <1>0 DEF vars
<1>1. ASSUME NEW t \in Threads,
        StartBatch(t) \/ PreloadTombstones(t) \/ NextEvent(t) \/
        FinishBatch(t) \/ EndFlush(t) \/ DiscardOverlay(t) \/
        RequestStatus(t) \/ Preload(t) \/ Register(t) \/
        LockGraph(t) \/ Apply(t) \/ GraphIndex(t) \/ FlushGraph(t) \/
        EndFlushFails(t) \/ PreloadFails(t) \/ ApplyFails(t) \/
        FlushGraphFails(t)
      PROVE  LogMoves
  BY <1>1 DEF StartBatch, PreloadTombstones, NextEvent, FinishBatch,
         EndFlush, DiscardOverlay, RequestStatus, Preload, Register, LockGraph, Apply, GraphIndex,
         FlushGraph, EndFlushFails, PreloadFails, ApplyFails,
         FlushGraphFails
<1>2. ASSUME NEW t \in Threads, Append(t) PROVE LogMoves
  <2>1. CASE UNCHANGED <<wal, nextId>>
    BY <2>1
  <2>2. CASE /\ nextId <= MaxLogId /\ nextId' = nextId + 1
             /\ wal' = [wal EXCEPT ![nextId] =
                  [kind |-> req[t].kind, affected |-> Affected(req[t].kind, req[t].file),
                   phase |-> "Pending"]]
    <3>1. nextId \in LogIds
      BY <2>2 DEF IndInv, TypeOK, LogOK, LogIds
    <3> QED
      BY <2>2, <3>1 DEF IndInv, TypeOK, LogOK
  <2> QED
    BY <1>2, <2>1, <2>2 DEF Append
<1>3. ASSUME NEW a \in Actors, GraphDone(a), a \in Threads PROVE LogMoves
  <2>1. mid[a] \in LogIds /\ pc[a] = "graphdone" /\ UNCHANGED nextId /\ TypeOK
    BY <1>3 DEF GraphDone, IndInv, IdInv, BegunHasId, Begun, Critical
  <2>2. CASE UNCHANGED wal
    BY <2>1, <2>2
  <2>3. CASE SetPhase(mid[a], "GraphDone") /\ CanTransitionTo(wal[mid[a]].phase, "GraphDone")
    BY <1>3, <2>1, <2>3, SetPhaseMoves DEF Mover
  <2> QED
    BY <1>3, <2>2, <2>3 DEF GraphDone
<1>4. ASSUME NEW a \in Actors,
        LockVector(a) \/ Enqueue(a) \/ FlushVector(a) \/ FinalFlush(a) \/
        FlushVectorFails(a) \/ FinalFlushFails(a)
      PROVE  LogMoves
  BY <1>4 DEF LockVector, Enqueue, FlushVector, FinalFlush, FlushVectorFails,
         FinalFlushFails
<1>5. ASSUME NEW a \in Actors, VectorDone(a) PROVE LogMoves
  <2>1. mid[a] \in LogIds /\ pc[a] = "vectordone" /\ UNCHANGED nextId /\ TypeOK
    BY <1>5 DEF VectorDone, IndInv, IdInv, BegunHasId, Begun, Critical
  <2>2. CASE UNCHANGED wal
    BY <2>1, <2>2
  <2>3. CASE SetPhase(mid[a], "VectorDone") /\ CanTransitionTo(wal[mid[a]].phase, "VectorDone")
    BY <2>1, <2>3, SetPhaseMoves DEF Mover
  <2> QED
    BY <1>5, <2>2, <2>3 DEF VectorDone
<1>6. ASSUME NEW a \in Actors, Committed(a) PROVE LogMoves
  <2>1. mid[a] \in LogIds /\ pc[a] = "committed" /\ UNCHANGED nextId /\ TypeOK
    BY <1>6 DEF Committed, IndInv, IdInv, BegunHasId, Begun, Critical
  <2>2. CASE UNCHANGED wal
    BY <2>1, <2>2
  <2>3. CASE SetPhase(mid[a], "Committed") /\ CanTransitionTo(wal[mid[a]].phase, "Committed")
    BY <2>1, <2>3, SetPhaseMoves DEF Mover
  <2> QED
    BY <1>6, <2>2, <2>3 DEF Committed
<1>7. ASSUME NEW a \in Actors, Finalize(a) PROVE LogMoves
  <2>1. mid[a] \in LogIds /\ pc[a] = "finalize" /\ UNCHANGED nextId /\ TypeOK
    BY <1>7 DEF Finalize, IndInv, IdInv, BegunHasId, Begun, Critical
  <2>2. CASE UNCHANGED wal
    BY <2>1, <2>2
  <2>3. CASE SetPhase(mid[a], "Committed") /\ Finalizable(mid[a])
    <3>1. CanTransitionTo(wal[mid[a]].phase, "Committed")
      BY <2>3 DEF Finalizable, CanTransitionTo
    <3> QED
      BY <2>1, <2>3, <3>1, SetPhaseMoves DEF Mover
  <2> QED
    BY <1>7, <2>2, <2>3 DEF Finalize
<1>8. CASE StartReconcile \/ MergeFlush \/ MergeFlushFails \/ MergeDiscard \/ Snapshot \/
        ReplayEnds \/ Rebuild \/ Install \/ Crash \/ Restart
  BY <1>8 DEF StartReconcile, MergeFlush, MergeFlushFails, MergeDiscard, Snapshot, ReplayEnds, Rebuild, Install,
         Crash, Restart, Open
<1>9. ASSUME NEW id \in LogIds,
        ReplayVector(id) \/ ReplayStatus(id) \/ ReplayFinalize(id)
      PROVE  LogMoves
  BY <1>9 DEF ReplayVector, ReplayStatus, ReplayFinalize, ReplayRow
<1>10. ASSUME NEW id \in LogIds, ReplayPending(id) PROVE LogMoves
  <2>1. UNCHANGED nextId /\ TypeOK
    BY <1>10 DEF ReplayPending, ReplayRow, IndInv
  <2>2. CASE UNCHANGED wal
    BY <2>1, <2>2
  <2>3. CASE SetPhase(id, "Failed") /\ CanTransitionTo(wal[id].phase, "Failed")
    BY <2>1, <2>3, SetPhaseMoves DEF Mover
  <2> QED
    BY <1>10, <2>2, <2>3 DEF ReplayPending
<1> QED
  BY <1>0, <1>1, <1>2, <1>3, <1>4, <1>5, <1>6, <1>7, <1>8, <1>9, <1>10
     DEF Next, ThreadStep, ThreadError, CommitStep, ErrorStep, ReconStep, Replay, Actors

\* Only Apply, with or without its error, runs a closure.
LEMMA ClosureMoves ==
  [Next]_vars => UNCHANGED <<stampOf, wrote>> \/ \E t \in Threads : Apply(t) \/ ApplyFails(t)
<1> SUFFICES ASSUME Next, ~UNCHANGED <<stampOf, wrote>>
             PROVE  \E t \in Threads : Apply(t) \/ ApplyFails(t)
  BY DEF vars, history
<1>1. ASSUME NEW t \in Threads, ThreadStep(t) \/ ThreadError(t)
      PROVE  Apply(t) \/ ApplyFails(t)
  BY <1>1 DEF ThreadStep, ThreadError, StartBatch, PreloadTombstones, NextEvent, FinishBatch,
       EndFlush, DiscardOverlay, RequestStatus, Preload, Append, Register, LockGraph, GraphDone,
       GraphIndex, FlushGraph, EndFlushFails, PreloadFails, FlushGraphFails, history
<1>2. ASSUME NEW a \in Actors, CommitStep(a) \/ ErrorStep(a) PROVE FALSE
  BY <1>2 DEF CommitStep, ErrorStep, LockVector, Enqueue, VectorDone, Committed, FlushVector,
       Finalize, FinalFlush, FlushVectorFails, FinalFlushFails, history
<1>3. ASSUME NEW id \in LogIds, Replay(id) PROVE FALSE
  BY <1>3 DEF Replay, ReplayPending, ReplayVector, ReplayStatus, ReplayFinalize, ReplayRow, history
<1>4. ASSUME StartReconcile \/ MergeFlush \/ MergeFlushFails \/ MergeDiscard \/ Snapshot \/
        ReplayEnds \/ Rebuild \/ Install \/ Crash \/ Restart
      PROVE  FALSE
  BY <1>4 DEF StartReconcile, MergeFlush, MergeFlushFails, MergeDiscard, Snapshot,
       ReplayEnds, Rebuild, Install, Crash, Restart, Open, history
<1> QED
  BY <1>1, <1>2, <1>3, <1>4 DEF Next, ReconStep

\* It runs the closure of a waiting thread, which has not run.
LEMMA ClosureRuns ==
  ASSUME IndInv, NEW t \in Threads, Apply(t) \/ ApplyFails(t)
  PROVE  /\ mid[t] \in LogIds /\ mid[t] < nextId /\ stampOf[mid[t]] = 0 /\ RunClosure(t)
         /\ Stamp \in 1..MaxLogId /\ stampOf' = [stampOf EXCEPT ![mid[t]] = Stamp]
         /\ UNCHANGED <<wal, nextId, mid, embedded, acked, swept, disk>>
<1>1. /\ mid[t] \in LogIds /\ mid[t] < nextId /\ stampOf[mid[t]] = 0 /\ RunClosure(t)
      /\ UNCHANGED <<wal, nextId, mid, embedded, acked, swept, disk>>
  BY DEF Apply, ApplyFails, IndInv, IdInv, WaitingHasId, Waiting
<1> QED
  BY <1>1, RunClosureType DEF IndInv

\* A closure that has run keeps its stamp and what it wrote.
LEMMA RanStays ==
  IndInv /\ [Next]_vars =>
    \A i \in LogIds : Ran(i) => stampOf'[i] = stampOf[i] /\ wrote'[i] = wrote[i]
<1> SUFFICES ASSUME IndInv, [Next]_vars
             PROVE  \A i \in LogIds : Ran(i) => stampOf'[i] = stampOf[i] /\ wrote'[i] = wrote[i]
  OBVIOUS
<1>1. ASSUME NEW t \in Threads, Apply(t) \/ ApplyFails(t)
      PROVE  \A i \in LogIds : Ran(i) => stampOf'[i] = stampOf[i] /\ wrote'[i] = wrote[i]
  BY <1>1, ClosureRuns DEF RunClosure, Ran, IndInv, TypeOK, HistoryOK
<1> QED
  BY <1>1, ClosureMoves

(* Who is past the closure of which mutation.  A thread gets there by       *)
(* running it, the replay by taking a row of its snapshot; a thread keeps   *)
(* the mutation and the request from append to the end of commit_graph.     *)
ReplayTakes(id) == ReplayVector(id) \/ ReplayStatus(id) \/ ReplayFinalize(id)
ThreadMoves ==
  \A t \in Threads :
    /\ Waiting(t)' \/ pc'[t] \in GraphWork =>
         \/ (Waiting(t) \/ pc[t] \in GraphWork) /\ mid'[t] = mid[t] /\ req'[t] = req[t]
         \/ Append(t) /\ Waiting(t)'
    /\ Waiting(t)' => Waiting(t) \/ Append(t)
    /\ pc'[t] \in GraphWork => pc[t] \in GraphWork \/ Apply(t)
    /\ pc'[t] \in VectorWork \cup FinalWork =>
         /\ mid'[t] = mid[t]
         /\ pc[t] \in VectorWork \cup FinalWork \/ FlushGraph(t)
ReconMoves ==
  /\ pc'[Recon] \notin GraphWork
  /\ pc'[Recon] \in VectorWork \cup FinalWork =>
       \/ mid'[Recon] = mid[Recon] /\ pc[Recon] \in VectorWork \cup FinalWork
       \/ \E id \in LogIds : ReplayTakes(id)

\* What every step does to the threads past append.
LEMMA ThreadMovesStep == IndInv /\ [Next]_vars => ThreadMoves
<1> SUFFICES ASSUME IndInv, [Next]_vars PROVE ThreadMoves
  OBVIOUS
<1> USE DEF IndInv, TypeOK, ControlOK, CodeInv, ThreadMoves, Waiting, GraphWork, VectorWork, FinalWork,
        Actors
<1>0. CASE UNCHANGED vars
  BY <1>0 DEF vars, control
<1>1. ASSUME NEW t \in Threads, StartBatch(t) \/ PreloadTombstones(t) \/ NextEvent(t) \/ FinishBatch(t)
      PROVE  ThreadMoves
  BY <1>1 DEF StartBatch, PreloadTombstones, NextEvent, FinishBatch, Go, control
<1>2. ASSUME NEW t \in Threads, EndFlush(t) \/ EndFlushFails(t) \/ DiscardOverlay(t) \/ RequestStatus(t)
      PROVE  ThreadMoves
  BY <1>2 DEF EndFlush, EndFlushFails, DiscardOverlay, RequestStatus, GraphOnlyKinds, Go, Fail, control
<1>3. ASSUME NEW t \in Threads, Preload(t) \/ PreloadFails(t) \/ Register(t) \/ LockGraph(t)
      PROVE  ThreadMoves
  BY <1>3 DEF Preload, PreloadFails, Register, LockGraph, Go, Fail, control
<1>4. ASSUME NEW t \in Threads, Append(t) PROVE ThreadMoves
  <2>1. pc'[t] \in {"idle", "register"} /\ \A u \in Threads : u # t => pc'[u] = pc[u] /\ mid'[u] = mid[u]
    BY <1>4 DEF Append, Go
  <2>2. UNCHANGED req
    BY <1>4 DEF Append
  <2> QED
    BY <1>4, <2>1, <2>2
<1>5. ASSUME NEW t \in Threads, Apply(t) \/ ApplyFails(t) PROVE ThreadMoves
  BY <1>5 DEF Apply, ApplyFails, Go, Fail, control
<1>6. ASSUME NEW t \in Threads, GraphDone(t) \/ GraphIndex(t) PROVE ThreadMoves
  BY <1>6 DEF GraphDone, GraphIndex, Go, Fail, control
<1>7. ASSUME NEW t \in Threads, FlushGraph(t) \/ FlushGraphFails(t) PROVE ThreadMoves
  BY <1>7 DEF FlushGraph, FlushGraphFails, Go, Fail, control
<1>8. ASSUME NEW a \in Actors, LockVector(a) \/ Enqueue(a) \/ VectorDone(a) \/ Committed(a)
      PROVE  ThreadMoves
  BY <1>8 DEF LockVector, Enqueue, VectorDone, Committed, Go, Fail, control
<1>9. ASSUME NEW a \in Actors, FlushVector(a) \/ FlushVectorFails(a) PROVE ThreadMoves
  BY <1>9 DEF FlushVector, FlushVectorFails, Go, Fail, control
<1>10. ASSUME NEW a \in Actors, Finalize(a) \/ FinalFlush(a) \/ FinalFlushFails(a) PROVE ThreadMoves
  BY <1>10 DEF Finalize, FinalFlush, FinalFlushFails, Go, Fail, control
<1>11. CASE StartReconcile \/ MergeFlush \/ MergeFlushFails \/ MergeDiscard \/ Snapshot
  BY <1>11 DEF StartReconcile, MergeFlush, MergeFlushFails, MergeDiscard, Snapshot, Go, control
<1>12. CASE ReplayEnds \/ Rebuild \/ Install
  BY <1>12 DEF ReplayEnds, Rebuild, Install, Go, control
<1>13. CASE Crash \/ Restart
  BY <1>13 DEF Crash, Restart, Open
<1>14. ASSUME NEW id \in LogIds, Replay(id) PROVE ThreadMoves
  BY <1>14 DEF Replay, ReplayPending, ReplayVector, ReplayStatus, ReplayFinalize, ReplayRow, Go, Fail,
         control
<1> QED
  BY <1>0, <1>1, <1>2, <1>3, <1>4, <1>5, <1>6, <1>7, <1>8, <1>9, <1>10, <1>11, <1>12, <1>13, <1>14
     DEF Next, ThreadStep, ThreadError, CommitStep, ErrorStep, ReconStep

\* What every step does to the reconciler past a closure.
LEMMA ReconMovesStep == IndInv /\ [Next]_vars => ReconMoves
<1> SUFFICES ASSUME IndInv, [Next]_vars PROVE ReconMoves
  OBVIOUS
<1> USE DEF IndInv, TypeOK, ControlOK, CodeInv, ReconMoves, ReplayTakes, GraphWork, VectorWork, FinalWork,
        Actors
<1>0. CASE UNCHANGED vars
  BY <1>0 DEF vars, control
<1>1. ASSUME NEW t \in Threads, StartBatch(t) \/ PreloadTombstones(t) \/ NextEvent(t) \/ FinishBatch(t)
      PROVE  ReconMoves
  BY <1>1 DEF StartBatch, PreloadTombstones, NextEvent, FinishBatch, Go, control
<1>2. ASSUME NEW t \in Threads, EndFlush(t) \/ EndFlushFails(t) \/ DiscardOverlay(t) \/ RequestStatus(t)
      PROVE  ReconMoves
  BY <1>2 DEF EndFlush, EndFlushFails, DiscardOverlay, RequestStatus, Go, Fail, control
<1>3. ASSUME NEW t \in Threads, Preload(t) \/ PreloadFails(t) \/ Register(t) \/ LockGraph(t)
      PROVE  ReconMoves
  BY <1>3 DEF Preload, PreloadFails, Register, LockGraph, Go, Fail, control
<1>4. ASSUME NEW t \in Threads, Append(t) PROVE ReconMoves
  BY <1>4 DEF Append, Go, control
<1>5. ASSUME NEW t \in Threads, Apply(t) \/ ApplyFails(t) PROVE ReconMoves
  BY <1>5 DEF Apply, ApplyFails, Go, Fail, control
<1>6. ASSUME NEW t \in Threads, GraphDone(t) \/ GraphIndex(t) PROVE ReconMoves
  BY <1>6 DEF GraphDone, GraphIndex, Go, Fail, control
<1>7. ASSUME NEW t \in Threads, FlushGraph(t) \/ FlushGraphFails(t) PROVE ReconMoves
  BY <1>7 DEF FlushGraph, FlushGraphFails, Go, Fail, control
<1>8. ASSUME NEW a \in Actors, LockVector(a) \/ Enqueue(a) \/ VectorDone(a) \/ Committed(a)
      PROVE  ReconMoves
  BY <1>8 DEF LockVector, Enqueue, VectorDone, Committed, Go, Fail, control
<1>9. ASSUME NEW a \in Actors, FlushVector(a) \/ FlushVectorFails(a) PROVE ReconMoves
  BY <1>9 DEF FlushVector, FlushVectorFails, Go, Fail, control
<1>10. ASSUME NEW a \in Actors, Finalize(a) \/ FinalFlush(a) \/ FinalFlushFails(a) PROVE ReconMoves
  BY <1>10 DEF Finalize, FinalFlush, FinalFlushFails, Go, Fail, control
<1>11. CASE StartReconcile \/ MergeFlush \/ MergeFlushFails \/ MergeDiscard \/ Snapshot
  BY <1>11 DEF StartReconcile, MergeFlush, MergeFlushFails, MergeDiscard, Snapshot, Go, control
<1>12. CASE ReplayEnds \/ Rebuild \/ Install
  BY <1>12 DEF ReplayEnds, Rebuild, Install, Go, control
<1>13. CASE Crash \/ Restart
  BY <1>13 DEF Crash, Restart, Open
<1>14. ASSUME NEW id \in LogIds, ReplayPending(id) PROVE ReconMoves
  BY <1>14 DEF ReplayPending, ReplayRow, Go, Fail, control
<1>15. ASSUME NEW id \in LogIds, ReplayVector(id) \/ ReplayStatus(id) \/ ReplayFinalize(id)
       PROVE  ReconMoves
  <2>1. pc'[Recon] \in {"lockvector", "finalize"}
    BY <1>15 DEF ReplayVector, ReplayStatus, ReplayFinalize, Go
  <2> QED
    BY <1>15, <2>1
<1> QED
  BY <1>0, <1>1, <1>2, <1>3, <1>4, <1>5, <1>6, <1>7, <1>8, <1>9, <1>10, <1>11, <1>12, <1>13, <1>14, <1>15
     DEF Next, ThreadStep, ThreadError, CommitStep, ErrorStep, ReconStep, Replay

(* The replay takes its rows from the log as it is, and a request counts    *)
(* only the mutation it has just committed.                                 *)
DoneMoves ==
  /\ \A i \in LogIds : rows'[i] \in {rows[i], "absent", wal[i].phase}
  /\ \A t \in Threads : \A i \in batch'[t] : 
       \/ i \in batch[t]
       \/ i = mid[t] /\ (pc[t] \in VectorWork \cup FinalWork \/ FlushGraph(t))

\* What every step does to them.
LEMMA DoneMovesStep == IndInv /\ [Next]_vars => DoneMoves
<1> SUFFICES ASSUME IndInv, [Next]_vars PROVE DoneMoves
  OBVIOUS
<1> USE DEF IndInv, TypeOK, LogOK, ControlOK, DoneMoves, PastClosure, GraphWork, VectorWork, FinalWork
<1>0. CASE UNCHANGED <<rows, batch>>
  BY <1>0
<1>1. ASSUME NEW t \in Threads, ThreadStep(t) \/ ThreadError(t)
      PROVE  DoneMoves
  <2>1. CASE StartBatch(t) \/ DiscardOverlay(t) \/ RequestStatus(t)
    BY <2>1 DEF StartBatch, DiscardOverlay, RequestStatus, recon
  <2>2. CASE FlushGraph(t)
    BY <2>2 DEF FlushGraph, recon
  <2>3. CASE ~(StartBatch(t) \/ DiscardOverlay(t) \/ RequestStatus(t) \/ FlushGraph(t))
    <3>1. UNCHANGED <<rows, batch>>
      BY <1>1, <2>3 DEF ThreadStep, ThreadError, PreloadTombstones, NextEvent, FinishBatch, EndFlush,
           Preload, Append, Register, LockGraph, Apply, GraphDone, GraphIndex, EndFlushFails,
           PreloadFails, ApplyFails, FlushGraphFails, recon
    <3> QED
      BY <3>1, <1>0
  <2> QED
    BY <2>1, <2>2, <2>3
<1>2. ASSUME NEW a \in Actors, CommitStep(a) \/ ErrorStep(a) PROVE DoneMoves
  <2>1. CASE FlushVector(a) \/ FinalFlush(a)
    <3>1. pc[a] \in VectorWork \cup FinalWork /\ UNCHANGED rows
      BY <2>1 DEF FlushVector, FinalFlush, recon
    <3>2. \A t \in Threads : batch'[t] \subseteq batch[t] \/ (t = a /\ batch'[t] \subseteq batch[t] \cup {mid[t]})
      BY <2>1 DEF FlushVector, FinalFlush
    <3> QED
      BY <3>1, <3>2
  <2>2. CASE ~(FlushVector(a) \/ FinalFlush(a))
    BY <1>2, <2>2, <1>0 DEF CommitStep, ErrorStep, LockVector, Enqueue, VectorDone, Committed, Finalize,
         FlushVectorFails, FinalFlushFails, recon
  <2> QED
    BY <2>1, <2>2
<1>3. ASSUME NEW id \in LogIds, Replay(id) PROVE DoneMoves
  BY <1>3 DEF Replay, ReplayPending, ReplayVector, ReplayStatus, ReplayFinalize, ReplayRow
<1>4. CASE Snapshot
  BY <1>4 DEF Snapshot
<1>5. CASE StartReconcile \/ MergeFlush \/ MergeFlushFails \/ MergeDiscard \/ ReplayEnds \/ Rebuild
           \/ Install
  BY <1>5, <1>0 DEF StartReconcile, MergeFlush, MergeFlushFails, MergeDiscard, ReplayEnds, Rebuild,
       Install, recon
<1>6. CASE Crash \/ Restart
  BY <1>6 DEF Crash, Restart, Open
<1> QED
  BY <1>0, <1>1, <1>2, <1>3, <1>4, <1>5, <1>6 DEF Next, ReconStep, vars, recon, control

\* The kind of a record, and the rows it affects, never change.
LEMMA RecordStays ==
  IndInv /\ [Next]_vars =>
    \A i \in LogIds : i < nextId => wal'[i].kind = wal[i].kind /\ wal'[i].affected = wal[i].affected
<1> SUFFICES ASSUME IndInv, [Next]_vars, NEW i \in LogIds, i < nextId
             PROVE  wal'[i].kind = wal[i].kind /\ wal'[i].affected = wal[i].affected
  OBVIOUS
<1>1. \A q : MovedTo(i, q) => wal'[i].kind = wal[i].kind /\ wal'[i].affected = wal[i].affected
  BY DEF MovedTo, IndInv, TypeOK, LogOK, Records
<1>2. wal'[i] = wal[i] \/ Mover(i)
  BY LogMovesStep DEF LogMoves, LogIds
<1> QED
  BY <1>1, <1>2 DEF Mover

\* A mutation that has run, or that a waiting thread holds, has a record.
LEMMA RanHasRecord ==
  ASSUME IndInv
  PROVE  /\ \A i \in LogIds : Ran(i) => i < nextId
         /\ \A t \in Threads : Waiting(t) => mid[t] \in LogIds /\ mid[t] < nextId
BY DEF IndInv, TypeOK, LogOK, IdInv, FutureEmpty, WaitingHasId, Ran, LogIds

\* Where an actor is past the closure, it works on a log id.
LEMMA PastHasId ==
  ASSUME IndInv, NEW a \in Actors, pc[a] \in PastClosure
  PROVE  mid[a] \in LogIds
BY DEF IndInv, IdInv, BegunHasId, Begun, Critical, PastClosure, GraphWork, VectorWork, FinalWork

(* A phase past Pending, in the log or in a snapshot, and a commit imply    *)
(* that the closure ran (commit_graph, commit_vector, replay_inflight_wal). *)
LEMMA RanStep == RunInv /\ [Next]_vars => RanInv'
<1> SUFFICES ASSUME RunInv, [Next]_vars PROVE RanInv'
  OBVIOUS
<1> USE DEF RunInv
<1>1. \A i \in LogIds : Ran(i) => Ran(i)'
  BY RanStays DEF Ran
<1>2. LogMoves /\ ThreadMoves /\ ReconMoves /\ DoneMoves
  BY LogMovesStep, ThreadMovesStep, ReconMovesStep, DoneMovesStep
<1>3. \A a \in Actors : pc[a] \in PastClosure => mid[a] \in LogIds /\ Ran(mid[a])
  BY PastHasId DEF RanInv, ActorRan
<1>4. PhaseRan'
  <2>1. ASSUME NEW i \in LogIds, wal'[i].phase \in {"GraphDone", "VectorDone", "Committed"}
        PROVE  Ran(i)
    <3>1. CASE wal'[i] = wal[i]
      BY <2>1, <3>1 DEF RanInv, PhaseRan
    <3>2. CASE Mover(i)
      <4>1. CASE \E a \in Actors : pc[a] \in PastClosure /\ mid[a] = i
        BY <1>3, <4>1
      <4>2. CASE MovedTo(i, "Failed")
        BY <2>1, <4>2 DEF MovedTo, IndInv, TypeOK, LogOK, Records
      <4> QED
        BY <3>2, <4>1, <4>2 DEF Mover, PastClosure, GraphWork, VectorWork, FinalWork, Actors
    <3> QED
      BY <1>2, <2>1, <3>1, <3>2 DEF LogMoves
  <2> QED
    BY <1>1, <2>1 DEF PhaseRan
<1>5. ActorRan'
  <2>1. ASSUME NEW t \in Threads, pc'[t] \in PastClosure PROVE Ran(mid[t])' /\ mid'[t] \in LogIds
    <3>1. CASE pc[t] \in PastClosure /\ mid'[t] = mid[t]
      BY <1>1, <1>3, <3>1 DEF Actors, Ran
    <3>2. CASE Apply(t)
      <4>1. mid[t] \in LogIds /\ stampOf[mid[t]] = 0 /\ UNCHANGED mid
        BY <3>2 DEF Apply, IndInv, IdInv, WaitingHasId, Waiting
      <4>2. stampOf' = [stampOf EXCEPT ![mid[t]] = Stamp] /\ Stamp \in 1..MaxLogId
        BY <3>2, <4>1, RunClosureType DEF Apply, IndInv
      <4> QED
        BY <4>1, <4>2 DEF Ran, IndInv, TypeOK, HistoryOK
    <3>3. CASE FlushGraph(t)
      <4>1. pc[t] = "flushgraph" /\ UNCHANGED mid
        BY <3>3 DEF FlushGraph
      <4> QED
        BY <4>1, <3>1 DEF PastClosure, GraphWork
    <3>4. pc'[t] \in GraphWork => mid'[t] = mid[t]
      BY <1>2 DEF ThreadMoves, Waiting, GraphWork
    <3> QED
      BY <1>2, <2>1, <3>1, <3>2, <3>3, <3>4 DEF ThreadMoves, PastClosure
  <2>2. ASSUME pc'[Recon] \in PastClosure PROVE Ran(mid[Recon])'
    <3>1. CASE pc[Recon] \in PastClosure /\ mid'[Recon] = mid[Recon]
      BY <1>1, <1>3, <3>1 DEF Actors, Ran
    <3>2. ASSUME NEW id \in LogIds, ReplayTakes(id) PROVE Ran(mid[Recon])'
      <4>1. mid'[Recon] = id /\ rows[id] \in {"GraphDone", "VectorDone"}
        BY <3>2 DEF ReplayTakes, ReplayVector, ReplayStatus, ReplayFinalize, ReplayRow, Actors, IndInv,
             TypeOK, ControlOK
      <4> QED
        BY <1>1, <4>1 DEF RanInv, RowRan, Ran
    <3> QED
      BY <1>2, <2>2, <3>1, <3>2 DEF ReconMoves, PastClosure
  <2> QED
    BY <2>1, <2>2 DEF ActorRan, Actors
<1>6. RowRan'
  BY <1>1, <1>2 DEF RowRan, DoneMoves, RanInv, PhaseRan
<1>7. BatchRan'
  <2>1. \A t \in Threads : \A i \in batch[t] : i \in LogIds
    BY DEF IndInv, TypeOK, ControlOK
  <2> QED
    <3>1. \A t \in Threads : FlushGraph(t) => pc[t] \in PastClosure
      BY DEF FlushGraph, PastClosure, GraphWork
    <3> QED
      BY <1>1, <1>2, <1>3, <2>1, <3>1 DEF BatchRan, DoneMoves, RanInv, Actors, PastClosure
<1>8. PastPresent'
  <2>1. ASSUME NEW i \in LogIds, i < nextId PROVE wal'[i].phase # "absent"
    <3>1. wal[i].phase # "absent"
      BY <2>1 DEF RanInv, PastPresent
    <3> QED
      BY <3>1, LogStep DEF LegalStep, CanTransitionTo, InFlight
  <2>2. \A i \in LogIds : i < nextId' => i < nextId \/ (i = nextId /\ wal'[i].phase = "Pending")
    BY <1>2 DEF LogMoves, LogIds, IndInv, TypeOK, LogOK
  <2> QED
    BY <2>1, <2>2 DEF PastPresent
<1> QED
  BY <1>4, <1>5, <1>6, <1>7, <1>8 DEF RanInv

\* Who reaches the vector phase, and who passes the check under commit_lock.
VectorMoves ==
  \A a \in Actors :
    /\ pc'[a] \in {"lockvector", "enqueue"} =>
         \/ pc[a] \in {"lockvector", "enqueue"} /\ mid'[a] = mid[a]
         \/ a \in Threads /\ FlushGraph(a)
         \/ a = Recon /\ \E id \in LogIds : ReplayTakes(id)
    /\ pc'[a] = "enqueue" => (pc[a] = "enqueue" /\ mid'[a] = mid[a]) \/ LockVector(a)
\* What every step does to those in commit_vector.
LEMMA VectorMovesStep == IndInv /\ [Next]_vars => VectorMoves
<1> SUFFICES ASSUME IndInv, [Next]_vars PROVE VectorMoves
  OBVIOUS
<1> USE DEF IndInv, TypeOK, ControlOK, CodeInv, VectorMoves,
        Actors
<1>0. CASE UNCHANGED vars
  BY <1>0 DEF vars, control
<1>1. ASSUME NEW t \in Threads, StartBatch(t) \/ PreloadTombstones(t) \/ NextEvent(t) \/ FinishBatch(t)
      PROVE  VectorMoves
  BY <1>1 DEF StartBatch, PreloadTombstones, NextEvent, FinishBatch, Go, control
<1>2. ASSUME NEW t \in Threads, EndFlush(t) \/ EndFlushFails(t) \/ DiscardOverlay(t) \/ RequestStatus(t)
      PROVE  VectorMoves
  BY <1>2 DEF EndFlush, EndFlushFails, DiscardOverlay, RequestStatus, Go, Fail, control
<1>3. ASSUME NEW t \in Threads, Preload(t) \/ PreloadFails(t) \/ Register(t) \/ LockGraph(t)
      PROVE  VectorMoves
  BY <1>3 DEF Preload, PreloadFails, Register, LockGraph, Go, Fail, control
<1>4. ASSUME NEW t \in Threads, Append(t) PROVE VectorMoves
  BY <1>4 DEF Append, Go, control
<1>5. ASSUME NEW t \in Threads, Apply(t) \/ ApplyFails(t) PROVE VectorMoves
  BY <1>5 DEF Apply, ApplyFails, Go, Fail, control
<1>6. ASSUME NEW t \in Threads, GraphDone(t) \/ GraphIndex(t) PROVE VectorMoves
  BY <1>6 DEF GraphDone, GraphIndex, Go, Fail, control
<1>7. ASSUME NEW t \in Threads, FlushGraph(t) \/ FlushGraphFails(t) PROVE VectorMoves
  BY <1>7 DEF FlushGraph, FlushGraphFails, Go, Fail, control
<1>8. ASSUME NEW a \in Actors, LockVector(a) \/ Enqueue(a) \/ VectorDone(a) \/ Committed(a)
      PROVE  VectorMoves
  BY <1>8 DEF LockVector, Enqueue, VectorDone, Committed, Go, Fail, control
<1>9. ASSUME NEW a \in Actors, FlushVector(a) \/ FlushVectorFails(a) PROVE VectorMoves
  BY <1>9 DEF FlushVector, FlushVectorFails, Go, Fail, control
<1>10. ASSUME NEW a \in Actors, Finalize(a) \/ FinalFlush(a) \/ FinalFlushFails(a) PROVE VectorMoves
  BY <1>10 DEF Finalize, FinalFlush, FinalFlushFails, Go, Fail, control
<1>11. CASE StartReconcile \/ MergeFlush \/ MergeFlushFails \/ MergeDiscard \/ Snapshot
  BY <1>11 DEF StartReconcile, MergeFlush, MergeFlushFails, MergeDiscard, Snapshot, Go, control
<1>12. CASE ReplayEnds \/ Rebuild \/ Install
  BY <1>12 DEF ReplayEnds, Rebuild, Install, Go, control
<1>13. CASE Crash \/ Restart
  BY <1>13 DEF Crash, Restart, Open
<1>14. ASSUME NEW id \in LogIds, ReplayPending(id) PROVE VectorMoves
  BY <1>14 DEF ReplayPending, ReplayRow, Go, Fail, control
<1>15. ASSUME NEW id \in LogIds, ReplayVector(id) \/ ReplayStatus(id) \/ ReplayFinalize(id)
       PROVE  VectorMoves
  <2>1. /\ pc'[Recon] \in {"lockvector", "finalize"}
        /\ \A b \in Actors : b # Recon => pc'[b] = pc[b] /\ mid'[b] = mid[b]
    BY <1>15 DEF ReplayVector, ReplayStatus, ReplayFinalize, Go
  <2>2. ReplayTakes(id)
    BY <1>15 DEF ReplayTakes
  <2> QED
    BY <2>1, <2>2
<1> QED
  BY <1>0, <1>1, <1>2, <1>3, <1>4, <1>5, <1>6, <1>7, <1>8, <1>9, <1>10, <1>11, <1>12, <1>13, <1>14, <1>15
     DEF Next, ThreadStep, ThreadError, CommitStep, ErrorStep, ReconStep, Replay

(* A record's kind is its thread's, what is embedded is an index or a       *)
(* deletion, and nobody commits it before the holder of commit_lock does.   *)
LEMMA KindStep == RunInv /\ [Next]_vars => KindInv'
<1> SUFFICES ASSUME RunInv, [Next]_vars PROVE KindInv'
  OBVIOUS
<1> USE DEF RunInv
<1>1. LogMoves /\ ThreadMoves /\ VectorMoves
  BY LogMovesStep, ThreadMovesStep, VectorMovesStep
<1>2. \A i \in LogIds : i < nextId => wal'[i].kind = wal[i].kind
  BY RecordStays
<1>3. \A a \in Actors : pc[a] \in PastClosure => mid[a] \in LogIds /\ mid[a] < nextId
  BY PastHasId, RanHasRecord DEF RanInv, ActorRan
<1>4. ThreadKind'
  <2>1. ASSUME NEW t \in Threads, Waiting(t) \/ pc[t] \in GraphWork, mid'[t] = mid[t], req'[t] = req[t]
        PROVE  wal'[mid'[t]].kind = req'[t].kind
    <3>1. mid[t] \in LogIds /\ mid[t] < nextId
      BY <1>3, <2>1, RanHasRecord DEF PastClosure, Actors
    <3> QED
      BY <1>2, <2>1, <3>1 DEF KindInv, ThreadKind
  <2>2. ASSUME NEW t \in Threads, Append(t), Waiting(t)'
        PROVE  wal'[mid'[t]].kind = req'[t].kind
    <3>1. /\ nextId <= MaxLogId /\ mid' = [mid EXCEPT ![t] = nextId] /\ UNCHANGED req
          /\ wal' = [wal EXCEPT ![nextId] =
                  [kind |-> req[t].kind, affected |-> Affected(req[t].kind, req[t].file),
                   phase |-> "Pending"]]
      BY <2>2 DEF Append, Waiting, Go, IndInv, TypeOK, ControlOK, Actors
    <3> QED
      BY <3>1 DEF IndInv, TypeOK, LogOK, ControlOK, LogIds, Actors
  <2> QED
    BY <1>1, <2>1, <2>2 DEF ThreadMoves, ThreadKind
<1>5. VectorKind'
  <2>1. ASSUME NEW a \in Actors, pc[a] \in {"lockvector", "enqueue"}, mid'[a] = mid[a]
        PROVE  wal'[mid'[a]].kind \in SingleKinds
    BY <1>2, <1>3, <2>1 DEF KindInv, VectorKind, PastClosure, VectorWork
  <2>2. ASSUME NEW t \in Threads, FlushGraph(t), pc'[t] \in {"lockvector", "enqueue"}
        PROVE  wal'[mid'[t]].kind \in SingleKinds
    <3>1. /\ req[t].kind = "Index" /\ mid'[t] = mid[t] /\ pc[t] = "flushgraph"
      BY <2>2 DEF FlushGraph, Go, IndInv, TypeOK, ControlOK, Actors
    <3>2. wal[mid[t]].kind = "Index"
      BY <3>1 DEF KindInv, ThreadKind, GraphWork
    <3> QED
      BY <1>2, <1>3, <3>1, <3>2 DEF SingleKinds, PastClosure, GraphWork, Actors
  <2>3. ASSUME NEW id \in LogIds, ReplayTakes(id), pc'[Recon] \in {"lockvector", "enqueue"}
        PROVE  wal'[mid'[Recon]].kind \in SingleKinds
    BY <2>3 DEF ReplayTakes, ReplayVector, ReplayStatus, ReplayFinalize, ReplayRow, Go, IndInv, TypeOK,
         ControlOK, Actors
  <2>4. ASSUME NEW a \in Actors, pc'[a] \in {"lockvector", "enqueue"}
        PROVE  \/ pc[a] \in {"lockvector", "enqueue"} /\ mid'[a] = mid[a]
               \/ a \in Threads /\ FlushGraph(a)
               \/ a = Recon /\ \E id \in LogIds : ReplayTakes(id)
    BY <1>1, <2>4 DEF VectorMoves
  <2> QED
    BY <2>1, <2>2, <2>3, <2>4 DEF VectorKind, Actors
<1>6. EnqueueOpen'
  <2>1. ASSUME NEW a \in Actors, pc[a] = "enqueue", mid'[a] = mid[a]
        PROVE  wal'[mid'[a]].phase \in {"GraphDone", "Failed"}
    <3> DEFINE i == mid[a]
    <3>1. i \in LogIds /\ i < nextId /\ wal[i].phase \in {"GraphDone", "Failed"}
            /\ wal[i].kind \in SingleKinds
      BY <1>3, <2>1 DEF KindInv, EnqueueOpen, VectorKind, PastClosure, VectorWork
    <3>2. \A b \in Actors : pc[b] \in Critical => b = a
      BY <2>1 DEF IndInv, LockInv, Critical
    <3>3. wal'[i] = wal[i] \/ Mover(i)
      BY <1>1, <3>1 DEF LogMoves, LogIds
    <3>4. ~Finalizable(i)
      BY <3>1 DEF Finalizable, SingleKinds, GraphOnlyKinds
    <3>5. Mover(i) => MovedTo(i, "Failed")
      BY <2>1, <3>2, <3>4 DEF Mover, Critical, Actors
    <3>6. MovedTo(i, "Failed") => wal'[i].phase = "Failed"
      BY <3>1 DEF MovedTo, IndInv, TypeOK, LogOK, Records
    <3> QED
      BY <2>1, <3>1, <3>3, <3>5, <3>6
  <2>2. ASSUME NEW a \in Actors, LockVector(a), pc'[a] = "enqueue"
        PROVE  wal'[mid'[a]].phase \in {"GraphDone", "Failed"}
    BY <2>2 DEF LockVector, Fail, Go, IndInv, TypeOK, ControlOK
  <2> QED
    BY <1>1, <2>1, <2>2 DEF VectorMoves, EnqueueOpen
<1> QED
  BY <1>4, <1>5, <1>6 DEF KindInv

\* A fresh repository has run nothing.
LEMMA RunInit == Init => RunInv
<1> SUFFICES ASSUME Init PROVE RunInv
  OBVIOUS
<1>1. /\ \A a \in Actors : pc[a] = "idle"
      /\ \A i \in LogIds : wal[i].phase = "absent" /\ rows[i] = "absent"
      /\ nextId = 1 /\ batch = [t \in Threads |-> {}]
  BY DEF Init, NoRecord
<1>2. RanInv
  BY <1>1 DEF RanInv, PhaseRan, ActorRan, RowRan, BatchRan, PastPresent, PastClosure, GraphWork,
     VectorWork, FinalWork, LogIds
<1>3. KindInv
  BY <1>1 DEF KindInv, ThreadKind, VectorKind, EnqueueOpen, Waiting, GraphWork, Actors
<1> QED
  BY <1>2, <1>3, InitInv DEF RunInv

\* Every step preserves it.
LEMMA RunStep == RunInv /\ [Next]_vars => RunInv'
BY StepInv, RanStep, KindStep DEF RunInv

(* What has run and what has been committed always agree: a record, a row   *)
(* of the replay's snapshot or a request's result past Pending stands for a *)
(* mutation whose closure ran (commit_graph, commit_vector,                 *)
(* replay_inflight_wal).                                                    *)
THEOREM RunInvariance == Spec => []RunInv
BY RunInit, RunStep, PTL DEF Spec

-----------------------------------------------------------------------------
(* The write path implements MutationLifecycle.                             *)
Outcomes == [i \in LogIds |-> Outcome(wal[i].phase)]
RanSet == {i \in LogIds : stampOf[i] # 0}

(* A step of the log opens, commits or fails one mutation or changes no     *)
(* outcome, and what it commits has run.                                    *)
LEMMA OutcomeMoves ==
  RunInv /\ [Next]_vars =>
    \/ UNCHANGED Outcomes
    \/ \E i \in LogIds :
         \/ Outcomes[i] = "absent" /\ Outcomes' = [Outcomes EXCEPT ![i] = "open"]
         \/ Outcomes[i] = "open" /\ Ran(i) /\ Outcomes' = [Outcomes EXCEPT ![i] = "committed"]
         \/ Outcomes[i] = "open" /\ Outcomes' = [Outcomes EXCEPT ![i] = "failed"]
<1> DEFINE Goal ==
      \/ UNCHANGED Outcomes
      \/ \E i \in LogIds :
           \/ Outcomes[i] = "absent" /\ Outcomes' = [Outcomes EXCEPT ![i] = "open"]
           \/ Outcomes[i] = "open" /\ Ran(i) /\ Outcomes' = [Outcomes EXCEPT ![i] = "committed"]
           \/ Outcomes[i] = "open" /\ Outcomes' = [Outcomes EXCEPT ![i] = "failed"]
<1> SUFFICES ASSUME RunInv, [Next]_vars PROVE Goal
  OBVIOUS
<1>1. CASE UNCHANGED <<wal, nextId>>
  BY <1>1 DEF Outcomes
<1>2. CASE /\ nextId' = nextId + 1 /\ nextId \in LogIds
           /\ wal'[nextId].phase = "Pending" /\ \A i \in LogIds : i # nextId => wal'[i] = wal[i]
  <2>1. wal[nextId].phase = "absent"
    BY <1>2 DEF RunInv, IndInv, TypeOK, LogOK, IdInv, FutureEmpty, LogIds
  <2>2. Outcomes[nextId] = "absent" /\ Outcomes' = [Outcomes EXCEPT ![nextId] = "open"]
    BY <1>2, <2>1 DEF Outcomes, Outcome, InFlight
  <2> QED
    BY <1>2, <2>2
<1>3. ASSUME NEW i \in LogIds, Mover(i), \A j \in LogIds : j # i => wal'[j] = wal[j]
      PROVE  Goal
  <2>1. ASSUME NEW p, MovedTo(i, p)
        PROVE  /\ CanTransitionTo(wal[i].phase, p)
               /\ Outcomes' = [Outcomes EXCEPT ![i] = Outcome(p)] /\ Outcomes[i] = Outcome(wal[i].phase)
    <3>1. wal'[i].phase = p /\ CanTransitionTo(wal[i].phase, p)
      BY <2>1 DEF MovedTo, RunInv, IndInv, TypeOK, LogOK, Records
    <3>2. Outcomes' = [Outcomes EXCEPT ![i] = Outcome(p)]
      BY <1>3, <3>1 DEF Outcomes
    <3> QED
      BY <3>1, <3>2 DEF Outcomes
  <2>2. ASSUME NEW p, MovedTo(i, p), Outcome(p) = Outcome(wal[i].phase) PROVE UNCHANGED Outcomes
    <3>1. Outcomes' = [Outcomes EXCEPT ![i] = Outcomes[i]]
      BY <2>1, <2>2
    <3>2. Outcomes = [j \in LogIds |-> Outcomes[j]]
      BY Zenon DEF Outcomes
    <3> QED
      BY <3>1, <3>2
  <2>3. CASE MovedTo(i, "GraphDone") \/ MovedTo(i, "VectorDone")
    BY <2>1, <2>2, <2>3 DEF CanTransitionTo, Outcome, InFlight
  <2>4. CASE MovedTo(i, "Failed")
    <3>1. wal[i].phase \in InFlight \/ wal[i].phase = "Failed"
      BY <2>1, <2>4 DEF CanTransitionTo, InFlight
    <3> QED
      BY <2>1, <2>2, <2>4, <3>1 DEF Outcome, InFlight
  <2>5. ASSUME MovedTo(i, "Committed"), NEW a \in Actors, mid[a] = i, pc[a] \in {"committed", "finalize"}
        PROVE  Goal
    <3>1. Ran(i)
      BY <2>5 DEF RunInv, RanInv, ActorRan, PastClosure, VectorWork, FinalWork
    <3>2. wal[i].phase \in InFlight \/ wal[i].phase = "Committed"
      BY <2>1, <2>5 DEF CanTransitionTo, InFlight
    <3> QED
      BY <2>1, <2>2, <2>5, <3>1, <3>2 DEF Outcome, InFlight
  <2> QED
    BY <1>3, <2>3, <2>4, <2>5 DEF Mover
<1> QED
  BY <1>1, <1>2, <1>3, LogMovesStep DEF LogMoves, RunInv

\* Which steps run a closure, embed, answer Ok or start a new life.
LEMMA HistoryMoves ==
  [Next]_vars =>
    \/ UNCHANGED <<stampOf, embedded, acked>>
    \/ \E t \in Threads : Apply(t) \/ ApplyFails(t) \/ DiscardOverlay(t)
    \/ \E a \in Actors : Enqueue(a)
    \/ Crash \/ Restart
<1> SUFFICES ASSUME Next, ~UNCHANGED <<stampOf, embedded, acked>>
             PROVE  \/ \E t \in Threads : Apply(t) \/ ApplyFails(t) \/ DiscardOverlay(t)
                    \/ \E a \in Actors : Enqueue(a)
                    \/ Crash \/ Restart
  BY DEF vars, history
<1>1. ASSUME NEW t \in Threads, ThreadStep(t) \/ ThreadError(t)
      PROVE  Apply(t) \/ ApplyFails(t) \/ DiscardOverlay(t)
  BY <1>1 DEF ThreadStep, ThreadError, StartBatch, PreloadTombstones, NextEvent, FinishBatch,
       EndFlush, RequestStatus, Preload, Append, Register, LockGraph, GraphDone,
       GraphIndex, FlushGraph, EndFlushFails, PreloadFails, FlushGraphFails, history
<1>2. ASSUME NEW a \in Actors, CommitStep(a) \/ ErrorStep(a) PROVE Enqueue(a)
  BY <1>2 DEF CommitStep, ErrorStep, LockVector, VectorDone, Committed, FlushVector,
       Finalize, FinalFlush, FlushVectorFails, FinalFlushFails, history
<1>3. ASSUME NEW id \in LogIds, Replay(id) PROVE FALSE
  BY <1>3 DEF Replay, ReplayPending, ReplayVector, ReplayStatus, ReplayFinalize, ReplayRow, history
<1>4. ASSUME StartReconcile \/ MergeFlush \/ MergeFlushFails \/ MergeDiscard \/ Snapshot \/
        ReplayEnds \/ Rebuild \/ Install
      PROVE  FALSE
  BY <1>4 DEF StartReconcile, MergeFlush, MergeFlushFails, MergeDiscard, Snapshot,
       ReplayEnds, Rebuild, Install, history
<1> QED
  BY <1>1, <1>2, <1>3, <1>4 DEF Next, ReconStep

(* Every step of threads, reconciler, errors and crashes is a step of the   *)
(* life cycle of one mutation, an answer, a new life, or changes none of it.*)
LEMMA LifecycleStep == RunInv /\ [Next]_vars => [Lifecycle!ANext]_(Lifecycle!avars)
<1> SUFFICES ASSUME RunInv, [Next]_vars PROVE [Lifecycle!ANext]_(Lifecycle!avars)
  OBVIOUS
<1> USE DEF RunInv, Lifecycle!avars
<1>1. CASE UNCHANGED <<stampOf, embedded, acked>>
  <2>1. UNCHANGED RanSet
    BY <1>1 DEF RanSet
  <2>2. CASE UNCHANGED Outcomes
    BY <1>1, <2>1, <2>2 DEF RanSet, Outcomes
  <2>3. ASSUME NEW i \in LogIds,
               \/ Outcomes[i] = "absent" /\ Outcomes' = [Outcomes EXCEPT ![i] = "open"]
               \/ Outcomes[i] = "open" /\ Ran(i) /\ Outcomes' = [Outcomes EXCEPT ![i] = "committed"]
               \/ Outcomes[i] = "open" /\ Outcomes' = [Outcomes EXCEPT ![i] = "failed"]
        PROVE  Lifecycle!ABegin(i) \/ Lifecycle!ACommit(i) \/ Lifecycle!AFail(i)
    BY <1>1, <2>1, <2>3
       DEF Outcomes, RanSet, Ran, Lifecycle!ABegin, Lifecycle!ACommit, Lifecycle!AFail
  <2> QED
    BY <2>2, <2>3, OutcomeMoves DEF Lifecycle!ANext
<1>2. ASSUME NEW t \in Threads, Apply(t) \/ ApplyFails(t) PROVE Lifecycle!ANext
  <2>0. PICK i \in LogIds : i = mid[t]
    BY <1>2 DEF Apply, ApplyFails, IndInv, IdInv, WaitingHasId, Waiting
  <2>1. i < nextId /\ stampOf[i] = 0 /\ UNCHANGED <<wal, embedded, acked>> /\ RunClosure(t)
    BY <1>2, <2>0 DEF Apply, ApplyFails, IndInv, IdInv, WaitingHasId, Waiting
  <2>2. stampOf' = [stampOf EXCEPT ![i] = Stamp] /\ Stamp \in 1..MaxLogId
    BY <2>0, <2>1, RunClosureType DEF IndInv
  <2>3. RanSet' = RanSet \cup {i} /\ i \notin RanSet
    BY <2>1, <2>2 DEF RanSet, IndInv, TypeOK, HistoryOK
  <2>4. Outcomes[i] \in {"open", "failed"}
    BY <2>1 DEF RanInv, PhaseRan, PastPresent, Ran, Outcomes, Outcome, IndInv, TypeOK, LogOK, Records,
         MaybePhases, Phases, InFlight, Terminal
  <2>5. UNCHANGED Outcomes
    BY <2>1 DEF Outcomes
  <2>6. Lifecycle!ARun(i)
    BY <2>1, <2>3, <2>4, <2>5 DEF Lifecycle!ARun, RanSet, Outcomes
  <2> QED
    BY <2>6 DEF Lifecycle!ANext
<1>3. ASSUME NEW a \in Actors, Enqueue(a) PROVE Lifecycle!ANext
  <2>1. pc[a] = "enqueue" /\ UNCHANGED <<wal, stampOf, acked>>
    BY <1>3 DEF Enqueue
  <2>i. PICK i \in LogIds : i = mid[a]
    BY <2>1, PastHasId DEF PastClosure, VectorWork
  <2>2. embedded[i] = 0 /\ embedded' = [embedded EXCEPT ![i] = 1]
    <3>1. embedded[i] = 0
      BY <2>1, <2>i DEF IndInv, EmbedInv, EnqueueOnce
    <3>2. embedded' = [embedded EXCEPT ![i] = embedded[i] + 1]
      BY <1>3, <2>i DEF Enqueue
    <3> QED
      BY <3>1, <3>2
  <2>3. Ran(i) /\ wal[i].phase \in {"GraphDone", "Failed"}
    BY <2>1, <2>i DEF RanInv, ActorRan, KindInv, EnqueueOpen, PastClosure, VectorWork
  <2>4. Outcomes[i] # "committed" /\ UNCHANGED Outcomes
    BY <2>1, <2>3 DEF Outcomes, Outcome, InFlight
  <2>5. Lifecycle!AEmbed(i)
    BY <2>1, <2>2, <2>3, <2>4 DEF Lifecycle!AEmbed, Outcomes, Ran
  <2> QED
    BY <2>5 DEF Lifecycle!ANext
<1>4. ASSUME NEW t \in Threads, DiscardOverlay(t) PROVE Lifecycle!ANext
  <2>1. /\ batch[t] \subseteq RanSet /\ acked' = acked \cup batch[t]
        /\ UNCHANGED <<wal, stampOf, embedded>>
    BY <1>4 DEF DiscardOverlay, RanInv, BatchRan, Ran, RanSet, IndInv, TypeOK, ControlOK
  <2>2. Lifecycle!AAck(batch[t])
    BY <2>1 DEF Lifecycle!AAck, RanSet
  <2> QED
    BY <2>1, <2>2 DEF Lifecycle!ANext, RanSet
<1>5. CASE Crash \/ Restart
  <2>1. embedded' = [i \in LogIds |-> 0] /\ UNCHANGED <<wal, stampOf, acked>>
    BY <1>5 DEF Crash, Restart, Open
  <2>2. Lifecycle!ANewLife
    BY <2>1 DEF Lifecycle!ANewLife
  <2> QED
    BY <2>2 DEF Lifecycle!ANext
<1> QED
  BY <1>1, <1>2, <1>3, <1>4, <1>5, HistoryMoves

(* The write path implements the life cycle: across threads, reconciler,    *)
(* errors and crashes no closure runs twice, no settled mutation is         *)
(* reopened, none is committed that never ran or embedded once committed,   *)
(* and only what ran is answered Ok (commit_graph, commit_vector,           *)
(* replay_inflight_wal).                                                    *)
THEOREM LifecycleImplemented == Spec => ImplementsLifecycle
<1>1. Init => Lifecycle!AInit
  BY DEF Init, Lifecycle!AInit, NoRecord, Outcome, InFlight
<1> QED
  BY <1>1, LifecycleStep, RunInvariance, PTL DEF Spec, ImplementsLifecycle, Lifecycle!ASpec

-----------------------------------------------------------------------------
(* Rows: the graph in memory and the durable graph.                         *)
(* Stamps number the closures in the order they ran: none of a row is above *)
(* the last one's, and a thread between its closure and the end of          *)
(* commit_graph ran the last one.                                           *)
StampsBelow ==
  /\ \A r \in Rows : graph[r].stamp < Stamp /\ disk[r].stamp < Stamp
  /\ \A i \in LogIds : stampOf[i] < Stamp
LastWorks == \A t \in Threads : pc[t] \in GraphWork => stampOf[mid[t]] + 1 = Stamp

(* The graph in memory is never older than the durable one; over SQLite     *)
(* that is said of the rows the overlay holds.                              *)
NotBehind ==
  \A r \in Rows :
    \/ graph[r].stamp >= disk[r].stamp
    \/ SqlitePrimary /\ graph[r].stamp = 0

(* A mutation affects and writes rows of one file.                          *)
OneFile ==
  /\ \A i \in LogIds : \A r \in wal[i].affected, q \in wrote[i] : r[1] = q[1]
  /\ \A t \in Threads : Waiting(t) => wal[mid[t]].affected \subseteq RowsOf(req[t].file)
UnrunEmpty == \A i \in LogIds : ~Ran(i) => wrote[i] = {}
OverlayCode ==
  /\ pc[Recon] \in {"mergeflush", "mergediscard"} => SqlitePrimary
  /\ \A t \in Threads : pc[t] = "tombs" => SqlitePrimary
StoreInv ==
  StampsBelow /\ LastWorks /\ NotBehind /\ OneFile /\ UnrunEmpty /\ OverlayCode

RowsInv == RunInv /\ StoreInv

(* What a step does to a row: flush it, or leave the durable one alone and  *)
(* touch the one in memory, which only a new process and, over SQLite, the  *)
(* loads and drops of the shared overlay set back.                          *)
Reloads ==
  \/ Crash \/ Restart
  \/ /\ SqlitePrimary
     /\ \E t \in Threads : StartBatch(t) \/ PreloadTombstones(t) \/ Preload(t) \/ DiscardOverlay(t)
  \/ SqlitePrimary /\ swept' = swept \cup Unsaved
GraphMoves(r) ==
  \/ graph'[r].stamp = graph[r].stamp
  \/ graph'[r].stamp = Stamp /\ \E t \in Threads : Apply(t) \/ ApplyFails(t)
  \/ /\ graph[r].stamp # 0 /\ graph[r].stamp <= graph'[r].stamp
     /\ \E id \in LogIds : graph'[r].stamp = stampOf[id]
  \/ /\ Reloads
     /\ \/ graph'[r].stamp = disk[r].stamp
        \/ SqlitePrimary /\ graph'[r].stamp = 0
StoreMoves ==
  \A r \in Rows :
    \/ disk'[r] = disk[r] /\ GraphMoves(r)
    \/ disk'[r] = graph[r] /\ graph'[r] = graph[r] /\ (SqlitePrimary => graph[r].stamp # 0)

\* What every step does to the stores.
LEMMA StoreMovesStep == RowsInv /\ [Next]_vars => StoreMoves
<1> SUFFICES ASSUME RowsInv, [Next]_vars PROVE StoreMoves
  OBVIOUS
<1> USE DEF RowsInv, RunInv, IndInv, TypeOK, StoresOK, StoreMoves, GraphMoves
<1>0. CASE UNCHANGED <<graph, disk>>
  BY <1>0
<1>d. ASSUME NEW A, disk' = DeltaFlush(A), UNCHANGED graph PROVE StoreMoves
  BY <1>d DEF DeltaFlush, FlushSet, Present
<1>g. ASSUME disk' = disk \/ (disk' = graph /\ ~SqlitePrimary), UNCHANGED graph PROVE StoreMoves
  BY <1>g
<1>1. ASSUME NEW t \in Threads, ThreadStep(t) \/ ThreadError(t) PROVE StoreMoves
  <2>1. CASE StartBatch(t) \/ DiscardOverlay(t)
    <3>1. UNCHANGED disk /\ (UNCHANGED graph \/ (SqlitePrimary /\ graph' = EmptyStore))
      BY <2>1 DEF StartBatch, DiscardOverlay
    <3> QED
      BY <2>1, <3>1 DEF Reloads, EmptyStore, NoContent
  <2>2. CASE PreloadTombstones(t) \/ Preload(t)
    <3>1. UNCHANGED disk /\ \A r \in Rows : graph'[r] = graph[r] \/ graph'[r] = disk[r]
      BY <2>2 DEF PreloadTombstones, Preload
    <3>2. SqlitePrimary \/ UNCHANGED graph
      BY <2>2 DEF Preload, PreloadTombstones, Stores, StoreInv, OverlayCode
    <3>3. CASE UNCHANGED graph
      BY <3>1, <3>3
    <3>4. CASE SqlitePrimary
      <4>1. Reloads
        BY <2>2, <3>4 DEF Reloads
      <4> QED
        BY <3>1, <4>1
    <3> QED
      BY <3>2, <3>3, <3>4
  <2>3. CASE Apply(t) \/ ApplyFails(t)
    <3>1. UNCHANGED disk /\ RunClosure(t)
      BY <2>3 DEF Apply, ApplyFails
    <3>2. \A r \in Rows : graph'[r].stamp = graph[r].stamp \/ graph'[r].stamp = Stamp
      BY <3>1 DEF RunClosure, Write
    <3> QED
      BY <2>3, <3>1, <3>2
  <2>4. CASE FlushGraph(t)
    BY <2>4, <1>d, <1>g DEF FlushGraph
  <2>5. CASE EndFlush(t)
    BY <2>5, <1>g DEF EndFlush
  <2>6. CASE ~(\/ StartBatch(t) \/ DiscardOverlay(t) \/ PreloadTombstones(t) \/ Preload(t)
               \/ Apply(t) \/ ApplyFails(t) \/ FlushGraph(t) \/ EndFlush(t))
    <3>1. UNCHANGED <<graph, disk>>
      BY <1>1, <2>6 DEF ThreadStep, ThreadError, NextEvent, FinishBatch, RequestStatus, Append, Register,
           LockGraph, GraphDone, GraphIndex, EndFlushFails, PreloadFails, FlushGraphFails, stores
    <3> QED
      BY <1>0, <3>1
  <2> QED
    BY <2>1, <2>2, <2>3, <2>4, <2>5, <2>6
<1>2. ASSUME NEW a \in Actors, CommitStep(a) \/ ErrorStep(a) PROVE StoreMoves
  <2>1. CASE FlushVector(a) \/ FinalFlush(a)
    BY <2>1, <1>g DEF FlushVector, FinalFlush
  <2>2. CASE ~(FlushVector(a) \/ FinalFlush(a))
    <3>1. UNCHANGED <<graph, disk>>
      BY <1>2, <2>2 DEF CommitStep, ErrorStep, LockVector, Enqueue, VectorDone, Committed, Finalize,
         FlushVectorFails, FinalFlushFails, stores
    <3> QED
      BY <1>0, <3>1
  <2> QED
    BY <2>1, <2>2
<1>3. ASSUME NEW id \in LogIds, Replay(id) PROVE StoreMoves
  <2>1. CASE ReplayStatus(id)
    <3>1. UNCHANGED disk
      BY <2>1 DEF ReplayStatus, ReplayRow
    <3>2. \A r \in Rows :
            \/ graph'[r].stamp = graph[r].stamp
            \/ graph[r].stamp # 0 /\ graph[r].stamp < stampOf[id] /\ graph'[r].stamp = stampOf[id]
      BY <2>1 DEF ReplayStatus, Present
    <3>3. \A r \in Rows : graph[r].stamp \in Nat /\ stampOf[id] \in Nat
      BY DEF Stores, Contents, HistoryOK
    <3> QED
      BY <3>1, <3>2, <3>3
  <2>2. CASE ~ReplayStatus(id)
    <3>1. UNCHANGED <<graph, disk>>
      BY <1>3, <2>2 DEF Replay, ReplayPending, ReplayVector, ReplayFinalize, ReplayRow
    <3> QED
      BY <1>0, <3>1
  <2> QED
    BY <2>1, <2>2
<1>4. CASE StartReconcile
  <2>1. UNCHANGED disk
    BY <1>4 DEF StartReconcile
  <2>2. UNCHANGED graph \/ (SqlitePrimary /\ graph' = EmptyStore /\ swept' = swept \cup Unsaved)
    BY <1>4 DEF StartReconcile
  <2> QED
    BY <2>1, <2>2 DEF Reloads, EmptyStore, NoContent
<1>5. CASE MergeFlush
  BY <1>5, <1>d DEF MergeFlush
<1>6. CASE MergeDiscard
  <2>1. SqlitePrimary /\ graph' = EmptyStore /\ swept' = swept \cup Unsaved /\ UNCHANGED disk
    BY <1>6 DEF MergeDiscard, StoreInv, OverlayCode
  <2> QED
    BY <2>1 DEF Reloads, EmptyStore, NoContent
<1>7. CASE MergeFlushFails \/ Snapshot \/ ReplayEnds \/ Rebuild \/ Install
  BY <1>7, <1>0 DEF MergeFlushFails, Snapshot, ReplayEnds, Rebuild, Install, stores
<1>8. CASE Crash \/ Restart
  <2>1. UNCHANGED disk /\ graph' = IF SqlitePrimary THEN EmptyStore ELSE disk
    BY <1>8 DEF Crash, Restart, Open
  <2> QED
    BY <1>8, <2>1 DEF Reloads, EmptyStore, NoContent
<1> QED
  BY <1>0, <1>1, <1>2, <1>3, <1>4, <1>5, <1>6, <1>7, <1>8 DEF Next, ReconStep, vars, stores

\* Finitely many closures have run.
LEMMA RanFinite == IsFiniteSet({i \in LogIds : stampOf[i] # 0})
<1>1. IsFiniteSet(LogIds)
  BY FS_Interval DEF LogIds
<1>2. {i \in LogIds : stampOf[i] # 0} \in SUBSET LogIds
  OBVIOUS
<1> QED
  BY <1>1, <1>2, FS_Subset

\* A closure takes the next stamp.
LEMMA StampGrows ==
  ASSUME IndInv, NEW t \in Threads, Apply(t) \/ ApplyFails(t)
  PROVE  Stamp' = Stamp + 1
<1> DEFINE R == {i \in LogIds : stampOf[i] # 0}
<1>1. /\ mid[t] \in LogIds /\ mid[t] \notin R
      /\ Stamp \in 1..MaxLogId /\ stampOf' = [stampOf EXCEPT ![mid[t]] = Stamp]
  BY ClosureRuns
<1>2. {i \in LogIds : stampOf'[i] # 0} = R \cup {mid[t]}
  BY <1>1 DEF IndInv, TypeOK, HistoryOK
<1>3. IsFiniteSet(R)
  BY RanFinite
<1>4. Cardinality(R \cup {mid[t]}) = Cardinality(R) + 1 /\ Cardinality(R) \in Nat
  BY <1>1, <1>3, FS_AddElement, FS_CardinalityType
<1>5. Stamp = 1 + Cardinality(R) /\ Stamp' = 1 + Cardinality(R \cup {mid[t]})
  BY <1>2 DEF Stamp
<1> QED
  BY <1>4, <1>5

\* Any other step leaves the next stamp.
LEMMA StampStays == ASSUME UNCHANGED stampOf PROVE Stamp' = Stamp
BY DEF Stamp

\* Stamps are numbers.
LEMMA StampTypes ==
  ASSUME TypeOK
  PROVE  /\ Stamp \in Nat \ {0} /\ \A i \in LogIds : stampOf[i] \in Nat
         /\ \A r \in Rows : graph[r].stamp \in Nat /\ disk[r].stamp \in Nat
<1>1. IsFiniteSet({i \in LogIds : stampOf[i] # 0})
  BY RanFinite
<1>2. Stamp \in Nat \ {0}
  BY <1>1, FS_CardinalityType DEF Stamp
<1> QED
  BY <1>2 DEF TypeOK, HistoryOK, StoresOK, Stores, Contents

\* A closure writes rows of the file it was asked for (apply_index_events).
LEMMA WrittenOfFile ==
  ASSUME TypeOK, NEW id \in LogIds, NEW f \in Files, NEW W \in Written(graph, id, f),
         wal[id].affected \subseteq RowsOf(f)
  PROVE  W \subseteq RowsOf(f)
<1>1. Stable(f) \in RowsOf(f) /\ Edited(f) \in RowsOf(f) /\ LiveRows(graph, f) \subseteq RowsOf(f)
  BY DEF Stable, Edited, RowsOf, Rows, LiveRows
<1>2. CASE W \in IndexWrites(graph, f)
  BY <1>1, <1>2 DEF IndexWrites
<1>3. CASE W = LiveRows(graph, f) \/ W = wal[id].affected \cap Present(graph)
  BY <1>1, <1>3
<1> QED
  BY <1>2, <1>3 DEF Written

\* So does what its record lists (begin_mutation, begin_status_mutation).
LEMMA AffectedOfFile ==
  ASSUME NEW k, NEW f \in Files
  PROVE  Affected(k, f) \subseteq RowsOf(f)
BY DEF Affected, RowsOf, Rows, Stable, Sentinel, LiveRows

\* Who runs the reconciler's merge recovery and who loads tombstones.
LEMMA OverlayCodeStep == RowsInv /\ [Next]_vars => OverlayCode'
<1> SUFFICES ASSUME RowsInv, [Next]_vars PROVE OverlayCode'
  OBVIOUS
<1> USE DEF RowsInv, RunInv, IndInv, TypeOK, ControlOK, StoreInv, OverlayCode, Actors
<1>0. CASE UNCHANGED pc
  BY <1>0
<1>1. ASSUME NEW t \in Threads, ThreadStep(t) \/ ThreadError(t) PROVE OverlayCode'
  <2>1. CASE StartBatch(t)
    BY <2>1 DEF StartBatch, Go
  <2>2. CASE ~StartBatch(t)
    <3>1. pc'[t] # "tombs" /\ \A b \in Actors : b # t => pc'[b] = pc[b]
      BY <1>1, <2>2 DEF ThreadStep, ThreadError, PreloadTombstones, NextEvent, FinishBatch, EndFlush,
           DiscardOverlay, RequestStatus, Preload, Append, Register, LockGraph, Apply, GraphDone,
           GraphIndex, FlushGraph, EndFlushFails, PreloadFails, ApplyFails, FlushGraphFails, Go, Fail
    <3> QED
      BY <3>1
  <2> QED
    BY <2>1, <2>2
<1>2. ASSUME NEW a \in Actors, CommitStep(a) \/ ErrorStep(a) PROVE OverlayCode'
  <2>1. /\ pc'[a] \notin {"tombs", "mergeflush", "mergediscard"}
        /\ \A b \in Actors : b # a => pc'[b] = pc[b]
    BY <1>2 DEF CommitStep, ErrorStep, LockVector, Enqueue, VectorDone, Committed, Finalize,
       FlushVector, FinalFlush, FlushVectorFails, FinalFlushFails, Go, Fail
  <2> QED
    BY <2>1
<1>3. ASSUME NEW id \in LogIds, Replay(id) PROVE OverlayCode'
  BY <1>3 DEF Replay, ReplayPending, ReplayVector, ReplayStatus, ReplayFinalize, ReplayRow, Go, Fail
<1>4. CASE StartReconcile \/ MergeFlush \/ MergeDiscard \/ MergeFlushFails \/ Snapshot \/ ReplayEnds
           \/ Rebuild \/ Install
  BY <1>4 DEF StartReconcile, MergeFlush, MergeDiscard, MergeFlushFails, Snapshot, ReplayEnds, Rebuild,
     Install, Go
<1>5. CASE Crash \/ Restart
  BY <1>5 DEF Crash, Restart, Open
<1> QED
  BY <1>0, <1>1, <1>2, <1>3, <1>4, <1>5 DEF Next, ReconStep, vars, control

(* No row, in memory or durable, carries a stamp of a closure still to run, *)
(* and the durable graph is not ahead of the one in memory.                 *)
LEMMA StoreStep == RowsInv /\ [Next]_vars => StoreInv'
<1> SUFFICES ASSUME RowsInv, [Next]_vars PROVE StoreInv'
  OBVIOUS
<1>i. IndInv /\ RunInv /\ StoreInv /\ TypeOK /\ TypeOK'
  BY StepInv DEF RowsInv, RunInv, IndInv
<1>1. StoreMoves /\ ThreadMoves
  BY StoreMovesStep, ThreadMovesStep DEF RowsInv, RunInv
<1>r. ASSUME NEW r \in Rows
      PROVE  /\ graph[r].stamp \in Nat /\ disk[r].stamp \in Nat
             /\ graph'[r].stamp \in Nat /\ disk'[r].stamp \in Nat
  BY <1>i, StampTypes DEF TypeOK, StoresOK, Stores, Contents
<1>2. StampsBelow'
  <2>1. ASSUME NEW t \in Threads, Apply(t) \/ ApplyFails(t) PROVE StampsBelow'
    <3>1. Stamp' = Stamp + 1 /\ Stamp \in Nat /\ \A i \in LogIds : stampOf[i] \in Nat
      BY <1>i, <2>1, StampGrows, StampTypes
    <3>2. stampOf' = [stampOf EXCEPT ![mid[t]] = Stamp] /\ UNCHANGED disk
      BY <1>i, <2>1, ClosureRuns
    <3>3. \A i \in LogIds : stampOf'[i] = stampOf[i] \/ stampOf'[i] = Stamp
      BY <3>2, <1>i DEF TypeOK, HistoryOK
    <3>4. \A r \in Rows : graph'[r].stamp = graph[r].stamp \/ graph'[r].stamp = Stamp
      BY <2>1 DEF Apply, ApplyFails, RunClosure, Write
    <3> QED
      BY <1>i, <1>r, <3>1, <3>2, <3>3, <3>4 DEF StampsBelow, StoreInv
  <2>2. CASE UNCHANGED <<stampOf, wrote>>
    <3>1. Stamp' = Stamp /\ Stamp \in Nat \ {0} /\ \A i \in LogIds : stampOf[i] \in Nat
      BY <1>i, <2>2, StampStays, StampTypes
    <3>2. ASSUME NEW r \in Rows PROVE graph'[r].stamp < Stamp /\ disk'[r].stamp < Stamp
      <4>1. graph[r].stamp < Stamp /\ disk[r].stamp < Stamp /\ \A i \in LogIds : stampOf[i] < Stamp
        BY <1>i DEF StampsBelow, StoreInv
      <4>2. ~\E t \in Threads : Apply(t) \/ ApplyFails(t)
        <5> SUFFICES ASSUME NEW t \in Threads, Apply(t) \/ ApplyFails(t) PROVE FALSE
          OBVIOUS
        <5> QED
          BY <1>i, <2>2, ClosureRuns DEF TypeOK, HistoryOK
      <4> QED
        BY <1>1, <3>1, <4>1, <4>2 DEF StoreMoves, GraphMoves
    <3> QED
      BY <1>i, <2>2, <3>1, <3>2 DEF StampsBelow, StoreInv
  <2> QED
    BY <2>1, <2>2, ClosureMoves
<1>3. LastWorks'
  <2>1. ASSUME NEW t \in Threads, pc'[t] \in GraphWork PROVE stampOf'[mid'[t]] + 1 = Stamp'
    <3>1. CASE Apply(t)
      <4>1. /\ mid[t] \in LogIds /\ UNCHANGED mid /\ stampOf' = [stampOf EXCEPT ![mid[t]] = Stamp]
            /\ Stamp' = Stamp + 1
        BY <1>i, <3>1, ClosureRuns, StampGrows
      <4> QED
        BY <4>1, <1>i DEF TypeOK, HistoryOK
    <3>2. CASE pc[t] \in GraphWork
      <4>1. mid'[t] = mid[t]
        BY <1>1, <2>1, <3>2 DEF ThreadMoves, Waiting, GraphWork
      <4>2. UNCHANGED stampOf
        <5>1. ASSUME NEW u \in Threads, Apply(u) \/ ApplyFails(u) PROVE FALSE
          BY <1>i, <3>2, <5>1 DEF Apply, ApplyFails, IndInv, LockInv, Critical, GraphWork, Actors
        <5> QED
          BY <5>1, ClosureMoves
      <4> QED
        BY <1>i, <3>2, <4>1, <4>2, StampStays DEF StoreInv, LastWorks
    <3> QED
      BY <1>1, <2>1, <3>1, <3>2 DEF ThreadMoves
  <2> QED
    BY <2>1 DEF LastWorks
<1>4. NotBehind'
  <2>1. ASSUME NEW r \in Rows
        PROVE  graph'[r].stamp >= disk'[r].stamp \/ (SqlitePrimary /\ graph'[r].stamp = 0)
    <3>1. CASE disk'[r] = disk[r] /\ GraphMoves(r)
      BY <1>i, <1>r, <3>1, StampTypes DEF GraphMoves, StoreInv, NotBehind, StampsBelow
    <3>2. CASE disk'[r] = graph[r] /\ graph'[r] = graph[r]
      BY <1>r, <3>2
    <3> QED
      BY <1>1, <3>1, <3>2 DEF StoreMoves
  <2> QED
    BY <2>1 DEF NotBehind
<1>5. OneFile'
  <2>1. \A i \in LogIds : i < nextId => wal'[i].affected = wal[i].affected
    BY <1>i, RecordStays
  <2>2. ASSUME NEW t \in Threads, Append(t), Waiting(t)'
        PROVE  /\ wal' = [wal EXCEPT ![nextId] =
                      [kind |-> req[t].kind, affected |-> Affected(req[t].kind, req[t].file),
                       phase |-> "Pending"]]
               /\ nextId \in LogIds /\ mid'[t] = nextId /\ UNCHANGED req
               /\ wal'[nextId].affected \subseteq RowsOf(req[t].file)
    <3>1. /\ nextId <= MaxLogId /\ mid' = [mid EXCEPT ![t] = nextId] /\ UNCHANGED req
          /\ wal' = [wal EXCEPT ![nextId] =
                  [kind |-> req[t].kind, affected |-> Affected(req[t].kind, req[t].file),
                   phase |-> "Pending"]]
      BY <1>i, <2>2 DEF Append, Waiting, Go, TypeOK, ControlOK, Actors
    <3>2. nextId \in LogIds /\ mid'[t] = nextId /\ req[t].file \in Files
      BY <1>i, <3>1 DEF TypeOK, LogOK, ControlOK, LogIds, Actors
    <3>3. wal'[nextId].affected \subseteq RowsOf(req[t].file)
      BY <1>i, <3>1, <3>2, AffectedOfFile DEF TypeOK, LogOK
    <3> QED
      BY <3>1, <3>2, <3>3
  <2>3. ASSUME NEW t \in Threads, Waiting(t)'
        PROVE  wal'[mid'[t]].affected \subseteq RowsOf(req'[t].file)
    <3>1. CASE Append(t)
      BY <2>2, <2>3, <3>1
    <3>2. CASE /\ ~Append(t) /\ (Waiting(t) \/ pc[t] \in GraphWork)
               /\ mid'[t] = mid[t] /\ req'[t] = req[t]
      <4>1. Waiting(t)
        BY <1>1, <2>3, <3>2 DEF ThreadMoves
      <4>2. mid[t] \in LogIds /\ mid[t] < nextId
        BY <1>i, <4>1, RanHasRecord
      <4> QED
        BY <1>i, <2>1, <3>2, <4>1, <4>2 DEF StoreInv, OneFile
    <3> QED
      BY <1>1, <2>3, <3>1, <3>2 DEF ThreadMoves
  <2>4. ASSUME NEW i \in LogIds, NEW r \in wal'[i].affected, NEW q \in wrote'[i] PROVE r[1] = q[1]
    <3>1. CASE i >= nextId
      <4>1. ~Ran(i) /\ wrote[i] = {}
        BY <1>i, <3>1, RanHasRecord DEF StoreInv, UnrunEmpty, TypeOK, LogOK, LogIds
      <4>2. wrote'[i] = {}
        <5>1. ASSUME NEW t \in Threads, Apply(t) \/ ApplyFails(t) PROVE wrote'[i] = wrote[i]
          <6>1. mid[t] < nextId /\ mid[t] \in LogIds /\ RunClosure(t)
            BY <1>i, <5>1, ClosureRuns
          <6> QED
            BY <1>i, <3>1, <6>1 DEF RunClosure, TypeOK, HistoryOK, LogOK, LogIds
        <5> QED
          BY <4>1, <5>1, ClosureMoves
      <4> QED
        BY <2>4, <4>2
    <3>2. CASE i < nextId
      <4>1. wal'[i].affected = wal[i].affected
        BY <2>1, <3>2
      <4>2. CASE wrote'[i] = wrote[i]
        BY <1>i, <2>4, <4>1, <4>2 DEF StoreInv, OneFile
      <4>3. ASSUME NEW t \in Threads, Apply(t) \/ ApplyFails(t), i = mid[t] PROVE r[1] = q[1]
        <5>1. Waiting(t) /\ RunClosure(t) /\ req[t].file \in Files
          BY <1>i, <4>3 DEF Apply, ApplyFails, Waiting, TypeOK, ControlOK
        <5>2. wal[i].affected \subseteq RowsOf(req[t].file)
          BY <1>i, <4>3, <5>1 DEF StoreInv, OneFile
        <5>3. PICK W \in Written(graph, mid[t], req[t].file) : wrote' = [wrote EXCEPT ![mid[t]] = W]
          BY <5>1 DEF RunClosure
        <5>4. W \subseteq RowsOf(req[t].file) /\ q \in W
          BY <1>i, <2>4, <4>3, <5>1, <5>2, <5>3, WrittenOfFile DEF TypeOK, HistoryOK
        <5> QED
          BY <2>4, <4>1, <5>2, <5>4 DEF RowsOf
      <4>4. ASSUME NEW t \in Threads, Apply(t) \/ ApplyFails(t), i # mid[t] PROVE wrote'[i] = wrote[i]
        BY <1>i, <4>4, ClosureRuns DEF RunClosure, TypeOK, HistoryOK
      <4> QED
        BY <4>2, <4>3, <4>4, ClosureMoves
    <3> QED
      BY <1>i, <3>1, <3>2 DEF TypeOK, LogOK, LogIds
  <2> QED
    BY <2>3, <2>4 DEF OneFile
<1>6. UnrunEmpty'
  <2>1. ASSUME NEW t \in Threads, Apply(t) \/ ApplyFails(t), NEW i \in LogIds, stampOf'[i] = 0
        PROVE  wrote'[i] = {}
    <3>1. /\ mid[t] \in LogIds /\ RunClosure(t) /\ Stamp # 0
          /\ stampOf' = [stampOf EXCEPT ![mid[t]] = Stamp]
      BY <1>i, <2>1, ClosureRuns, StampTypes
    <3>2. i # mid[t] /\ stampOf[i] = 0
      BY <1>i, <2>1, <3>1 DEF TypeOK, HistoryOK
    <3>3. wrote'[i] = wrote[i]
      BY <1>i, <3>1, <3>2 DEF RunClosure, TypeOK, HistoryOK
    <3> QED
      BY <1>i, <3>2, <3>3 DEF StoreInv, UnrunEmpty, Ran
  <2> QED
    BY <1>i, <2>1, ClosureMoves DEF StoreInv, UnrunEmpty, Ran
<1>7. OverlayCode'
  BY OverlayCodeStep
<1> QED
  BY <1>2, <1>3, <1>4, <1>5, <1>6, <1>7 DEF StoreInv

-----------------------------------------------------------------------------
(* What an Ok answer promises.  Nothing is promised over SQLite when        *)
(* several threads share the overlay: a load or a drop of one of them loses *)
(* the rows another has yet to flush.                                       *)
OverlayOfOne == ~SqlitePrimary \/ \A t, u \in Threads : t = u

(* The rows of a mutation are in memory or durable, or durable, unless the  *)
(* merge recovery dropped them first.                                       *)
Kept(i) ==
  \/ i \in swept
  \/ \A r \in wrote[i] : graph[r].stamp >= stampOf[i] \/ disk[r].stamp >= stampOf[i]
Saved(i) == i \in swept \/ \A r \in wrote[i] : disk[r].stamp >= stampOf[i]

(* What a thread is committing, and what its batch has committed, is kept   *)
(* until the flush that ends the request; over SQLite commit_graph flushes  *)
(* it at once.                                                              *)
WorkKept == \A t \in Threads : pc[t] \in PastClosure => Kept(mid[t])
BatchKept == \A t \in Threads : \A i \in batch[t] : Kept(i)
SqliteSaved ==
  SqlitePrimary => \A t \in Threads :
    /\ pc[t] \in VectorWork \cup FinalWork => Saved(mid[t])
    /\ \A i \in batch[t] : Saved(i)
DiscardSaved == \A t \in Threads : pc[t] = "discard" => \A i \in batch[t] : Saved(i)
AckedSaved == \A i \in acked : Ran(i) /\ Saved(i)
AckInv == WorkKept /\ BatchKept /\ SqliteSaved /\ DiscardSaved /\ AckedSaved

DurableInv == RowsInv /\ AckInv

\* What merge recovery dropped is not forgotten, and who answers.
AnswerMoves ==
  /\ swept \subseteq swept'
  /\ \A t \in Threads : pc'[t] = "discard" =>
       \/ pc[t] = "discard" /\ batch'[t] = batch[t]
       \/ EndFlush(t) /\ batch'[t] = batch[t]
       \/ FinalFlush(t) /\ batch'[t] = {mid[t]}

\* What every step does to them.
LEMMA AnswerMovesStep == IndInv /\ [Next]_vars => AnswerMoves
<1> SUFFICES ASSUME IndInv, [Next]_vars PROVE AnswerMoves
  OBVIOUS
<1> USE DEF IndInv, TypeOK, ControlOK, AnswerMoves, Actors
<1>0. CASE UNCHANGED <<swept, pc, batch>>
  BY <1>0
<1>1. ASSUME NEW t \in Threads, ThreadStep(t) \/ ThreadError(t) PROVE AnswerMoves
  <2>1. UNCHANGED swept
    BY <1>1 DEF ThreadStep, ThreadError, StartBatch, PreloadTombstones, NextEvent, FinishBatch, EndFlush,
         DiscardOverlay, RequestStatus, Preload, Append, Register, LockGraph, Apply, GraphDone,
         GraphIndex, FlushGraph, EndFlushFails, PreloadFails, ApplyFails, FlushGraphFails, history
  <2>2. CASE EndFlush(t)
    BY <2>1, <2>2 DEF EndFlush, Go
  <2>3. CASE ~EndFlush(t)
    <3>1. pc'[t] # "discard" /\ \A u \in Threads : u # t => pc'[u] = pc[u] /\ batch'[u] = batch[u]
      BY <1>1, <2>3 DEF ThreadStep, ThreadError, StartBatch, PreloadTombstones, NextEvent, FinishBatch,
           DiscardOverlay, RequestStatus, Preload, Append, Register, LockGraph, Apply, GraphDone,
           GraphIndex, FlushGraph, EndFlushFails, PreloadFails, ApplyFails, FlushGraphFails, Go, Fail,
           control
    <3> QED
      BY <2>1, <3>1
  <2> QED
    BY <2>2, <2>3
<1>2. ASSUME NEW a \in Actors, CommitStep(a) \/ ErrorStep(a) PROVE AnswerMoves
  <2>1. UNCHANGED swept
    BY <1>2 DEF CommitStep, ErrorStep, LockVector, Enqueue, VectorDone, Committed, Finalize,
       FlushVector, FinalFlush, FlushVectorFails, FinalFlushFails, history
  <2>2. CASE FinalFlush(a)
    <3>1. \A u \in Threads : u # a => pc'[u] = pc[u] /\ batch'[u] = batch[u]
      BY <2>2 DEF FinalFlush, Go
    <3>2. a \in Threads => batch'[a] = {mid[a]}
      BY <2>2 DEF FinalFlush
    <3> QED
      BY <2>1, <2>2, <3>1, <3>2
  <2>3. CASE ~FinalFlush(a)
    <3>1. pc'[a] # "discard" /\ \A u \in Threads : u # a => pc'[u] = pc[u] /\ batch'[u] = batch[u]
      BY <1>2, <2>3 DEF CommitStep, ErrorStep, LockVector, Enqueue, VectorDone, Committed, Finalize,
       FlushVector, FlushVectorFails, FinalFlushFails, Go, Fail, control
    <3> QED
      BY <2>1, <3>1
  <2> QED
    BY <2>2, <2>3
<1>3. ASSUME NEW id \in LogIds, Replay(id) PROVE AnswerMoves
  <2>1. UNCHANGED <<swept, batch>> /\ \A u \in Threads : pc'[u] = pc[u]
    BY <1>3 DEF Replay, ReplayPending, ReplayVector, ReplayStatus, ReplayFinalize, ReplayRow, Go, Fail,
       history
  <2> QED
    BY <2>1
<1>4. CASE StartReconcile \/ MergeFlush \/ MergeDiscard \/ MergeFlushFails \/ Snapshot \/ ReplayEnds
           \/ Rebuild \/ Install
  <2>1. swept \subseteq swept' /\ UNCHANGED batch /\ \A u \in Threads : pc'[u] = pc[u]
    BY <1>4 DEF StartReconcile, MergeFlush, MergeDiscard, MergeFlushFails, Snapshot, ReplayEnds, Rebuild,
       Install, Go, history, control
  <2> QED
    BY <2>1
<1>5. CASE Crash \/ Restart
  BY <1>5 DEF Crash, Restart, Open
<1> QED
  BY <1>0, <1>1, <1>2, <1>3, <1>4, <1>5 DEF Next, ReconStep, vars, control, history

\* What is durable stays durable, through flushes of newer rows and crashes.
LEMMA SavedStays ==
  ASSUME RowsInv, [Next]_vars, NEW i \in LogIds, Ran(i), Saved(i)
  PROVE  Saved(i)'
<1>1. /\ stampOf'[i] = stampOf[i] /\ wrote'[i] = wrote[i] /\ wrote[i] \subseteq Rows
      /\ swept \subseteq swept'
  BY RanStays, AnswerMovesStep DEF RowsInv, RunInv, IndInv, TypeOK, HistoryOK, AnswerMoves
<1>2. ASSUME NEW r \in Rows PROVE disk'[r].stamp >= disk[r].stamp
  BY StoreMovesStep, StampTypes
     DEF RowsInv, RunInv, IndInv, StoreMoves, StoreInv, NotBehind
<1>3. \A r \in Rows : disk[r].stamp \in Nat /\ disk'[r].stamp \in Nat /\ stampOf[i] \in Nat
  <2>1. TypeOK /\ TypeOK'
    BY StepInv DEF RowsInv, RunInv, IndInv
  <2> QED
    BY <2>1 DEF TypeOK, HistoryOK, StoresOK, Stores, Contents
<1> QED
  BY <1>1, <1>2, <1>3 DEF Saved

\* In the JSON backend what is in memory stays there for the life of the process.
LEMMA KeptInMemory ==
  ASSUME RowsInv, [Next]_vars, ~SqlitePrimary, ~Crash, ~Restart, NEW i \in LogIds, Ran(i), Kept(i)
  PROVE  Kept(i)'
<1>1. /\ stampOf'[i] = stampOf[i] /\ wrote'[i] = wrote[i] /\ wrote[i] \subseteq Rows
      /\ swept \subseteq swept'
  BY RanStays, AnswerMovesStep DEF RowsInv, RunInv, IndInv, TypeOK, HistoryOK, AnswerMoves
<1>2. TypeOK /\ TypeOK'
  BY StepInv DEF RowsInv, RunInv, IndInv
<1>3. ASSUME NEW r \in Rows
      PROVE  /\ graph[r].stamp \in Nat /\ disk[r].stamp \in Nat /\ stampOf[i] \in Nat
             /\ graph'[r].stamp \in Nat /\ disk'[r].stamp \in Nat
  BY <1>2 DEF TypeOK, HistoryOK, StoresOK, Stores, Contents
<1>4. ASSUME NEW r \in Rows PROVE graph'[r].stamp >= graph[r].stamp /\ graph[r].stamp >= disk[r].stamp
  BY <1>2, <1>3, StoreMovesStep, StampTypes
     DEF RowsInv, StoreMoves, GraphMoves, Reloads, StoreInv, NotBehind, StampsBelow
<1> QED
  BY <1>1, <1>3, <1>4 DEF Kept

\* In SQLite's overlay it stays there until the end of commit_graph.
LEMMA KeptInOverlay ==
  ASSUME RowsInv, [Next]_vars, OverlayOfOne, SqlitePrimary,
         NEW t \in Threads, pc[t] \in GraphWork, pc'[t] \in GraphWork, Kept(mid[t])
  PROVE  Kept(mid[t])'
<1> DEFINE i == mid[t]
<1>1. i \in LogIds /\ Ran(i)
  BY PastHasId DEF RowsInv, RunInv, RanInv, ActorRan, PastClosure, Actors
<1>2. /\ stampOf'[i] = stampOf[i] /\ wrote'[i] = wrote[i] /\ wrote[i] \subseteq Rows
      /\ swept \subseteq swept'
  BY <1>1, RanStays, AnswerMovesStep DEF RowsInv, RunInv, IndInv, TypeOK, HistoryOK, AnswerMoves
<1>3. TypeOK /\ TypeOK'
  BY StepInv DEF RowsInv, RunInv, IndInv
<1>4. mid'[t] = i
  BY ThreadMovesStep DEF RowsInv, RunInv, ThreadMoves, Waiting, GraphWork
<1>5. ASSUME NEW r \in Rows
      PROVE  /\ graph[r].stamp \in Nat /\ disk[r].stamp \in Nat /\ stampOf[i] \in Nat
             /\ graph'[r].stamp \in Nat /\ disk'[r].stamp \in Nat /\ graph[r].stamp <= stampOf[i]
    BY <1>1, <1>3, StampTypes DEF TypeOK, HistoryOK, StoresOK, Stores, Contents, RowsInv, StoreInv,
       StampsBelow, LastWorks
<1>6. ~Crash /\ ~Restart
  BY DEF Crash, Restart, Open, GraphWork, Actors
<1>7. ASSUME NEW u \in Threads PROVE ~(StartBatch(u) \/ PreloadTombstones(u) \/ Preload(u) \/ DiscardOverlay(u))
  BY DEF OverlayOfOne, StartBatch, PreloadTombstones, Preload, DiscardOverlay, GraphWork
<1>8. CASE swept' = swept \cup Unsaved
  <2>1. CASE i \in Unsaved
    BY <1>4, <1>8, <2>1 DEF Kept
  <2>2. CASE i \notin Unsaved /\ i \notin swept
    <3>1. ASSUME NEW r \in wrote[i] PROVE disk[r].stamp >= stampOf[i]
      BY <1>1, <1>2, <1>5, <2>2, <3>1 DEF Kept, Unsaved
    <3>2. Saved(i)
      BY <3>1 DEF Saved
    <3> QED
      BY <1>1, <1>4, <3>2, SavedStays DEF Saved, Kept
  <2> QED
    BY <1>2, <1>4, <2>1, <2>2 DEF Kept
<1>9. CASE swept' # swept \cup Unsaved
  <2>1. ASSUME NEW r \in Rows
        PROVE  \/ graph'[r].stamp >= graph[r].stamp /\ disk'[r] = disk[r]
               \/ graph[r].stamp # 0 /\ disk'[r] = graph[r] /\ graph'[r] = graph[r]
    BY <1>3, <1>5, <1>6, <1>7, <1>9, StoreMovesStep, StampTypes
       DEF RowsInv, StoreMoves, GraphMoves, Reloads, StoreInv, StampsBelow
  <2>2. ASSUME NEW r \in wrote[i], graph[r].stamp >= stampOf[i] \/ disk[r].stamp >= stampOf[i]
        PROVE  graph'[r].stamp >= stampOf[i] \/ disk'[r].stamp >= stampOf[i]
    <3>1. r \in Rows
      BY <1>2
    <3>2. NotBehind
      BY DEF RowsInv, StoreInv
    <3> QED
      BY <1>1, <1>5, <2>1, <2>2, <3>1, <3>2 DEF NotBehind, Ran
  <2> QED
    BY <1>2, <1>4, <2>2 DEF Kept
<1> QED
  BY <1>8, <1>9

\* commit_graph ends by flushing every row the closure wrote (flush_graph_delta).
LEMMA FlushSaves ==
  ASSUME RowsInv, [Next]_vars, SqlitePrimary, NEW t \in Threads, FlushGraph(t), Kept(mid[t])
  PROVE  Saved(mid[t])'
<1> DEFINE i == mid[t]
<1>1. pc[t] = "flushgraph" /\ mid'[t] = i /\ disk' = DeltaFlush(wal[i].affected)
  BY DEF FlushGraph
<1>2. i \in LogIds /\ Ran(i)
  BY <1>1, PastHasId DEF RowsInv, RunInv, RanInv, ActorRan, PastClosure, GraphWork, Actors
<1>3. /\ stampOf'[i] = stampOf[i] /\ wrote'[i] = wrote[i] /\ wrote[i] \subseteq Rows
      /\ swept \subseteq swept'
  BY <1>2, RanStays, AnswerMovesStep DEF RowsInv, RunInv, IndInv, TypeOK, HistoryOK, AnswerMoves
<1>4. ASSUME NEW r \in Rows PROVE graph[r].stamp \in Nat /\ disk[r].stamp \in Nat /\ stampOf[i] \in Nat
  BY <1>2, StampTypes DEF RowsInv, RunInv, IndInv
<1>5. ASSUME NEW r \in wrote[i], graph[r].stamp >= stampOf[i] \/ disk[r].stamp >= stampOf[i]
      PROVE  disk'[r].stamp >= stampOf[i]
  <2>1. r \in Rows
    BY <1>3
  <2>2. CASE r \in Present(graph)
    <3>1. r \in FlushSet(wal[i].affected)
      BY <1>2, <2>2 DEF FlushSet, RowsInv, StoreInv, OneFile
    <3>2. disk'[r] = graph[r]
      BY <1>1, <2>1, <3>1 DEF DeltaFlush
    <3>3. graph[r].stamp >= disk[r].stamp
      BY <1>4, <2>1, <2>2 DEF RowsInv, StoreInv, NotBehind, Present
    <3> QED
      BY <1>4, <1>5, <2>1, <3>2, <3>3
  <2>3. CASE r \notin Present(graph)
    <3>1. graph[r].stamp = 0 /\ r \notin FlushSet(wal[i].affected)
      BY <2>1, <2>3 DEF FlushSet, Present
    <3>2. disk'[r] = disk[r]
      BY <1>1, <2>1, <3>1 DEF DeltaFlush
    <3> QED
      BY <1>2, <1>4, <1>5, <2>1, <3>1, <3>2 DEF Ran
  <2> QED
    BY <2>2, <2>3
<1> QED
  BY <1>1, <1>3, <1>5 DEF Kept, Saved

(* What a request was told is committed is durable, and what it is still    *)
(* committing is not lost (commit_graph, flush_graph_delta,                 *)
(* flush_committed_snapshots).                                              *)
LEMMA AckStep == ASSUME OverlayOfOne PROVE DurableInv /\ [Next]_vars => AckInv'
<1> SUFFICES ASSUME DurableInv, [Next]_vars PROVE AckInv'
  OBVIOUS
<1>i. RowsInv /\ RunInv /\ IndInv /\ AckInv
  BY DEF DurableInv, RowsInv, RunInv
<1>1. ThreadMoves /\ DoneMoves /\ AnswerMoves
  BY <1>i, ThreadMovesStep, DoneMovesStep, AnswerMovesStep
<1>2. \A t \in Threads : pc[t] \in PastClosure => mid[t] \in LogIds /\ Ran(mid[t]) /\ Kept(mid[t])
  BY <1>i, PastHasId DEF RunInv, RanInv, ActorRan, AckInv, WorkKept, Actors
<1>3. \A t \in Threads : \A i \in batch[t] : i \in LogIds /\ Ran(i) /\ Kept(i)
  BY <1>i DEF RunInv, RanInv, BatchRan, AckInv, BatchKept, IndInv, TypeOK, ControlOK
<1>4. \A t \in Threads : FlushGraph(t) => pc[t] \in PastClosure /\ mid'[t] = mid[t]
  BY DEF FlushGraph, PastClosure, GraphWork
<1>5. ASSUME NEW t \in Threads, pc'[t] \in PastClosure \/ batch'[t] # {} PROVE ~Crash /\ ~Restart
  BY <1>5 DEF Crash, Restart, Open, PastClosure, GraphWork, VectorWork, FinalWork, Actors
<1>6. SqliteSaved'
  <2> SUFFICES ASSUME SqlitePrimary, NEW t \in Threads
               PROVE  /\ pc'[t] \in VectorWork \cup FinalWork => Saved(mid[t])'
                      /\ \A i \in batch'[t] : Saved(i)'
    BY DEF SqliteSaved
  <2>1. FlushGraph(t) => Saved(mid[t])'
    BY <1>2, <1>4, <1>i, FlushSaves
  <2>2. pc[t] \in VectorWork \cup FinalWork /\ mid'[t] = mid[t] => Saved(mid[t])'
    <3> SUFFICES ASSUME pc[t] \in VectorWork \cup FinalWork, mid'[t] = mid[t] PROVE Saved(mid[t])'
      OBVIOUS
    <3>1. PICK i \in LogIds : i = mid[t] /\ Ran(i) /\ Saved(i)
      BY <1>2, <1>i DEF AckInv, SqliteSaved, PastClosure
    <3>2. Saved(i)'
      BY <1>i, <3>1, SavedStays
    <3> QED
      BY <3>1, <3>2 DEF Saved
  <2>3. ASSUME NEW i \in batch'[t] PROVE Saved(i)'
    <3>1. CASE i \in batch[t]
      BY <1>3, <1>i, <3>1, SavedStays DEF AckInv, SqliteSaved
    <3>2. CASE i = mid[t] /\ pc[t] \in VectorWork \cup FinalWork
      BY <1>2, <1>i, <3>2, SavedStays DEF AckInv, SqliteSaved, PastClosure
    <3>3. CASE i = mid[t] /\ FlushGraph(t)
      BY <1>4, <2>1, <3>3 DEF Saved
    <3> QED
      BY <1>1, <2>3, <3>1, <3>2, <3>3 DEF DoneMoves
  <2> QED
    BY <1>1, <2>1, <2>2, <2>3 DEF ThreadMoves
<1>7. WorkKept'
  <2> SUFFICES ASSUME NEW t \in Threads, pc'[t] \in PastClosure PROVE Kept(mid[t])'
    BY DEF WorkKept
  <2>1. CASE Apply(t)
    <3>1. /\ mid[t] \in LogIds /\ RunClosure(t) /\ UNCHANGED mid
          /\ stampOf' = [stampOf EXCEPT ![mid[t]] = Stamp] /\ Stamp \in Nat
      BY <1>i, <2>1, ClosureRuns
    <3>2. PICK W \in Written(graph, mid[t], req[t].file) :
            graph' = Write(graph, mid[t], W, Stamp) /\ wrote' = [wrote EXCEPT ![mid[t]] = W]
      BY <3>1 DEF RunClosure
    <3>3. W \subseteq Rows
      BY <1>i, WrittenRows DEF IndInv, TypeOK, ControlOK
    <3>4. \A r \in W : graph'[r].stamp = Stamp
      BY <3>2, <3>3 DEF Write
    <3>5. wrote'[mid[t]] = W /\ stampOf'[mid[t]] = Stamp
      BY <1>i, <3>1, <3>2 DEF IndInv, TypeOK, HistoryOK
    <3> QED
      BY <3>1, <3>4, <3>5 DEF Kept
  <2>2. CASE ~Apply(t)
    <3>1. pc[t] \in PastClosure /\ mid'[t] = mid[t]
      BY <1>1, <1>4, <2>2 DEF ThreadMoves, PastClosure, Waiting, GraphWork
    <3>2. CASE ~SqlitePrimary
      <4>1. PICK i \in LogIds : i = mid[t] /\ Ran(i) /\ Kept(i)
        BY <1>2, <3>1
      <4>2. Kept(i)'
        BY <1>5, <1>i, <3>2, <4>1, KeptInMemory
      <4> QED
        BY <3>1, <4>1, <4>2 DEF Kept
    <3>3. CASE SqlitePrimary /\ pc'[t] \in GraphWork
      BY <1>1, <1>2, <1>i, <2>2, <3>1, <3>3, KeptInOverlay DEF ThreadMoves
    <3>4. CASE SqlitePrimary /\ pc'[t] \in VectorWork \cup FinalWork
      BY <1>6, <3>4 DEF SqliteSaved, Saved, Kept
    <3> QED
      BY <3>2, <3>3, <3>4 DEF PastClosure
  <2> QED
    BY <2>1, <2>2
<1>8. BatchKept'
  <2> SUFFICES ASSUME NEW t \in Threads, NEW i \in batch'[t] PROVE Kept(i)'
    BY DEF BatchKept
  <2>1. CASE SqlitePrimary
    BY <1>6, <2>1 DEF SqliteSaved, Saved, Kept
  <2>2. CASE ~SqlitePrimary
    <3>1. i \in LogIds /\ Ran(i) /\ Kept(i)
      BY <1>1, <1>2, <1>3, <1>4 DEF DoneMoves, PastClosure
    <3> QED
      BY <1>5, <1>i, <2>2, <3>1, KeptInMemory
  <2> QED
    BY <2>1, <2>2
<1>9. DiscardSaved'
  <2> SUFFICES ASSUME NEW t \in Threads, pc'[t] = "discard", NEW i \in batch'[t] PROVE Saved(i)'
    BY DEF DiscardSaved
  <2>1. CASE pc[t] = "discard" /\ batch'[t] = batch[t]
    BY <1>3, <1>i, <2>1, SavedStays DEF AckInv, DiscardSaved
  <2>2. CASE SqlitePrimary
    BY <1>6, <2>2 DEF SqliteSaved
  <2>3. ASSUME ~SqlitePrimary, disk' = graph, UNCHANGED <<stampOf, wrote, swept>>, i \in LogIds, Kept(i)
        PROVE  Saved(i)'
    <3>1. wrote[i] \subseteq Rows
      BY <1>i, <2>3 DEF IndInv, TypeOK, HistoryOK
    <3>2. \A r \in Rows : graph[r].stamp >= disk[r].stamp
      BY <1>i, <2>3 DEF RowsInv, StoreInv, NotBehind
    <3>3. \A r \in Rows : graph[r].stamp \in Nat /\ disk[r].stamp \in Nat /\ stampOf[i] \in Nat
      BY <1>i, <2>3, StampTypes DEF IndInv
    <3> QED
      BY <2>3, <3>1, <3>2, <3>3 DEF Kept, Saved
  <2>4. CASE ~SqlitePrimary /\ EndFlush(t) /\ batch'[t] = batch[t]
    BY <1>3, <2>3, <2>4 DEF EndFlush, history
  <2>5. CASE ~SqlitePrimary /\ FinalFlush(t) /\ batch'[t] = {mid[t]}
    <3>1. pc[t] \in PastClosure /\ disk' = graph /\ UNCHANGED <<stampOf, wrote, swept>>
      BY <2>5 DEF FinalFlush, PastClosure, FinalWork, history
    <3> QED
      BY <1>2, <2>3, <2>5, <3>1
  <2> QED
    BY <1>1, <2>1, <2>2, <2>4, <2>5 DEF AnswerMoves
<1>10. AckedSaved'
  <2> SUFFICES ASSUME NEW i \in acked' PROVE Ran(i)' /\ Saved(i)'
    BY DEF AckedSaved
  <2>1. ASSUME i \in LogIds, Ran(i), Saved(i) PROVE Ran(i)' /\ Saved(i)'
    BY <1>i, <2>1, SavedStays, RanStays DEF Ran
  <2>2. CASE i \in acked
    BY <1>i, <2>1, <2>2 DEF AckInv, AckedSaved, IndInv, TypeOK, HistoryOK
  <2>3. ASSUME NEW t \in Threads, DiscardOverlay(t), i \in batch[t] PROVE Ran(i)' /\ Saved(i)'
    <3>1. pc[t] = "discard"
      BY <2>3 DEF DiscardOverlay
    <3> QED
      BY <1>3, <1>i, <2>1, <2>3, <3>1 DEF AckInv, DiscardSaved
  <2>4. \/ acked' = acked
        \/ \E t \in Threads : DiscardOverlay(t) /\ acked' = acked \cup batch[t]
    <3>1. ASSUME NEW t \in Threads, Apply(t) \/ ApplyFails(t) PROVE acked' = acked
      BY <3>1 DEF Apply, ApplyFails
    <3>2. ASSUME NEW a \in Actors, Enqueue(a) PROVE acked' = acked
      BY <3>2 DEF Enqueue
    <3>3. ASSUME Crash \/ Restart PROVE acked' = acked
      BY <3>3 DEF Crash, Restart, Open
    <3>4. ASSUME NEW t \in Threads, DiscardOverlay(t) PROVE acked' = acked \cup batch[t]
      BY <3>4 DEF DiscardOverlay
    <3> QED
      BY <3>1, <3>2, <3>3, <3>4, HistoryMoves
  <2> QED
    BY <2>2, <2>3, <2>4
<1> QED
  BY <1>6, <1>7, <1>8, <1>9, <1>10 DEF AckInv

\* A fresh repository has promised nothing.
LEMMA DurableInit == Init => DurableInv
<1> SUFFICES ASSUME Init PROVE DurableInv
  OBVIOUS
<1>1. RunInv /\ TypeOK
  BY RunInit DEF RunInv, IndInv
<1>2. \A a \in Actors : pc[a] = "idle"
  BY DEF Init
<1>3. StampsBelow
  BY <1>1, StampTypes DEF Init, StampsBelow, EmptyStore, NoContent
<1>4. LastWorks /\ OverlayCode
  BY <1>2 DEF LastWorks, OverlayCode, GraphWork, Actors
<1>5. NotBehind
  BY DEF Init, NotBehind, EmptyStore, NoContent
<1>6. OneFile /\ UnrunEmpty
  BY <1>2 DEF Init, OneFile, UnrunEmpty, Waiting, Actors
<1>7. AckInv
  BY <1>2 DEF Init, AckInv, WorkKept, BatchKept, SqliteSaved, DiscardSaved, AckedSaved, PastClosure, GraphWork,
     VectorWork, FinalWork, Actors
<1> QED
  BY <1>1, <1>3, <1>4, <1>5, <1>6, <1>7 DEF DurableInv, RowsInv, StoreInv

(* Neither graph ever carries a closure still to run, and the durable graph *)
(* is never ahead of the one in memory, over both backends and any number   *)
(* of threads (commit_graph, flush_graph_delta, preload_working_set).       *)
THEOREM RowsInvariance == Spec => []RowsInv
<1>1. Init => RowsInv
  BY DurableInit DEF DurableInv
<1>2. RowsInv /\ [Next]_vars => RowsInv'
  BY RunStep, StoreStep DEF RowsInv
<1> QED
  BY <1>1, <1>2, PTL DEF Spec

(* Every row an answered mutation wrote is durable, at least as new as that *)
(* mutation left it, across requests, the reconciler, errors and crashes:   *)
(* for any number of threads over JSON snapshots, and for one thread over   *)
(* SQLite, where two can drop each other's unflushed rows                   *)
(* (commit_graph, flush_graph_delta, flush_committed_snapshots).            *)
THEOREM AckedIsAlwaysDurable == ASSUME OverlayOfOne PROVE Spec => []AckedIsDurable
<1>1. DurableInv /\ [Next]_vars => DurableInv'
  BY RunStep, StoreStep, AckStep DEF DurableInv, RowsInv
<1>2. DurableInv => AckedIsDurable
  BY DEF DurableInv, AckInv, AckedSaved, Saved, AckedIsDurable
<1> QED
  BY <1>1, <1>2, DurableInit, PTL DEF Spec

-----------------------------------------------------------------------------
(* Startup replay.  While it runs, no thread does, and unless it has met an *)
(* error every mutation in flight is a row it has still to handle or the    *)
(* one in its hands; when it is through, none is in flight.                 *)
InHand(id) ==
  mid[Recon] = id /\ pc[Recon] \in {"lockvector", "enqueue", "vectordone", "committed", "finalize"}
OpenOnes == {id \in LogIds : wal[id].phase \in InFlight}
Startup ==
  /\ \A t \in Threads : pc[t] = "idle"
  /\ pc[Recon] \in {"snapshot", "replay", "rebuild", "install"} \cup VectorWork \cup FinalWork
Covered == \A id \in OpenOnes : rows[id] # "absent" \/ InHand(id)
ReplayInv ==
  proc = "replay" =>
    /\ Startup
    /\ ~replayErr /\ pc[Recon] # "snapshot" => Covered
    /\ ~replayErr /\ pc[Recon] \in {"rebuild", "install"} => OpenOnes = {}

(* Only the step of the reconciler that handles a row takes it out of the   *)
(* rows to handle, and only with an error does it leave it open.            *)
LEMMA ReplayStep == IndInv /\ ReplayInv /\ [Next]_vars => ReplayInv'
<1> SUFFICES ASSUME IndInv, ReplayInv, [Next]_vars, proc' = "replay"
             PROVE  /\ Startup'
                    /\ (~replayErr /\ pc[Recon] # "snapshot" => Covered)'
                    /\ (~replayErr /\ pc[Recon] \in {"rebuild", "install"} => OpenOnes = {})'
  BY DEF ReplayInv
<1> DEFINE Goal == /\ Startup'
                   /\ (~replayErr /\ pc[Recon] # "snapshot" => Covered)'
                   /\ (~replayErr /\ pc[Recon] \in {"rebuild", "install"} => OpenOnes = {})'
<1>s. /\ TypeOK /\ pc \in [Actors -> Labels] /\ mid \in [Actors -> 0..MaxLogId]
      /\ wal \in [LogIds -> Records] /\ rows \in [LogIds -> IndexEntries]
  BY DEF IndInv, TypeOK, ControlOK, LogOK
<1>a. ASSUME proc = "replay"
      PROVE  /\ Startup
             /\ ~replayErr /\ pc[Recon] # "snapshot" => Covered
             /\ ~replayErr /\ pc[Recon] \in {"rebuild", "install"} => OpenOnes = {}
  BY <1>a DEF ReplayInv
<1>0. CASE UNCHANGED vars
  <2>1. UNCHANGED <<proc, pc, mid, rows, replayErr, wal>>
    BY <1>0 DEF vars, control, recon
  <2> QED
    BY <1>a, <2>1 DEF Startup, Covered, OpenOnes, InHand
<1>1. ASSUME NEW t \in Threads, ThreadStep(t) \/ ThreadError(t) PROVE FALSE
  <2>1. UNCHANGED proc /\ (proc # "ready" => pc[t] # "idle")
    BY <1>1 DEF ThreadStep, ThreadError, StartBatch, PreloadTombstones, NextEvent, FinishBatch, EndFlush,
       DiscardOverlay, RequestStatus, Preload, Append, Register, LockGraph, Apply, GraphDone,
       GraphIndex, FlushGraph, EndFlushFails, PreloadFails, ApplyFails, FlushGraphFails, control
  <2> QED
    BY <1>a, <2>1 DEF Startup
<1>2. ASSUME NEW a \in Actors, CommitStep(a) \/ ErrorStep(a) PROVE Goal
  <2>1. proc = "replay" /\ pc[a] # "idle" /\ UNCHANGED rows
    BY <1>2 DEF CommitStep, ErrorStep, LockVector, Enqueue, VectorDone, Committed, Finalize,
       FlushVector, FinalFlush, FlushVectorFails, FinalFlushFails, control, recon
  <2>2. a = Recon
    BY <1>a, <2>1 DEF Startup, Actors
  <2>3. \A t \in Threads : pc'[t] = "idle"
    <3>1. \A t \in Threads : pc'[t] = pc[t]
      BY <1>2, <1>s, <2>2 DEF CommitStep, ErrorStep, LockVector, Enqueue, VectorDone, Committed, Finalize,
       FlushVector, FinalFlush, FlushVectorFails, FinalFlushFails, Go, Fail, Actors
    <3> QED
      BY <1>a, <2>1, <3>1 DEF Startup
  <2>4. ASSUME Fail(Recon) PROVE Goal
    BY <1>s, <2>3, <2>4 DEF Fail, Go, Startup, Actors
  <2>5. ~replayErr => Covered
    BY <1>2, <1>a, <2>1, <2>2 DEF CommitStep, ErrorStep, LockVector, Enqueue, VectorDone, Committed, Finalize,
       FlushVector, FinalFlush, FlushVectorFails, FinalFlushFails
  <2>6. ASSUME NEW l \in VectorWork \cup FinalWork \cup {"replay"}, Go(a, l), UNCHANGED <<replayErr, mid>>,
               \A id \in OpenOnes' : id \in OpenOnes /\ (mid[Recon] = id => InHand(id)')
        PROVE  Goal
    <3>1. pc'[Recon] = l /\ l \notin {"snapshot", "rebuild", "install"}
      BY <1>s, <2>2, <2>6 DEF Go, VectorWork, FinalWork, Actors
    <3>2. Startup'
      BY <2>3, <3>1, <2>6 DEF Startup
    <3>3. ~replayErr' => Covered'
      BY <2>1, <2>5, <2>6 DEF Covered, InHand
    <3> QED
      BY <3>1, <3>2, <3>3
  <2>7. mid[Recon] = mid'[Recon]
    BY <1>2 DEF CommitStep, ErrorStep, LockVector, Enqueue, VectorDone, Committed, Finalize,
       FlushVector, FinalFlush, FlushVectorFails, FinalFlushFails, control
  <2>8. CASE LockVector(a) \/ Enqueue(a)
    <3>1. UNCHANGED wal /\ UNCHANGED mid
      BY <2>8 DEF LockVector, Enqueue
    <3>2. CASE Go(a, "enqueue") /\ UNCHANGED replayErr
      <4>1. \A id \in OpenOnes' : id \in OpenOnes /\ (mid[Recon] = id => InHand(id)')
        BY <1>s, <2>2, <3>1, <3>2 DEF OpenOnes, InHand, Go, Actors
      <4> QED
        BY <2>6, <3>1, <3>2, <4>1 DEF VectorWork
    <3>3. CASE Go(a, "vectordone") /\ UNCHANGED replayErr
      <4>1. \A id \in OpenOnes' : id \in OpenOnes /\ (mid[Recon] = id => InHand(id)')
        BY <1>s, <2>2, <3>1, <3>3 DEF OpenOnes, InHand, Go, Actors
      <4> QED
        BY <2>6, <3>1, <3>3, <4>1 DEF VectorWork
    <3> QED
      BY <2>2, <2>4, <2>8, <3>2, <3>3 DEF LockVector, Enqueue, recon
  <2>9. ASSUME NEW q, NEW l \in VectorWork \cup FinalWork, SetPhase(mid[a], q), Go(a, l),
               mid[a] \in LogIds, UNCHANGED <<replayErr, mid>>,
               wal[mid[a]].phase \in InFlight \/ q \notin InFlight,
               q \in InFlight => l \in {"enqueue", "vectordone", "committed"}
        PROVE  Goal
    <3>1. wal'[mid[a]].phase = q /\ \A i \in LogIds : i # mid[a] => wal'[i] = wal[i]
      BY <1>s, <2>9, SetPhaseEffect
    <3>2. pc'[Recon] = l
      BY <1>s, <2>2, <2>9 DEF Go, Actors
    <3>3. \A id \in OpenOnes' : id \in OpenOnes /\ (mid[Recon] = id => InHand(id)')
      BY <2>2, <2>9, <3>1, <3>2 DEF OpenOnes, InHand
    <3> QED
      BY <2>6, <2>9, <3>3
  <2>10. CASE VectorDone(a) \/ Committed(a) \/ Finalize(a)
    <3>1. mid[a] \in LogIds /\ UNCHANGED mid
      BY <2>10 DEF VectorDone, Committed, Finalize, IndInv, IdInv, BegunHasId, Begun, Critical
    <3>2. CASE /\ VectorDone(a) /\ CanTransitionTo(wal[mid[a]].phase, "VectorDone")
               /\ SetPhase(mid[a], "VectorDone") /\ Go(a, "committed") /\ UNCHANGED replayErr
      <4>1. wal[mid[a]].phase \in InFlight
        BY <3>2 DEF CanTransitionTo, InFlight
      <4> QED
        BY <2>9, <3>1, <3>2, <4>1 DEF VectorWork, InFlight
    <3>3. CASE SetPhase(mid[a], "Committed") /\ Go(a, "flushvector") /\ UNCHANGED replayErr
      BY <2>9, <3>1, <3>3 DEF VectorWork, InFlight
    <3>4. CASE SetPhase(mid[a], "Committed") /\ Go(a, "finalflush") /\ UNCHANGED replayErr
      BY <2>9, <3>1, <3>4 DEF FinalWork, InFlight
    <3> QED
      BY <2>2, <2>4, <2>10, <3>2, <3>3, <3>4 DEF VectorDone, Committed, Finalize
  <2>11. CASE FlushVector(a) \/ FinalFlush(a)
    <3>1. /\ UNCHANGED <<wal, mid, replayErr>> /\ Go(a, "replay") /\ pc[a] \in {"flushvector", "finalflush"}
      BY <2>2, <2>11 DEF FlushVector, FinalFlush, recon
    <3>2. \A id \in OpenOnes : ~InHand(id)
      BY <2>2, <3>1 DEF InHand
    <3>3. ~replayErr' => Covered'
      BY <2>1, <2>5, <3>1, <3>2 DEF Covered, OpenOnes
    <3>4. pc'[Recon] = "replay"
      BY <1>s, <2>2, <3>1 DEF Go, Actors
    <3> QED
      BY <2>3, <3>3, <3>4 DEF Startup
  <2>12. CASE FlushVectorFails(a) \/ FinalFlushFails(a)
    BY <2>2, <2>4, <2>12 DEF FlushVectorFails, FinalFlushFails
  <2> QED
    BY <1>2, <2>8, <2>10, <2>11, <2>12 DEF CommitStep, ErrorStep
<1>3. ASSUME NEW id \in LogIds, Replay(id) PROVE Goal
  <2>1. /\ proc = "replay" /\ pc[Recon] = "replay" /\ rows' = [rows EXCEPT ![id] = "absent"]
        /\ \A t \in Threads : pc'[t] = pc[t]
    <3>1. ReplayRow(id)
      BY <1>3 DEF Replay, ReplayPending, ReplayVector, ReplayStatus, ReplayFinalize
    <3>2. pc' = pc \/ \E l : Go(Recon, l)
      BY <1>3 DEF Replay, ReplayPending, ReplayVector, ReplayStatus, ReplayFinalize, Fail
    <3>3. \A t \in Threads : t \in Actors /\ t # Recon
      BY DEF Actors
    <3>4. \A t \in Threads : pc'[t] = pc[t]
      BY <1>s, <3>2, <3>3 DEF Go
    <3> QED
      BY <3>1, <3>4 DEF ReplayRow
  <2>2. \A t \in Threads : pc'[t] = "idle"
    BY <1>a, <2>1 DEF Startup
  <2>3. ~replayErr => \A i \in OpenOnes : rows[i] # "absent"
    BY <1>a, <2>1 DEF Covered, InHand
  <2>4. ASSUME Fail(Recon) PROVE Goal
    BY <1>s, <2>2, <2>4 DEF Fail, Go, Startup, Actors
  <2>5. CASE SetPhase(id, "Failed") /\ UNCHANGED <<pc, replayErr>>
    <3>1. wal'[id].phase = "Failed" /\ \A i \in LogIds : i # id => wal'[i] = wal[i]
      BY <1>s, <2>5, SetPhaseEffect
    <3>2. \A i \in OpenOnes' : i \in OpenOnes /\ i # id
      BY <3>1 DEF OpenOnes, InFlight
    <3>3. ~replayErr' => Covered'
      BY <1>s, <2>1, <2>3, <2>5, <3>2 DEF Covered, OpenOnes
    <3> QED
      BY <2>1, <2>2, <2>5, <3>3 DEF Startup
  <2>6. ASSUME NEW l \in {"lockvector", "finalize"}, Go(Recon, l), mid' = [mid EXCEPT ![Recon] = id],
               UNCHANGED <<wal, replayErr>>
        PROVE  Goal
    <3>1. pc'[Recon] = l /\ mid'[Recon] = id
      BY <1>s, <2>6 DEF Go, Actors
    <3>2. ~replayErr' => Covered'
      BY <1>s, <2>1, <2>3, <2>6, <3>1 DEF Covered, OpenOnes, InHand
    <3>3. Startup'
      BY <2>2, <2>6, <3>1 DEF Startup, VectorWork, FinalWork
    <3> QED
      BY <2>6, <3>1, <3>2, <3>3
  <2> QED
    BY <1>3, <2>4, <2>5, <2>6 DEF Replay, ReplayPending, ReplayVector, ReplayStatus, ReplayFinalize
<1>4. CASE Snapshot
  <2>1. /\ pc' = [pc EXCEPT ![Recon] = "replay"] /\ UNCHANGED <<proc, wal>>
        /\ rows' = [i \in LogIds |-> IF wal[i].phase \in InFlight THEN wal[i].phase ELSE "absent"]
    BY <1>4 DEF Snapshot, Go
  <2>2. pc'[Recon] = "replay" /\ \A t \in Threads : pc'[t] = "idle"
    BY <1>a, <1>s, <2>1 DEF Startup, Actors
  <2>3. Covered'
    BY <2>1 DEF Covered, OpenOnes, InFlight
  <2> QED
    BY <2>2, <2>3 DEF Startup
<1>5. CASE ReplayEnds
  <2>1. /\ pc' = [pc EXCEPT ![Recon] = "rebuild"] /\ pc[Recon] = "replay" /\ ToReplay = {}
        /\ UNCHANGED <<proc, wal, rows, replayErr>>
    BY <1>5 DEF ReplayEnds, Go, recon
  <2>2. pc'[Recon] = "rebuild" /\ \A t \in Threads : pc'[t] = "idle"
    BY <1>a, <1>s, <2>1 DEF Startup, Actors
  <2>3. ~replayErr => OpenOnes = {}
    BY <1>a, <2>1 DEF Covered, InHand, ToReplay, OpenOnes
  <2>4. OpenOnes' = OpenOnes
    BY <2>1 DEF OpenOnes
  <2> QED
    BY <2>1, <2>2, <2>3, <2>4 DEF Startup, Covered
<1>6. CASE Rebuild
  <2>1. /\ pc' = [pc EXCEPT ![Recon] = "install"] /\ pc[Recon] = "rebuild"
        /\ UNCHANGED <<proc, wal, rows, replayErr>>
    BY <1>6 DEF Rebuild, Go
  <2>2. pc'[Recon] = "install" /\ \A t \in Threads : pc'[t] = "idle"
    BY <1>a, <1>s, <2>1 DEF Startup, Actors
  <2>3. OpenOnes' = OpenOnes /\ (~replayErr => OpenOnes = {})
    BY <1>a, <2>1 DEF OpenOnes
  <2> QED
    BY <2>1, <2>2, <2>3 DEF Startup, Covered
<1>7. CASE Install
  BY <1>7 DEF Install
<1>8. CASE StartReconcile \/ MergeFlush \/ MergeDiscard \/ MergeFlushFails
  BY <1>8, <1>a DEF StartReconcile, MergeFlush, MergeDiscard, MergeFlushFails, Startup, VectorWork, FinalWork
<1>9. CASE Crash \/ Restart
  <2>1. pc' = [a \in Actors |-> IF a = Recon THEN "snapshot" ELSE "idle"]
    BY <1>9 DEF Crash, Restart, Open
  <2> QED
    BY <2>1 DEF Startup, Actors
<1> QED
  BY <1>0, <1>1, <1>2, <1>3, <1>4, <1>5, <1>6, <1>7, <1>8, <1>9 DEF Next, ReconStep

(* A daemon that becomes ready after a restart has settled every mutation   *)
(* of its previous lives; one whose replay met an error does not become     *)
(* ready (reconcile_on_startup, replay_inflight_wal).                       *)
THEOREM ReplaySettlesAll == Spec => ReadyAfterReplay
<1>1. Init => ReplayInv
  BY DEF Init, ReplayInv
<1>2. IndInv /\ ReplayInv /\ [Next]_vars =>
        [proc = "replay" /\ proc' = "ready" => \A id \in LogIds : wal'[id].phase \notin InFlight]_vars
  <2> SUFFICES ASSUME IndInv, ReplayInv, Next, proc = "replay", proc' = "ready"
               PROVE  \A id \in LogIds : wal'[id].phase \notin InFlight
    OBVIOUS
  <2>1. ASSUME NEW t \in Threads, ThreadStep(t) \/ ThreadError(t) PROVE FALSE
    BY <2>1 DEF ThreadStep, ThreadError, StartBatch, PreloadTombstones, NextEvent, FinishBatch, EndFlush,
       DiscardOverlay, RequestStatus, Preload, Append, Register, LockGraph, Apply, GraphDone,
       GraphIndex, FlushGraph, EndFlushFails, PreloadFails, ApplyFails, FlushGraphFails, control
  <2>2. ASSUME NEW a \in Actors, CommitStep(a) \/ ErrorStep(a) PROVE FALSE
    BY <2>2 DEF CommitStep, ErrorStep, LockVector, Enqueue, VectorDone, Committed, Finalize,
       FlushVector, FinalFlush, FlushVectorFails, FinalFlushFails, control
  <2>3. ASSUME NEW id \in LogIds, Replay(id) PROVE FALSE
    BY <2>3 DEF Replay, ReplayPending, ReplayVector, ReplayStatus, ReplayFinalize, ReplayRow
  <2>4. ASSUME StartReconcile \/ MergeFlush \/ MergeDiscard \/ MergeFlushFails \/ Snapshot \/ ReplayEnds
                 \/ Rebuild \/ Crash \/ Restart
        PROVE  FALSE
    BY <2>4 DEF StartReconcile, MergeFlush, MergeDiscard, MergeFlushFails, Snapshot, ReplayEnds, Rebuild,
       Crash, Restart, Open
  <2>5. CASE Install
    <3>1. pc[Recon] = "install" /\ ~replayErr /\ UNCHANGED wal
      BY <2>5 DEF Install
    <3>2. OpenOnes = {}
      BY <3>1 DEF ReplayInv
    <3> QED
      BY <3>1, <3>2 DEF OpenOnes
  <2> QED
    BY <2>1, <2>2, <2>3, <2>4, <2>5 DEF Next, ReconStep
<1> QED
  BY <1>1, <1>2, ReplayStep, Invariance, PTL DEF Spec, ReadyAfterReplay

-----------------------------------------------------------------------------
(* The index.  An actor that has moved the log and has yet to move the      *)
(* index finds the phase it left there, or a settled one: past GraphDone    *)
(* only the holder of commit_lock goes on in flight.                        *)
Transit == {"register", "graphindex", "committed"}
PointPhase ==
  \A a \in Actors :
    /\ pc[a] = "graphindex" => wal[mid[a]].phase \in {"GraphDone", "Committed", "Failed"}
    /\ pc[a] = "committed" => wal[mid[a]].phase \in {"VectorDone", "Committed", "Failed"}
    /\ pc[a] \in {"flushvector", "finalflush"} => wal[mid[a]].phase = "Committed"

\* Who comes to the points between log and index.
PointMoves ==
  \A a \in Actors :
    pc'[a] \in {"graphindex", "committed", "flushvector", "finalflush"} =>
      /\ mid'[a] = mid[a] /\ pc[a] \in PastClosure
      /\ \/ pc'[a] = pc[a]
         \/ pc'[a] = "graphindex" /\ SetPhase(mid[a], "GraphDone")
         \/ pc'[a] = "committed" /\ SetPhase(mid[a], "VectorDone")
         \/ pc'[a] \in {"flushvector", "finalflush"} /\ SetPhase(mid[a], "Committed")

\* What every step does to them.
LEMMA PointMovesStep == IndInv /\ [Next]_vars => PointMoves
<1> SUFFICES ASSUME IndInv, [Next]_vars PROVE PointMoves
  OBVIOUS
<1> USE DEF IndInv, TypeOK, ControlOK, CodeInv, PointMoves, PastClosure, GraphWork, VectorWork, FinalWork,
        Actors
<1>0. CASE UNCHANGED vars
  BY <1>0 DEF vars, control
<1>1. ASSUME NEW t \in Threads, StartBatch(t) \/ PreloadTombstones(t) \/ NextEvent(t) \/ FinishBatch(t)
      PROVE  PointMoves
  BY <1>1 DEF StartBatch, PreloadTombstones, NextEvent, FinishBatch, Go, control
<1>2. ASSUME NEW t \in Threads, EndFlush(t) \/ EndFlushFails(t) \/ DiscardOverlay(t) \/ RequestStatus(t)
      PROVE  PointMoves
  BY <1>2 DEF EndFlush, EndFlushFails, DiscardOverlay, RequestStatus, Go, Fail, control
<1>3. ASSUME NEW t \in Threads, Preload(t) \/ PreloadFails(t) \/ Register(t) \/ LockGraph(t)
      PROVE  PointMoves
  BY <1>3 DEF Preload, PreloadFails, Register, LockGraph, Go, Fail, control
<1>4. ASSUME NEW t \in Threads, Append(t) PROVE PointMoves
  BY <1>4 DEF Append, Go, control
<1>5. ASSUME NEW t \in Threads, Apply(t) \/ ApplyFails(t) PROVE PointMoves
  BY <1>5 DEF Apply, ApplyFails, Go, Fail, control
<1>6. ASSUME NEW t \in Threads, GraphDone(t) \/ GraphIndex(t) PROVE PointMoves
  BY <1>6 DEF GraphDone, GraphIndex, Go, Fail, control
<1>7. ASSUME NEW t \in Threads, FlushGraph(t) \/ FlushGraphFails(t) PROVE PointMoves
  BY <1>7 DEF FlushGraph, FlushGraphFails, Go, Fail, control
<1>8. ASSUME NEW a \in Actors, LockVector(a) \/ Enqueue(a) \/ VectorDone(a) \/ Committed(a)
      PROVE  PointMoves
  BY <1>8 DEF LockVector, Enqueue, VectorDone, Committed, Go, Fail, control
<1>9. ASSUME NEW a \in Actors, FlushVector(a) \/ FlushVectorFails(a) PROVE PointMoves
  BY <1>9 DEF FlushVector, FlushVectorFails, Go, Fail, control
<1>10. ASSUME NEW a \in Actors, Finalize(a) \/ FinalFlush(a) \/ FinalFlushFails(a) PROVE PointMoves
  BY <1>10 DEF Finalize, FinalFlush, FinalFlushFails, Go, Fail, control
<1>11. CASE StartReconcile \/ MergeFlush \/ MergeFlushFails \/ MergeDiscard \/ Snapshot
  BY <1>11 DEF StartReconcile, MergeFlush, MergeFlushFails, MergeDiscard, Snapshot, Go, control
<1>12. CASE ReplayEnds \/ Rebuild \/ Install
  BY <1>12 DEF ReplayEnds, Rebuild, Install, Go, control
<1>13. CASE Crash \/ Restart
  BY <1>13 DEF Crash, Restart, Open
<1>14. ASSUME NEW id \in LogIds, Replay(id) PROVE PointMoves
  BY <1>14 DEF Replay, ReplayPending, ReplayVector, ReplayStatus, ReplayFinalize, ReplayRow, Go, Fail,
         control
<1> QED
  BY <1>0, <1>1, <1>2, <1>3, <1>4, <1>5, <1>6, <1>7, <1>8, <1>9, <1>10, <1>11, <1>12, <1>13, <1>14
     DEF Next, ThreadStep, ThreadError, CommitStep, ErrorStep, ReconStep

(* The reconciler beside a thread can settle its mutation, and nothing      *)
(* else: VectorDone is reached under commit_lock.                           *)
LEMMA PointStep == RunInv /\ PointPhase /\ [Next]_vars => PointPhase'
<1> SUFFICES ASSUME RunInv, PointPhase, [Next]_vars PROVE PointPhase'
  OBVIOUS
<1>1. IndInv /\ TypeOK /\ LogMoves /\ PointMoves
  BY LogMovesStep, PointMovesStep DEF RunInv, IndInv
<1> SUFFICES ASSUME NEW a \in Actors,
                    pc'[a] \in {"graphindex", "committed", "flushvector", "finalflush"}
             PROVE  /\ pc'[a] = "graphindex" => wal'[mid'[a]].phase \in {"GraphDone", "Committed", "Failed"}
                    /\ pc'[a] = "committed" => wal'[mid'[a]].phase \in {"VectorDone", "Committed", "Failed"}
                    /\ pc'[a] \in {"flushvector", "finalflush"} => wal'[mid'[a]].phase = "Committed"
  BY DEF PointPhase
<1>2. mid'[a] = mid[a]
  BY <1>1 DEF PointMoves
<1> DEFINE i == mid[a]
<1>3. CASE pc'[a] = pc[a]
  <2>1. i \in LogIds /\ i < nextId
    BY <1>1, PastHasId, RanHasRecord DEF PointMoves, RunInv, RanInv, ActorRan
  <2>2. wal'[i] = wal[i] \/ Mover(i)
    BY <1>1, <2>1 DEF LogMoves, LogIds
  <2>3. \A q : MovedTo(i, q) => wal'[i].phase = q /\ CanTransitionTo(wal[i].phase, q)
    BY <1>1, <2>1 DEF MovedTo, TypeOK, LogOK, Records
  <2>4. CASE wal'[i] = wal[i]
    BY <1>2, <1>3, <2>4 DEF PointPhase
  <2>5. CASE Mover(i) /\ pc[a] = "graphindex"
    <3>1. ~MovedTo(i, "VectorDone") \/ \A b \in Actors : pc[b] # "vectordone"
      BY <1>1, <2>5 DEF IndInv, LockInv, Critical
    <3>2. wal'[i].phase \in {"GraphDone", "Committed", "Failed"}
      BY <2>3, <2>5, <3>1 DEF Mover
    <3> QED
      BY <1>2, <1>3, <2>5, <3>2
  <2>6. CASE Mover(i) /\ pc[a] # "graphindex"
    <3>1. \E q : wal'[i].phase = q /\ CanTransitionTo(wal[i].phase, q)
      BY <2>3, <2>6 DEF Mover
    <3> QED
      BY <1>2, <1>3, <2>6, <3>1 DEF PointPhase, CanTransitionTo, InFlight
  <2> QED
    BY <2>2, <2>4, <2>5, <2>6
<1>4. CASE pc'[a] # pc[a]
  <2>1. i \in LogIds
    BY <1>1, PastHasId DEF PointMoves
  <2>2. \A q : SetPhase(i, q) => wal'[i].phase = q
    BY <1>1, <2>1 DEF TypeOK, LogOK, Records, SetPhase
  <2> QED
    BY <1>1, <1>2, <1>4, <2>2 DEF PointMoves
<1> QED
  BY <1>3, <1>4

\* A step that moves the index, and what every other step does to it.
IndexStep(a) ==
  \/ a \in Threads /\ (Register(a) \/ GraphIndex(a))
  \/ Committed(a) \/ FlushVector(a) \/ FlushVectorFails(a) \/ FinalFlush(a) \/ FinalFlushFails(a)
Quiet ==
  /\ UNCHANGED index
  /\ \A a \in Actors : pc[a] \in Transit => pc'[a] = pc[a] /\ mid'[a] = mid[a]
  /\ \A i \in LogIds : wal'[i].phase \in InFlight => wal'[i].phase = wal[i].phase \/ InTransit(i)'
IndexMoves == Install \/ Crash \/ Restart \/ Quiet \/ \E a \in Actors : IndexStep(a)

\* An actor that is elsewhere moves on, the index and the log stay.
LEMMA QuietGo ==
  ASSUME TypeOK, NEW a \in Actors, pc[a] \notin Transit, NEW l, Go(a, l), UNCHANGED <<index, wal>>,
         \A b \in Actors : b # a => mid'[b] = mid[b]
  PROVE  Quiet
BY DEF TypeOK, ControlOK, Go, Quiet

\* An actor that is elsewhere moves a record and comes to the index next.
LEMMA QuietMove ==
  ASSUME TypeOK, NEW a \in Actors, mid[a] \in LogIds, pc[a] \notin Transit, NEW l, Go(a, l),
         NEW q, SetPhase(mid[a], q), q \in InFlight => l \in Transit, UNCHANGED <<index, mid>>
  PROVE  Quiet
<1>1. wal'[mid[a]].phase = q /\ \A i \in LogIds : i # mid[a] => wal'[i] = wal[i]
  BY SetPhaseEffect
<1>2. pc'[a] = l /\ \A b \in Actors : b # a => pc'[b] = pc[b]
  BY DEF TypeOK, ControlOK, Go
<1>3. q \in InFlight => InTransit(mid[a])'
  BY <1>2 DEF InTransit, Transit
<1> QED
  BY <1>1, <1>2, <1>3 DEF Quiet

\* What every step does to the index.
LEMMA IndexMovesStep == IndInv /\ [Next]_vars => IndexMoves
<1> SUFFICES ASSUME IndInv, [Next]_vars PROVE IndexMoves
  OBVIOUS
<1>s. TypeOK
  BY DEF IndInv
<1>0. CASE UNCHANGED <<index, wal, pc, mid>>
  BY <1>0 DEF IndexMoves, Quiet
<1>1. ASSUME NEW t \in Threads, StartBatch(t) \/ PreloadTombstones(t) \/ NextEvent(t) \/ FinishBatch(t)
      PROVE  Quiet
  <2>1. pc[t] \notin Transit /\ (\E l : Go(t, l)) /\ UNCHANGED <<index, wal, mid>>
    BY <1>1 DEF StartBatch, PreloadTombstones, NextEvent, FinishBatch, Transit,
         Fail, control
  <2> QED
    BY <1>s, <2>1, QuietGo DEF Actors
<1>2. ASSUME NEW t \in Threads, EndFlush(t) \/ EndFlushFails(t) \/ DiscardOverlay(t) \/ RequestStatus(t)
      PROVE  Quiet
  <2>1. pc[t] \notin Transit /\ (\E l : Go(t, l)) /\ UNCHANGED <<index, wal>>
    BY <1>2 DEF EndFlush, EndFlushFails, DiscardOverlay, RequestStatus, Transit, Fail, control
  <2>2. \A b \in Actors : b # t => mid'[b] = mid[b]
    BY <1>2, <1>s DEF EndFlush, EndFlushFails, DiscardOverlay, RequestStatus, TypeOK, ControlOK
  <2> QED
    BY <1>s, <2>1, <2>2, QuietGo DEF Actors
<1>3. ASSUME NEW t \in Threads, Preload(t) \/ PreloadFails(t) \/ LockGraph(t)
      PROVE  Quiet
  <2>1. pc[t] \notin Transit /\ (\E l : Go(t, l)) /\ UNCHANGED <<index, wal, mid>>
    BY <1>3 DEF Preload, PreloadFails, LockGraph, Transit,
         Fail, control
  <2> QED
    BY <1>s, <2>1, QuietGo DEF Actors
<1>4. ASSUME NEW t \in Threads, Apply(t) \/ ApplyFails(t)
      PROVE  Quiet
  <2>1. pc[t] \notin Transit /\ (\E l : Go(t, l)) /\ UNCHANGED <<index, wal, mid>>
    BY <1>4 DEF Apply, ApplyFails, Transit,
         Fail, control
  <2> QED
    BY <1>s, <2>1, QuietGo DEF Actors
<1>5. ASSUME NEW t \in Threads, FlushGraph(t) \/ FlushGraphFails(t)
      PROVE  Quiet
  <2>1. pc[t] \notin Transit /\ (\E l : Go(t, l)) /\ UNCHANGED <<index, wal, mid>>
    BY <1>5 DEF FlushGraph, FlushGraphFails, Transit,
         Fail, control
  <2> QED
    BY <1>s, <2>1, QuietGo DEF Actors
<1>6. ASSUME NEW a \in Actors, LockVector(a) \/ Enqueue(a)
      PROVE  Quiet
  <2>1. pc[a] \notin Transit /\ (\E l : Go(a, l)) /\ UNCHANGED <<index, wal, mid>>
    BY <1>6 DEF LockVector, Enqueue, Transit,
         Fail, control
  <2> QED
    BY <1>s, <2>1, QuietGo DEF Actors
<1>7. ASSUME NEW t \in Threads, Append(t) PROVE Quiet
  <2>1. pc[t] = "append" /\ UNCHANGED index
    BY <1>7 DEF Append
  <2>2. CASE Go(t, "idle") /\ UNCHANGED <<wal, nextId, mid>>
    BY <1>s, <2>1, <2>2, QuietGo DEF Transit, Actors
  <2>3. CASE /\ nextId <= MaxLogId /\ Go(t, "register") /\ mid' = [mid EXCEPT ![t] = nextId]
             /\ \A i \in LogIds : i # nextId => wal'[i] = wal[i]
    <3>1. nextId \in LogIds /\ pc'[t] = "register" /\ mid'[t] = nextId
          /\ \A b \in Actors : b # t => pc'[b] = pc[b] /\ mid'[b] = mid[b]
      BY <1>s, <2>3 DEF TypeOK, LogOK, ControlOK, LogIds, Go, Actors
    <3>2. \A i \in LogIds : i = nextId => InTransit(i)'
      BY <3>1 DEF InTransit, Actors
    <3> QED
      BY <2>1, <2>3, <3>1, <3>2 DEF Quiet, Transit
  <2>4. \/ Go(t, "idle") /\ UNCHANGED <<wal, nextId, mid>>
        \/ /\ nextId <= MaxLogId /\ Go(t, "register") /\ mid' = [mid EXCEPT ![t] = nextId]
           /\ \A i \in LogIds : i # nextId => wal'[i] = wal[i]
    BY <1>7, <1>s DEF Append, TypeOK, LogOK
  <2> QED
    BY <2>2, <2>3, <2>4
<1>8. ASSUME NEW t \in Threads, GraphDone(t) PROVE Quiet
  <2>1. pc[t] = "graphdone" /\ mid[t] \in LogIds /\ UNCHANGED <<index, mid>>
    BY <1>8 DEF GraphDone, IndInv, IdInv, BegunHasId, Begun, Critical, Actors
  <2>2. CASE SetPhase(mid[t], "GraphDone") /\ Go(t, "graphindex")
    BY <1>s, <2>1, <2>2, QuietMove DEF Transit, Actors
  <2>3. CASE Fail(t) /\ UNCHANGED wal
    BY <1>s, <2>1, <2>3, QuietGo DEF Transit, Fail, Actors
  <2> QED
    BY <1>8, <2>2, <2>3 DEF GraphDone
<1>9. ASSUME NEW a \in Actors, VectorDone(a) PROVE Quiet
  <2>1. pc[a] = "vectordone" /\ mid[a] \in LogIds /\ UNCHANGED <<index, mid>>
    BY <1>9 DEF VectorDone, IndInv, IdInv, BegunHasId, Begun, Critical
  <2>2. CASE SetPhase(mid[a], "VectorDone") /\ Go(a, "committed")
    BY <1>s, <2>1, <2>2, QuietMove DEF Transit
  <2>3. CASE Fail(a) /\ UNCHANGED wal
    BY <1>s, <2>1, <2>3, QuietGo DEF Transit, Fail
  <2> QED
    BY <1>9, <2>2, <2>3 DEF VectorDone
<1>10. ASSUME NEW a \in Actors, Finalize(a) PROVE Quiet
  <2>1. pc[a] = "finalize" /\ mid[a] \in LogIds /\ UNCHANGED <<index, mid>>
    BY <1>10 DEF Finalize, IndInv, IdInv, BegunHasId, Begun
  <2>2. CASE SetPhase(mid[a], "Committed") /\ Go(a, "finalflush")
    BY <1>s, <2>1, <2>2, QuietMove DEF Transit, InFlight
  <2>3. CASE Fail(a) /\ UNCHANGED wal
    BY <1>s, <2>1, <2>3, QuietGo DEF Transit, Fail
  <2> QED
    BY <1>10, <2>2, <2>3 DEF Finalize
<1>11. CASE StartReconcile \/ MergeFlush \/ MergeFlushFails \/ MergeDiscard \/ Snapshot \/ ReplayEnds \/ Rebuild
  <2>1. pc[Recon] \notin Transit /\ (\E l : Go(Recon, l)) /\ UNCHANGED <<index, wal, mid>>
    BY <1>11 DEF StartReconcile, MergeFlush, MergeFlushFails, MergeDiscard, Snapshot, ReplayEnds, Rebuild, Transit
  <2> QED
    BY <1>s, <2>1, QuietGo DEF Actors, IndexMoves
<1>12. ASSUME NEW id \in LogIds, ReplayVector(id) \/ ReplayStatus(id) \/ ReplayFinalize(id) PROVE Quiet
  <2>1. /\ pc[Recon] = "replay" /\ UNCHANGED <<index, wal>>
        /\ mid' = [mid EXCEPT ![Recon] = id] /\ \E l : Go(Recon, l)
    BY <1>12 DEF ReplayVector, ReplayStatus, ReplayFinalize, ReplayRow
  <2> QED
    BY <1>s, <2>1 DEF Quiet, Transit, Go, TypeOK, ControlOK, Actors
<1>13. ASSUME NEW id \in LogIds, ReplayPending(id) PROVE Quiet
  <2>1. pc[Recon] = "replay" /\ UNCHANGED <<index, mid>>
    BY <1>13 DEF ReplayPending, ReplayRow
  <2>2. CASE SetPhase(id, "Failed") /\ UNCHANGED pc
    <3>1. wal'[id].phase = "Failed" /\ \A i \in LogIds : i # id => wal'[i] = wal[i]
      BY <1>s, <2>2, SetPhaseEffect
    <3> QED
      BY <2>1, <2>2, <3>1 DEF Quiet, InFlight
  <2>3. CASE Fail(Recon) /\ UNCHANGED wal
    BY <1>s, <2>1, <2>3, QuietGo DEF Transit, Fail, Actors
  <2> QED
    BY <1>13, <2>2, <2>3 DEF ReplayPending
<1>14. CASE \E a \in Actors : IndexStep(a)
  BY <1>14 DEF IndexMoves
<1>15. CASE UNCHANGED vars
  BY <1>0, <1>15 DEF vars, control
<1> QED
  BY <1>1, <1>2, <1>3, <1>4, <1>5, <1>6, <1>7, <1>8, <1>9, <1>10, <1>11, <1>12, <1>13, <1>14, <1>15
     DEF Next, ThreadStep, ThreadError, CommitStep, ErrorStep, ReconStep, Replay, IndexStep, IndexMoves, Actors

\* What an index step leaves: only rows its mutation affects have changed,
\* and they have the phase it is in, unless it is settled.
LEMMA IndexStepMoves ==
  ASSUME IndInv, PointPhase, NEW a \in Actors, IndexStep(a)
  PROVE  /\ mid[a] \in LogIds /\ pc'[a] # pc[a] /\ UNCHANGED mid
         /\ \A b \in Actors : b # a => pc'[b] = pc[b]
         /\ \A i \in LogIds : i # mid[a] => wal'[i] = wal[i]
         /\ \A r \in Rows : r \notin wal[mid[a]].affected => index'[r] = index[r]
         /\ wal'[mid[a]].affected = wal[mid[a]].affected
         /\ wal'[mid[a]].phase \in InFlight =>
              \A r \in wal[mid[a]].affected : index'[r] = wal'[mid[a]].phase
<1>s. TypeOK /\ pc \in [Actors -> Labels] /\ wal \in [LogIds -> Records]
  BY DEF IndInv, TypeOK, ControlOK, LogOK
<1>1. mid[a] \in LogIds
  BY DEF IndexStep, Register, GraphIndex, Committed, FlushVector, FlushVectorFails, FinalFlush, FinalFlushFails,
     IndInv, IdInv, BegunHasId, Begun, Critical
<1> DEFINE A == wal[mid[a]].affected
<1>A. A \subseteq Rows /\ wal[mid[a]].phase \in MaybePhases
  BY <1>s, <1>1 DEF Records
<1>2. UNCHANGED mid /\ \E l : Go(a, l) /\ l # pc[a]
  BY DEF IndexStep, Register, GraphIndex, Committed, FlushVector, FlushVectorFails, FinalFlush, FinalFlushFails,
     Fail
<1>3. pc'[a] # pc[a] /\ \A b \in Actors : b # a => pc'[b] = pc[b]
  BY <1>s, <1>2 DEF Go
<1>4. /\ \A i \in LogIds : i # mid[a] => wal'[i] = wal[i]
      /\ wal'[mid[a]].affected = A
      /\ UNCHANGED wal \/ wal'[mid[a]].phase = "Committed"
  <2>1. CASE UNCHANGED wal
    BY <2>1
  <2>2. CASE SetPhase(mid[a], "Committed")
    BY <1>s, <1>1, <2>2 DEF SetPhase, Records
  <2> QED
    BY <2>1, <2>2 DEF IndexStep, Register, GraphIndex, Committed, FlushVector, FlushVectorFails, FinalFlush,
       FinalFlushFails
<1>5. \/ UNCHANGED index /\ wal'[mid[a]].phase \notin InFlight
      \/ \E p : index' = IndexSet(A, p) /\ (wal'[mid[a]].phase \in InFlight => p = wal'[mid[a]].phase)
  <2>1. CASE a \in Threads /\ Register(a)
    <3>1. UNCHANGED wal
      BY <2>1 DEF Register
    <3>2. CASE wal[mid[a]].phase \in Terminal
      BY <2>1, <3>1, <3>2 DEF Register, Terminal, InFlight
    <3>3. CASE wal[mid[a]].phase \notin Terminal
      <4>1. index' = IndexSet(A, wal[mid[a]].phase)
        BY <2>1, <3>3 DEF Register
      <4> QED
        BY <3>1, <4>1
    <3> QED
      BY <3>2, <3>3
  <2>2. CASE a \in Threads /\ GraphIndex(a)
    <3>1. index' = IndexSet(A, "GraphDone") /\ UNCHANGED wal /\ pc[a] = "graphindex"
      BY <2>2 DEF GraphIndex
    <3>2. wal[mid[a]].phase \in InFlight => wal[mid[a]].phase = "GraphDone"
      BY <3>1 DEF PointPhase, InFlight
    <3> QED
      BY <3>1, <3>2
  <2>3. CASE Committed(a)
    <3>1. wal[mid[a]].phase \in {"VectorDone", "Committed", "Failed"} /\ index' = IndexSet(A, "VectorDone")
      BY <2>3 DEF Committed, PointPhase
    <3>2. wal[mid[a]].phase = "VectorDone" => SetPhase(mid[a], "Committed")
      BY <2>3 DEF Committed, CanTransitionTo
    <3>3. wal'[mid[a]].phase \notin InFlight
      BY <1>s, <1>1, <1>4, <3>1, <3>2, SetPhaseEffect DEF InFlight
    <3> QED
      BY <3>1, <3>3
  <2>4. CASE FlushVector(a) \/ FlushVectorFails(a) \/ FinalFlush(a) \/ FinalFlushFails(a)
    <3>1. pc[a] \in {"flushvector", "finalflush"} /\ UNCHANGED wal /\ index' = IndexSet(A, "Committed")
      BY <2>4 DEF FlushVector, FlushVectorFails, FinalFlush, FinalFlushFails
    <3>2. wal'[mid[a]].phase \notin InFlight
      BY <3>1 DEF InFlight, PointPhase
    <3> QED
      BY <3>1, <3>2
  <2> QED
    BY <2>1, <2>2, <2>3, <2>4 DEF IndexStep
<1>6. /\ \A r \in Rows : r \notin A => index'[r] = index[r]
      /\ wal'[mid[a]].phase \in InFlight => \A r \in A : index'[r] = wal'[mid[a]].phase
  BY <1>5, <1>A DEF IndexSet, InFlight, Terminal
<1> QED
  BY <1>1, <1>2, <1>3, <1>4, <1>6

\* Ids not yet taken affect nothing.
BlankFuture == \A i \in LogIds : i >= nextId => wal[i].affected = {}
IndexInv == RunInv /\ PointPhase /\ BlankFuture

\* A fresh log has no records and an idle daemon no actor at a point.
LEMMA IndexInit == Init => IndexInv
<1> SUFFICES ASSUME Init PROVE IndexInv
  OBVIOUS
<1>1. PointPhase
  BY DEF Init, PointPhase
<1>2. BlankFuture
  BY DEF Init, BlankFuture, NoRecord
<1> QED
  BY <1>1, <1>2, RunInit DEF IndexInv

\* A record affects what it did, so the newest of a revision was it before.
LEMMA AffectedGrow ==
  IndexInv /\ [Next]_vars => \A i \in LogIds : wal[i].affected \subseteq wal'[i].affected
<1> SUFFICES ASSUME IndexInv, [Next]_vars, NEW i \in LogIds
             PROVE  wal[i].affected \subseteq wal'[i].affected
  OBVIOUS
<1>1. CASE i < nextId
  BY <1>1, RecordStays DEF IndexInv, RunInv
<1>2. CASE i >= nextId
  BY <1>2 DEF IndexInv, BlankFuture
<1> QED
  BY <1>1, <1>2 DEF IndexInv, RunInv, IndInv, TypeOK, LogOK, LogIds

\* Every step preserves it: append gives the next id its record.
LEMMA IndexInvStep == IndexInv /\ [Next]_vars => IndexInv'
<1> SUFFICES ASSUME IndexInv, [Next]_vars PROVE BlankFuture'
  BY RunStep, PointStep DEF IndexInv
<1>1. LogMoves /\ IndInv /\ BlankFuture
  BY LogMovesStep DEF IndexInv, RunInv
<1>2. ASSUME NEW i \in LogIds, i >= nextId' PROVE wal'[i].affected = {}
  <2>1. i >= nextId /\ (wal'[i] = wal[i] \/ Mover(i))
    BY <1>1, <1>2 DEF LogMoves, LogIds, IndInv, TypeOK, LogOK
  <2>2. \A q : MovedTo(i, q) => wal'[i].affected = wal[i].affected
    BY <1>1 DEF MovedTo, IndInv, TypeOK, LogOK, Records
  <2> QED
    BY <1>1, <2>1, <2>2 DEF BlankFuture, Mover
<1> QED
  BY <1>2 DEF BlankFuture

(* A mutation falls behind only by a step of another of the same revision:  *)
(* its own steps take it from the log to the index, and in between it is in *)
(* transit.                                                                 *)
LEMMA IndexKeepsUpStep ==
  ASSUME IndexInv, [Next]_vars, proc = "ready", proc' = "ready", pc[Recon] # "install",
         NEW id \in LogIds, IsBehind(id)', ~IsBehind(id)
  PROVE  StepOfAnother(id)
<1>1. IndInv /\ PointPhase /\ IndexMoves
  BY IndexMovesStep DEF IndexInv, RunInv
<1>2. /\ wal'[id].phase \in InFlight /\ ~InTransit(id)'
  BY DEF IsBehind
<1>3. PICK r \in Rows : Newest(id, r)' /\ index'[r] # wal'[id].phase
  BY DEF IsBehind
<1>n. wal'[id].affected = wal[id].affected => Newest(id, r)
  BY <1>3, AffectedGrow DEF Newest
<1>4. ~Install /\ ~Crash /\ ~Restart
  BY DEF Install, Crash, Restart, Open
<1>5. CASE Quiet
  <2>1. wal'[id].phase = wal[id].phase /\ UNCHANGED index
    BY <1>2, <1>5 DEF Quiet
  <2>2. ~InTransit(id)
    BY <1>2, <1>5 DEF Quiet, InTransit, Transit
  <2>3. wal'[id].affected = wal[id].affected
    <3>1. id < nextId
      BY <1>1, <1>2, <2>1 DEF IndInv, IdInv, FutureEmpty, InFlight, TypeOK, LogOK, LogIds
    <3> QED
      BY <1>1, <3>1, RecordStays
  <2> QED
    BY <1>2, <1>3, <1>n, <2>1, <2>2, <2>3 DEF IsBehind
<1>6. ASSUME NEW a \in Actors, IndexStep(a) PROVE StepOfAnother(id)
  <2>1. /\ mid[a] \in LogIds /\ pc'[a] # pc[a] /\ UNCHANGED mid
        /\ \A b \in Actors : b # a => pc'[b] = pc[b]
        /\ \A i \in LogIds : i # mid[a] => wal'[i] = wal[i]
        /\ r \notin wal[mid[a]].affected => index'[r] = index[r]
        /\ wal'[mid[a]].affected = wal[mid[a]].affected
        /\ wal'[mid[a]].phase \in InFlight =>
              \A q \in wal[mid[a]].affected : index'[q] = wal'[mid[a]].phase
    BY <1>1, <1>6, IndexStepMoves
  <2>2. wal'[id].affected = wal[id].affected /\ Newest(id, r)
    BY <1>n, <2>1
  <2>3. mid[a] # id
    BY <1>2, <1>3, <2>1, <2>2 DEF Newest
  <2>4. ~InTransit(id) /\ wal'[id] = wal[id]
    BY <1>2, <2>1, <2>3 DEF InTransit
  <2>5. index[r] = wal[id].phase
    BY <1>2, <2>2, <2>4 DEF IsBehind
  <2>6. r \in wal[mid[a]].affected \cap wal[id].affected
    BY <1>3, <2>1, <2>2, <2>4, <2>5 DEF Newest
  <2>7. mid[a] \notin {0, id}
    BY <2>1, <2>3 DEF LogIds
  <2> QED
    BY <2>1, <2>6, <2>7 DEF StepOfAnother
<1> QED
  BY <1>1, <1>4, <1>5, <1>6 DEF IndexMoves

(* However requests, errors, crashes and replays interleave, no step but    *)
(* the install of the periodic rebuild and a step of another mutation of    *)
(* the same revision puts the index of a serving daemon behind the log      *)
(* (MutationIndex::apply_transition and its callers).                       *)
THEOREM IndexAlwaysKeepsUp == Spec => IndexKeepsUp
<1>1. IndexInv /\ [Next]_vars =>
        [proc = "ready" /\ proc' = "ready" /\ pc[Recon] # "install" =>
           \A id \in LogIds : IsBehind(id)' => IsBehind(id) \/ StepOfAnother(id)]_vars
  BY IndexKeepsUpStep
<1> QED
  BY <1>1, IndexInit, IndexInvStep, PTL DEF Spec, IndexKeepsUp
=============================================================================
