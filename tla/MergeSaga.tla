----------------------------- MODULE MergeSaga -----------------------------
(* The merge of one branch into another as cis-core runs it: preflight with *)
(* the branch lock, the saga merge_branch drives, cancel_merge, the TTL     *)
(* sweep of the lock, a reindex of the target branch beside it, crashes,    *)
(* and the recovery that runs at start and then periodically.               *)
(*                                                                          *)
(* The stores are the SQLite ones: a key-value row under a durable prefix   *)
(* is on disk when set returns, the graph when the overlay is flushed.      *)
(* merge_started stamps, the recovery gate, the overlay and the running     *)
(* calls die with the process.                                              *)
EXTENDS MergeClassify

CONSTANTS Merges,          \* merge ids; each is started by one client
          Recon,           \* the thread that recovers merges
          Theirs,          \* bindings of the source branch
          Reindexed,       \* revision a reindex of the target gives an identity
          StrategiesOf,    \* strategies the client of a merge may first call with
          Starts           \* what a behaviour starts from (ri and deleted of the target)
                           \* and its bounds: the merges started, how many crashes,
                           \* expired locks and failed flushes (faults), reindexed
                           \* identities (edits) and cancel_merge calls (cancels)

Bound == [ri : Bindings, deleted : SUBSET Identities, merges : SUBSET Merges,
          faults : Nat, edits : Nat, cancels : Nat]

(* A symbol that takes over a tombstone keeps its identity, and the identity*)
(* of the tombstone is what ingest stores as the rename source: a revision  *)
(* names the identity it is bound to, or none.                              *)
RenamesKeepIdentity(bound) ==
  \A i \in Identities : bound[i] # None => RenameSource[bound[i]] \in {None, i}

ASSUME MergeSagaAssumption ==
  /\ Recon \notin Merges /\ None \notin Merges \cup Bindings /\ None # Recon
  /\ Theirs \in Bindings
  /\ Reindexed \in [Identities -> Revisions]
  /\ StrategiesOf \in [Merges -> SUBSET (Strategies \cup {None})]
  /\ Starts \subseteq Bound
  /\ RenamesKeepIdentity(Theirs) /\ RenamesKeepIdentity(Reindexed)
  /\ \A s \in Starts : RenamesKeepIdentity(s.ri)

VARIABLES
  \* rows of the key-value store
  ri,          \* ri: of the target branch
  deleted,     \* deleted: markers of the target branch
  msnap,       \* msnap: of each merge; None: no rows were written, or all removed
  lock,        \* merge_lock: of the target branch
  saga,        \* saga_state: of each merge, None when there is none
  ctx,         \* merge_ctx: the strategy in it, "absent" when there is none
  payload,     \* merges with saga_payload: rows
  \* the graph
  reconciled,  \* merges whose edges (phase C) are in the durable graph
  overlay,     \* <<m, TRUE>>: edges of m not yet flushed, <<m, FALSE>>: their undoing
  glock,       \* holder of the graph write lock
  \* the process
  started,     \* merges with a merge_started: stamp
  gate,        \* merge_recovery_block: of the target branch
  call,        \* merge_branch call of each merge
  cancel,      \* step of the cancel_merge call of each merge
  rec,         \* step of the recovery, what it has yet to visit
  up,          \* the daemon serves
  known,       \* merge ids a response has told a client
  left,        \* the start, and what is left of its bounds
  \* history, read by the properties only
  edited,      \* identities reindexed since
  robbed,      \* merges another actor has released or begun to undo
  stale,       \* merges whose snapshot was out of date when they took the lock
  torn         \* merges cut off between EdgeBatch and the end of phase B

rows == <<ri, deleted, msnap, lock, saga, ctx, payload>>
graph == <<reconciled, overlay, glock>>
process == <<started, gate, call, cancel, rec, up, known>>
history == <<edited, robbed, stale, torn>>
vars == <<rows, graph, process, left, history>>

Phases == {"Intent", "Classifying", "Promoting", "EdgeBatch", "Committed"}
Open == Phases \ {"Committed"}
NoRows == [i \in {} |-> None]
Idle == [pc |-> "idle", pre |-> NoBindings, rows |-> NoRows, strategy |-> None, todo |-> {}]
NoRecovery == [pc |-> "idle", sagas |-> {}, at |-> None, rows |-> NoRows, todo |-> {}]

TypeOK ==
  /\ ri \in Bindings /\ deleted \subseteq Identities
  /\ \A m \in Merges : msnap[m] \in Bindings \cup {None}
  /\ lock \in Merges \cup {None}
  /\ saga \in [Merges -> Phases \cup {None}]
  /\ ctx \in [Merges -> Strategies \cup {None, "absent"}]
  /\ payload \subseteq Merges /\ reconciled \subseteq Merges
  /\ overlay \subseteq Merges \X BOOLEAN /\ glock \in Merges \cup {None, Recon}
  /\ started \subseteq Merges /\ gate \in BOOLEAN /\ up \in BOOLEAN /\ known \subseteq Merges
  /\ \A m \in Merges :
       /\ call[m].pc \in {"idle", "lock", "snap", "ctx", "intent", "classify", "pending",
                          "promoting", "edgebatch", "write", "promote", "flush", "payload",
                          "commit", "cleanup", "release", "done", "failed"}
       /\ call[m].pre \in Bindings /\ call[m].strategy \in Strategies \cup {None}
       /\ call[m].todo \subseteq DOMAIN call[m].rows
       /\ cancel[m] \in {"idle", "begun", "restored", "flush", "purge", "end"}
  /\ rec.pc \in {"idle", "visit", "promote", "commit", "release", "restored", "flush",
                 "compensate"}
  /\ rec.sagas \subseteq Merges /\ rec.at \in Merges \cup {None}
  /\ robbed \cup stale \cup torn \subseteq Merges

Init ==
  /\ left \in Starts /\ ri = left.ri /\ deleted = left.deleted
  /\ msnap = [m \in Merges |-> None] /\ lock = None
  /\ saga = [m \in Merges |-> None] /\ ctx = [m \in Merges |-> "absent"] /\ payload = {}
  /\ reconciled = {} /\ overlay = {} /\ glock = None
  /\ started = {} /\ gate = FALSE /\ up = TRUE /\ known = {}
  /\ call = [m \in Merges |-> Idle] /\ cancel = [m \in Merges |-> "idle"]
  /\ rec = NoRecovery
  /\ edited = {} /\ robbed = {} /\ stale = {} /\ torn = {}

---------------------------------------------------------------------------
(* Helpers *)

At(m, pc) == up /\ call[m].pc = pc
Goto(m, pc) == call' = [call EXCEPT ![m].pc = pc]

(* Mutant: a delete with no compare.                                        *)
ReleaseLockUncompared(m) == lock' = None /\ started' = started \ {m}

(* release_merge_lock: compare and delete, then the stamp; on a mismatch    *)
(* both stay.                                                               *)
ReleaseLock(m) ==
  /\ lock' = IF lock = m THEN None ELSE lock
  /\ started' = IF lock = m THEN started \ {m} ELSE started

(* with_merge_write: the overlay is emptied when the closure begins.  It is *)
(* flushed after the graph lock is given back, and holds then what the      *)
(* closures since the last emptying left in it.                             *)
BeginWrite(who) == glock = None /\ glock' = who /\ overlay' = {}

FlushOverlay ==
  /\ reconciled' = (reconciled \ {m \in Merges : <<m, FALSE>> \in overlay})
                     \cup {m \in Merges : <<m, TRUE>> \in overlay}
  /\ overlay' = {}

(* phase_a_for_merge on the rows as they are now: the snapshot is the base  *)
(* when it has rows, else the target's own bindings.                        *)
PhaseANow(m) ==
  PhaseA(IF msnap[m] \in {None, NoBindings} THEN ri ELSE msnap[m],
         LiveBindings(ri, deleted), Theirs)

(* What phase B writes for one identity.                                    *)
PromoteIdentity(i, table, strategy) ==
  LET w == Winner(table[i], strategy) IN
  /\ ri' = [ri EXCEPT ![i] = w]
  /\ deleted' = IF w = None THEN deleted \cup {i} ELSE deleted

(* cancel_merge puts back the rows of the snapshot, and only those.         *)
RestoreSnapshot(m) ==
  ri' = IF msnap[m] = None THEN ri
        ELSE [i \in Identities |-> IF msnap[m][i] # None THEN msnap[m][i] ELSE ri[i]]

UndoneEdges(m) == IF m \in payload THEN {<<m, FALSE>>} ELSE {}

---------------------------------------------------------------------------
(* merge_branch: a client's call *)

(* premerge_bindings_for_branch is read before the lock is tried.           *)
ReadPreBindings(m) ==
  /\ At(m, "idle") /\ m \in left.merges
  /\ \E s \in StrategiesOf[m] :
       call' = [call EXCEPT ![m] = [pc |-> "lock", pre |-> ri, rows |-> NoRows, strategy |-> s,
                                    todo |-> {}]]
  /\ UNCHANGED <<rows, graph, started, gate, cancel, rec, up, known, left, history>>

AcquireMergeLock(m) ==
  /\ At(m, "lock") /\ lock = None
  /\ lock' = m /\ started' = started \cup {m} /\ Goto(m, "snap")
  /\ stale' = IF call[m].pre = ri THEN stale ELSE stale \cup {m}
  /\ UNCHANGED <<ri, deleted, msnap, saga, ctx, payload, graph, gate, cancel, rec, up, known,
                 left, edited, robbed, torn>>

(* Another merge holds the lock, or a patch is open on the paths; in that   *)
(* case the lock is taken and given back under the speculative gate.        *)
PreflightRefused(m) ==
  /\ At(m, "lock") /\ Goto(m, "failed")
  /\ UNCHANGED <<rows, graph, started, gate, cancel, rec, up, known, left, history>>

RecordPremergeBindings(m) ==
  /\ At(m, "snap") /\ call' = [call EXCEPT ![m].pc = "ctx", ![m].pre = NoBindings]
  /\ msnap' = [msnap EXCEPT ![m] = call[m].pre]
  /\ UNCHANGED <<ri, deleted, lock, saga, ctx, payload, graph, started, gate, cancel, rec, up,
                 known, left, history>>

(* The client calls again with the merge id and a strategy: only while the  *)
(* merge holds the lock.                                                    *)
ContinueMerge(m) ==
  /\ At(m, "pending")
  /\ \E s \in Strategies :
       call' = [call EXCEPT ![m].pc = IF lock = m THEN "ctx" ELSE "failed", ![m].strategy = s]
  /\ UNCHANGED <<rows, graph, started, gate, cancel, rec, up, known, left, history>>

PersistContext(m) ==
  /\ At(m, "ctx") /\ Goto(m, "intent")
  /\ ctx' = [ctx EXCEPT ![m] = call[m].strategy]
  /\ UNCHANGED <<ri, deleted, msnap, lock, saga, payload, graph, started, gate, cancel, rec,
                 up, known, left, history>>

PersistPhase(m, from, phase, to) ==
  /\ At(m, from) /\ Goto(m, to)
  /\ saga' = [saga EXCEPT ![m] = phase]
  /\ UNCHANGED <<ri, deleted, msnap, lock, ctx, payload, graph, started, gate, cancel, rec,
                 up, known, left, history>>

PersistIntent(m) == PersistPhase(m, "intent", "Intent", "classify")

(* Persist Classifying, then phase A on the durable graph, which takes no   *)
(* lock; the rows may be half promoted by another merge.                    *)
Classify(m) ==
  /\ At(m, "classify")
  /\ saga' = [saga EXCEPT ![m] = "Classifying"]
  /\ \E table \in PhaseANow(m) :
       LET asks == RequiresResolution(table) /\ call[m].strategy = None IN
       /\ call' = [call EXCEPT ![m].rows = table,
                               ![m].todo = Decided(table, call[m].strategy),
                               ![m].pc = IF asks THEN "pending" ELSE "promoting"]
       /\ known' = IF asks THEN known \cup {m} ELSE known
  /\ UNCHANGED <<ri, deleted, msnap, lock, ctx, payload, graph, started, gate, cancel, rec, up,
                 left, history>>

PersistPromoting(m) == PersistPhase(m, "promoting", "Promoting", "edgebatch")
PersistEdgeBatch(m) == PersistPhase(m, "edgebatch", "EdgeBatch", "write")

BeginMergeWrite(m) ==
  /\ At(m, "write") /\ BeginWrite(m) /\ Goto(m, "promote")
  /\ UNCHANGED <<rows, reconciled, started, gate, cancel, rec, up, known, left, history>>

(* phase_b_promote, one identity at a time: each write is on disk at once.  *)
PromoteOne(m) ==
  /\ At(m, "promote")
  /\ \E i \in call[m].todo :
       /\ PromoteIdentity(i, call[m].rows, call[m].strategy)
       /\ call' = [call EXCEPT ![m].todo = @ \ {i}]
  /\ UNCHANGED <<msnap, lock, saga, ctx, payload, graph, started, gate, cancel, rec, up, known,
                 left, history>>

(* phase_c_reconcile_edges_full, and the end of the closure.                *)
ReconcileEdges(m) ==
  /\ At(m, "promote") /\ call[m].todo = {} /\ call' = [call EXCEPT ![m] = [Idle EXCEPT !.pc = "flush"]]
  /\ overlay' = overlay \cup {<<m, TRUE>>} /\ glock' = None
  /\ UNCHANGED <<rows, reconciled, started, gate, cancel, rec, up, known, left, history>>

FlushMerge(m) ==
  /\ At(m, "flush") /\ Goto(m, "payload") /\ FlushOverlay
  /\ UNCHANGED <<rows, glock, started, gate, cancel, rec, up, known, left, history>>

(* The flush fails: the call returns an error and leaves the saga and the   *)
(* lock for recovery.                                                       *)
FlushFails(m) ==
  /\ At(m, "flush") /\ left.faults > 0
  /\ left' = [left EXCEPT !.faults = @ - 1] /\ Goto(m, "failed")
  /\ UNCHANGED <<rows, graph, started, gate, cancel, rec, up, known, history>>

PersistPayload(m) ==
  /\ At(m, "payload") /\ Goto(m, "commit")
  /\ payload' = payload \cup {m}
  /\ UNCHANGED <<ri, deleted, msnap, lock, saga, ctx, graph, started, gate, cancel, rec, up,
                 known, left, history>>

PersistCommitted(m) == PersistPhase(m, "commit", "Committed", "cleanup")

(* append_merge_committed, then the payload and the context go.             *)
RemoveContext(m) ==
  /\ At(m, "cleanup") /\ Goto(m, "release")
  /\ payload' = payload \ {m} /\ ctx' = [ctx EXCEPT ![m] = "absent"]
  /\ UNCHANGED <<ri, deleted, msnap, lock, saga, graph, started, gate, cancel, rec, up, known,
                 left, history>>

ReleaseMergeLock(m) ==
  /\ At(m, "release") /\ ReleaseLock(m) /\ Goto(m, "done") /\ known' = known \cup {m}
  /\ UNCHANGED <<ri, deleted, msnap, saga, ctx, payload, graph, gate, cancel, rec, up,
                 left, history>>

MergeStep(m) ==
  \/ AcquireMergeLock(m) \/ PreflightRefused(m) \/ RecordPremergeBindings(m)
  \/ PersistContext(m) \/ PersistIntent(m) \/ Classify(m) \/ PersistPromoting(m)
  \/ PersistEdgeBatch(m) \/ BeginMergeWrite(m) \/ PromoteOne(m) \/ ReconcileEdges(m)
  \/ FlushMerge(m) \/ PersistPayload(m) \/ PersistCommitted(m) \/ RemoveContext(m)
  \/ ReleaseMergeLock(m)

---------------------------------------------------------------------------
(* cancel_merge: a client's call with an id it knows; no phase is asked for *)

CancelBegin(m) ==
  /\ up /\ cancel[m] = "idle" /\ m \in known /\ left.cancels > 0
  /\ gate' = TRUE /\ cancel' = [cancel EXCEPT ![m] = "begun"] /\ left' = [left EXCEPT !.cancels = @ - 1]
  /\ UNCHANGED <<rows, graph, started, call, rec, up, known, history>>

CancelRestore(m) ==
  /\ up /\ cancel[m] = "begun" /\ glock = None
  /\ glock' = m /\ overlay' = UndoneEdges(m) /\ payload' = payload \ {m}
  /\ RestoreSnapshot(m) /\ cancel' = [cancel EXCEPT ![m] = "restored"]
  /\ robbed' = robbed \cup {m}
  /\ UNCHANGED <<deleted, msnap, lock, saga, ctx, reconciled, started, gate, call, rec, up,
                 known, left, edited, stale, torn>>

CancelRelease(m) ==
  /\ up /\ cancel[m] = "restored"
  /\ msnap' = [msnap EXCEPT ![m] = None] /\ ReleaseLock(m) /\ glock' = None
  /\ cancel' = [cancel EXCEPT ![m] = "flush"]
  /\ UNCHANGED <<ri, deleted, saga, ctx, payload, reconciled, overlay, gate, call, rec, up,
                 known, left, history>>

CancelFlush(m) ==
  /\ up /\ cancel[m] = "flush" /\ FlushOverlay /\ cancel' = [cancel EXCEPT ![m] = "purge"]
  /\ UNCHANGED <<rows, glock, started, gate, call, rec, up, known, left, history>>

(* The flush fails: cancel_merge returns before it opens the gate again.    *)
CancelFlushFails(m) ==
  /\ up /\ cancel[m] = "flush" /\ left.faults > 0
  /\ left' = [left EXCEPT !.faults = @ - 1] /\ cancel' = [cancel EXCEPT ![m] = "idle"]
  /\ UNCHANGED <<rows, graph, started, gate, call, rec, up, known, history>>

CancelPurge(m) ==
  /\ up /\ cancel[m] = "purge" /\ cancel' = [cancel EXCEPT ![m] = "end"]
  /\ saga' = [saga EXCEPT ![m] = None] /\ payload' = payload \ {m}
  /\ ctx' = [ctx EXCEPT ![m] = "absent"]
  /\ UNCHANGED <<ri, deleted, msnap, lock, graph, started, gate, call, rec, up, known, left,
                 history>>

CancelEnd(m) ==
  /\ up /\ cancel[m] = "end" /\ gate' = FALSE /\ cancel' = [cancel EXCEPT ![m] = "idle"]
  /\ UNCHANGED <<rows, graph, started, call, rec, up, known, left, history>>

CancelStep(m) ==
  CancelRestore(m) \/ CancelRelease(m) \/ CancelFlush(m) \/ CancelPurge(m) \/ CancelEnd(m)

---------------------------------------------------------------------------
(* The TTL sweep, a reindex of a file on the target branch, a crash *)

(* Only a merge whose stamp is in memory can expire.                        *)
SweepExpired(m) ==
  /\ up /\ lock = m /\ m \in started /\ left.faults > 0
  /\ ReleaseLock(m) /\ robbed' = robbed \cup {m} /\ left' = [left EXCEPT !.faults = @ - 1]
  /\ UNCHANGED <<ri, deleted, msnap, saga, ctx, payload, graph, gate, call, cancel, rec, up,
                 known, edited, stale, torn>>

Reindex(i) ==
  /\ up /\ glock = None /\ left.edits > 0
  /\ ri' = [ri EXCEPT ![i] = Reindexed[i]] /\ deleted' = deleted \ {i}
  /\ left' = [left EXCEPT !.edits = @ - 1] /\ edited' = edited \cup {i}
  /\ UNCHANGED <<msnap, lock, saga, ctx, payload, graph, process,
                 robbed, stale, torn>>

(* A client knows its pending merge across the restart.                     *)
Crash ==
  /\ up /\ left.faults > 0 /\ left' = [left EXCEPT !.faults = @ - 1]
  /\ up' = FALSE /\ started' = {} /\ gate' = FALSE /\ overlay' = {} /\ glock' = None
  /\ call' = [m \in Merges |-> IF call[m].pc \in {"idle", "pending", "done"} THEN call[m]
                               ELSE [Idle EXCEPT !.pc = "failed"]]
  /\ cancel' = [m \in Merges |-> "idle"] /\ rec' = NoRecovery
  /\ torn' = torn \cup {m \in Merges : \/ call[m].pc = "write"
                                       \/ call[m].pc = "promote" /\ call[m].todo # {}}
  /\ UNCHANGED <<rows, reconciled, known, edited, robbed, stale>>

---------------------------------------------------------------------------
(* recover_inflight_merges in with_merge_write, then compensate_orphans: at *)
(* start before the daemon serves, and periodically beside everything else *)

RecoverBegin ==
  /\ rec.pc = "idle" /\ BeginWrite(Recon)
  /\ rec' = [NoRecovery EXCEPT !.pc = "visit", !.sagas = {m \in Merges : saga[m] \in Open}]
  /\ UNCHANGED <<rows, reconciled, started, gate, call, cancel, up, known, left, history>>

Visited(m, to) == rec' = [rec EXCEPT !.pc = to, !.sagas = @ \ {m},
                                     !.at = IF to = "visit" THEN None ELSE m]

(* The saga has no context: its rows are dropped, its lock stays.           *)
RecoverPurge(m) ==
  /\ rec.pc = "visit" /\ m \in rec.sagas /\ ctx[m] = "absent"
  /\ saga' = [saga EXCEPT ![m] = None] /\ payload' = payload \ {m} /\ Visited(m, "visit")
  /\ UNCHANGED <<ri, deleted, msnap, lock, ctx, graph, started, gate, call, cancel, up, known,
                 left, history>>

Resumes(m) == rec.pc = "visit" /\ m \in rec.sagas /\ ctx[m] # "absent" /\ lock = m

(* resume_merge from Intent, Classifying or Promoting: phase A again, and   *)
(* phase B unless the merge has to wait for a strategy.                     *)
ResumeFromPromotion(m) ==
  /\ Resumes(m) /\ saga[m] \in {"Intent", "Classifying", "Promoting"}
  /\ \E table \in PhaseANow(m) :
       IF saga[m] # "Promoting" /\ RequiresResolution(table) /\ ctx[m] = None
         THEN /\ saga' = [saga EXCEPT ![m] = "Classifying"]
              /\ Visited(m, "visit")
         ELSE /\ saga' = [saga EXCEPT ![m] = "Promoting"]
              /\ rec' = [pc |-> "promote", sagas |-> rec.sagas \ {m}, at |-> m, rows |-> table,
                         todo |-> Decided(table, ctx[m])]
  /\ UNCHANGED <<ri, deleted, msnap, lock, ctx, payload, graph, started, gate, call, cancel,
                 up, known, left, history>>

RecoverPromoteOne ==
  /\ rec.pc = "promote"
  /\ \E i \in rec.todo :
       /\ PromoteIdentity(i, rec.rows, ctx[rec.at])
       /\ rec' = [rec EXCEPT !.todo = @ \ {i}]
  /\ UNCHANGED <<msnap, lock, saga, ctx, payload, graph, started, gate, call, cancel, up, known,
                 left, history>>

RecoverEdgeBatch ==
  /\ rec.pc = "promote" /\ rec.todo = {} /\ rec' = [rec EXCEPT !.pc = "commit", !.rows = NoRows]
  /\ saga' = [saga EXCEPT ![rec.at] = "EdgeBatch"]
  /\ UNCHANGED <<ri, deleted, msnap, lock, ctx, payload, graph, started, gate, call, cancel,
                 up, known, left, history>>

(* Mutant: a merge found in Promoting is resumed after promotion.           *)
ResumeFromEdgeBatchEarly(m) ==
  /\ Resumes(m) /\ saga[m] \in {"Promoting", "EdgeBatch"} /\ Visited(m, "commit")
  /\ torn' = IF call[m].pc = "write" THEN torn \cup {m} ELSE torn
  /\ UNCHANGED <<rows, graph, started, gate, call, cancel, up, known, left, edited,
                 robbed, stale>>

(* resume_merge from EdgeBatch: phase C for what is bound now; phase B is   *)
(* taken to be over.                                                        *)
ResumeFromEdgeBatch(m) ==
  /\ Resumes(m) /\ saga[m] = "EdgeBatch" /\ Visited(m, "commit")
  /\ torn' = IF call[m].pc = "write" THEN torn \cup {m} ELSE torn
  /\ UNCHANGED <<rows, graph, started, gate, call, cancel, up, known, left, edited,
                 robbed, stale>>

(* Phase C, then Committed and no context, before anything is flushed.      *)
RecoverCommit ==
  /\ rec.pc = "commit" /\ rec' = [rec EXCEPT !.pc = "release"]
  /\ overlay' = overlay \cup {<<rec.at, TRUE>>}
  /\ saga' = [saga EXCEPT ![rec.at] = "Committed"] /\ ctx' = [ctx EXCEPT ![rec.at] = "absent"]
  /\ UNCHANGED <<ri, deleted, msnap, lock, payload, reconciled, glock, started, gate, call,
                 cancel, up, known, left, history>>

RecoverRelease ==
  /\ rec.pc = "release" /\ ReleaseLock(rec.at) /\ rec' = [rec EXCEPT !.pc = "visit", !.at = None]
  /\ robbed' = robbed \cup {rec.at}
  /\ UNCHANGED <<ri, deleted, msnap, saga, ctx, payload, graph, gate, call, cancel, up, known,
                 left, edited, stale, torn>>

(* The lock is not the merge's own, or the saga moved to Committed since    *)
(* the scan: cancel_merge, with the gate set.                               *)
RecoverRestore(m) ==
  /\ rec.pc = "visit" /\ m \in rec.sagas /\ ctx[m] # "absent"
  /\ lock # m \/ saga[m] \in {None, "Committed"}
  /\ gate' = TRUE /\ Visited(m, "restored") /\ RestoreSnapshot(m)
  /\ overlay' = overlay \cup UndoneEdges(m) /\ payload' = payload \ {m}
  /\ robbed' = robbed \cup {m}
  /\ UNCHANGED <<deleted, msnap, lock, saga, ctx, reconciled, glock, started, call, cancel, up,
                 known, left, edited, stale, torn>>

RecoverCancelled ==
  /\ rec.pc = "restored" /\ rec' = [rec EXCEPT !.pc = "visit", !.at = None]
  /\ msnap' = [msnap EXCEPT ![rec.at] = None] /\ ReleaseLock(rec.at)
  /\ saga' = [saga EXCEPT ![rec.at] = None] /\ ctx' = [ctx EXCEPT ![rec.at] = "absent"]
  /\ gate' = FALSE
  /\ UNCHANGED <<ri, deleted, payload, graph, call, cancel, up, known, left, history>>

RecoverEnd ==
  /\ rec.pc = "visit" /\ rec.sagas = {}
  /\ rec' = [NoRecovery EXCEPT !.pc = "flush"] /\ glock' = None
  /\ UNCHANGED <<rows, reconciled, overlay, started, gate, call, cancel, up, known, left,
                 history>>

(* A failed flush only loses the report: the recovery goes on.              *)
RecoverFlush ==
  /\ rec.pc = "flush" /\ rec' = [rec EXCEPT !.pc = "compensate"]
  /\ \/ FlushOverlay /\ UNCHANGED left
     \/ left.faults > 0 /\ left' = [left EXCEPT !.faults = @ - 1] /\ UNCHANGED <<reconciled, overlay>>
  /\ UNCHANGED <<rows, glock, started, gate, call, cancel, up, known, history>>

(* Mutants: the loop over the locks is missing; only merges stamped in this *)
(* life are looked at.                                                      *)
CompensateSagas(orphans, freed) ==
  /\ rec.pc = "compensate" /\ rec' = NoRecovery /\ up' = TRUE
  /\ saga' = [m \in Merges |-> IF m \in orphans THEN None ELSE saga[m]]
  /\ payload' = payload \ orphans /\ started' = started \ orphans
  /\ lock' = IF freed THEN None ELSE lock
  /\ robbed' = IF freed THEN robbed \cup {lock} ELSE robbed
  /\ UNCHANGED <<ri, deleted, msnap, ctx, graph, gate, call, cancel, known, left, edited, stale, torn>>
CompensateOrphansSagasOnly ==
  LET orphans == {m \in Merges : saga[m] \in Open} IN CompensateSagas(orphans, lock \in orphans)
CompensateOrphansStamped ==
  LET orphans == {m \in started : saga[m] \in Open} IN CompensateSagas(orphans, lock \in orphans)

(* compensate_orphans: every saga not Committed goes, with its lock and its *)
(* stamp, then every lock whose merge has no saga.                          *)
CompensateOrphans ==
  LET orphans == {m \in Merges : saga[m] \in Open} IN
  /\ rec.pc = "compensate" /\ rec' = NoRecovery /\ up' = TRUE
  /\ saga' = [m \in Merges |-> IF m \in orphans THEN None ELSE saga[m]]
  /\ payload' = payload \ orphans
  /\ LET freed == lock # None /\ saga'[lock] = None IN
       /\ lock' = IF freed THEN None ELSE lock
       /\ started' = started \ (orphans \cup IF freed THEN {lock} ELSE {})
       /\ robbed' = IF freed THEN robbed \cup {lock} ELSE robbed
  /\ UNCHANGED <<ri, deleted, msnap, ctx, graph, gate, call, cancel, known, left, edited, stale, torn>>

RecoverStep ==
  \/ RecoverBegin \/ RecoverPromoteOne \/ RecoverEdgeBatch \/ RecoverCommit
  \/ RecoverRelease \/ RecoverCancelled \/ RecoverEnd \/ RecoverFlush \/ CompensateOrphans
  \/ \E m \in Merges : \/ RecoverPurge(m) \/ ResumeFromPromotion(m)
                       \/ ResumeFromEdgeBatch(m) \/ RecoverRestore(m)

---------------------------------------------------------------------------
Next ==
  \/ \E m \in Merges :
       \/ ReadPreBindings(m) \/ ContinueMerge(m) \/ MergeStep(m) \/ FlushFails(m)
       \/ CancelBegin(m) \/ CancelStep(m) \/ CancelFlushFails(m)
       \/ SweepExpired(m)
  \/ \E i \in Identities : Reindex(i)
  \/ Crash
  \/ RecoverStep

Spec == Init /\ [][Next]_vars

(* A call that began goes on, and the recovery thread comes round again:    *)
(* the code's threads and the parking_lot lock are fair.  Whether a client  *)
(* calls, continues or cancels is up to it.                                 *)
FairSpec ==
  /\ Spec
  /\ WF_vars(RecoverStep)
  /\ \A m \in Merges : WF_vars(MergeStep(m)) /\ WF_vars(CancelStep(m))

---------------------------------------------------------------------------
(* Properties *)

(* Whatever crashes, resumed, cancelled or competing merges do, an identity *)
(* of the target is bound to what it was bound to before, to what the       *)
(* source has, or to what a reindex gave it; and it is unbound only if it   *)
(* was missing or deleted on one side: no merge invents or loses a symbol.  *)
MayBind(i) ==
  {left.ri[i], Theirs[i]} \cup (IF i \in edited THEN {Reindexed[i]} ELSE {})
                         \cup (IF i \in left.deleted THEN {None} ELSE {})
BindingsFromEitherSide == \A i \in Identities : ri[i] \in MayBind(i)

(* From taking the lock to giving it back a merge holds it, unless another  *)
(* actor took it away (TTL, recovery, cancel): the late release of a merge  *)
(* that lost its lock never frees the lock of its successor, so no two      *)
(* merges that kept theirs are ever in merge_branch together.               *)
InSection(m) == call[m].pc \in {"snap", "ctx", "intent", "classify", "pending", "promoting",
                                "edgebatch", "write", "promote", "flush", "payload", "commit",
                                "cleanup", "release"}
MergesExclude == \A m \in Merges : InSection(m) /\ m \notin robbed => lock = m

(* A recovery leaves no merge half done: when it ends, every saga is        *)
(* Committed or gone, and only a Committed merge can still have the lock.   *)
RecoverySettles ==
  [][CompensateOrphans => /\ \A m \in Merges : saga'[m] \in {None, "Committed"}
                          /\ lock' # None => saga'[lock'] = "Committed"]_vars

(* A merge that becomes Committed, by its own call or resumed after a crash *)
(* in any phase, has left the target with the source's content on every     *)
(* identity: nothing is lost between the phases.  Not claimed when another  *)
(* actor took the lock, reindexed the branch or outdated the snapshot, nor  *)
(* for a merge cut off after EdgeBatch was persisted and before phase B     *)
(* ended (see CommittedIsPromoted), nor for the deletion of a symbol that   *)
(* was ever renamed (see DeletionIsAccepted).                               *)
Undisturbed == robbed \cup stale = {} /\ edited = {}
RenamedHere(i) == left.ri[i] # None /\ RenameSource[left.ri[i]] = i
TakesSource(bound, i) ==
  \/ Hash(bound[i]) = Hash(Theirs[i])
  \/ i \in left.deleted /\ bound[i] = None
  \/ Theirs[i] = None /\ RenamedHere(i) /\ bound[i] = left.ri[i]
Commits(m) == saga[m] # "Committed" /\ saga'[m] = "Committed"
CommittedIsComplete ==
  [][\A m \in Merges : Commits(m) /\ Undisturbed /\ m \notin torn
       => \A i \in Identities : TakesSource(ri', i)]_vars

(* The same with no exception for a crash: merge_ctx exists so that a       *)
(* restart "can detect an in-flight merge and resume from the last          *)
(* completed phase" (merge_engine.rs).                                      *)
CommittedIsPromoted ==
  [][\A m \in Merges : Commits(m) /\ Undisturbed
       => \A i \in Identities : TakesSource(ri', i)]_vars

(* What the source deleted and the target left alone goes from the target:  *)
(* "Ours unchanged, theirs deleted: auto-resolve to accept deletion"        *)
(* (merge_engine.rs).  It stays when the target's revision of the symbol    *)
(* came from a rename: the symbol is its own rename source, and so taken    *)
(* for the new name of a renamed one.                                       *)
DeletionIsAccepted ==
  [][\A m \in Merges : Commits(m) /\ Undisturbed /\ m \notin torn
       => \A i \in Identities : Theirs[i] = None => ri'[i] = None]_vars

(* After the recovery at start no lock is left: "Durable merge_lock must    *)
(* not stick forever after crash recovery"                                  *)
(* (tests/durable_merge_lock_recovery.rs).                                  *)
LockFreeAfterStart == [][~up /\ up' => lock' = None]_vars

(* While cancel_merge puts bindings back, the gate refuses queries: the     *)
(* "torn-read barrier during cancel_merge" (merge_gate.rs).                 *)
GateCoversRollback ==
  (\E m \in Merges : cancel[m] = "restored") \/ rec.pc = "restored" => gate

(* A merge that waits for the user's strategy is not cancelled by recovery  *)
(* ("merge still needs a user strategy; do not cancel on recovery",         *)
(* merge_engine.rs).                                                        *)
PendingSurvivesRecovery ==
  [][\A m \in Merges :
       lock = m /\ call[m].pc = "pending" /\ saga[m] = "Classifying" /\ CompensateOrphans
         => lock' = m]_vars

(* The branch lock does not stay with one merge for ever, whatever fails:   *)
(* the call ends, or recovery ends it.  A crash right before the release    *)
(* is the exception (see LockFreeAfterStart).                               *)
LockIsGivenBack ==
  \A m \in Merges : lock = m ~> (lock # m \/ (saga[m] = "Committed" /\ call[m].pc # "release"))
=============================================================================
