------------------------------- MODULE Workers -------------------------------
(* The background threads of the daemon and the queues between them: the    *)
(* collector takes expired tombstones out of the graph and queues their     *)
(* chunks, the cleaner deletes queued chunks from the vector store, the     *)
(* embedding worker fills in the vectors of the bodies that ingests queue.  *)
(* An ingest asks them to keep away (snapshot_flush_deferred), but each of  *)
(* them looks only before it starts, and a batch that ends with an error    *)
(* leaves the request standing until another one ends well.                 *)
(*                                                                          *)
(* A symbol has the row of its stable id and, once it was edited in place,  *)
(* rows of content-addressed ids; commit_vector asks for the stable id.     *)
(* Ingest and Branches have identities, WriteCoordinator the mutation log.  *)
EXTENDS Naturals, Sequences, SequencesExt, FiniteSets

CONSTANTS Symbols, Bodies, None,
          Batches,                        \* how many jobs the embedding worker takes at once
          MaxWrites, MaxFaults            \* bounds: batches and writes, failures and crashes

ASSUME WorkersAssumption ==
  /\ IsFiniteSet(Symbols) /\ IsFiniteSet(Bodies)
  /\ None \notin (Symbols \X (Bodies \cup {None})) \cup Bodies
  /\ Batches \subseteq Nat \ {0} /\ {MaxWrites, MaxFaults} \subseteq Nat

(* stable_rev_id and content_rev_id of a symbol.                            *)
Rids == Symbols \X (Bodies \cup {None})
Stable(s) == <<s, None>>
OfContent(s, b) == <<s, b>>
SymbolOf(r) == r[1]

VARIABLES
  row,        \* the rows of the graph, None where there is none
  bound,      \* revision ids that a branch binds
  stored,     \* bodies in the body store
  chunkBody,  \* vector store: the body of each registered chunk
  refcount,   \* vector store: how many chunks have a body
  vectors,    \* vector store: the bodies with an embedding
  deleteQueue, cleanupQueue, embedQueue,
  deferred,   \* snapshot_flush_deferred
  writer,     \* the ingest: what it does, to which row
  graphDone,  \* the stable ids of the mutations at GraphDone, one of each
  commit,     \* commit_vector: the stable id it is at, under commit_lock
  gc,         \* the collector: what it does, to which row
  cleaner,    \* the cleaner: asleep, awake or with a chunk
  hand,       \* the embedding worker and the jobs it has taken
  batch,      \* the size of a batch of jobs, which does not change
  writes, faults,    \* what is left of the bounds
  lostChunks, \* chunks a thread had in hand when the process died (read by properties)
  lostJobs    \* bodies whose jobs were in memory then (read by properties)

vectorStore == <<chunkBody, refcount, vectors>>
queues == <<deleteQueue, cleanupQueue, embedQueue>>
ingest == <<deferred, writer, graphDone, commit>>
bounds == <<batch, writes, faults>>
lost == <<lostChunks, lostJobs>>
vars == <<row, bound, stored, vectorStore, queues, ingest, gc, cleaner, hand, bounds, lost>>

---------------------------------------------------------------------------
(* Deleted: the row is live and has a deletion marker, for the sake of the  *)
(* branches that fork from its branch.                                      *)
Row == [body : Bodies, status : {"Active", "Deleted", "Tombstone"}, expired : BOOLEAN]
Resting == [pc |-> "idle", rid |-> None]
NoJobs == [pc |-> "idle", texts |-> <<>>, pending |-> <<>>]

Thread(pcs) == [pc : pcs, rid : Rids \cup {None}]

TypeOK ==
  /\ row \in [Rids -> Row \cup {None}] /\ bound \subseteq Rids /\ stored \subseteq Bodies
  /\ chunkBody \in [Rids -> Bodies \cup {None}] /\ vectors \subseteq Bodies
  /\ refcount \in [Bodies -> 0..Cardinality(Rids)]
  /\ deleteQueue \in Seq(Rids) /\ cleanupQueue \in Seq(Rids) /\ embedQueue \in Seq(Bodies)
  /\ deferred \in BOOLEAN /\ graphDone \subseteq Rids
  /\ writer \in Thread({"idle", "batch", "commit", "replay"})
  /\ commit \in Thread({"idle", "register"})
  /\ gc \in Thread({"idle", "drain", "check", "remove", "clean"})
  /\ cleaner \in Thread({"idle", "drain", "delete"})
  /\ hand \in [pc : {"idle", "drain", "embed"}, texts : Seq(Bodies), pending : Seq(Bodies)]
  /\ batch \in Batches /\ Len(hand.pending) <= batch
  /\ writes \in 0..MaxWrites /\ faults \in 0..MaxFaults
  /\ lostChunks \subseteq Rids /\ lostJobs \subseteq Bodies

Init ==
  /\ row = [r \in Rids |-> None] /\ bound = {} /\ stored = {}
  /\ chunkBody = [r \in Rids |-> None] /\ refcount = [b \in Bodies |-> 0] /\ vectors = {}
  /\ deleteQueue = <<>> /\ cleanupQueue = <<>> /\ embedQueue = <<>>
  /\ deferred = FALSE /\ writer = Resting /\ graphDone = {} /\ commit = Resting
  /\ gc = Resting /\ cleaner = Resting /\ hand = NoJobs
  /\ batch \in Batches /\ writes = MaxWrites /\ faults = MaxFaults
  /\ lostChunks = {} /\ lostJobs = {}

Has(r, status) == row[r] # None /\ row[r].status = status
IsTombstone(r) == Has(r, "Tombstone")
IsLive(r) == Has(r, "Active") \/ Has(r, "Deleted")
Tombstoned(r) == [row[r] EXCEPT !.status = "Tombstone", !.expired = FALSE]

(* What each thread asks before it starts: it is not spawned before the     *)
(* replay of a restart is done, and keeps away while a batch runs.          *)
Awake == ~deferred /\ writer.pc # "replay"

---------------------------------------------------------------------------
(* The vector store                                                         *)

(* One chunk less has body b; the last one takes the embedding with it.     *)
Released(s, b) ==
  IF b = None THEN s
  ELSE [refs |-> [s.refs EXCEPT ![b] = @ - 1],
        vecs |-> IF s.refs[b] = 1 THEN s.vecs \ {b} ELSE s.vecs]

Refs == [refs |-> refcount, vecs |-> vectors]

SetRefs(s) == refcount' = s.refs /\ vectors' = s.vecs

(* Mutant: the body the chunk had before is not released.                   *)
RegisterBeside(c, b) ==
  /\ chunkBody' = [chunkBody EXCEPT ![c] = b]
  /\ SetRefs([refs |-> [refcount EXCEPT ![b] = IF @ < Cardinality(Rids) THEN @ + 1 ELSE @],
              vecs |-> vectors])
(* InMemoryVectorStore::register: a chunk that is there, with whatever body,*)
(* is released first, embedding and all.                                    *)
RegisterChunk(c, b) ==
  /\ chunkBody' = [chunkBody EXCEPT ![c] = b]
  /\ LET s == Released(Refs, chunkBody[c])
     IN  SetRefs([refs |-> [s.refs EXCEPT ![b] = @ + 1], vecs |-> s.vecs])

(* InMemoryVectorStore::delete_chunks: an unknown chunk is no error.        *)
DeleteChunk(c) ==
  /\ chunkBody' = [chunkBody EXCEPT ![c] = None]
  /\ SetRefs(Released(Refs, chunkBody[c]))

---------------------------------------------------------------------------
(* The ingest                                                               *)

Write == writes > 0 /\ writes' = writes - 1

StartBatch ==
  /\ writer.pc = "idle" /\ Write
  /\ writer' = [pc |-> "batch", rid |-> None] /\ deferred' = TRUE
  /\ UNCHANGED <<row, bound, stored, vectorStore, queues, graphDone, commit, gc, cleaner, hand,
                 batch, faults, lost>>

(* The id a symbol is put at: that of the live row when it has this body, a *)
(* new one when it has another, the stable one when there is none.          *)
Target(s, b) ==
  LET live == {r \in Rids : SymbolOf(r) = s /\ IsLive(r)}
  IN  IF live = {} THEN Stable(s)
      ELSE IF \E r \in live : row[r].body = b THEN CHOOSE r \in live : row[r].body = b
      ELSE OfContent(s, b)

(* commit_graph: the body is stored, the row put (again) and bound in place *)
(* of the one that was live, which an edit retires.                         *)
PutRow(s, b) ==
  /\ writer.pc = "batch" /\ commit.pc = "idle" /\ Write
  /\ LET target == Target(s, b)
     IN  /\ row' = [r \in Rids |->
              IF r = target THEN [body |-> b, status |-> "Active", expired |-> FALSE]
              ELSE IF SymbolOf(r) = s /\ IsLive(r) THEN Tombstoned(r) ELSE row[r]]
         /\ bound' = {r \in bound : SymbolOf(r) # s} \cup {target}
  /\ stored' = stored \cup {b}
  /\ writer' = [pc |-> "commit", rid |-> Stable(s)] /\ graphDone' = graphDone \cup {Stable(s)}
  /\ UNCHANGED <<vectorStore, queues, deferred, commit, gc, cleaner, hand, batch, faults, lost>>

(* The symbol is gone: its row becomes a tombstone, or is soft-deleted.     *)
RetireRow(r, status) ==
  /\ writer.pc = "batch" /\ commit.pc = "idle" /\ Has(r, "Active") /\ Write
  /\ status \in {"Tombstone", "Deleted"}
  /\ row' = [row EXCEPT ![r].status = status]
  /\ UNCHANGED <<bound, stored, vectorStore, queues, ingest, gc, cleaner, hand, batch, faults, lost>>

(* commit_vector of a mutation at GraphDone, by the ingest, the reconciler  *)
(* or the replay: it queues the job of the row that has the stable id, with *)
(* the body that row has, and registers its chunk.  There may be no such    *)
(* row, or (the SQLite backend) none in the overlay once it was discarded.  *)
SkipMissing(r) ==
  /\ commit.pc = "idle" /\ r \in graphDone /\ (row[r] = None \/ writer # [pc |-> "commit", rid |-> r])
  /\ graphDone' = graphDone \ {r}
  /\ UNCHANGED <<row, bound, stored, vectorStore, queues, deferred, writer, commit, gc, cleaner, hand,
                 bounds, lost>>

EnqueueJob(r) ==
  /\ commit.pc = "idle" /\ r \in graphDone /\ row[r] # None
  /\ embedQueue' = Append(embedQueue, row[r].body) /\ lostJobs' = lostJobs \ {row[r].body}
  /\ commit' = [pc |-> "register", rid |-> r]
  /\ UNCHANGED <<row, bound, stored, vectorStore, deleteQueue, cleanupQueue, deferred, writer,
                 graphDone, gc, cleaner, hand, bounds, lostChunks>>

(* ... and saves the phase, or fails to: if it was the ingest itself, its   *)
(* batch ends there.                                                        *)
Register(saved) ==
  /\ commit.pc = "register" /\ commit' = Resting
  /\ RegisterChunk(commit.rid, row[commit.rid].body) /\ lostChunks' = lostChunks \ {commit.rid}
  /\ \/ saved /\ graphDone' = graphDone \ {commit.rid} /\ UNCHANGED <<writer, faults>>
     \/ /\ ~saved /\ faults > 0 /\ faults' = faults - 1 /\ UNCHANGED graphDone
        /\ \/ UNCHANGED writer
           \/ writer = [pc |-> "commit", rid |-> commit.rid] /\ writer' = Resting
  /\ UNCHANGED <<row, bound, stored, queues, deferred, gc, cleaner, hand, batch, writes, lostJobs>>

(* The next event of the batch.                                             *)
Committed ==
  /\ writer.pc = "commit" /\ writer.rid \notin graphDone
  /\ writer' = [pc |-> "batch", rid |-> None]
  /\ UNCHANGED <<row, bound, stored, vectorStore, queues, deferred, graphDone, commit, gc, cleaner,
                 hand, bounds, lost>>

(* The batch is over: the workers may start, the bindings are synchronized  *)
(* with the graph.                                                          *)
EndBatch ==
  /\ writer.pc = "batch" /\ writer' = Resting /\ deferred' = FALSE
  /\ bound' = {r \in Rids : IsLive(r)}
  /\ UNCHANGED <<row, stored, vectorStore, queues, graphDone, commit, gc, cleaner, hand, bounds, lost>>

(* An error returns at once, the flag stays set; the reconciler finishes a  *)
(* mutation that is left at GraphDone.                                      *)
FailBatch ==
  /\ writer.pc \in {"batch", "commit"} /\ commit.pc = "idle" /\ faults > 0 /\ faults' = faults - 1
  /\ writer' = Resting
  /\ UNCHANGED <<row, bound, stored, vectorStore, queues, deferred, graphDone, commit, gc, cleaner,
                 hand, batch, writes, lost>>

(* tombstone_retention_days have passed.                                    *)
Expire(r) ==
  /\ IsTombstone(r) /\ row' = [row EXCEPT ![r].expired = TRUE]
  /\ UNCHANGED <<bound, stored, vectorStore, queues, ingest, gc, cleaner, hand, bounds, lost>>

---------------------------------------------------------------------------
(* The collector                                                            *)

(* snapshot_protected_revisions reads a snapshot as a list of strings; it   *)
(* is a list of pairs of byte arrays, so nothing is ever protected.         *)
SnapshotProtected == {}

(* wal_protected_revisions: those of the mutations in flight.               *)
Expired == {r \in Rids : IsTombstone(r) /\ row[r].expired} \ (bound \cup SnapshotProtected \cup graphDone)

SoftDeleted == {r \in Rids : Has(r, "Deleted")}

(* scan_eligible and enqueue_deletes.  The soft-deleted rows of branches    *)
(* that have no fork left become tombstones; some of the expired tombstones *)
(* still have edges that lead to them; jobs of an earlier life are drained  *)
(* even if there is nothing new.                                            *)
Scan(childless, eligible) ==
  /\ gc.pc = "idle" /\ Awake /\ commit.pc = "idle"
  /\ childless \subseteq SoftDeleted /\ eligible \subseteq Expired
  /\ childless \cup eligible # {} \/ deleteQueue # <<>>
  /\ row' = [r \in Rids |-> IF r \in childless THEN Tombstoned(r) ELSE row[r]]
  /\ \E order \in SetToSeqs(eligible) : deleteQueue' = deleteQueue \o order
  /\ gc' = [gc EXCEPT !.pc = "drain"]
  /\ UNCHANGED <<bound, stored, vectorStore, cleanupQueue, embedQueue, ingest, cleaner, hand,
                 bounds, lost>>

NextDelete ==
  /\ gc.pc = "drain"
  /\ IF deleteQueue = <<>> THEN gc' = Resting /\ UNCHANGED deleteQueue
     ELSE gc' = [pc |-> "check", rid |-> Head(deleteQueue)] /\ deleteQueue' = Tail(deleteQueue)
  /\ UNCHANGED <<row, bound, stored, vectorStore, cleanupQueue, embedQueue, ingest, cleaner, hand,
                 bounds, lost>>

(* delete_revision looks at the row under the read lock and lets go of it.  *)
(* A row that is no tombstone, or is missing, puts the job back.            *)
CheckDelete(referenced) ==
  /\ gc.pc = "check"
  /\ IF IsTombstone(gc.rid) /\ ~referenced THEN gc' = [gc EXCEPT !.pc = "remove"] /\ UNCHANGED deleteQueue
     ELSE gc' = [pc |-> "drain", rid |-> None] /\ deleteQueue' = Append(deleteQueue, gc.rid)
  /\ UNCHANGED <<row, bound, stored, vectorStore, cleanupQueue, embedQueue, ingest, cleaner, hand,
                 bounds, lost>>

RemoveRow ==
  /\ gc.pc = "remove" /\ commit.pc # "register"
  /\ row' = [row EXCEPT ![gc.rid] = None] /\ bound' = bound \ {gc.rid}
  /\ gc' = [gc EXCEPT !.pc = "clean"]
  /\ UNCHANGED <<stored, vectorStore, queues, ingest, cleaner, hand, bounds, lost>>

QueueCleanup ==
  /\ gc.pc = "clean" /\ gc' = [pc |-> "drain", rid |-> None]
  /\ cleanupQueue' = Append(cleanupQueue, gc.rid)
  /\ UNCHANGED <<row, bound, stored, vectorStore, deleteQueue, embedQueue, ingest, cleaner, hand,
                 bounds, lost>>

---------------------------------------------------------------------------
(* The cleaner                                                              *)

WakeCleaner ==
  /\ cleaner.pc = "idle" /\ Awake /\ cleanupQueue # <<>> /\ cleaner' = [cleaner EXCEPT !.pc = "drain"]
  /\ UNCHANGED <<row, bound, stored, vectorStore, queues, ingest, gc, hand, bounds, lost>>

(* The queue on disk loses the chunk here, before the store does.           *)
NextCleanup ==
  /\ cleaner.pc = "drain"
  /\ IF cleanupQueue = <<>> THEN cleaner' = Resting /\ UNCHANGED cleanupQueue
     ELSE cleaner' = [pc |-> "delete", rid |-> Head(cleanupQueue)] /\ cleanupQueue' = Tail(cleanupQueue)
  /\ UNCHANGED <<row, bound, stored, vectorStore, deleteQueue, embedQueue, ingest, gc, hand,
                 bounds, lost>>

Clean ==
  /\ cleaner.pc = "delete" /\ DeleteChunk(cleaner.rid)
  /\ cleaner' = [pc |-> "drain", rid |-> None]
  /\ UNCHANGED <<row, bound, stored, queues, ingest, gc, hand, bounds, lost>>

(* The store fails: the chunk goes to the end of the queue.                 *)
CleanFails ==
  /\ cleaner.pc = "delete" /\ faults > 0 /\ faults' = faults - 1
  /\ cleanupQueue' = Append(cleanupQueue, cleaner.rid)
  /\ cleaner' = [pc |-> "drain", rid |-> None]
  /\ UNCHANGED <<row, bound, stored, vectorStore, deleteQueue, embedQueue, ingest, gc, hand,
                 batch, writes, lost>>

---------------------------------------------------------------------------
(* The embedding worker                                                     *)

FirstOf(jobs) == [k \in DOMAIN jobs |-> \A j \in 1..(k - 1) : jobs[j] # jobs[k]]

(* Of the jobs taken, one of each body that has no vector yet; those whose  *)
(* body is stored are embedded.                                             *)
Unembedded(jobs) ==
  LET first == FirstOf(jobs)
      wanted(k) == first[k] /\ jobs[k] \notin vectors
  IN  [n \in 1..Cardinality({k \in DOMAIN jobs : wanted(k)}) |->
         jobs[CHOOSE k \in DOMAIN jobs :
                wanted(k) /\ Cardinality({j \in 1..k : wanted(j)}) = n]]

Stored(b) == b \in stored

WakeEmbedder ==
  /\ hand.pc = "idle" /\ Awake /\ embedQueue # <<>> /\ hand' = [hand EXCEPT !.pc = "drain"]
  /\ UNCHANGED <<row, bound, stored, vectorStore, queues, ingest, gc, cleaner, bounds, lost>>

TakeJobs ==
  /\ hand.pc = "drain"
  /\ LET n == IF Len(embedQueue) < batch THEN Len(embedQueue) ELSE batch
         pending == Unembedded(SubSeq(embedQueue, 1, n))
     IN  /\ hand' = IF pending = <<>> THEN NoJobs
                      ELSE [pc |-> "embed", texts |-> SelectSeq(pending, Stored), pending |-> pending]
         /\ embedQueue' = SubSeq(embedQueue, n + 1, Len(embedQueue))
  /\ UNCHANGED <<row, bound, stored, vectorStore, deleteQueue, cleanupQueue, ingest, gc, cleaner,
                 bounds, lost>>

(* set_embedding for every text; jobs without a text are dropped with them. *)
EmbedJobs ==
  /\ hand.texts # <<>> /\ hand' = NoJobs
  /\ vectors' = vectors \cup Range(hand.texts)
  /\ UNCHANGED <<row, bound, stored, chunkBody, refcount, queues, ingest, gc, cleaner,
                 bounds, lost>>

(* Mutant: what could not be embedded is dropped.                           *)
PutJobsBackLoses == embedQueue' = embedQueue
(* reenqueue_embed_front, job by job, which turns them around.              *)
PutJobsBack == embedQueue' = Reverse(hand.pending) \o embedQueue

EmbedFails ==
  /\ hand.texts # <<>> /\ faults > 0 /\ faults' = faults - 1
  /\ PutJobsBack /\ hand' = NoJobs
  /\ UNCHANGED <<row, bound, stored, vectorStore, deleteQueue, cleanupQueue, ingest, gc, cleaner,
                 batch, writes, lost>>

NothingToEmbed ==
  /\ hand.pc = "embed" /\ hand.texts = <<>>
  /\ PutJobsBack /\ hand' = NoJobs
  /\ UNCHANGED <<row, bound, stored, vectorStore, deleteQueue, cleanupQueue, ingest, gc, cleaner,
                 bounds, lost>>

---------------------------------------------------------------------------
(* The process dies and starts again: rows, vectors and the two queues of   *)
(* deletions are on disk, bodies up to the last save; embedding jobs and    *)
(* the flag are not.  Mutations at GraphDone are replayed first.            *)
Crash(saved) ==
  /\ faults > 0 /\ faults' = faults - 1
  /\ lostChunks' = lostChunks \cup {r \in Rids : (gc.pc = "clean" /\ r = gc.rid)
                                              \/ (cleaner.pc = "delete" /\ r = cleaner.rid)}
  /\ lostJobs' = lostJobs \cup Range(embedQueue) \cup Range(hand.pending)
  /\ stored' = saved /\ embedQueue' = <<>> /\ hand' = NoJobs
  /\ gc' = Resting /\ cleaner' = Resting /\ commit' = Resting
  /\ writer' = [pc |-> "replay", rid |-> None] /\ deferred' = FALSE
  /\ UNCHANGED <<row, bound, vectorStore, deleteQueue, cleanupQueue, graphDone, batch, writes>>

Replayed ==
  /\ writer.pc = "replay" /\ graphDone = {} /\ writer' = Resting
  /\ UNCHANGED <<row, bound, stored, vectorStore, queues, deferred, graphDone, commit, gc, cleaner,
                 hand, bounds, lost>>

Ingesting == \/ \E r \in Rids : SkipMissing(r) \/ EnqueueJob(r)
             \/ Register(TRUE) \/ Committed \/ EndBatch \/ Replayed
Collecting == NextDelete \/ (\E referenced \in BOOLEAN : CheckDelete(referenced)) \/ RemoveRow \/ QueueCleanup
Cleaning == WakeCleaner \/ NextCleanup \/ Clean
Embedding == WakeEmbedder \/ TakeJobs \/ EmbedJobs \/ NothingToEmbed

Next ==
  \/ StartBatch \/ \E s \in Symbols, b \in Bodies : PutRow(s, b)
  \/ \E r \in Rids : Expire(r) \/ \E status \in {"Tombstone", "Deleted"} : RetireRow(r, status)
  \/ Ingesting \/ Register(FALSE) \/ FailBatch
  \/ \E childless \in SUBSET SoftDeleted, eligible \in SUBSET Expired : Scan(childless, eligible)
  \/ Collecting \/ Cleaning \/ CleanFails
  \/ Embedding \/ EmbedFails
  \/ \E saved \in SUBSET stored : Crash(saved)

Spec == Init /\ [][Next]_vars

(* Every thread goes on with what it has begun, and wakes up to work that   *)
(* waits: the threads are loops that only sleep.                            *)
FairSpec == Spec /\ WF_vars(Ingesting) /\ WF_vars(Collecting) /\ WF_vars(Cleaning) /\ WF_vars(Embedding)

---------------------------------------------------------------------------
(* Properties                                                               *)

(* The reference count of a body is the number of chunks that have it,      *)
(* whoever registers, registers again with another body, or deletes: the    *)
(* embedding of a body goes with its last chunk and not before.             *)
(* [vector_store.rs register, delete_chunks]                                *)
RefcountsAgree == \A b \in Bodies : refcount[b] = Cardinality({c \in Rids : chunkBody[c] = b})

(* The workers are let work now and then.  Nothing in the code sees to it:  *)
(* after a batch that failed they wait for one that does not, or a restart. *)
WorkersGetTheirTurn == []<>~deferred


(* The batch that is taken next is full of jobs without a body: they are    *)
(* all put back in front.                                                   *)
Blocked ==
  LET jobs == Reverse(hand.pending) \o embedQueue
      next == SubSeq(jobs, 1, IF Len(jobs) < batch THEN Len(jobs) ELSE batch)
  IN  Len(next) = batch /\ Len(Unembedded(next)) = batch /\ Range(next) \cap stored = {}

(* A queued job whose body is stored gets its vector, although embedding    *)
(* may fail, jobs are put back in front in the wrong order and jobs without *)
(* a body, of rows a restart has left without, are among them; unless it was*)
(* in memory when the process died, or a whole batch of jobs without a body *)
(* stays in front; if the workers get their turn.                           *)
(* [embedding_worker.rs drain_batch, embedding_queue.rs reenqueue_front]    *)
QueuedJobsAreEmbedded ==
  WorkersGetTheirTurn /\ []<>~Blocked =>
    \A b \in Bodies : (b \in Range(embedQueue) /\ b \in stored) ~> (b \in vectors \/ b \in lostJobs)

---------------------------------------------------------------------------
(* What does not hold.                                                      *)

Removes(r) == row[r] # None /\ row'[r] = None

(* The collector removes tombstones only.  It does not: the row may be put  *)
(* again between the look under the read lock and the removal.              *)
OnlyTombstonesAreRemoved == [][\A r \in Rids : Removes(r) => IsTombstone(r)]_vars

(* A tombstone is kept for the retention time.  It is not: a job queued for *)
(* an earlier tombstone of the row removes the next one at once.            *)
RetentionIsKept == [][\A r \in Rids : Removes(r) /\ IsTombstone(r) => row[r].expired]_vars

AllCommitted == writer.pc = "idle" /\ graphDone = {}

(* The row of a stable id has its chunk once it is committed.  It may not:  *)
(* the chunk is still queued from the last time the row was removed, or the *)
(* reconciler did not find the row in the overlay after a batch had failed. *)
LiveRowsHaveTheirChunk ==
  AllCommitted => \A s \in Symbols : row[Stable(s)] # None => chunkBody[Stable(s)] # None

(* The body of a chunk has its vector or a job.  It may not: the job is     *)
(* queued before the chunk is registered, a cache hit in between ends the   *)
(* job, and registering the chunk again drops the vector.  Nor after a      *)
(* restart: the jobs are gone.                                              *)
ChunksAreEmbedded ==
  AllCommitted =>
    \A r \in Rids : chunkBody[r] # None =>
      chunkBody[r] \in vectors \cup Range(embedQueue) \cup Range(hand.pending) \cup lostJobs

(* A job is embedded in the end if only the workers get their turn.  It may *)
(* not be: a batch of jobs without a body in front of it goes in circles.   *)
JobsAreNeverStuck ==
  WorkersGetTheirTurn =>
    \A b \in Bodies : (b \in Range(embedQueue) /\ b \in stored) ~> (b \in vectors \/ b \in lostJobs)

(* A live row has the chunk of its body.  It may not: commit_vector asks for*)
(* the stable id, after an edit in place the row that was retired, and the  *)
(* row that replaced it has neither chunk nor job.                          *)
LiveBodiesAreEmbedded ==
  AllCommitted => \A r \in Rids : IsLive(r) => chunkBody[r] = row[r].body

(* Vectors are of bodies that a chunk has.  They may not be: the chunk was  *)
(* deleted while its body was being embedded.                               *)
VectorsAreReferenced == \A b \in vectors : refcount[b] > 0

(* The collector comes to an end.  It may not: a job of a row that is gone  *)
(* is put back for ever.                                                    *)
CollectorRests == []<>(gc.pc = "idle")
=============================================================================
