--------------------------- MODULE Workers_proofs ---------------------------
(* The reference counts of the vector store, for any finite sets of symbols *)
(* and bodies, whichever threads register, delete and die.           *)
EXTENDS Workers, FiniteSetTheorems, SequenceTheorems, TLAPS

---------------------------------------------------------------------------
(* Counting chunks                                                          *)

ChunksOf(b) == {c \in Rids : chunkBody[c] = b}

(* A symbol has one revision id more than there are bodies.                 *)
LEMMA FiniteRids == IsFiniteSet(Rids) /\ None \notin Rids
  <1>1. IsFiniteSet(Bodies \cup {None})
    BY WorkersAssumption, FS_AddElement
  <1>2. IsFiniteSet(Symbols \X (Bodies \cup {None}))
    BY <1>1, WorkersAssumption, FS_Product
  <1> QED BY <1>2, WorkersAssumption DEF Rids

(* One chunk more or less in a set of chunks.                               *)
LEMMA CountOne ==
  ASSUME NEW S, S \subseteq Rids, NEW c \in Rids
  PROVE  /\ Cardinality(S) \in Nat /\ Cardinality(S \cup {c}) \in Nat /\ Cardinality(S \ {c}) \in Nat
         /\ c \notin S => Cardinality(S \cup {c}) = Cardinality(S) + 1
         /\ c \in S => Cardinality(S \ {c}) = Cardinality(S) - 1
  <1>1. IsFiniteSet(S) /\ IsFiniteSet(S \cup {c}) /\ IsFiniteSet(S \ {c})
    BY FiniteRids, FS_Subset, FS_AddElement
  <1> QED BY <1>1, FS_CardinalityType, FS_AddElement, FS_RemoveElement

---------------------------------------------------------------------------
(* The chunks that threads hold are chunks, and the row that is about to be *)
(* registered is there.                                                     *)
Handles ==
  /\ row \in [Rids -> Row \cup {None}] /\ graphDone \subseteq Rids
  /\ deleteQueue \in Seq(Rids) /\ cleanupQueue \in Seq(Rids)
  /\ commit.pc = "register" => commit.rid \in Rids /\ row[commit.rid] \in Row
  /\ gc.pc \in {"check", "remove", "clean"} => gc.rid \in Rids
  /\ cleaner.pc = "delete" => cleaner.rid \in Rids
  /\ commit \in Thread({"idle", "register"})
  /\ gc \in Thread({"idle", "drain", "check", "remove", "clean"})
  /\ cleaner \in Thread({"idle", "drain", "delete"})

Counted ==
  /\ chunkBody \in [Rids -> Bodies \cup {None}] /\ refcount \in [Bodies -> Nat]
  /\ RefcountsAgree

LEMMA CountedKept == Counted /\ UNCHANGED vectorStore => Counted'
  BY DEF Counted, RefcountsAgree, vectorStore

(* Counts that were right are right again when they move with the chunk:    *)
(* up by one for the body it gets, down by one for the body it had.         *)
LEMMA MovedCount ==
  ASSUME Counted, NEW c \in Rids, NEW new \in Bodies \cup {None},
         chunkBody' = [chunkBody EXCEPT ![c] = new], NEW b \in Bodies
  PROVE  /\ Cardinality(ChunksOf(b)') \in Nat
         /\ Cardinality(ChunksOf(b)') =
              IF chunkBody[c] = new THEN refcount[b]
              ELSE IF b = chunkBody[c] THEN refcount[b] - 1
              ELSE IF b = new THEN refcount[b] + 1 ELSE refcount[b]
  <1>1. ChunksOf(b) \subseteq Rids /\ refcount[b] = Cardinality(ChunksOf(b))
    BY DEF Counted, RefcountsAgree, ChunksOf
  <1>2. chunkBody \in [Rids -> Bodies \cup {None}]
    BY DEF Counted
  <1>3. CASE (chunkBody[c] = b) = (new = b)
    <2>1. ChunksOf(b)' = ChunksOf(b)
      BY <1>2, <1>3 DEF ChunksOf
    <2> QED BY <1>1, <1>3, <2>1, CountOne
  <1>4. CASE chunkBody[c] = b /\ new # b
    <2>1. ChunksOf(b)' = ChunksOf(b) \ {c} /\ c \in ChunksOf(b)
      BY <1>2, <1>4 DEF ChunksOf
    <2> QED BY <1>1, <1>4, <2>1, CountOne
  <1>5. CASE chunkBody[c] # b /\ new = b
    <2>1. ChunksOf(b)' = ChunksOf(b) \cup {c} /\ c \notin ChunksOf(b)
      BY <1>2, <1>5 DEF ChunksOf
    <2> QED BY <1>1, <1>5, <2>1, CountOne
  <1> QED BY <1>3, <1>4, <1>5

(* register: the body the chunk had is released, the new one counted.       *)
LEMMA RegisterCounts ==
  ASSUME Counted, NEW c \in Rids, NEW b \in Bodies, RegisterChunk(c, b)
  PROVE  Counted'
  <1>1. chunkBody' = [chunkBody EXCEPT ![c] = b] /\ chunkBody[c] \in Bodies \cup {None}
    BY DEF RegisterChunk, Counted
  <1>2. chunkBody' \in [Rids -> Bodies \cup {None}] /\ b # None /\ None \notin Bodies
    BY <1>1, WorkersAssumption DEF Counted
  <1>3. \A a \in Bodies : refcount[a] \in Nat
    BY DEF Counted
  <1>4. refcount' = [a \in Bodies |-> Cardinality(ChunksOf(a)')]
    <2>1. CASE chunkBody[c] = None
      <3>1. refcount' = [refcount EXCEPT ![b] = refcount[b] + 1]
        BY <2>1 DEF RegisterChunk, SetRefs, Released, Refs
      <3>2. \A a \in Bodies : Cardinality(ChunksOf(a)') = IF a = b THEN refcount[b] + 1 ELSE refcount[a]
        BY <1>1, <1>2, <2>1, MovedCount
      <3> QED BY <3>1, <3>2 DEF Counted
    <2>2. CASE chunkBody[c] = b
      <3>1. refcount' = [[refcount EXCEPT ![b] = refcount[b] - 1] EXCEPT ![b] = @ + 1]
        BY <1>2, <2>2 DEF RegisterChunk, SetRefs, Released, Refs
      <3>2. \A a \in Bodies : Cardinality(ChunksOf(a)') = refcount[a]
        BY <1>1, <2>2, MovedCount
      <3> QED BY <1>3, <3>1, <3>2 DEF Counted
    <2>3. CASE chunkBody[c] \notin {None, b}
      <3> DEFINE old == chunkBody[c]
      <3>1. refcount' = [[refcount EXCEPT ![old] = refcount[old] - 1] EXCEPT ![b] = @ + 1]
        BY <2>3 DEF RegisterChunk, SetRefs, Released, Refs
      <3>2. \A a \in Bodies : Cardinality(ChunksOf(a)') =
              IF a = old THEN refcount[a] - 1 ELSE IF a = b THEN refcount[b] + 1 ELSE refcount[a]
        BY <1>1, <2>3, MovedCount
      <3>3. old \in Bodies /\ old # b
        BY <1>1, <2>3
      <3> QED BY <3>1, <3>2, <3>3 DEF Counted
    <2> QED BY <1>1, <2>1, <2>2, <2>3
  <1>5. \A a \in Bodies : Cardinality(ChunksOf(a)') \in Nat
    BY <1>1, MovedCount
  <1> QED BY <1>2, <1>4, <1>5 DEF Counted, RefcountsAgree, ChunksOf

(* delete_chunks: the body of the chunk, if there is one, is released.      *)
LEMMA DeleteCounts ==
  ASSUME Counted, NEW c \in Rids, DeleteChunk(c)
  PROVE  Counted'
  <1>1. chunkBody' = [chunkBody EXCEPT ![c] = None] /\ chunkBody[c] \in Bodies \cup {None}
    BY DEF DeleteChunk, Counted
  <1>2. chunkBody' \in [Rids -> Bodies \cup {None}] /\ None \notin Bodies
    BY <1>1, WorkersAssumption DEF Counted
  <1>3. refcount' = [a \in Bodies |-> Cardinality(ChunksOf(a)')]
    <2>1. CASE chunkBody[c] = None
      <3>1. refcount' = refcount
        BY <2>1 DEF DeleteChunk, SetRefs, Released, Refs
      <3>2. \A a \in Bodies : Cardinality(ChunksOf(a)') = refcount[a]
        BY <1>1, <2>1, MovedCount
      <3> QED BY <3>1, <3>2 DEF Counted
    <2>2. CASE chunkBody[c] # None
      <3> DEFINE old == chunkBody[c]
      <3>1. refcount' = [refcount EXCEPT ![old] = refcount[old] - 1]
        BY <2>2 DEF DeleteChunk, SetRefs, Released, Refs
      <3>2. \A a \in Bodies : Cardinality(ChunksOf(a)') = IF a = old THEN refcount[a] - 1 ELSE refcount[a]
        BY <1>1, <1>2, <2>2, MovedCount
      <3> QED BY <1>1, <2>2, <3>1, <3>2 DEF Counted
    <2> QED BY <2>1, <2>2
  <1>4. \A a \in Bodies : Cardinality(ChunksOf(a)') \in Nat
    BY <1>1, MovedCount
  <1> QED BY <1>2, <1>3, <1>4 DEF Counted, RefcountsAgree, ChunksOf

---------------------------------------------------------------------------
(* The steps that put and retire rows: commit_vector is not at one of them. *)
LEMMA RowSteps ==
  ASSUME Handles, Counted
  PROVE  /\ \A s \in Symbols, b \in Bodies : PutRow(s, b) => Handles' /\ Counted'
         /\ \A r \in Rids, status \in {"Tombstone", "Deleted"} : RetireRow(r, status) => Handles' /\ Counted'
         /\ \A r \in Rids : Expire(r) => Handles' /\ Counted'
  <1> USE CountedKept DEF Handles
  <1>1. ASSUME NEW s \in Symbols, NEW b \in Bodies, PutRow(s, b) PROVE Handles' /\ Counted'
    <2>1. [body |-> b, status |-> "Active", expired |-> FALSE] \in Row
      BY DEF Row
    <2>2. \A r \in Rids : IsLive(r) => Tombstoned(r) \in Row
      BY DEF IsLive, Has, Tombstoned, Row
    <2>3. row' \in [Rids -> Row \cup {None}]
      BY <1>1, <2>1, <2>2 DEF PutRow
    <2>4. graphDone' \subseteq Rids
      BY <1>1 DEF PutRow, Stable, Rids
    <2> QED BY <1>1, <2>3, <2>4 DEF PutRow, queues
  <1>2. ASSUME NEW r \in Rids, NEW status \in {"Tombstone", "Deleted"}, RetireRow(r, status)
        PROVE  Handles' /\ Counted'
    <2>1. row[r] # None /\ [row[r] EXCEPT !.status = status] \in Row
      BY <1>2 DEF RetireRow, Has, Row
    <2>2. row' = [row EXCEPT ![r] = [row[r] EXCEPT !.status = status]] /\ commit.pc = "idle"
      BY <1>2 DEF RetireRow
    <2>3. row' \in [Rids -> Row \cup {None}]
      BY <2>1, <2>2
    <2> QED BY <1>2, <2>2, <2>3 DEF RetireRow, queues, ingest
  <1>3. ASSUME NEW r \in Rids, Expire(r) PROVE Handles' /\ Counted'
    <2>1. row[r] # None /\ row[r] \in Row
      BY <1>3 DEF Expire, IsTombstone, Has
    <2>2. [row[r] EXCEPT !.expired = TRUE] \in Row
      BY <2>1 DEF Row
    <2>3. row' = [row EXCEPT ![r] = [row[r] EXCEPT !.expired = TRUE]]
      BY <1>3 DEF Expire
    <2>4. row' \in [Rids -> Row \cup {None}]
      BY <2>2, <2>3
    <2>5. commit.pc = "register" => row'[commit.rid] \in Row
      BY <2>2, <2>3
    <2> QED BY <1>3, <2>4, <2>5 DEF Expire, queues, ingest
  <1> QED BY <1>1, <1>2, <1>3

(* The ingest and commit_vector: a row that is registered is there.         *)
LEMMA IngestSteps ==
  ASSUME Handles, Counted
  PROVE  StartBatch \/ Ingesting \/ Register(FALSE) \/ FailBatch => Handles' /\ Counted'
  <1> USE CountedKept DEF Handles
  <1>1. ASSUME NEW r \in Rids, SkipMissing(r) PROVE Handles' /\ Counted'
    BY <1>1 DEF SkipMissing, queues
  <1>2. ASSUME NEW r \in Rids, EnqueueJob(r) PROVE Handles' /\ Counted'
    <2>1. commit' = [pc |-> "register", rid |-> r] /\ row[r] \in Row
      BY <1>2 DEF EnqueueJob
    <2>2. commit' \in Thread({"idle", "register"})
      BY <2>1 DEF Thread
    <2> QED BY <1>2, <2>1, <2>2 DEF EnqueueJob
  <1>3. ASSUME NEW saved \in BOOLEAN, Register(saved) PROVE Handles' /\ Counted'
    <2>1. commit.rid \in Rids /\ row[commit.rid].body \in Bodies
      BY <1>3 DEF Register, Row
    <2>2. Counted'
      BY <1>3, <2>1, RegisterCounts DEF Register
    <2>3. commit' \in Thread({"idle", "register"}) /\ commit'.pc = "idle"
      BY <1>3 DEF Register, Resting, Thread
    <2>4. graphDone' \subseteq Rids
      BY <1>3 DEF Register
    <2> QED BY <1>3, <2>2, <2>3, <2>4 DEF Register, queues
  <1>4. ASSUME StartBatch \/ Committed \/ EndBatch \/ FailBatch \/ Replayed PROVE Handles' /\ Counted'
    <2>1. UNCHANGED <<row, vectorStore, deleteQueue, cleanupQueue, graphDone, commit, gc, cleaner>>
      BY <1>4 DEF StartBatch, Committed, EndBatch, FailBatch, Replayed, queues
    <2> QED BY <2>1
  <1> QED BY <1>1, <1>2, <1>3, <1>4 DEF Ingesting

(* The collector: what it queues and takes from its queue are rows.         *)
LEMMA CollectSteps ==
  ASSUME Handles, Counted
  PROVE  /\ \A childless \in SUBSET SoftDeleted, eligible \in SUBSET Expired :
              Scan(childless, eligible) => Handles' /\ Counted'
         /\ Collecting => Handles' /\ Counted'
  <1> USE CountedKept DEF Handles
  <1>1. ASSUME NEW childless \in SUBSET SoftDeleted, NEW eligible \in SUBSET Expired,
               Scan(childless, eligible)
        PROVE  Handles' /\ Counted'
    <2>6. eligible \subseteq Rids
      BY DEF Expired
    <2>1. PICK order \in SetToSeqs(eligible) : deleteQueue' = deleteQueue \o order
      BY <1>1 DEF Scan
    <2>5. Cardinality(eligible) \in Nat
      BY <2>6, FiniteRids, FS_Subset, FS_CardinalityType
    <2>2. order \in [1..Cardinality(eligible) -> eligible] /\ Cardinality(eligible) \in Nat
      BY <2>1, <2>5 DEF SetToSeqs
    <2>3. order \in Seq(Rids)
      <3>1. order \in [1..Cardinality(eligible) -> Rids]
        BY <2>2, <2>6
      <3> QED BY <2>2, <3>1, SeqDef
    <2>4. deleteQueue' \in Seq(Rids)
      BY <2>1, <2>3
    <2>7. \A r \in childless : Tombstoned(r) \in Row
      BY DEF SoftDeleted, Has, Tombstoned, Row
    <2>8. row' \in [Rids -> Row \cup {None}]
      BY <1>1, <2>7 DEF Scan
    <2>9. gc' \in Thread({"idle", "drain", "check", "remove", "clean"}) /\ gc'.pc = "drain"
      BY <1>1 DEF Scan, Thread
    <2>10. UNCHANGED <<vectorStore, cleanupQueue, graphDone, commit, cleaner>> /\ commit.pc = "idle"
      BY <1>1 DEF Scan, ingest
    <2> QED BY <2>4, <2>8, <2>9, <2>10
  <1>2. ASSUME NextDelete PROVE Handles' /\ Counted'
    <2>1. deleteQueue # <<>> => Head(deleteQueue) \in Rids /\ Tail(deleteQueue) \in Seq(Rids)
      OBVIOUS
    <2>2. Counted' /\ UNCHANGED <<row, cleanupQueue, graphDone, commit, cleaner>>
      BY <1>2 DEF NextDelete, ingest
    <2>3. CASE deleteQueue = <<>>
      BY <1>2, <2>2, <2>3 DEF NextDelete, Resting, Thread
    <2>4. CASE deleteQueue # <<>>
      <3>1. gc' = [pc |-> "check", rid |-> Head(deleteQueue)] /\ deleteQueue' = Tail(deleteQueue)
        BY <1>2, <2>4 DEF NextDelete
      <3> QED BY <2>1, <2>2, <2>4, <3>1 DEF Thread
    <2> QED BY <2>3, <2>4
  <1>3. ASSUME NEW referenced \in BOOLEAN, CheckDelete(referenced) PROVE Handles' /\ Counted'
    <2>1. gc.rid \in Rids /\ Append(deleteQueue, gc.rid) \in Seq(Rids)
      BY <1>3 DEF CheckDelete
    <2>2. Counted' /\ UNCHANGED <<row, cleanupQueue, graphDone, commit, cleaner>>
      BY <1>3 DEF CheckDelete, ingest
    <2>3. \/ gc' = [gc EXCEPT !.pc = "remove"] /\ deleteQueue' = deleteQueue
          \/ gc' = [pc |-> "drain", rid |-> None] /\ deleteQueue' = Append(deleteQueue, gc.rid)
      BY <1>3 DEF CheckDelete
    <2>4. CASE gc' = [gc EXCEPT !.pc = "remove"] /\ deleteQueue' = deleteQueue
      BY <2>1, <2>2, <2>4 DEF Thread
    <2>5. CASE gc' = [pc |-> "drain", rid |-> None] /\ deleteQueue' = Append(deleteQueue, gc.rid)
      BY <2>1, <2>2, <2>5 DEF Thread
    <2> QED BY <2>3, <2>4, <2>5
  <1>4. ASSUME RemoveRow PROVE Handles' /\ Counted'
    BY <1>4 DEF RemoveRow, queues, ingest, Thread
  <1>5. ASSUME QueueCleanup PROVE Handles' /\ Counted'
    <2>1. gc.rid \in Rids /\ Append(cleanupQueue, gc.rid) \in Seq(Rids)
      BY <1>5 DEF QueueCleanup
    <2> QED BY <1>5, <2>1 DEF QueueCleanup, ingest, Thread
  <1> QED BY <1>1, <1>2, <1>3, <1>4, <1>5 DEF Collecting

(* The cleaner deletes chunks that were queued, or puts them back.          *)
LEMMA CleanSteps ==
  ASSUME Handles, Counted
  PROVE  Cleaning \/ CleanFails => Handles' /\ Counted'
  <1> USE CountedKept DEF Handles
  <1>1. ASSUME WakeCleaner PROVE Handles' /\ Counted'
    BY <1>1 DEF WakeCleaner, queues, ingest, Thread
  <1>2. ASSUME NextCleanup PROVE Handles' /\ Counted'
    <2>1. cleanupQueue # <<>> => Head(cleanupQueue) \in Rids /\ Tail(cleanupQueue) \in Seq(Rids)
      OBVIOUS
    <2>2. Counted' /\ UNCHANGED <<row, deleteQueue, graphDone, commit, gc>>
      BY <1>2 DEF NextCleanup, ingest
    <2>3. CASE cleanupQueue = <<>>
      BY <1>2, <2>2, <2>3 DEF NextCleanup, Resting, Thread
    <2>4. CASE cleanupQueue # <<>>
      <3>1. cleaner' = [pc |-> "delete", rid |-> Head(cleanupQueue)]
            /\ cleanupQueue' = Tail(cleanupQueue)
        BY <1>2, <2>4 DEF NextCleanup
      <3> QED BY <2>1, <2>2, <2>4, <3>1 DEF Thread
    <2> QED BY <2>3, <2>4
  <1>3. ASSUME Clean PROVE Handles' /\ Counted'
    <2>1. Counted'
      BY <1>3, DeleteCounts DEF Clean
    <2> QED BY <1>3, <2>1 DEF Clean, queues, ingest, Thread
  <1>4. ASSUME CleanFails PROVE Handles' /\ Counted'
    <2>1. cleaner.rid \in Rids /\ Append(cleanupQueue, cleaner.rid) \in Seq(Rids)
      BY <1>4 DEF CleanFails
    <2> QED BY <1>4, <2>1 DEF CleanFails, ingest, Thread
  <1> QED BY <1>1, <1>2, <1>3, <1>4 DEF Cleaning

(* The embedding worker fills in vectors and counts nothing; a crash loses  *)
(* what is in memory.                                                       *)
LEMMA OtherSteps ==
  ASSUME Handles, Counted
  PROVE  /\ Embedding \/ EmbedFails => Handles' /\ Counted'
         /\ \A saved \in SUBSET stored : Crash(saved) => Handles' /\ Counted'
  <1> USE DEF Handles
  <1>1. ASSUME Embedding \/ EmbedFails PROVE Handles' /\ Counted'
    <2>1. UNCHANGED <<row, chunkBody, refcount, deleteQueue, cleanupQueue, graphDone, commit, gc, cleaner>>
      BY <1>1 DEF Embedding, WakeEmbedder, TakeJobs, EmbedJobs, NothingToEmbed, EmbedFails,
                  vectorStore, queues, ingest
    <2> QED BY <2>1 DEF Counted, RefcountsAgree
  <1>2. ASSUME NEW saved \in SUBSET stored, Crash(saved) PROVE Handles' /\ Counted'
    BY <1>2, CountedKept DEF Crash, Resting, Thread
  <1> QED BY <1>1, <1>2

---------------------------------------------------------------------------
(* The reference count of a body is the number of chunks that have it: the  *)
(* embedding of a body goes with its last chunk and not before, whichever   *)
(* threads register, register again, delete and delete twice.               *)
(* [vector_store.rs register, delete_chunks]                                *)
THEOREM RefcountsAlwaysAgree == Spec => []RefcountsAgree
  <1>1. Init => Handles /\ Counted
    <2> SUFFICES ASSUME Init PROVE Handles /\ Counted
      OBVIOUS
    <2>1. Handles
      BY DEF Init, Handles, Resting, Thread
    <2>2. \A b \in Bodies : {c \in Rids : chunkBody[c] = b} = {}
      BY WorkersAssumption DEF Init
    <2>3. Counted
      BY <2>2, FS_EmptySet DEF Init, Counted, RefcountsAgree
    <2> QED BY <2>1, <2>3
  <1>2. Handles /\ Counted /\ [Next]_vars => (Handles /\ Counted)'
    <2> SUFFICES ASSUME Handles, Counted, [Next]_vars PROVE Handles' /\ Counted'
      OBVIOUS
    <2>1. CASE UNCHANGED vars
      BY <2>1, CountedKept DEF vars, queues, ingest, Handles
    <2>2. CASE Next
      BY <2>2, RowSteps, IngestSteps, CollectSteps, CleanSteps, OtherSteps DEF Next
    <2> QED BY <2>1, <2>2
  <1>3. Handles /\ Counted => RefcountsAgree
    BY DEF Counted
  <1> QED BY <1>1, <1>2, <1>3, PTL DEF Spec
=============================================================================
