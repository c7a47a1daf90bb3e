---------------------------- MODULE GraphOverlay ----------------------------
(* The SQLite backend: the graph is in two tables, and the writers change a *)
(* partial copy of it in memory, the overlay, which they fill from the      *)
(* tables, flush back in part or in whole, and throw away.                  *)
(*                                                                          *)
(* A batch of ingest loads the tombstones of the branch, then every file    *)
(* before its turn, and flushes the rows of that file; a patch loads one    *)
(* file into whatever the overlay holds; a merge starts with an empty       *)
(* overlay and copies a row when it first writes it.  One writer at a time: *)
(* two of them share the overlay without a lock (WriteCoordinator has that).*)
(* Queries read the tables, or overlay over tables when a writer resolves.  *)
EXTENDS GraphIndex, Naturals, FiniteSets

CONSTANTS FileOf,       \* the file of a revision id, which is a hash of it
          CallsOf,      \* the edge ids of the calls of the symbol of a row
          MaxWrites,    \* bound on the changes of rows and edges, burials by GC too
          MaxFaults     \* bound on crashes, failed flushes and removals by GC

ASSUME OverlayAssumption ==
  /\ FileOf \in [Rids -> Files] /\ CallsOf \in [Rids -> SUBSET CallSites]
  /\ MaxWrites \in Nat /\ MaxFaults \in Nat

VARIABLES
  mem,            \* the overlay
  sqlRows, sqlEdges,   \* the tables revisions and edges
  section,        \* the writer: its kind, stage, file and rows still to do
  writes, faults, \* what is left of the bounds
  lossy,          \* a writer changed a row that its flush, or the flush of the
                  \* section it came into, leaves out, or that it had not loaded,
                  \* or saved two edges of one id (read by properties)
  unburied        \* rows the collector buried in the overlay and then removed from
                  \* it since their file was opened (read by properties)

vars == <<mem, sqlRows, sqlEdges, section, writes, faults, lossy, unburied>>
tables == <<sqlRows, sqlEdges>>

Idle == [kind |-> "idle", stage |-> "none", file |-> None, todo |-> {}]
Kinds == {"ingest", "promote", "revert", "speculate", "merge"}
Sections == {Idle} \cup
  [kind : Kinds, stage : {"between", "load", "write"}, file : Files \cup {None}, todo : SUBSET Rids]

PatchKinds == {"promote", "revert", "speculate"}
StatusFrom == [promote |-> "Speculative", revert |-> "Speculative", speculate |-> "Active"]
(* Mutant: a reverted row gets a status the graph does not have.            *)
StatusToReverted == [promote |-> "Active", revert |-> "Reverted", speculate |-> "Speculative"]
StatusTo == [promote |-> "Active", revert |-> "Tombstone", speculate |-> "Speculative"]

---------------------------------------------------------------------------
(* The overlay and the tables, seen together                                *)

ViewRows == [r \in Rids |-> IF Has(mem, r) THEN mem.rows[r] ELSE sqlRows[r]]
ViewEdges == [r \in Rids |-> IF Has(mem, r) THEN mem.edges[r] ELSE sqlEdges[r]]

(* OverlayGraphView: the overlay answers, the tables when it has nothing.   *)
ViewPrimary(i) ==
  IF mem.primary[i] # None THEN mem.primary[i]
  ELSE PrimaryAmong(sqlRows, {r \in Rids : sqlRows[r] # None /\ sqlRows[r].ident = i})

Loaded == {r \in Rids : Has(mem, r)}
Dirty == {r \in Loaded : mem.rows[r] # sqlRows[r] \/ mem.edges[r] # sqlEdges[r]}

(* A row the overlay does not know although the tables have it.             *)
Blind(r) == ~Has(mem, r) /\ sqlRows[r] # None

SqlRowsOf(f) == {r \in Rids : sqlRows[r] # None /\ sqlRows[r].file = f}

(* absorb_revisions of one row: edges are only replaced by edges.           *)
Absorb(g, r) ==
  LET g1 == PutRevision(g, r, sqlRows[r])
  IN  IF sqlEdges[r] # {} THEN ReplaceEdges(g1, r, sqlEdges[r]) ELSE g1

(* cow_revision.                                                            *)
CowRevision(g, r) ==
  IF Blind(r) THEN ReplaceEdges(PutRevision(g, r, sqlRows[r]), r, sqlEdges[r]) ELSE g

(* sqlite_flush_revision_ids: every row of the overlay, or those of a file. *)
FlushIds(f) == IF f = None THEN Loaded ELSE {r \in Loaded : mem.rows[r].file = f}

(* Inserting an edge takes the row of the table away from whatever revision *)
(* had an edge of that id, and the rows are written in the order of a hash  *)
(* set: of several rows with an edge of one id the last one written has it. *)
Last(ids, rank, r, site) ==
  \A q \in ids : site \in SitesOf(mem.edges[q]) => rank[q] <= rank[r]

FlushedEdges(ids, rank, r) ==
  IF r \in ids THEN {e \in mem.edges[r] : Last(ids, rank, r, e.site)}
  ELSE {e \in sqlEdges[r] : \A q \in ids : e.site \notin SitesOf(mem.edges[q])}

FlushedTables(ids, rank) ==
  /\ sqlRows' = [r \in Rids |-> IF r \in ids THEN mem.rows[r] ELSE sqlRows[r]]
  /\ sqlEdges' = [r \in Rids |-> FlushedEdges(ids, rank, r)]

Orders(ids) == {rank \in [ids -> 1..Cardinality(ids)] : \A q, r \in ids : rank[q] = rank[r] => q = r}

(* Two rows, one of them flushed, have an edge of one id.                   *)
Collides(ids) ==
  \E r \in ids : \E q \in Rids \ {r} :
    SitesOf(mem.edges[r]) \cap SitesOf(IF q \in ids THEN mem.edges[q] ELSE sqlEdges[q]) # {}

(* Mutant: the live rows of the file only, not the ones the edit retired.   *)
ApplyDeltaOfLive(f) ==
  LET ids == IF f = None THEN Loaded
             ELSE WithStatus(mem.rows, FlushIds(f), "Active")
  IN  /\ \E rank \in Orders(ids) : FlushedTables(ids, rank)
      /\ lossy' = (lossy \/ Collides(ids))

(* apply_delta: one transaction replaces those rows and their edges.        *)
ApplyDelta(f) ==
  /\ \E rank \in Orders(FlushIds(f)) : FlushedTables(FlushIds(f), rank)
  /\ lossy' = (lossy \/ Collides(FlushIds(f)))

---------------------------------------------------------------------------
Init ==
  /\ mem = EmptyGraph /\ section = Idle
  /\ sqlRows = [r \in Rids |-> None] /\ sqlEdges = [r \in Rids |-> {}]
  /\ writes = MaxWrites /\ faults = MaxFaults /\ lossy = FALSE /\ unburied = {}

(* Filling the overlay                                                      *)

(* discard_overlay and preload_branch_tombstones.                           *)
StartBatch ==
  /\ section = Idle
  /\ mem' = EmptyGraph
  /\ section' = [kind |-> "ingest", stage |-> "between", file |-> None,
                 todo |-> WithStatus(sqlRows, Rids, "Tombstone")]
  /\ unburied' = {}
  /\ UNCHANGED <<tables, writes, faults, lossy>>

(* Mutant: a file the overlay has a row of counts as loaded.                *)
OpenFileCached(f) ==
  /\ section.kind = "ingest" /\ section.stage = "between" /\ section.todo = {}
  /\ section' = [section EXCEPT !.stage = "load", !.file = f,
                  !.todo = IF mem.byFile[f] = {} THEN SqlRowsOf(f) ELSE {}]
  /\ unburied' = {}
  /\ UNCHANGED <<mem, tables, writes, faults, lossy>>
(* preload_working_set of the next file of a batch.                         *)
OpenFile(f) ==
  /\ section.kind = "ingest" /\ section.stage = "between" /\ section.todo = {}
  /\ section' = [section EXCEPT !.stage = "load", !.file = f, !.todo = SqlRowsOf(f)]
  /\ unburied' = {}
  /\ UNCHANGED <<mem, tables, writes, faults, lossy>>

(* preload_working_set for a patch, into the overlay as it is.              *)
OpenPatch(kind, f) ==
  /\ section = Idle
  /\ section' = [kind |-> kind, stage |-> "load", file |-> f, todo |-> SqlRowsOf(f)]
  /\ lossy' = (lossy \/ Dirty # {})
  /\ unburied' = {}
  /\ UNCHANGED <<mem, tables, writes, faults>>

AbsorbRow(r) ==
  /\ section.stage \in {"between", "load"} /\ r \in section.todo
  /\ mem' = Absorb(mem, r)
  /\ section' = [section EXCEPT !.todo = @ \ {r}]
  /\ UNCHANGED <<tables, writes, faults, lossy, unburied>>

(* The closure of the mutation runs under the write lock of the graph; that *)
(* of a patch goes over the rows of the file that have the status.          *)
StartWriting ==
  /\ section.stage = "load" /\ section.todo = {}
  /\ section' = [section EXCEPT !.stage = "write",
       !.todo = IF section.kind = "ingest" THEN {}
                ELSE WithStatus(mem.rows, mem.byFile[section.file], StatusFrom[section.kind])]
  /\ UNCHANGED <<mem, tables, writes, faults, lossy, unburied>>

(* with_merge_write: the overlay is emptied, and filled as rows are written.*)
StartMerge ==
  /\ section = Idle
  /\ mem' = EmptyGraph
  /\ section' = [kind |-> "merge", stage |-> "write", file |-> None, todo |-> {}]
  /\ unburied' = {}
  /\ UNCHANGED <<tables, writes, faults, lossy>>

---------------------------------------------------------------------------
(* Writing to the overlay                                                   *)

Writing(kind) == section.kind = kind /\ section.stage = "write" /\ writes > 0

Wrote(g) == /\ mem' = g /\ writes' = writes - 1
            /\ UNCHANGED <<tables, section, faults, unburied>>

(* The edges that the calls of a row, whatever its body, may give it: one of*)
(* an id.                                                                   *)
OfSymbol(r, new) ==
  /\ SitesOf(new) \subseteq CallsOf[r] \cup LinkSites
  /\ \A d, e \in new : d.site = e.site => d = e

(* Ingest puts the row of a symbol of the file.                             *)
PutRow(r, i, b) ==
  /\ Writing("ingest") /\ FileOf[r] = section.file
  /\ Wrote(PutRevision(mem, r, [ident |-> i, file |-> FileOf[r], body |-> b,
                                status |-> "Active"]))
  /\ lossy' = (lossy \/ Blind(r))

(* ... retires a live row that is in the overlay, of whatever file, ...     *)
RetireRow(r) ==
  /\ Writing("ingest") /\ Has(mem, r) /\ mem.rows[r].status \in {"Active", "Speculative"}
  /\ Wrote(PutRevision(mem, r, [mem.rows[r] EXCEPT !.status = "Tombstone"]))
  /\ lossy' = (lossy \/ mem.rows[r].file # section.file)

(* ... gives a row of the file its edges (a deleted one keeps its rename    *)
(* only), ...                                                               *)
ReplaceRowEdges(r, new) ==
  /\ OfSymbol(r, new)
  /\ Writing("ingest") /\ Has(mem, r) /\ mem.rows[r].file = section.file
  /\ mem.rows[r].status = "Tombstone" => SitesOf(new) \subseteq LinkSites
  /\ Wrote(ReplaceEdges(mem, r, new))
  /\ UNCHANGED lossy

(* ... and links the tombstone a symbol was renamed from to its successor.  *)
LinkRename(r, link) ==
  /\ Writing("ingest") /\ Has(mem, r) /\ mem.rows[r].status = "Tombstone"
  /\ link.site \in LinkSites
  /\ LET kept == {e \in mem.edges[r] : e.site \notin LinkSites}
     IN  Wrote(ReplaceEdges(mem, r, kept \cup {link}))
  /\ lossy' = (lossy \/ mem.rows[r].file # section.file)

(* A patch gives the rows of its file their next status.                    *)
PatchRow(r) ==
  /\ section.kind \in PatchKinds /\ section.stage = "write" /\ r \in section.todo
  /\ mem' = PutRevision(mem, r, [mem.rows[r] EXCEPT !.status = StatusTo[section.kind]])
  /\ section' = [section EXCEPT !.todo = @ \ {r}]
  /\ UNCHANGED <<tables, writes, faults, lossy, unburied>>

(* A merge orphans the losing row, and replaces the edges of a row: those of*)
(* a promoted row, and those it recomputes for the rows of the first bodies,*)
(* live or not.                                                             *)
OrphanRow(r) ==
  /\ Writing("merge") /\ ViewRows[r] # None /\ ViewRows[r].status = "Active"
  /\ Wrote(SetRevisionStatus(CowRevision(mem, r), r, "Orphaned"))
  /\ UNCHANGED lossy

MergeEdges(r, new) ==
  /\ OfSymbol(r, new)
  /\ Writing("merge") /\ ViewRows[r] # None
  /\ Wrote(ReplaceEdges(CowRevision(mem, r), r, new))
  /\ UNCHANGED lossy

(* finalize_soft_deletes_without_children, when a branch is purged: the     *)
(* primary row is put without being copied, so its edges stay behind.       *)
FinalizeSoftDelete(i) ==
  LET r == ViewPrimary(i)
  IN  /\ Writing("merge") /\ r # None
      /\ Wrote(PutRevision(mem, r, [ViewRows[r] EXCEPT !.status = "Tombstone"]))
      /\ lossy' = (lossy \/ Blind(r))

---------------------------------------------------------------------------
(* The end of a section                                                     *)

(* commit_graph of a file of a batch: the overlay stays for the next file.  *)
CommitFile ==
  /\ section.kind = "ingest" /\ section.stage = "write"
  /\ ApplyDelta(section.file)
  /\ section' = [section EXCEPT !.stage = "between", !.file = None]
  /\ UNCHANGED <<mem, writes, faults, unburied>>

EndBatch ==
  /\ section.kind = "ingest" /\ section.stage = "between" /\ section.todo = {}
  /\ mem' = EmptyGraph /\ section' = Idle
  /\ UNCHANGED <<tables, writes, faults, lossy, unburied>>

(* A patch and a merge flush and discard the overlay in one call.           *)
CommitAndDiscard ==
  /\ section.kind \in PatchKinds \cup {"merge"} /\ section.stage = "write" /\ section.todo = {}
  /\ ApplyDelta(IF section.kind \in {"promote", "revert"} THEN section.file ELSE None)
  /\ mem' = EmptyGraph /\ section' = Idle
  /\ UNCHANGED <<writes, faults, unburied>>

(* The flush fails: the caller returns and the overlay stays as it is.      *)
FlushFails ==
  /\ faults > 0 /\ section.stage = "write"
  /\ section.kind \in PatchKinds => section.todo = {}
  /\ section' = Idle /\ faults' = faults - 1
  /\ UNCHANGED <<mem, tables, writes, lossy, unburied>>

Crash ==
  /\ faults > 0
  /\ mem' = EmptyGraph /\ section' = Idle /\ faults' = faults - 1
  /\ UNCHANGED <<tables, writes, lossy, unburied>>

(* The collector comes in between two writers of the graph lock.  It buries *)
(* the soft-deleted rows of the overlay, of whatever file, and flushes      *)
(* nothing: the section under way saves the row with its own file, or not.  *)
BurySoftDeleted(i) ==
  LET r == mem.primary[i]
  IN  /\ writes > 0 /\ section.stage # "write" /\ section.todo = {} /\ r # None
      /\ mem' = PutRevision(mem, r, [mem.rows[r] EXCEPT !.status = "Tombstone"])
      /\ writes' = writes - 1
      /\ lossy' = (lossy \/ (section # Idle /\ section.kind # "speculate"
                               /\ mem.rows[r].file # section.file))
      /\ UNCHANGED <<tables, section, faults, unburied>>

(* It removes a tombstone from the overlay; the tables keep it.             *)
CollectRow(r) ==
  /\ faults > 0 /\ section.stage # "write" /\ section.todo = {}
  /\ Has(mem, r) /\ mem.rows[r].status = "Tombstone"
  /\ mem' = RemoveRevision(mem, r) /\ faults' = faults - 1
  /\ lossy' = (lossy \/ r \in Dirty)
  /\ unburied' = unburied \cup {q \in {r} : sqlRows[q] # None /\ sqlRows[q].status # "Tombstone"}
  /\ UNCHANGED <<tables, section, writes>>

Fill == \/ StartBatch \/ StartWriting \/ StartMerge
        \/ \E f \in Files : OpenFile(f) \/ \E kind \in PatchKinds : OpenPatch(kind, f)
        \/ \E r \in Rids : AbsorbRow(r)
Change == \/ \E r \in Rids : \/ RetireRow(r) \/ PatchRow(r) \/ OrphanRow(r)
                             \/ \E i \in Idents, b \in Bodies : PutRow(r, i, b)
                             \/ \E new \in SUBSET Edge : ReplaceRowEdges(r, new) \/ MergeEdges(r, new)
                             \/ \E link \in Edge : LinkRename(r, link)
          \/ \E i \in Idents : FinalizeSoftDelete(i)
End == CommitFile \/ EndBatch \/ CommitAndDiscard
Collect == \/ \E i \in Idents : BurySoftDeleted(i)
           \/ \E r \in Rids : CollectRow(r)
Fault == FlushFails \/ Crash \/ Collect

Next == Fill \/ Change \/ End \/ Fault
Spec == Init /\ [][Next]_vars

---------------------------------------------------------------------------
(* Properties                                                               *)

TypeOK ==
  /\ mem \in Graph
  /\ sqlRows \in [Rids -> Row \cup {None}] /\ sqlEdges \in [Rids -> SUBSET Edge]
  /\ section \in Sections
  /\ writes \in 0..MaxWrites /\ faults \in 0..MaxFaults /\ lossy \in BOOLEAN
  /\ unburied \subseteq Rids

(* Whatever is put, changed, loaded or removed, and in whatever order, every*)
(* secondary index of the overlay says what its rows say.                   *)
IndexesAgree == Agrees(mem)

(* The inductive invariant behind both: a row that is to be loaded is in the*)
(* tables, and a row that a patch is to change is in the overlay.           *)
LoadsRows == section.stage \in {"between", "load"} => \A r \in section.todo : sqlRows[r] # None
PatchesRows == section.kind \in PatchKinds /\ section.stage = "write" =>
                 \A r \in section.todo : Has(mem, r)
LoadsAFile == /\ section.stage = "load" => section.file \in Files
              /\ section.stage = "between" => section.kind = "ingest" /\ section.file = None
              /\ section.kind = "ingest" /\ section.stage = "write" => section.todo = {}

IInv == TypeOK /\ IndexesAgree /\ LoadsRows /\ PatchesRows /\ LoadsAFile

(* What the callers see is one graph, as with the RAM backend: loading,     *)
(* copying and discarding rows changes nothing they see, a flush saves all  *)
(* of it, and a failure loses all that was not flushed.  The exceptions are *)
(* the writers that lossy names.                                            *)
Ram == INSTANCE GraphAbs WITH
  Rows <- Row, EdgeSets <- SUBSET Edge, rows <- ViewRows, edges <- ViewEdges,
  keptRows <- sqlRows, keptEdges <- sqlEdges

ImplementsRamUnlessLossy ==
  Ram!AbsInit /\ [][Ram!AbsNext \/ lossy']_<<ViewRows, ViewEdges, sqlRows, sqlEdges>>

(* What a batch wrote is in the tables when its overlay is thrown away      *)
(* (graph_view.rs:162: "SQLite ingest mutates a working-set overlay then    *)
(* flushes via apply_delta").                                               *)
BatchIsFlushed ==
  [][section.kind = "ingest" /\ section' = Idle /\ faults' = faults =>
       UNCHANGED <<ViewRows, ViewEdges>>]_vars

(* A live row is saved with the calls it has, whatever calls the row of the *)
(* body it replaces, which an earlier batch saved, still has                *)
(* (index_model.rs:83: "Stable edge id including source revision").         *)
Calls(edges) == {e \in edges : e.site \in CallSites}

CallsStayWithTheLiveRow ==
  [][section.kind = "ingest" /\ section.stage = "write" /\ section'.stage = "between" =>
       \A r \in WithStatus(mem.rows, mem.byFile[section.file], "Active") :
         (\A q \in Loaded \ {r} : /\ mem.rows[q].status = "Tombstone"
                                 /\ sqlRows[q] # None /\ sqlRows[q].status = "Active") =>
           Calls(sqlEdges'[r]) = Calls(mem.edges[r])]_vars

(* The graph behaves as the RAM backend's without exception.                *)
ImplementsRam == Ram!AbsSpec

(* A row that is a tombstone in the overlay is not the primary of a view.   *)
PrimaryIsLive ==
  \A i \in Idents : ViewPrimary(i) # None =>
    ViewRows[ViewPrimary(i)].status \in {"Active", "Speculative"}
=============================================================================
