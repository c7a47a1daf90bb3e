------------------------------- MODULE Ingest -------------------------------
(* From files to rows: the file-system sync drains the files that changed,  *)
(* apply_index_events parses them and, one file at a time, gives every      *)
(* symbol an identity and a row.  A symbol whose body is like that of a     *)
(* tombstone takes over the tombstone's identity (rename detection); an     *)
(* edited symbol gets a new row and its old one becomes a tombstone; what   *)
(* the file no longer has becomes a tombstone with a deletion marker.       *)
(*                                                                          *)
(* One branch, the graph in memory (JSON backend) and the daemon's mutation *)
(* pipeline as one step: WriteCoordinator has the pipeline, GraphOverlay    *)
(* the overlay, Branches the branches.  A symbol is a name in a file with a *)
(* body; the file hub, which takes no part in rename detection, is left out.*)
EXTENDS Naturals, FiniteSets, FiniteSetsExt

CONSTANTS Files, Names,    \* paths, and names of symbols in a file
          Bodies,          \* texts of a symbol, without its name
          Family,          \* the bodies that are like each other share a family
          Stub,            \* the family of bodies without a meaningful token
          None,            \* no symbol, no file, no row
          MaxEdits,        \* bound on the edits of files
          MaxMerges        \* bound on the merges that lock the branch

ASSUME IngestAssumption ==
  /\ Family \in [Bodies -> STRING \cup {Stub}]
  /\ None \notin Files \cup Names \cup Bodies /\ "stable" \notin Bodies
  /\ MaxEdits \in Nat /\ MaxMerges \in Nat

VARIABLES
  disk,      \* what each file contains: a body or None per name; None when deleted
  changed,   \* files with an event in the debouncer
  locked,    \* a merge holds the lock of the branch
  batch,     \* the files of the batch still to apply, with the symbols the
             \* pre-parse found in them
  job,       \* the file being applied, None between files
  row,       \* the rows of the graph by revision id, None where there is none
  deleted,   \* identities with a deletion marker
  edits, merges,   \* what is left of the bounds
  bound,     \* local_bindings: the identity each symbol was given last
  clashed,   \* a symbol was given the identity of another one, and
  displaced, \* the row of a symbol the place of another one's (read by properties)
  dropped    \* files with an event that nobody will apply (read by properties)

noted == <<clashed, displaced>>
vars == <<disk, changed, locked, batch, job, row, deleted, edits, merges, bound, noted, dropped>>

---------------------------------------------------------------------------
(* Identities and revision ids are hashes of what they name; a revision id  *)
(* either has the stable slot of its symbol or the slot of one body of it.  *)

Identities == Files \X Names
Slots == {"stable"} \cup Bodies
Rids == Files \X Names \X Slots

Stable(f, n) == <<f, n, "stable">>
ByContent(f, n, b) == <<f, n, b>>

RowRecord == [ident : Identities, file : Files, name : Names, body : Bodies,
              status : {"Active", "Tombstone"}, parent : Rids \cup {None}]

Contents == [Names -> Bodies \cup {None}]
Symbols(text) == {n \in Names : text[n] # None}

Jobs == [file : Files, text : Contents, todo : SUBSET Names, claimed : SUBSET Rids]

(* None is neither a job nor a row.                                         *)
ASSUME NoJobAssumption == None \notin Jobs
ASSUME NoRowAssumption == None \notin RowRecord

Rows == {r \in Rids : row[r] # None}
LiveRows == {r \in Rows : row[r].status = "Active"}
Tombstones == Rows \ LiveRows

(* primary_revision_for_identity: only a live row is ever bound.            *)
PrimaryRows(i) == {r \in LiveRows : row[r].ident = i}

(* Bodies of one family pass the thresholds of the body signal in a file;   *)
(* across files only equal text does.  The name signal alone decides        *)
(* nothing: in a file the bodies are there to compare with, across files    *)
(* the body signal is required.                                             *)
Alike(a, b) == Family[a] = Family[b] /\ Family[a] # Stub

---------------------------------------------------------------------------
(* Rename detection of one symbol                                           *)

(* combined_confidence, the maximum of the signals: 2 stands for 1.0.       *)
Confidence(r, n, b) == IF row[r].name = n \/ row[r].body = b THEN 2 ELSE 1

(* The tombstones with the best confidence; of equal ones the first in the  *)
(* order of the file's vector or of a hash map is taken.                    *)
Best(cands, n, b) ==
  {r \in cands : \A q \in cands : Confidence(q, n, b) <= Confidence(r, n, b)}

TombstoneRenames(f, n, b, claimed) ==
  Best({r \in Tombstones \ claimed : row[r].file = f /\ Alike(row[r].body, b)}, n, b)

CrossFileRenames(f, n, b, claimed) ==
  Best({r \in Tombstones \ claimed :
          row[r].file # f /\ row[r].body = b /\ Alike(row[r].body, b)}, n, b)

(* resolve_or_create: the tombstone to take over, of the file if there is   *)
(* one; None means the identity proposed for the symbol.  The provisional   *)
(* CAS (try_allocate, poll_ready) hands out that identity too, since it is  *)
(* a hash of the same path and name.                                        *)
Renames(f, n, b, claimed) ==
  LET here == TombstoneRenames(f, n, b, claimed)
      elsewhere == CrossFileRenames(f, n, b, claimed)
  IN  IF here # {} THEN here ELSE IF elsewhere # {} THEN elsewhere ELSE {None}

IdentityOf(f, n, tomb) == IF tomb = None THEN <<f, n>> ELSE row[tomb].ident

---------------------------------------------------------------------------
(* Writing the row of one symbol                                            *)

(* retire_revision_to_tombstone.                                            *)
Retire(rows, r) == [rows EXCEPT ![r].status = "Tombstone"]

PutRow(rows, r, i, f, n, b, parent) ==
  [rows EXCEPT ![r] = [ident |-> i, file |-> f, name |-> n, body |-> b,
                       status |-> "Active", parent |-> parent]]

SameBody(r, n, b) == row[r].name = n /\ row[r].body = b

(* Mutant: the in-place edit leaves the row it replaces alive.              *)
UpsertBeside(i, f, n, b) ==
  IF PrimaryRows(i) = {}
  THEN PutRow(row, Stable(f, n), i, f, n, b, None)
  ELSE LET prev == CHOOSE r \in PrimaryRows(i) : TRUE
       IN  IF SameBody(prev, n, b)
           THEN PutRow(row, prev, i, f, n, b, row[prev].parent)
           ELSE PutRow(row, ByContent(f, n, b), i, f, n, b, prev)

(* The row of symbol n of file f with body b and identity i: the row that   *)
(* is there already, a new one beside the retired one, or the stable slot.  *)
Upsert(i, f, n, b) ==
  IF PrimaryRows(i) = {}
  THEN PutRow(row, Stable(f, n), i, f, n, b, None)
  ELSE LET prev == CHOOSE r \in PrimaryRows(i) : TRUE
       IN  IF SameBody(prev, n, b)
           THEN PutRow(row, prev, i, f, n, b, row[prev].parent)
           ELSE PutRow(Retire(row, prev), ByContent(f, n, b), i, f, n, b, prev)

(* Mutant: the marker of an identity that is back is kept.                  *)
ClearKeeps(i) == deleted
(* clear_deleted.                                                           *)
ClearDeleted(i) == deleted \ {i}

(* tombstone_orphaned_file_symbols: the live rows of the file whose         *)
(* identity no symbol of the file proposes.                                 *)
Orphans(f, names) ==
  {r \in LiveRows : row[r].file = f /\ row[r].ident \notin {<<f, n>> : n \in names}}

Buried(orphans) == [r \in Rids |-> IF r \in orphans THEN [row[r] EXCEPT !.status = "Tombstone"]
                                   ELSE row[r]]

---------------------------------------------------------------------------
(* Files change under the daemon                                            *)

Init ==
  /\ disk = [f \in Files |-> None]
  /\ changed = {} /\ batch = {} /\ job = None /\ locked = FALSE
  /\ row = [r \in Rids |-> None] /\ deleted = {}
  /\ edits = MaxEdits /\ merges = MaxMerges
  /\ bound = [i \in Identities |-> None] /\ clashed = FALSE
  /\ displaced = FALSE /\ dropped = {}

daemon == <<locked, batch, job, row, deleted, merges, bound, noted>>

(* A program writes a file; the watcher schedules an event for it.          *)
Write(f, text) ==
  /\ edits > 0 /\ text # disk[f]
  /\ disk' = [disk EXCEPT ![f] = text]
  /\ changed' = changed \cup {f} /\ edits' = edits - 1
  /\ dropped' = dropped \ {f}
  /\ UNCHANGED daemon

(* A merge takes the lock of the branch, and gives it back.                 *)
StartMerge == /\ merges > 0 /\ ~locked
              /\ locked' = TRUE /\ merges' = merges - 1
              /\ UNCHANGED <<disk, changed, batch, job, row, deleted, edits, bound, noted, dropped>>
EndMerge == /\ locked /\ locked' = FALSE
            /\ UNCHANGED <<disk, changed, batch, job, row, deleted, edits, merges, bound,
                          noted, dropped>>

---------------------------------------------------------------------------
(* apply_index_events                                                       *)

Parse(f) == IF disk[f] = None THEN {} ELSE Symbols(disk[f])

(* flush_debounced_reindex drains the debouncer: every event becomes a      *)
(* Modified one.  The files are parsed before the first one is applied.     *)
StartBatch ==
  /\ batch = {} /\ job = None /\ changed # {}
  /\ batch' = {[file |-> f, text |-> disk[f]] : f \in changed}
  /\ changed' = {}
  /\ UNCHANGED <<disk, locked, job, row, deleted, edits, merges, bound, noted, dropped>>

(* The branch is being merged: the event goes to the queue of this call of  *)
(* reindex_paths_on_coordinator, which nobody drains.                       *)
SkipLocked(e) ==
  /\ e \in batch /\ job = None /\ locked
  /\ batch' = batch \ {e} /\ dropped' = dropped \cup {e.file}
  /\ UNCHANGED <<disk, changed, locked, job, row, deleted, edits, merges, bound, noted>>

(* The file cannot be read: a parse error, and the next event.              *)
SkipUnreadable(e) ==
  /\ e \in batch /\ job = None /\ ~locked /\ disk[e.file] = None
  /\ batch' = batch \ {e} /\ dropped' = dropped \cup {e.file}
  /\ UNCHANGED <<disk, changed, locked, job, row, deleted, edits, merges, bound, noted>>

(* The file is read again; the symbols are those of the pre-parse if it     *)
(* found the file, and their bodies are cut out of the text of now at the   *)
(* places of then, which is any text when the file changed in between.      *)
BodiesOf(e) ==
  IF e.text \in {None, disk[e.file]} THEN {disk[e.file]}
  ELSE {t \in Contents : Symbols(t) = Symbols(e.text)}

(* The mutation of the file begins: what it no longer has is buried.        *)
StartFile(e, text) ==
  LET orphans == Orphans(e.file, Symbols(text))
  IN  /\ e \in batch /\ job = None /\ ~locked /\ disk[e.file] # None
      /\ text \in BodiesOf(e)
      /\ batch' = batch \ {e}
      /\ job' = [file |-> e.file, text |-> text, todo |-> Symbols(text), claimed |-> {}]
      /\ row' = Buried(orphans)
      /\ deleted' = deleted \cup {row[r].ident : r \in orphans}
      /\ bound' = [i \in Identities |-> IF i[1] = e.file THEN None ELSE bound[i]]
      /\ UNCHANGED <<disk, changed, locked, edits, merges, noted, dropped>>

(* The live row of another symbol is overwritten by one of another identity:*)
(* a row that a symbol of this file had keeps its id when a symbol of       *)
(* another file takes it over with its body, and the place is given again.  *)
Displaces(n) ==
  \E j \in Identities \ {<<job.file, n>>} :
    \E r \in PrimaryRows(bound[j]) : row'[r].ident # bound[j]

(* The next symbol of the file gets its identity and its row.               *)
IndexSymbol(n, tomb) ==
  /\ job # None /\ n \in job.todo
  /\ tomb \in Renames(job.file, n, job.text[n], job.claimed)
  /\ LET i == IdentityOf(job.file, n, tomb)
     IN  /\ row' = Upsert(i, job.file, n, job.text[n])
         /\ deleted' = ClearDeleted(i)
         /\ bound' = [bound EXCEPT ![<<job.file, n>>] = i]
         /\ clashed' = (clashed \/ \E j \in Identities \ {<<job.file, n>>} : bound[j] = i)
         /\ displaced' = (displaced \/ Displaces(n))
  /\ job' = [job EXCEPT !.todo = @ \ {n}, !.claimed = @ \cup ({tomb} \ {None})]
  /\ UNCHANGED <<disk, changed, locked, batch, edits, merges, dropped>>

(* Mutant: the file counts as applied, whatever happened to it meanwhile.   *)
FinishFileForgets ==
  /\ job # None /\ job.todo = {}
  /\ job' = None /\ changed' = changed \ {job.file}
  /\ UNCHANGED <<disk, locked, batch, row, deleted, edits, merges, bound, noted, dropped>>
(* The mutation commits.                                                    *)
FinishFile ==
  /\ job # None /\ job.todo = {}
  /\ job' = None
  /\ UNCHANGED <<disk, changed, locked, batch, row, deleted, edits, merges, bound,
                 noted, dropped>>

Apply == \/ StartBatch \/ FinishFile
         \/ \E e \in batch : \/ SkipLocked(e) \/ SkipUnreadable(e)
                             \/ \E text \in Contents : StartFile(e, text)
         \/ \E n \in Names, tomb \in Rids \cup {None} : IndexSymbol(n, tomb)

Next == \/ \E f \in Files, text \in Contents \cup {None} : Write(f, text)
        \/ StartMerge \/ EndMerge \/ Apply

Spec == Init /\ [][Next]_vars
(* The sync loop runs for ever, and a merge ends (MergeSaga: LockIsGivenBack). *)
FairSpec == Spec /\ WF_vars(Apply) /\ WF_vars(EndMerge)

---------------------------------------------------------------------------
(* Properties                                                               *)

TypeOK ==
  /\ disk \in [Files -> Contents \cup {None}]
  /\ changed \subseteq Files /\ dropped \subseteq Files /\ locked \in BOOLEAN
  /\ batch \subseteq [file : Files, text : Contents \cup {None}]
  /\ job \in Jobs \cup {None}
  /\ row \in [Rids -> RowRecord \cup {None}] /\ deleted \subseteq Identities
  /\ edits \in 0..MaxEdits /\ merges \in 0..MaxMerges
  /\ bound \in [Identities -> Identities \cup {None}]

(* An identity never has two live rows, whatever is renamed, edited or      *)
(* moved between files: a query for it has one answer.                      *)
OneLiveRow == \A i \in Identities : Cardinality(PrimaryRows(i)) <= 1

(* No live row is hidden by the deletion marker of its identity             *)
(* (deletion_absence.rs): what a file has again is found again.             *)
LiveIsNotDeleted == \A r \in LiveRows : row[r].ident \notin deleted

(* When the sync has nothing left to do, every symbol of a file has a live  *)
(* row with its body, through edits, renames, moves between files and files *)
(* that change between the two reads; but for an event that was dropped, and*)
(* a symbol that was given the identity or the place of another one.        *)
LiveNames(f) == {<<row[r].name, row[r].body>> : r \in {q \in LiveRows : row[q].file = f}}
Idle == job = None /\ batch = {} /\ changed = {}

SymbolsAreLive ==
  Idle /\ ~clashed /\ ~displaced =>
    \A f \in Files \ dropped : disk[f] # None =>
      {<<n, disk[f][n]>> : n \in Symbols(disk[f])} \subseteq LiveNames(f)

(* Conversely, a live row of a file is a symbol of it.                      *)
RowsAreSymbols ==
  Idle /\ ~clashed =>
    \A f \in Files \ dropped : disk[f] # None =>
      LiveNames(f) \subseteq {<<n, disk[f][n]>> : n \in Symbols(disk[f])}

(* Two symbols never have one identity: resolve_or_create claims a          *)
(* tombstone once ("second symbol must not re-claim the same tombstone").    *)
DistinctIdentities == ~clashed

(* The event of a file that is there is applied in the end, also when a     *)
(* merge held the branch (ingest.rs:146: "the event is re-queued").         *)
RequeuedIsApplied == \A f \in dropped : disk[f] = None

(* A row is only ever overwritten by a row of the same identity.            *)
StableSlotKept ==
  [][\A r \in Rows : row'[r].ident = row[r].ident]_row

=============================================================================
