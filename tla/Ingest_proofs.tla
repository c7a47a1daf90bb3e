--------------------------- MODULE Ingest_proofs ---------------------------
(* Whatever is renamed, edited, moved or deleted, and in whatever order     *)
(* files change under a batch: an identity has at most one live row, and no *)
(* live row is hidden by a deletion marker, for any sets of files, names    *)
(* and bodies and any likeness of bodies.                                   *)
EXTENDS Ingest, FiniteSetTheorems, TLAPS

---------------------------------------------------------------------------
(* One live row per identity, without cardinalities.                        *)
AtMostOne == \A q, r \in LiveRows : row[q].ident = row[r].ident => q = r

Typed == row \in [Rids -> RowRecord \cup {None}]

IngestInv == Typed /\ AtMostOne /\ LiveIsNotDeleted

(* What a symbol resolves to is an identity, its own or one of a tombstone. *)
LEMMA IdentityIsTyped ==
  ASSUME Typed, NEW f \in Files, NEW n \in Names, NEW b \in Bodies, NEW claimed,
         NEW tomb \in Renames(f, n, b, claimed)
  PROVE  IdentityOf(f, n, tomb) \in Identities /\ tomb \in Tombstones \cup {None}
  <1>1. tomb = None \/ tomb \in Tombstones
    BY DEF Renames, TombstoneRenames, CrossFileRenames, Best
  <1> QED BY <1>1 DEF IdentityOf, Identities, Tombstones, Rows, Typed, RowRecord

(* The row of a symbol: of the rows of its identity only the one it puts is *)
(* alive, and the rows of others are what they were or have been replaced.  *)
LEMMA UpsertWrites ==
  ASSUME IngestInv, NEW i \in Identities, NEW f \in Files, NEW n \in Names, NEW b \in Bodies
  PROVE  \E r \in Rids :
           /\ Upsert(i, f, n, b) \in [Rids -> RowRecord \cup {None}]
           /\ LET new == Upsert(i, f, n, b)[r]
              IN  /\ new \in RowRecord
                  /\ new.ident = i /\ new.file = f /\ new.name = n /\ new.body = b
                  /\ new.status = "Active"
           /\ \A q \in Rids \ {r} :
                \/ Upsert(i, f, n, b)[q] = row[q] /\ ~(q \in LiveRows /\ row[q].ident = i)
                \/ Upsert(i, f, n, b)[q].status = "Tombstone" /\ row[q].ident = i
  <1> USE DEF IngestInv, Typed
  <1>1. CASE PrimaryRows(i) = {}
    <2>1. Stable(f, n) \in Rids
      BY DEF Stable, Rids, Slots
    <2>2. [ident |-> i, file |-> f, name |-> n, body |-> b, status |-> "Active", parent |-> None]
            \in RowRecord
      BY DEF RowRecord
    <2>3. \A q \in Rids : ~(q \in LiveRows /\ row[q].ident = i)
      BY <1>1 DEF PrimaryRows
    <2> QED BY <1>1, <2>1, <2>2, <2>3 DEF Upsert, PutRow
  <1>2. CASE PrimaryRows(i) # {}
    <2> DEFINE prev == CHOOSE r \in PrimaryRows(i) : TRUE
    <2>1. prev \in LiveRows /\ row[prev].ident = i
      BY <1>2 DEF PrimaryRows
    <2>2. prev \in Rids /\ row[prev] \in RowRecord
      BY <2>1 DEF LiveRows, Rows
    <2>3. \A q \in Rids \ {prev} : ~(q \in LiveRows /\ row[q].ident = i)
      BY <2>1 DEF AtMostOne
    <2> HIDE DEF prev
    <2>4. CASE SameBody(prev, n, b)
      <3>1. Upsert(i, f, n, b) = PutRow(row, prev, i, f, n, b, row[prev].parent)
        BY <1>2, <2>4 DEF Upsert, prev
      <3>2. [ident |-> i, file |-> f, name |-> n, body |-> b, status |-> "Active",
             parent |-> row[prev].parent] \in RowRecord
        BY <2>2 DEF RowRecord
      <3> QED BY <2>2, <2>3, <3>1, <3>2 DEF PutRow
    <2>5. CASE ~SameBody(prev, n, b)
      <3>1. Upsert(i, f, n, b) = PutRow(Retire(row, prev), ByContent(f, n, b), i, f, n, b, prev)
        BY <1>2, <2>5 DEF Upsert, prev
      <3>2. ByContent(f, n, b) \in Rids
        BY DEF ByContent, Rids, Slots
      <3>3. [ident |-> i, file |-> f, name |-> n, body |-> b, status |-> "Active", parent |-> prev]
              \in RowRecord
        BY <2>2 DEF RowRecord
      <3>4. [row[prev] EXCEPT !.status = "Tombstone"] \in RowRecord
        BY <2>2 DEF RowRecord
      <3>5. Retire(row, prev) = [row EXCEPT ![prev] = [row[prev] EXCEPT !.status = "Tombstone"]]
        BY <2>2 DEF Retire
      <3>6. Retire(row, prev) \in [Rids -> RowRecord \cup {None}]
        BY <2>2, <3>4, <3>5
      <3>7. [row[prev] EXCEPT !.status = "Tombstone"].status = "Tombstone"
        BY <2>2 DEF RowRecord
      <3> DEFINE r == ByContent(f, n, b)
                 new == [ident |-> i, file |-> f, name |-> n, body |-> b, status |-> "Active",
                         parent |-> prev]
                 old == [row[prev] EXCEPT !.status = "Tombstone"]
      <3>8. Upsert(i, f, n, b) = [Retire(row, prev) EXCEPT ![r] = new]
        BY <3>1 DEF PutRow
      <3>9. /\ new \in RowRecord
            /\ new.ident = i /\ new.file = f /\ new.name = n /\ new.body = b
            /\ new.status = "Active"
        BY <3>3
      <3> HIDE DEF r, new, old
      <3>10. \A q \in Rids \ {r, prev} : Upsert(i, f, n, b)[q] = row[q]
        BY <3>5, <3>6, <3>8
      <3>11. prev # r => Upsert(i, f, n, b)[prev].status = "Tombstone"
        BY <2>2, <3>5, <3>6, <3>7, <3>8 DEF old
      <3>12. Upsert(i, f, n, b) \in [Rids -> RowRecord \cup {None}] /\ Upsert(i, f, n, b)[r] = new
        BY <3>2, <3>3, <3>6, <3>8 DEF r, new
      <3>13. \A q \in Rids \ {r} :
                \/ Upsert(i, f, n, b)[q] = row[q] /\ ~(q \in LiveRows /\ row[q].ident = i)
                \/ Upsert(i, f, n, b)[q].status = "Tombstone" /\ row[q].ident = i
        BY <2>1, <2>3, <3>10, <3>11
      <3> QED BY <3>2, <3>9, <3>12, <3>13 DEF r
    <2> QED BY <2>4, <2>5
  <1> QED BY <1>1, <1>2

---------------------------------------------------------------------------
LEMMA InitInv == Init => IngestInv
  BY DEF Init, IngestInv, Typed, AtMostOne, LiveIsNotDeleted, LiveRows, Rows

(* What a file no longer has is buried, and only that is marked.            *)
LEMMA StartFileInv ==
  ASSUME IngestInv, NEW e \in batch, NEW text, StartFile(e, text)
  PROVE  IngestInv'
  <1> USE DEF IngestInv
  <1> DEFINE orphans == Orphans(e.file, Symbols(text))
  <1>1. /\ row' = Buried(orphans)
        /\ deleted' = deleted \cup {row[r].ident : r \in orphans}
    BY DEF StartFile
  <1>2. \A r \in orphans : r \in LiveRows
    BY DEF Orphans
  <1>3. \A r \in LiveRows : r \in Rids /\ row[r] \in RowRecord
    BY DEF LiveRows, Rows, Typed
  <1> HIDE DEF orphans
  <1>4. \A r \in Rids : row'[r] = IF r \in orphans THEN [row[r] EXCEPT !.status = "Tombstone"]
                                   ELSE row[r]
    BY <1>1 DEF Buried
  <1>5. \A r \in orphans : [row[r] EXCEPT !.status = "Tombstone"] \in RowRecord
    BY <1>2, <1>3 DEF RowRecord
  <1>6. Typed'
    BY <1>1, <1>5 DEF Typed, Buried
  <1>10. \A r \in orphans : [row[r] EXCEPT !.status = "Tombstone"].status = "Tombstone"
    BY <1>2, <1>3 DEF RowRecord
  <1>7. \A r \in LiveRows' : r \in LiveRows /\ r \notin orphans /\ row'[r] = row[r]
    BY <1>4, <1>10 DEF LiveRows, Rows
  <1>8. AtMostOne'
    BY <1>7 DEF AtMostOne
  <1>9. LiveIsNotDeleted'
    BY <1>1, <1>2, <1>7 DEF LiveIsNotDeleted, AtMostOne
  <1> QED BY <1>6, <1>8, <1>9

(* A symbol's row is the only live one of its identity, which is unmarked.  *)
LEMMA IndexSymbolInv ==
  ASSUME IngestInv, job # None => job.file \in Files /\ job.text \in Contents,
         NEW n \in Names, NEW tomb, IndexSymbol(n, tomb),
         job # None => job.todo \subseteq Symbols(job.text)
  PROVE  IngestInv'
  <1> USE DEF IngestInv
  <1> DEFINE i == IdentityOf(job.file, n, tomb)
  <1>1. /\ job # None /\ n \in job.todo
        /\ tomb \in Renames(job.file, n, job.text[n], job.claimed)
        /\ row' = Upsert(i, job.file, n, job.text[n])
        /\ deleted' = ClearDeleted(i)
    BY DEF IndexSymbol
  <1>2. job.file \in Files /\ job.text[n] \in Bodies
    BY <1>1 DEF Symbols, Contents
  <1>3. i \in Identities
    BY <1>1, <1>2, IdentityIsTyped
  <1> HIDE DEF i
  <1>4. PICK r \in Rids :
           /\ row' \in [Rids -> RowRecord \cup {None}] /\ row'[r].ident = i
           /\ \A q \in Rids \ {r} :
                \/ row'[q] = row[q] /\ ~(q \in LiveRows /\ row[q].ident = i)
                \/ row'[q].status = "Tombstone"
    BY <1>1, <1>2, <1>3, UpsertWrites
  <1>5. \A q \in LiveRows' : q # r => q \in LiveRows /\ row'[q] = row[q] /\ row[q].ident # i
    BY <1>4 DEF LiveRows, Rows
  <1>6. AtMostOne'
    BY <1>4, <1>5 DEF AtMostOne
  <1>7. LiveIsNotDeleted'
    BY <1>1, <1>4, <1>5 DEF LiveIsNotDeleted, ClearDeleted
  <1> QED BY <1>4, <1>6, <1>7 DEF Typed

---------------------------------------------------------------------------
(* The states of the sync, for the symbols of a job to be symbols.          *)
LEMMA InitType == Init => TypeOK
  <1> SUFFICES ASSUME Init PROVE TypeOK
    OBVIOUS
  <1>1. edits \in 0..MaxEdits /\ merges \in 0..MaxMerges
    BY IngestAssumption DEF Init
  <1>2. /\ disk \in [Files -> Contents \cup {None}] /\ row \in [Rids -> RowRecord \cup {None}]
        /\ bound \in [Identities -> Identities \cup {None}]
    BY DEF Init
  <1> QED BY <1>1, <1>2 DEF Init, TypeOK

JobTyped == job # None => job.todo \subseteq Symbols(job.text)

(* The text of a job is one that the file may contain.                      *)
LEMMA StartFileType ==
  ASSUME TypeOK, JobTyped, NEW e \in batch, NEW text, StartFile(e, text)
  PROVE  TypeOK' /\ JobTyped'
  <1> USE DEF TypeOK, Jobs
  <1>1. e.file \in Files /\ disk[e.file] \in Contents
    BY DEF StartFile
  <1>2. text \in Contents
    BY <1>1 DEF StartFile, BodiesOf
  <1>3. Symbols(text) \subseteq Names
    BY DEF Symbols
  <1>4. job' = [file |-> e.file, text |-> text, todo |-> Symbols(text), claimed |-> {}]
    BY DEF StartFile
  <1>5. job' \in Jobs /\ JobTyped'
    BY <1>1, <1>2, <1>3, <1>4 DEF JobTyped
  <1>6. \A r \in Orphans(e.file, Symbols(text)) :
          /\ row[r].ident \in Identities
          /\ [row[r] EXCEPT !.status = "Tombstone"] \in RowRecord
    BY DEF Orphans, LiveRows, Rows, RowRecord
  <1>7. row' \in [Rids -> RowRecord \cup {None}] /\ deleted' \subseteq Identities
    BY <1>6 DEF StartFile, Buried
  <1>8. bound' \in [Identities -> Identities \cup {None}]
    BY DEF StartFile
  <1> QED BY <1>5, <1>7, <1>8 DEF StartFile

LEMMA IndexSymbolType ==
  ASSUME TypeOK, JobTyped, IngestInv, NEW n \in Names, NEW tomb, IndexSymbol(n, tomb), IngestInv'
  PROVE  TypeOK' /\ JobTyped'
  <1> USE DEF TypeOK, Jobs
  <1> DEFINE i == IdentityOf(job.file, n, tomb)
  <1>1. /\ job # None /\ n \in job.todo
        /\ tomb \in Renames(job.file, n, job.text[n], job.claimed)
        /\ deleted' = ClearDeleted(i)
        /\ bound' = [bound EXCEPT ![<<job.file, n>>] = i]
        /\ job' = [job EXCEPT !.todo = @ \ {n}, !.claimed = @ \cup ({tomb} \ {None})]
    BY DEF IndexSymbol
  <1>2. job \in Jobs
    BY <1>1
  <1>3. job.file \in Files /\ job.text[n] \in Bodies
    BY <1>1, <1>2 DEF Symbols, Contents, JobTyped
  <1>4. i \in Identities /\ tomb \in Tombstones \cup {None}
    BY <1>1, <1>3, IdentityIsTyped DEF IngestInv
  <1>5. {tomb} \ {None} \subseteq Rids
    BY <1>4 DEF Tombstones, Rows
  <1> HIDE DEF i
  <1>6. job' \in Jobs /\ JobTyped'
    BY <1>1, <1>2, <1>5 DEF JobTyped
  <1>7. bound' \in [Identities -> Identities \cup {None}]
    BY <1>1, <1>4
  <1>8. deleted' \subseteq Identities
    BY <1>1 DEF ClearDeleted
  <1> QED BY <1>6, <1>7, <1>8 DEF IndexSymbol, IngestInv, Typed

(* Every other step leaves rows and markers alone.                          *)
LEMMA OtherSteps ==
  ASSUME TypeOK, JobTyped,
         \/ \E f \in Files, text \in Contents \cup {None} : Write(f, text)
         \/ StartMerge \/ EndMerge \/ StartBatch \/ FinishFile
         \/ \E e \in batch : SkipLocked(e) \/ SkipUnreadable(e)
  PROVE  TypeOK' /\ JobTyped' /\ UNCHANGED <<row, deleted>>
  <1> USE IngestAssumption DEF TypeOK, JobTyped, Jobs
  <1>1. ASSUME NEW f \in Files, NEW text \in Contents \cup {None}, Write(f, text)
        PROVE  TypeOK' /\ JobTyped' /\ UNCHANGED <<row, deleted>>
    BY <1>1 DEF Write, daemon
  <1>2. CASE StartMerge
    BY <1>2 DEF StartMerge
  <1>3. CASE EndMerge
    BY <1>3 DEF EndMerge
  <1>4. CASE StartBatch
    BY <1>4 DEF StartBatch
  <1>5. CASE FinishFile
    BY <1>5 DEF FinishFile
  <1>6. ASSUME NEW e \in batch, SkipLocked(e) \/ SkipUnreadable(e)
        PROVE  TypeOK' /\ JobTyped' /\ UNCHANGED <<row, deleted>>
    BY <1>6 DEF SkipLocked, SkipUnreadable
  <1> QED BY <1>1, <1>2, <1>3, <1>4, <1>5, <1>6

---------------------------------------------------------------------------
(* The whole pipeline keeps its types, has at most one live row for an      *)
(* identity and never marks the identity of a live row as deleted.          *)
THEOREM IngestInvariance == Spec => [](TypeOK /\ JobTyped /\ IngestInv)
  <1>1. Init => TypeOK /\ JobTyped /\ IngestInv
    BY InitType, InitInv DEF Init, JobTyped
  <1>2. TypeOK /\ JobTyped /\ IngestInv /\ [Next]_vars => (TypeOK /\ JobTyped /\ IngestInv)'
    <2> SUFFICES ASSUME TypeOK, JobTyped, IngestInv, [Next]_vars
                 PROVE  (TypeOK /\ JobTyped /\ IngestInv)'
      OBVIOUS
    <2>1. ASSUME UNCHANGED <<row, deleted>>
          PROVE  IngestInv'
      BY <2>1 DEF IngestInv, Typed, AtMostOne, LiveIsNotDeleted, LiveRows, Rows
    <2>2. ASSUME NEW e \in batch, NEW text \in Contents, StartFile(e, text)
          PROVE  (TypeOK /\ JobTyped /\ IngestInv)'
      BY <2>2, StartFileType, StartFileInv
    <2>3. ASSUME NEW n \in Names, NEW tomb \in Rids \cup {None}, IndexSymbol(n, tomb)
          PROVE  (TypeOK /\ JobTyped /\ IngestInv)'
      <3>1. job # None => job.file \in Files /\ job.text \in Contents
        BY DEF TypeOK, Jobs
      <3>2. job # None => job.todo \subseteq Symbols(job.text)
        BY DEF JobTyped
      <3>3. IngestInv'
        BY <2>3, <3>1, <3>2, IndexSymbolInv
      <3> QED BY <2>3, <3>3, IndexSymbolType
    <2>4. CASE UNCHANGED vars
      BY <2>1, <2>4 DEF vars, TypeOK, JobTyped, Symbols, Contents
    <2>5. CASE \/ \E f \in Files, text \in Contents \cup {None} : Write(f, text)
               \/ StartMerge \/ EndMerge \/ StartBatch \/ FinishFile
               \/ \E e \in batch : SkipLocked(e) \/ SkipUnreadable(e)
      BY <2>1, <2>5, OtherSteps
    <2> QED BY <2>2, <2>3, <2>4, <2>5 DEF Next, Apply
  <1> QED BY <1>1, <1>2, PTL DEF Spec

(* An identity never has two live rows: a query for it has one answer,      *)
(* through any edits, renames and moves. [identity_resolution.rs]           *)
THEOREM OneLiveRowAlways == Spec => []OneLiveRow
  <1>1. AtMostOne => OneLiveRow
    <2> SUFFICES ASSUME AtMostOne, NEW i \in Identities
                 PROVE  Cardinality(PrimaryRows(i)) <= 1
      BY DEF OneLiveRow
    <2>1. CASE PrimaryRows(i) = {}
      BY <2>1, FS_EmptySet
    <2>2. CASE PrimaryRows(i) # {}
      <3>1. PICK r \in PrimaryRows(i) : TRUE
        BY <2>2
      <3>2. PrimaryRows(i) = {r}
        BY <3>1 DEF PrimaryRows, AtMostOne
      <3> QED BY <3>2, FS_Singleton
    <2> QED BY <2>1, <2>2
  <1> QED BY <1>1, IngestInvariance, PTL DEF IngestInv

(* No live row is hidden by the deletion marker of its identity: what a     *)
(* file has again is found again. [deletion_absence.rs]                     *)
THEOREM LiveIsNotDeletedAlways == Spec => []LiveIsNotDeleted
  BY IngestInvariance, PTL DEF IngestInv
---------------------------------------------------------------------------
(* The symbols of the files keep their rows                                 *)

(* Symbol n of file f has a live row with body b, of the identity that the  *)
(* symbol was given last.                                                   *)
Lives(f, n, b) ==
  \E r \in LiveRows : /\ row[r].file = f /\ row[r].name = n /\ row[r].body = b
                      /\ row[r].ident = bound[<<f, n>>]

(* Nothing is left to do about a file.                                      *)
Settled(f) ==
  /\ f \notin changed \cup dropped /\ disk[f] # None
  /\ job # None => job.file # f
  /\ \A e \in batch : e.file # f

(* A file that did not change since it was read is what was read.           *)
ReadsAgree ==
  /\ \A e \in batch : e.file \notin changed => e.text = disk[e.file]
  /\ job # None /\ job.file \notin changed => job.text = disk[job.file]

(* Symbol n with body b is done: in the job, or in a settled file.          *)
Done(f, n, b) ==
  \/ job # None /\ job.file = f /\ n \notin job.todo /\ job.text[n] = b
  \/ Settled(f) /\ disk[f][n] = b

Kept == ~clashed /\ ~displaced =>
  \A f \in Files, n \in Names, b \in Bodies : Done(f, n, b) => Lives(f, n, b)

SymbolInv == ReadsAgree /\ Kept

(* The orphans of a file are rows of that file, and so are the bindings that*)
(* are reset: the symbols of settled files stay.                            *)
LEMMA StartFileKeeps ==
  ASSUME TypeOK, JobTyped, SymbolInv, NEW e \in batch, NEW text, StartFile(e, text)
  PROVE  SymbolInv'
  <1> DEFINE orphans == Orphans(e.file, Symbols(text))
  <1>1. /\ job = None /\ batch' = batch \ {e} /\ text \in BodiesOf(e)
        /\ job' = [file |-> e.file, text |-> text, todo |-> Symbols(text), claimed |-> {}]
        /\ row' = Buried(orphans)
        /\ bound' = [i \in Identities |-> IF i[1] = e.file THEN None ELSE bound[i]]
        /\ UNCHANGED <<disk, changed, noted, dropped>>
    BY DEF StartFile
  <1>2. e.file \notin changed => text = disk[e.file]
    BY <1>1 DEF SymbolInv, ReadsAgree, BodiesOf
  <1>3. ReadsAgree'
    BY <1>1, <1>2 DEF SymbolInv, ReadsAgree
  <1>4. \A r \in LiveRows : row[r].file # e.file => r \in LiveRows' /\ row'[r] = row[r]
    BY <1>1 DEF Orphans, Buried, LiveRows, Rows
  <1>5. ASSUME NEW f \in Files, f # e.file, NEW n \in Names, NEW b, Lives(f, n, b)
        PROVE  Lives(f, n, b)'
    <2>1. PICK r \in LiveRows : /\ row[r].file = f /\ row[r].name = n /\ row[r].body = b
                                /\ row[r].ident = bound[<<f, n>>]
      BY <1>5 DEF Lives
    <2>2. r \in LiveRows' /\ row'[r] = row[r]
      BY <1>4, <1>5, <2>1
    <2>3. bound'[<<f, n>>] = bound[<<f, n>>]
      BY <1>1, <1>5 DEF Identities
    <2> QED BY <2>1, <2>2, <2>3 DEF Lives
  <1>6. job' # None
    <2>1. e.file \in Files /\ disk[e.file] \in Contents
      BY DEF TypeOK, StartFile
    <2>2. job' \in Jobs
      BY <1>1, <2>1 DEF BodiesOf, Jobs, Symbols
    <2> QED BY <2>2, NoJobAssumption
  <1>7. ASSUME NEW f \in Files, NEW n \in Names, NEW b \in Bodies, Done(f, n, b)'
        PROVE  Done(f, n, b) /\ f # e.file
    <2>1. ~(job' # None /\ job'.file = f /\ n \notin job'.todo /\ job'.text[n] = b)
      BY <1>1, IngestAssumption DEF Symbols
    <2>2. Settled(f)' /\ disk'[f][n] = b
      BY <1>7, <2>1 DEF Done
    <2>3. f # e.file
      BY <1>1, <1>6, <2>2 DEF Settled
    <2>4. Settled(f)
      BY <1>1, <2>2, <2>3 DEF Settled
    <2> QED BY <1>1, <2>2, <2>3, <2>4 DEF Done
  <1>8. Kept'
    BY <1>1, <1>5, <1>7 DEF SymbolInv, Kept, noted
  <1> QED BY <1>3, <1>8 DEF SymbolInv

(* A symbol that is given its row takes no other symbol's row away, unless  *)
(* it takes its identity or its place, which the history variables note.    *)
LEMMA IndexSymbolKeeps ==
  ASSUME TypeOK, JobTyped, IngestInv, SymbolInv,
         NEW n \in Names, NEW tomb, IndexSymbol(n, tomb)
  PROVE  SymbolInv'
  <1> DEFINE i == IdentityOf(job.file, n, tomb)
  <1>1. /\ job # None /\ n \in job.todo
        /\ tomb \in Renames(job.file, n, job.text[n], job.claimed)
        /\ row' = Upsert(i, job.file, n, job.text[n])
        /\ bound' = [bound EXCEPT ![<<job.file, n>>] = i]
        /\ clashed' = (clashed \/ \E j \in Identities \ {<<job.file, n>>} : bound[j] = i)
        /\ displaced' = (displaced \/ Displaces(n))
        /\ job' = [job EXCEPT !.todo = @ \ {n}, !.claimed = @ \cup ({tomb} \ {None})]
        /\ UNCHANGED <<disk, changed, batch, dropped>>
    BY DEF IndexSymbol
  <1>2. job \in Jobs
    BY <1>1 DEF TypeOK
  <1>3. job.file \in Files /\ job.text[n] \in Bodies
    BY <1>1, <1>2 DEF Symbols, Contents, JobTyped, Jobs
  <1>4. i \in Identities
    BY <1>1, <1>3, IdentityIsTyped DEF IngestInv
  <1>5. /\ job' # None /\ job'.file = job.file /\ job'.text = job.text
        /\ job'.todo = job.todo \ {n}
    <2>1. {tomb} \ {None} \subseteq Rids
      BY <1>1, <1>3, IdentityIsTyped DEF IngestInv, Tombstones, Rows
    <2>2. job' \in Jobs
      BY <1>1, <1>2, <2>1 DEF Jobs
    <2>3. job'.file = job.file /\ job'.text = job.text /\ job'.todo = job.todo \ {n}
      BY <1>1, <1>2 DEF Jobs
    <2> QED BY <2>2, <2>3, NoJobAssumption
  <1> HIDE DEF i
  <1>6. PICK r \in Rids :
           /\ row' \in [Rids -> RowRecord \cup {None}] /\ row'[r] \in RowRecord
           /\ row'[r].ident = i /\ row'[r].file = job.file /\ row'[r].name = n
           /\ row'[r].body = job.text[n] /\ row'[r].status = "Active"
           /\ \A q \in Rids \ {r} :
                \/ row'[q] = row[q] /\ ~(q \in LiveRows /\ row[q].ident = i)
                \/ row'[q].status = "Tombstone" /\ row[q].ident = i
    BY <1>1, <1>3, <1>4, UpsertWrites
  <1>7. ReadsAgree'
    BY <1>1, <1>5 DEF SymbolInv, ReadsAgree
  <1>8. ASSUME ~clashed', ~displaced', NEW f \in Files, NEW m \in Names,
               <<f, m>> # <<job.file, n>>, NEW b, Lives(f, m, b)
        PROVE  Lives(f, m, b)'
    <2>1. PICK q \in LiveRows : /\ row[q].file = f /\ row[q].name = m /\ row[q].body = b
                                /\ row[q].ident = bound[<<f, m>>]
      BY <1>8 DEF Lives
    <2>2. <<f, m>> \in Identities /\ <<job.file, n>> \in Identities
      BY <1>3 DEF Identities
    <2>3. q \in Rids /\ row[q].ident # i
      BY <1>1, <1>8, <2>1, <2>2 DEF LiveRows, Rows
    <2>4. row'[q].ident = row[q].ident
      BY <1>1, <1>8, <2>1, <2>2 DEF Displaces, PrimaryRows
    <2>5. row'[q] = row[q]
      BY <1>6, <2>3, <2>4
    <2>6. bound'[<<f, m>>] = bound[<<f, m>>]
      BY <1>1, <1>8, <2>2 DEF TypeOK
    <2>7. q \in LiveRows'
      BY <2>1, <2>5 DEF LiveRows, Rows
    <2> QED BY <2>1, <2>5, <2>6, <2>7 DEF Lives
  <1>9. ASSUME NEW b, b = job.text[n], NEW f, f = job.file
        PROVE  Lives(f, n, b)'
    <2>1. r \in LiveRows'
      BY <1>6, NoRowAssumption DEF LiveRows, Rows
    <2>2. bound'[<<job.file, n>>] = i
      BY <1>1, <1>3 DEF TypeOK, Identities
    <2> QED BY <1>6, <1>9, <2>1, <2>2 DEF Lives
  <1>10. ASSUME ~clashed', ~displaced', NEW f \in Files, NEW m \in Names, NEW b \in Bodies,
                Done(f, m, b)'
         PROVE  Lives(f, m, b)'
    <2>1. ~clashed /\ ~displaced
      BY <1>1, <1>10
    <2>2. CASE f = job.file /\ m = n
      <3>1. ~Settled(f)'
        BY <1>5, <2>2 DEF Settled
      <3>2. job.text[n] = b
        BY <1>5, <1>10, <2>2, <3>1 DEF Done
      <3> QED BY <1>9, <2>2, <3>2
    <2>3. CASE ~(f = job.file /\ m = n)
      <3>1. Settled(f)' => Settled(f)
        BY <1>1, <1>5 DEF Settled
      <3>2. Done(f, m, b)
        BY <1>1, <1>5, <1>10, <2>3, <3>1 DEF Done
      <3>3. Lives(f, m, b)
        BY <2>1, <3>2 DEF SymbolInv, Kept
      <3> QED BY <1>8, <1>10, <2>3, <3>3
    <2> QED BY <2>2, <2>3
  <1>11. Kept'
    BY <1>10 DEF Kept
  <1> QED BY <1>7, <1>11 DEF SymbolInv

(* Steps that write no row: a file that is written or skipped is not        *)
(* settled, and one that is finished was read as it is.                     *)
LEMMA OthersKeep ==
  ASSUME TypeOK, SymbolInv,
         \/ \E f \in Files, text \in Contents \cup {None} : Write(f, text)
         \/ StartMerge \/ EndMerge \/ StartBatch \/ FinishFile
         \/ \E e \in batch : SkipLocked(e) \/ SkipUnreadable(e)
         \/ UNCHANGED vars
  PROVE  SymbolInv'
  <1> USE DEF SymbolInv, ReadsAgree
  <1>1. UNCHANGED <<row, bound, noted>>
    BY DEF Write, daemon, StartMerge, EndMerge, StartBatch, FinishFile, SkipLocked,
           SkipUnreadable, vars
  <1>2. ASSUME NEW f, NEW n, NEW b
        PROVE  Lives(f, n, b)' <=> Lives(f, n, b)
    BY <1>1 DEF Lives, LiveRows, Rows
  <1>3. ASSUME ReadsAgree', \A f \in Files, n \in Names, b \in Bodies : Done(f, n, b)' => Done(f, n, b)
        PROVE  SymbolInv'
    BY <1>1, <1>2, <1>3 DEF Kept, noted
  <1>4. ASSUME NEW g \in Files, NEW text \in Contents \cup {None}, Write(g, text)
        PROVE  SymbolInv'
    <2>1. /\ disk' = [disk EXCEPT ![g] = text] /\ changed' = changed \cup {g}
          /\ dropped' = dropped \ {g} /\ UNCHANGED <<job, batch>>
      BY <1>4 DEF Write, daemon
    <2>2. \A f \in Files : f # g => disk'[f] = disk[f]
      BY <2>1 DEF TypeOK
    <2>3. ReadsAgree'
      BY <2>1, <2>2 DEF TypeOK, Jobs
    <2>4. \A f \in Files, n \in Names, b \in Bodies : Done(f, n, b)' => Done(f, n, b)
      BY <2>1, <2>2 DEF Done, Settled
    <2> QED BY <1>3, <2>3, <2>4
  <1>5. CASE StartBatch
    <2>1. /\ job = None /\ batch' = {[file |-> f, text |-> disk[f]] : f \in changed}
          /\ changed' = {} /\ UNCHANGED <<disk, job, dropped>>
      BY <1>5 DEF StartBatch
    <2>2. ReadsAgree'
      BY <2>1
    <2>3. ASSUME NEW f \in changed
          PROVE  \E e \in batch' : e.file = f
      <3> DEFINE e == [file |-> f, text |-> disk[f]]
      <3>1. e \in batch' /\ e.file = f
        BY <2>1
      <3> QED BY <3>1
    <2>4. batch = {}
      BY <1>5 DEF StartBatch
    <2>5. ASSUME NEW f, Settled(f)'
          PROVE  Settled(f)
      BY <2>1, <2>3, <2>4, <2>5 DEF Settled
    <2>6. \A f \in Files, n \in Names, b \in Bodies : Done(f, n, b)' => Done(f, n, b)
      BY <2>1, <2>5 DEF Done
    <2> QED BY <1>3, <2>2, <2>6
  <1>6. CASE FinishFile
    <2>1. /\ job # None /\ job.todo = {} /\ job' = None
          /\ UNCHANGED <<disk, changed, batch, dropped>>
      BY <1>6 DEF FinishFile
    <2>2. ReadsAgree'
      BY <2>1
    <2>3. ASSUME NEW f \in Files, Settled(f)', f # job.file
          PROVE  Settled(f)
      BY <2>1, <2>3 DEF Settled
    <2>5. \A f \in Files, n \in Names, b \in Bodies : Done(f, n, b)' => Done(f, n, b)
      BY <2>1, <2>3 DEF Done, Settled
    <2> QED BY <1>3, <2>2, <2>5
  <1>7. ASSUME NEW e \in batch, SkipLocked(e) \/ SkipUnreadable(e)
        PROVE  SymbolInv'
    <2>1. /\ batch' = batch \ {e} /\ dropped' = dropped \cup {e.file}
          /\ UNCHANGED <<disk, changed, job>>
      BY <1>7 DEF SkipLocked, SkipUnreadable
    <2>2. ReadsAgree'
      BY <2>1
    <2>3. \A f : Settled(f)' => Settled(f)
      BY <2>1 DEF Settled
    <2>4. \A f \in Files, n \in Names, b \in Bodies : Done(f, n, b)' => Done(f, n, b)
      BY <2>1, <2>3 DEF Done
    <2> QED BY <1>3, <2>2, <2>4
  <1>8. CASE StartMerge \/ EndMerge \/ UNCHANGED vars
    <2>1. UNCHANGED <<disk, changed, batch, job, dropped>>
      BY <1>8 DEF StartMerge, EndMerge, vars
    <2>2. ReadsAgree' /\ \A f : Settled(f)' => Settled(f)
      BY <2>1 DEF Settled
    <2>3. \A f \in Files, n \in Names, b \in Bodies : Done(f, n, b)' => Done(f, n, b)
      BY <2>1, <2>2 DEF Done
    <2> QED BY <1>3, <2>2, <2>3
  <1> QED BY <1>4, <1>5, <1>6, <1>7, <1>8

(* When the sync has nothing left to do, every symbol of a file that is     *)
(* there has its live row, but for a dropped event and for symbols whose    *)
(* identity or place was given to another. [apply_index_events]             *)
THEOREM SymbolsAreAlwaysLive == Spec => []SymbolsAreLive
  <1>1. Init => SymbolInv
    BY DEF Init, SymbolInv, ReadsAgree, Kept, Settled, Done
  <1>2. TypeOK /\ JobTyped /\ IngestInv /\ SymbolInv /\ [Next]_vars => SymbolInv'
    <2> SUFFICES ASSUME TypeOK, JobTyped, IngestInv, SymbolInv, [Next]_vars
                 PROVE  SymbolInv'
      OBVIOUS
    <2>1. ASSUME NEW e \in batch, NEW text \in Contents, StartFile(e, text)
          PROVE  SymbolInv'
      BY <2>1, StartFileKeeps
    <2>2. ASSUME NEW n \in Names, NEW tomb \in Rids \cup {None}, IndexSymbol(n, tomb)
          PROVE  SymbolInv'
      BY <2>2, IndexSymbolKeeps
    <2>3. CASE \/ \E f \in Files, text \in Contents \cup {None} : Write(f, text)
               \/ StartMerge \/ EndMerge \/ StartBatch \/ FinishFile
               \/ \E e \in batch : SkipLocked(e) \/ SkipUnreadable(e)
               \/ UNCHANGED vars
      BY <2>3, OthersKeep
    <2> QED BY <2>1, <2>2, <2>3 DEF Next, Apply
  <1>3. TypeOK /\ SymbolInv => SymbolsAreLive
    <2> SUFFICES ASSUME TypeOK, SymbolInv, Idle, ~clashed, ~displaced, NEW f \in Files \ dropped,
                        disk[f] # None, NEW n \in Symbols(disk[f])
                 PROVE  <<n, disk[f][n]>> \in LiveNames(f)
      BY DEF SymbolsAreLive
    <2>1. Settled(f)
      BY DEF Idle, Settled
    <2>2. n \in Names /\ disk[f][n] \in Bodies
      BY DEF TypeOK, Contents, Symbols
    <2>3. Lives(f, n, disk[f][n])
      BY <2>1, <2>2 DEF SymbolInv, Kept, Done
    <2> QED BY <2>3 DEF Lives, LiveNames
  <1> QED BY <1>1, <1>2, <1>3, IngestInvariance, PTL DEF Spec

=============================================================================
