---------------------------- MODULE GraphQueries ----------------------------
(* What the queries answer: each is one function over the tables, one over  *)
(* the graph in memory, and one that puts the two answers together.         *)
(* A branch is the set of its files.  A needle is what a name is searched   *)
(* for: the rows whose name contains it, exactly or but for the case.       *)
EXTENDS GraphOverlay

CONSTANT Needles
ASSUME QueryAssumption ==
  /\ Needles \subseteq [exact : SUBSET Rids, folded : SUBSET Rids]
  /\ \A n \in Needles : n.exact \subseteq n.folded

OnChain(rows, chain) == {r \in Rids : rows[r] # None /\ rows[r].file \in chain}
OfIdent(rows, i) == {r \in Rids : rows[r] # None /\ rows[r].ident = i}

---------------------------------------------------------------------------
(* The tables                                                               *)

QueryRevision(r) == sqlRows[r]
QueryOutboundEdges(r) == sqlEdges[r]
QueryFile(f) == SqlRowsOf(f)
QueryPrimary(i) == PrimaryAmong(sqlRows, OfIdent(sqlRows, i))
QueryTombstones(i) == WithStatus(sqlRows, OfIdent(sqlRows, i), "Tombstone")
QueryBody(b) == {r \in Rids : sqlRows[r] # None /\ sqlRows[r].body = b}
QueryIdents(chain) == {sqlRows[r].ident : r \in OnChain(sqlRows, chain)}
QueryOnBranches(chain) ==
  IF chain = {} THEN {r \in Rids : sqlRows[r] # None} ELSE OnChain(sqlRows, chain)
QueryStatusCount(chain, i, status) ==
  Cardinality(WithStatus(sqlRows, OfIdent(sqlRows, i) \cap OnChain(sqlRows, chain), status))

(* The trigram index of three letters and more, and LIKE, ignore the case.  *)
QueryNamedFts(chain, n) == n.folded \cap OnChain(sqlRows, chain)
QueryNamedLike(chain, n) == n.folded \cap OnChain(sqlRows, chain)
QueryNamed(chain, n, long) ==
  IF long THEN QueryNamedFts(chain, n) ELSE QueryNamedLike(chain, n)

(* The join drops an edge whose row is gone.                                *)
QueryInbound(i) ==
  {a \in Rids \X Edge : sqlRows[a[1]] # None /\ a[2] \in sqlEdges[a[1]] /\ a[2].target = i}

Counts(rows, edges) ==
  LET there == {r \in Rids : rows[r] # None}
      active == WithStatus(rows, Rids, "Active")
      leaving(S) == Cardinality({a \in S \X Edge : a[2] \in edges[a[1]]})
  IN  [revisions |-> Cardinality(there), edges |-> leaving(there),
       active |-> Cardinality(active), activeEdges |-> leaving(active),
       files |-> Cardinality({rows[r].file : r \in active})]
QueryCounts == Counts(sqlRows, sqlEdges)

---------------------------------------------------------------------------
(* The graph in memory                                                      *)

MemFile(f) == mem.byFile[f]
MemPrimary(i) == mem.primary[i]
MemTombstones(i) == WithStatus(mem.rows, mem.byIdent[i], "Tombstone")
MemBody(b) == mem.byBody[b]
MemNamed(chain, n) == n.exact \cap OnChain(mem.rows, chain)
MemInbound(i) == {a \in Rids \X Edge : a[2] \in mem.edges[a[1]] /\ a[2].target = i}
MemCounts == Counts(mem.rows, mem.edges)
MemIdents(chain) == {mem.rows[r].ident : r \in OnChain(mem.rows, chain)}
MemStatusCount(chain, i, status) ==
  Cardinality(WithStatus(mem.rows, OfIdent(mem.rows, i) \cap OnChain(mem.rows, chain), status))
MemOnBranches(chain) == IF chain = {} THEN Loaded ELSE OnChain(mem.rows, chain)

---------------------------------------------------------------------------
(* Overlay over tables (ViewRows, ViewEdges and ViewPrimary are above)      *)

ViewFile(f) == IF MemFile(f) # {} THEN MemFile(f) ELSE QueryFile(f)
ViewTombstones(i) == IF MemTombstones(i) # {} THEN MemTombstones(i) ELSE QueryTombstones(i)

(* Mutant: the tables are asked only when the overlay knows no row.         *)
ViewBodyOrElse(b) == IF MemBody(b) # {} THEN MemBody(b) ELSE QueryBody(b)
ViewBody(b) == MemBody(b) \cup QueryBody(b)

(* A listing has one entry per row, the one of the overlay if it has one.   *)
Entries(S, rows) == {<<r, rows[r]>> : r \in S}
(* Mutant: the tables answer first.                                         *)
MergedTablesFirst(inMem, inSql) ==
  Entries(inSql, sqlRows) \cup Entries(inMem \ inSql, mem.rows)
Merged(inMem, inSql) == Entries(inMem, mem.rows) \cup Entries(inSql \ inMem, sqlRows)

ViewNamed(chain, n, long) == Merged(MemNamed(chain, n), QueryNamed(chain, n, long))
ViewOnBranches(chain) == Merged(MemOnBranches(chain), QueryOnBranches(chain))

ViewInbound(i) ==
  MemInbound(i) \cup {a \in QueryInbound(i) : \A b \in MemInbound(i) : b[2].site # a[2].site}

ViewIdents(chain) == MemIdents(chain) \cup QueryIdents(chain)
Larger(m, n) == IF m > n THEN m ELSE n
ViewCounts == [k \in DOMAIN MemCounts |-> Larger(MemCounts[k], QueryCounts[k])]
ViewStatusCount(chain, i, status) ==
  Larger(MemStatusCount(chain, i, status), QueryStatusCount(chain, i, status))

---------------------------------------------------------------------------
(* Properties                                                               *)

Chains == SUBSET Files
IsLive(row) == row # None /\ row.status \in {"Active", "Speculative"}

(* A writer sees every live row of the file it is writing, although a list  *)
(* of a file comes from the overlay alone as soon as that has one row of it:*)
(* the rename detection and the calls within a file miss nothing.  But for a*)
(* row that the collector, between the load and the write, buries and, with *)
(* a job left over from an earlier tombstone of it, removes.                *)
OwnFileIsSeen ==
  section.kind \in PatchKinds \cup {"ingest"} /\ section.stage = "write" =>
    \A r \in Rids : IsLive(ViewRows[r]) /\ ViewRows[r].file = section.file =>
                      r \in ViewFile(section.file) \cup unburied

(* No listing misses a row, an edge or an identity of the merged graph,     *)
(* wherever it is.                                                          *)
ListingsMissNothing ==
  /\ \A b \in Bodies : \A r \in Rids : ViewRows[r] # None /\ ViewRows[r].body = b => r \in ViewBody(b)
  /\ \A chain \in Chains :
       /\ {ViewRows[r].ident : r \in OnChain(ViewRows, chain)} \subseteq ViewIdents(chain)
       /\ \A n \in Needles, long \in BOOLEAN :
            Entries(n.exact \cap OnChain(ViewRows, chain), ViewRows) \subseteq ViewNamed(chain, n, long)
  /\ \A r \in Rids : \A e \in ViewEdges[r] :
       ViewRows[r] # None => \E a \in ViewInbound(e.target) : a[2].site = e.site

(* A listing never has an old version of a row: a row that the overlay has  *)
(* changed is reported as the overlay has it, but for a name that matches   *)
(* in another case only, which only the tables find.                        *)
ListingsAreCurrent ==
  \A chain \in Chains :
    /\ \A a \in ViewOnBranches(chain) : a[2] = ViewRows[a[1]]
    /\ \A n \in Needles, long \in BOOLEAN :
         \A a \in ViewNamed(chain, n, long) : a[1] \in n.exact => a[2] = ViewRows[a[1]]

(* Ingest sees the live rows of the other files as well, whose symbols the  *)
(* calls of this file resolve to (graph_view.rs:194: "ingest working set in *)
(* RAM, committed files in SQL").                                           *)
OtherFilesAreSeen ==
  section.kind = "ingest" /\ section.stage = "write" =>
    \A r \in Rids : IsLive(ViewRows[r]) => r \in ViewFile(ViewRows[r].file)

(* An inbound edge that a query reports is there.                           *)
InboundIsCurrent ==
  \A i \in Targets : \A a \in ViewInbound(i) : a[2] \in ViewEdges[a[1]]

(* A tombstone that a query reports is one.                                 *)
TombstoneIsDead ==
  \A i \in Idents : \A r \in ViewTombstones(i) : ViewRows[r].status = "Tombstone"

(* A name is searched for as it is written (graph_view.rs:57).              *)
NamesKeepTheirCase ==
  \A chain \in Chains, n \in Needles, long \in BOOLEAN :
    \A a \in ViewNamed(chain, n, long) : a[1] \in n.exact

(* The counters are those of the merged graph.                              *)
CountsAreExact == ViewCounts = Counts(ViewRows, ViewEdges)
=============================================================================
