----------------------------- MODULE GraphIndex -----------------------------
(* InMemoryGraph: rows by revision id, the edges that leave each row, and   *)
(* four secondary indexes that every writer maintains by hand.              *)
(*                                                                          *)
(* An identity stands for the pair of a branch and an identity, a file for  *)
(* a branch and a path: a revision id is a hash that includes the branch, so*)
(* no row changes its branch.  The vectors of the indexes are sets: their   *)
(* order decides only which of several live rows of an identity is primary. *)
(* target_reverse, which nothing but the tests reads, is left out.          *)
CONSTANTS Rids, Idents, Files, Bodies, Targets, None,
          CallSites, LinkSites   \* the ids of edges: of calls, and of renames

Statuses == {"Active", "Speculative", "Tombstone", "Orphaned"}
Row == [ident : Idents, file : Files, body : Bodies, status : Statuses]

ASSUME GraphAssumption == None \notin Rids \cup Idents \cup Files \cup Bodies \cup Row

(* An edge has an id and the identity it points to.  The id is a hash of the*)
(* type, the slot of the symbol and the place of the call within it, so the *)
(* rows of two bodies of one symbol have edges of the same id.              *)
Edge == [site : CallSites \cup LinkSites, target : Targets]
SitesOf(edges) == {e.site : e \in edges}

(* A row that is not there is None; a row without edges has the empty set.  *)
Graph == [rows : [Rids -> Row \cup {None}], edges : [Rids -> SUBSET Edge],
          primary : [Idents -> Rids \cup {None}], byFile : [Files -> SUBSET Rids],
          byIdent : [Idents -> SUBSET Rids], byBody : [Bodies -> SUBSET Rids]]

EmptyGraph == [rows |-> [r \in Rids |-> None], edges |-> [r \in Rids |-> {}],
               primary |-> [i \in Idents |-> None], byFile |-> [f \in Files |-> {}],
               byIdent |-> [i \in Idents |-> {}], byBody |-> [b \in Bodies |-> {}]]

Has(g, r) == g.rows[r] # None

---------------------------------------------------------------------------
(* The index maintenance of put_revision: the entry under the old key goes  *)
(* when the key changes, the one under the new key comes when it is new.    *)
Moved(index, r, old, key) ==
  LET without == IF old \notin {None, key} THEN [index EXCEPT ![old] = @ \ {r}] ELSE index
  IN  IF old = key THEN without ELSE [without EXCEPT ![key] = @ \cup {r}]

Removed(index, r, key) == [index EXCEPT ![key] = @ \ {r}]

FileOfRow(g, r) == IF Has(g, r) THEN g.rows[r].file ELSE None
IdentOfRow(g, r) == IF Has(g, r) THEN g.rows[r].ident ELSE None
BodyOfRow(g, r) == IF Has(g, r) THEN g.rows[r].body ELSE None

WithStatus(rows, S, status) == {r \in S : rows[r] # None /\ rows[r].status = status}

(* recompute_primary: an Active row of the index of the identity, else a    *)
(* Speculative one, else none; a tombstone is never primary.                *)
PrimaryAmong(rows, S) ==
  LET active == WithStatus(rows, S, "Active")
      speculative == WithStatus(rows, S, "Speculative")
  IN  IF active # {} THEN CHOOSE r \in active : TRUE
      ELSE IF speculative # {} THEN CHOOSE r \in speculative : TRUE ELSE None

Recomputed(g, changed) ==
  [rows |-> g.rows, edges |-> g.edges, byFile |-> g.byFile, byIdent |-> g.byIdent,
   byBody |-> g.byBody,
   primary |-> [i \in Idents |-> IF i \in changed THEN PrimaryAmong(g.rows, g.byIdent[i])
                                 ELSE g.primary[i]]]

Placed(g, r, row) ==
  [rows |-> [g.rows EXCEPT ![r] = row], edges |-> g.edges, primary |-> g.primary,
   byFile |-> Moved(g.byFile, r, FileOfRow(g, r), row.file),
   byIdent |-> Moved(g.byIdent, r, IdentOfRow(g, r), row.ident),
   byBody |-> Moved(g.byBody, r, BodyOfRow(g, r), row.body)]

(* Mutant: only the identity the row has now gets a new primary.            *)
PutRevisionNewOnly(g, r, row) == Recomputed(Placed(g, r, row), {row.ident})

PutRevision(g, r, row) ==
  Recomputed(Placed(g, r, row), {row.ident, IdentOfRow(g, r)} \ {None})

SetRevisionStatus(g, r, status) ==
  IF Has(g, r) THEN Recomputed([g EXCEPT !.rows[r].status = status], {g.rows[r].ident}) ELSE g

(* validate_edge_cardinality: at most one rename leaves a row.              *)
CardinalityOk(edges) ==
  \A d, e \in edges : d.site \in LinkSites /\ e.site \in LinkSites => d = e

ReplaceEdges(g, r, edges) ==
  IF Has(g, r) /\ CardinalityOk(edges) THEN [g EXCEPT !.edges[r] = edges] ELSE g

RemoveRevision(g, r) ==
  IF Has(g, r)
  THEN Recomputed([rows |-> [g.rows EXCEPT ![r] = None], edges |-> [g.edges EXCEPT ![r] = {}],
                   primary |-> g.primary,
                   byFile |-> Removed(g.byFile, r, g.rows[r].file),
                   byIdent |-> Removed(g.byIdent, r, g.rows[r].ident),
                   byBody |-> Removed(g.byBody, r, g.rows[r].body)],
                  {g.rows[r].ident})
  ELSE g

---------------------------------------------------------------------------
(* What the indexes of a graph must say                                     *)

RowsOfFile(g, f) == {r \in Rids : FileOfRow(g, r) = f}
RowsOfIdent(g, i) == {r \in Rids : IdentOfRow(g, r) = i}
RowsOfBody(g, b) == {r \in Rids : BodyOfRow(g, r) = b}

PrimaryAgrees(g, i) ==
  LET mine == RowsOfIdent(g, i)
      active == WithStatus(g.rows, mine, "Active")
      speculative == WithStatus(g.rows, mine, "Speculative")
  IN  /\ active # {} => g.primary[i] \in active
      /\ active = {} /\ speculative # {} => g.primary[i] \in speculative
      /\ active \cup speculative = {} => g.primary[i] = None

KeysAgree(g) ==
  /\ \A f \in Files : g.byFile[f] = RowsOfFile(g, f)
  /\ \A i \in Idents : g.byIdent[i] = RowsOfIdent(g, i)
  /\ \A b \in Bodies : g.byBody[b] = RowsOfBody(g, b)

Agrees(g) == KeysAgree(g) /\ \A i \in Idents : PrimaryAgrees(g, i)
=============================================================================
