------------------------ MODULE GraphOverlay_proofs ------------------------
(* The secondary indexes of the overlay agree with its rows, the listings   *)
(* over overlay and tables miss nothing and are current, and the two behave *)
(* as one graph, for any sets of revision ids, identities, files and bodies.*)
EXTENDS GraphQueries, TLAPS

---------------------------------------------------------------------------
(* One index                                                                *)

(* Moving an entry touches the old and the new key of the index only.       *)
LEMMA MovedIndex ==
  ASSUME NEW Keys, None \notin Keys, NEW index \in [Keys -> SUBSET Rids], NEW r \in Rids,
         NEW old \in Keys \cup {None}, NEW key \in Keys
  PROVE  /\ Moved(index, r, old, key) \in [Keys -> SUBSET Rids]
         /\ \A k \in Keys : Moved(index, r, old, key)[k] =
              IF k = key THEN IF old = key THEN index[k] ELSE index[k] \cup {r}
              ELSE IF k = old THEN index[k] \ {r} ELSE index[k]
  <1>1. CASE old \in {None, key}
    BY <1>1 DEF Moved
  <1>2. CASE old \notin {None, key}
    BY <1>2 DEF Moved
  <1> QED BY <1>1, <1>2

(* An index that agrees with the keys of the rows (None for a row that is   *)
(* not there) still does when one row gets another key.                     *)
LEMMA PlacedIndex ==
  ASSUME NEW Keys, None \notin Keys, NEW index \in [Keys -> SUBSET Rids],
         NEW keys \in [Rids -> Keys \cup {None}],
         \A k \in Keys : index[k] = {q \in Rids : keys[q] = k},
         NEW r \in Rids, NEW key \in Keys
  PROVE  /\ Moved(index, r, keys[r], key) \in [Keys -> SUBSET Rids]
         /\ \A k \in Keys, q \in Rids :
              q \in Moved(index, r, keys[r], key)[k] <=> (IF q = r THEN key ELSE keys[q]) = k
  <1>1. keys[r] \in Keys \cup {None}
    OBVIOUS
  <1>2. Moved(index, r, keys[r], key) \in [Keys -> SUBSET Rids]
    BY <1>1, MovedIndex
  <1>3. ASSUME NEW k \in Keys, NEW q \in Rids
        PROVE  q \in Moved(index, r, keys[r], key)[k] <=> (IF q = r THEN key ELSE keys[q]) = k
    <2>1. q \in index[k] <=> keys[q] = k
      OBVIOUS
    <2>2. CASE keys[r] \in {None, key}
      BY <1>1, <2>1, <2>2 DEF Moved
    <2>3. CASE keys[r] \notin {None, key}
      BY <1>1, <2>1, <2>3 DEF Moved
    <2> QED BY <2>2, <2>3
  <1> QED BY <1>2, <1>3

(* The primary among some rows is a live one of them, an Active one first.  *)
LEMMA PrimaryChoice ==
  ASSUME NEW rows, NEW S \in SUBSET Rids
  PROVE  LET active == WithStatus(rows, S, "Active")
             speculative == WithStatus(rows, S, "Speculative")
             p == PrimaryAmong(rows, S)
         IN  /\ p \in Rids \cup {None}
             /\ active # {} => p \in active
             /\ active = {} /\ speculative # {} => p \in speculative
             /\ active \cup speculative = {} => p = None
  BY DEF PrimaryAmong, WithStatus

---------------------------------------------------------------------------
(* One operation on the graph                                               *)

(* Recomputing the primary of the identities whose rows changed is enough.  *)
LEMMA RecomputedAgrees ==
  ASSUME NEW g \in Graph, KeysAgree(g), NEW changed \in SUBSET Idents,
         \A i \in Idents \ changed : PrimaryAgrees(g, i)
  PROVE  Recomputed(g, changed) \in Graph /\ Agrees(Recomputed(g, changed))
  <1> DEFINE new == Recomputed(g, changed)
  <1>1. /\ new.rows = g.rows /\ new.edges = g.edges /\ new.byFile = g.byFile
        /\ new.byIdent = g.byIdent /\ new.byBody = g.byBody
        /\ new.primary = [i \in Idents |-> IF i \in changed
                             THEN PrimaryAmong(g.rows, g.byIdent[i]) ELSE g.primary[i]]
    BY DEF Recomputed, Graph
  <1>2. \A i \in Idents : g.byIdent[i] \in SUBSET Rids
    BY DEF Graph
  <1>3. new \in Graph
    <2>1. \A i \in Idents : new.primary[i] \in Rids \cup {None}
      BY <1>1, <1>2, PrimaryChoice DEF Graph
    <2>2. new.primary \in [Idents -> Rids \cup {None}]
      BY <1>1, <2>1
    <2> QED BY <2>2 DEF Recomputed, Graph
  <1>4. KeysAgree(new)
    BY <1>1 DEF KeysAgree, RowsOfFile, RowsOfIdent, RowsOfBody, FileOfRow, IdentOfRow, BodyOfRow, Has
  <1>5. ASSUME NEW i \in Idents PROVE PrimaryAgrees(new, i)
    <2>1. RowsOfIdent(new, i) = RowsOfIdent(g, i)
      BY <1>1 DEF RowsOfIdent, IdentOfRow, Has
    <2>2. CASE i \in changed
      <3>1. g.byIdent[i] = RowsOfIdent(g, i)
        BY DEF KeysAgree
      <3>2. new.primary[i] = PrimaryAmong(g.rows, RowsOfIdent(g, i))
        BY <1>1, <2>2, <3>1
      <3>3. RowsOfIdent(g, i) \in SUBSET Rids
        BY <1>2, <3>1
      <3> QED BY <1>1, <2>1, <3>2, <3>3, PrimaryChoice DEF PrimaryAgrees
    <2>3. CASE i \notin changed
      BY <1>1, <2>1, <2>3 DEF PrimaryAgrees
    <2> QED BY <2>2, <2>3
  <1> QED BY <1>3, <1>4, <1>5 DEF Agrees

(* put_revision keeps the indexes, whether the row is new, keeps its        *)
(* identity or takes over another one.                                      *)
LEMMA PutAgrees ==
  ASSUME NEW g \in Graph, Agrees(g), NEW r \in Rids, NEW row \in Row
  PROVE  PutRevision(g, r, row) \in Graph /\ Agrees(PutRevision(g, r, row))
  <1> DEFINE old == IF Has(g, r) THEN g.rows[r] ELSE None
             g1 == Placed(g, r, row)
             changed == {row.ident, IdentOfRow(g, r)} \ {None}
  <1> USE GraphAssumption
  <1>0. /\ row.file \in Files /\ row.ident \in Idents /\ row.body \in Bodies
        /\ FileOfRow(g, r) \in Files \cup {None}
        /\ IdentOfRow(g, r) \in Idents \cup {None}
        /\ BodyOfRow(g, r) \in Bodies \cup {None}
    BY DEF FileOfRow, IdentOfRow, BodyOfRow, Has, Graph, Row
  <1>0a. /\ g.rows \in [Rids -> Row \cup {None}] /\ g.rows[r] \in Row \cup {None}
         /\ DOMAIN g.rows = Rids /\ g.rows = [q \in Rids |-> g.rows[q]] /\ row # None
    BY DEF Graph
  <1>1. /\ g1.rows = [g.rows EXCEPT ![r] = row] /\ g1.edges = g.edges /\ g1.primary = g.primary
        /\ g1.byFile = Moved(g.byFile, r, FileOfRow(g, r), row.file)
        /\ g1.byIdent = Moved(g.byIdent, r, IdentOfRow(g, r), row.ident)
        /\ g1.byBody = Moved(g.byBody, r, BodyOfRow(g, r), row.body)
        /\ g1 = [rows |-> g1.rows, edges |-> g1.edges, primary |-> g1.primary, byFile |-> g1.byFile,
                 byIdent |-> g1.byIdent, byBody |-> g1.byBody]
    BY DEF Placed
  <1>2. /\ g1.byFile \in [Files -> SUBSET Rids]
        /\ \A k \in Files : g1.byFile[k] = RowsOfFile(g1, k)
    <2> DEFINE keys == [q \in Rids |-> FileOfRow(g, q)]
    <2>1. g.byFile \in [Files -> SUBSET Rids] /\ None \notin Files
      BY DEF Graph
    <2>2. keys \in [Rids -> Files \cup {None}] /\ keys[r] = FileOfRow(g, r)
      BY <1>0a DEF FileOfRow, Has, Row
    <2>3. \A k \in Files : g.byFile[k] = {q \in Rids : keys[q] = k}
      BY <2>1 DEF Agrees, KeysAgree, RowsOfFile
    <2>4. ASSUME NEW q \in Rids
          PROVE  FileOfRow(g1, q) = IF q = r THEN row.file ELSE keys[q]
      BY <1>0a, <1>1 DEF FileOfRow, Has
    <2> HIDE DEF keys
    <2>5. row.file \in Files /\ g1.byFile = Moved(g.byFile, r, keys[r], row.file)
      BY <1>0, <1>1, <2>2
    <2>6. /\ g1.byFile \in [Files -> SUBSET Rids]
          /\ \A k \in Files, q \in Rids :
               q \in g1.byFile[k] <=> (IF q = r THEN row.file ELSE keys[q]) = k
      BY <2>1, <2>2, <2>3, <2>5, PlacedIndex
    <2>7. ASSUME NEW k \in Files PROVE g1.byFile[k] = RowsOfFile(g1, k)
      BY <2>4, <2>6 DEF RowsOfFile
    <2> QED BY <2>6, <2>7
  <1>3. /\ g1.byIdent \in [Idents -> SUBSET Rids]
        /\ \A k \in Idents : g1.byIdent[k] = RowsOfIdent(g1, k)
    <2> DEFINE keys == [q \in Rids |-> IdentOfRow(g, q)]
    <2>1. g.byIdent \in [Idents -> SUBSET Rids] /\ None \notin Idents
      BY DEF Graph
    <2>2. keys \in [Rids -> Idents \cup {None}] /\ keys[r] = IdentOfRow(g, r)
      BY <1>0a DEF IdentOfRow, Has, Row
    <2>3. \A k \in Idents : g.byIdent[k] = {q \in Rids : keys[q] = k}
      BY <2>1 DEF Agrees, KeysAgree, RowsOfIdent
    <2>4. ASSUME NEW q \in Rids
          PROVE  IdentOfRow(g1, q) = IF q = r THEN row.ident ELSE keys[q]
      BY <1>0a, <1>1 DEF IdentOfRow, Has
    <2> HIDE DEF keys
    <2>5. row.ident \in Idents /\ g1.byIdent = Moved(g.byIdent, r, keys[r], row.ident)
      BY <1>0, <1>1, <2>2
    <2>6. /\ g1.byIdent \in [Idents -> SUBSET Rids]
          /\ \A k \in Idents, q \in Rids :
               q \in g1.byIdent[k] <=> (IF q = r THEN row.ident ELSE keys[q]) = k
      BY <2>1, <2>2, <2>3, <2>5, PlacedIndex
    <2>7. ASSUME NEW k \in Idents PROVE g1.byIdent[k] = RowsOfIdent(g1, k)
      BY <2>4, <2>6 DEF RowsOfIdent
    <2> QED BY <2>6, <2>7
  <1>4. /\ g1.byBody \in [Bodies -> SUBSET Rids]
        /\ \A k \in Bodies : g1.byBody[k] = RowsOfBody(g1, k)
    <2> DEFINE keys == [q \in Rids |-> BodyOfRow(g, q)]
    <2>1. g.byBody \in [Bodies -> SUBSET Rids] /\ None \notin Bodies
      BY DEF Graph
    <2>2. keys \in [Rids -> Bodies \cup {None}] /\ keys[r] = BodyOfRow(g, r)
      BY <1>0a DEF BodyOfRow, Has, Row
    <2>3. \A k \in Bodies : g.byBody[k] = {q \in Rids : keys[q] = k}
      BY <2>1 DEF Agrees, KeysAgree, RowsOfBody
    <2>4. ASSUME NEW q \in Rids
          PROVE  BodyOfRow(g1, q) = IF q = r THEN row.body ELSE keys[q]
      BY <1>0a, <1>1 DEF BodyOfRow, Has
    <2> HIDE DEF keys
    <2>5. row.body \in Bodies /\ g1.byBody = Moved(g.byBody, r, keys[r], row.body)
      BY <1>0, <1>1, <2>2
    <2>6. /\ g1.byBody \in [Bodies -> SUBSET Rids]
          /\ \A k \in Bodies, q \in Rids :
               q \in g1.byBody[k] <=> (IF q = r THEN row.body ELSE keys[q]) = k
      BY <2>1, <2>2, <2>3, <2>5, PlacedIndex
    <2>7. ASSUME NEW k \in Bodies PROVE g1.byBody[k] = RowsOfBody(g1, k)
      BY <2>4, <2>6 DEF RowsOfBody
    <2> QED BY <2>6, <2>7
  <1>5. g1 \in Graph
    BY <1>1, <1>2, <1>3, <1>4 DEF Graph
  <1>6. KeysAgree(g1)
    BY <1>2, <1>3, <1>4 DEF KeysAgree
  <1>7. ASSUME NEW i \in Idents \ changed PROVE PrimaryAgrees(g1, i)
    <2>1. /\ RowsOfIdent(g1, i) = RowsOfIdent(g, i)
          /\ r \notin RowsOfIdent(g, i)
      BY <1>0, <1>0a, <1>1 DEF RowsOfIdent, IdentOfRow, Has
    <2>2. \A status : WithStatus(g1.rows, RowsOfIdent(g, i), status)
                       = WithStatus(g.rows, RowsOfIdent(g, i), status)
      BY <1>0a, <1>1, <2>1 DEF WithStatus, RowsOfIdent, IdentOfRow
    <2> QED BY <1>1, <2>1, <2>2 DEF PrimaryAgrees, Agrees
  <1>8. changed \in SUBSET Idents
    BY <1>0
  <1>9. PutRevision(g, r, row) = Recomputed(g1, changed)
    BY DEF PutRevision
  <1> HIDE DEF g1
  <1> QED BY <1>5, <1>6, <1>7, <1>8, <1>9, RecomputedAgrees

(* The other operations, each from the indexes as they are.                 *)
LEMMA EmptyAgrees == EmptyGraph \in Graph /\ Agrees(EmptyGraph)
  BY GraphAssumption
  DEF EmptyGraph, Graph, Agrees, KeysAgree, PrimaryAgrees, RowsOfFile, RowsOfIdent, RowsOfBody,
      FileOfRow, IdentOfRow, BodyOfRow, Has, WithStatus

LEMMA EdgesAgree ==
  ASSUME NEW g \in Graph, Agrees(g), NEW r \in Rids, NEW new \in SUBSET Edge
  PROVE  ReplaceEdges(g, r, new) \in Graph /\ Agrees(ReplaceEdges(g, r, new))
  <1> DEFINE g1 == [g EXCEPT !.edges[r] = new]
  <1>1. /\ g1.rows = g.rows /\ g1.primary = g.primary /\ g1.byFile = g.byFile
        /\ g1.byIdent = g.byIdent /\ g1.byBody = g.byBody /\ g1 \in Graph
    BY DEF Graph
  <1> HIDE DEF g1
  <1>2. ASSUME NEW q \in Rids
        PROVE  /\ FileOfRow(g1, q) = FileOfRow(g, q) /\ IdentOfRow(g1, q) = IdentOfRow(g, q)
               /\ BodyOfRow(g1, q) = BodyOfRow(g, q)
    BY <1>1 DEF FileOfRow, IdentOfRow, BodyOfRow, Has
  <1>3. KeysAgree(g1)
    BY <1>1, <1>2 DEF Agrees, KeysAgree, RowsOfFile, RowsOfIdent, RowsOfBody
  <1>4. ASSUME NEW i \in Idents PROVE PrimaryAgrees(g1, i)
    <2>1. RowsOfIdent(g1, i) = RowsOfIdent(g, i)
      BY <1>2 DEF RowsOfIdent
    <2> QED BY <1>1, <2>1 DEF Agrees, PrimaryAgrees
  <1> QED BY <1>1, <1>3, <1>4 DEF ReplaceEdges, Agrees, g1

LEMMA StatusAgrees ==
  ASSUME NEW g \in Graph, Agrees(g), NEW r \in Rids, NEW status \in Statuses
  PROVE  SetRevisionStatus(g, r, status) \in Graph /\ Agrees(SetRevisionStatus(g, r, status))
  <1>1. CASE ~Has(g, r)
    BY <1>1 DEF SetRevisionStatus
  <1>2. CASE Has(g, r)
    <2> DEFINE g1 == [g EXCEPT !.rows[r].status = status]
               changed == {g.rows[r].ident}
    <2>1. g.rows \in [Rids -> Row \cup {None}] /\ g.rows[r] \in Row
      BY <1>2 DEF Has, Graph
    <2>2. /\ g1.rows = [g.rows EXCEPT ![r] = [g.rows[r] EXCEPT !.status = status]]
          /\ g1.primary = g.primary /\ g1.byFile = g.byFile
          /\ g1.byIdent = g.byIdent /\ g1.byBody = g.byBody /\ g1 \in Graph
      BY <2>1 DEF Graph, Row
    <2>3. ASSUME NEW q \in Rids
          PROVE  /\ Has(g1, q) <=> Has(g, q)
                 /\ FileOfRow(g1, q) = FileOfRow(g, q)
                 /\ IdentOfRow(g1, q) = IdentOfRow(g, q)
                 /\ BodyOfRow(g1, q) = BodyOfRow(g, q)
      <3>1. [g.rows[r] EXCEPT !.status = status] \in Row
        BY <2>1 DEF Row
      <3>2. /\ [g.rows[r] EXCEPT !.status = status].file = g.rows[r].file
            /\ [g.rows[r] EXCEPT !.status = status].ident = g.rows[r].ident
            /\ [g.rows[r] EXCEPT !.status = status].body = g.rows[r].body
        BY <2>1 DEF Row
      <3> DEFINE new == [g.rows[r] EXCEPT !.status = status]
      <3>3. g1.rows[q] = IF q = r THEN new ELSE g.rows[q]
        BY <2>1, <2>2
      <3>4. new # None /\ g.rows[r] # None
        BY <1>2, <3>1, GraphAssumption DEF Has
      <3> HIDE DEF new, g1
      <3> QED BY <3>2, <3>3, <3>4 DEF Has, FileOfRow, IdentOfRow, BodyOfRow, new
    <2> HIDE DEF g1
    <2>4. KeysAgree(g1)
      BY <2>2, <2>3 DEF Agrees, KeysAgree, RowsOfFile, RowsOfIdent, RowsOfBody
    <2>5. changed \in SUBSET Idents
      BY <2>1 DEF Row
    <2>6. ASSUME NEW i \in Idents \ changed PROVE PrimaryAgrees(g1, i)
      <3>1. RowsOfIdent(g1, i) = RowsOfIdent(g, i)
        BY <2>3 DEF RowsOfIdent
      <3>2. r \notin RowsOfIdent(g, i)
        BY <1>2 DEF RowsOfIdent, IdentOfRow
      <3>3. \A s : WithStatus(g1.rows, RowsOfIdent(g, i), s)
                    = WithStatus(g.rows, RowsOfIdent(g, i), s)
        BY <2>1, <2>2, <3>2 DEF WithStatus, RowsOfIdent
      <3> QED BY <2>2, <3>1, <3>3 DEF PrimaryAgrees, Agrees
    <2>7. SetRevisionStatus(g, r, status) = Recomputed(g1, changed)
      BY <1>2 DEF SetRevisionStatus, g1
    <2> HIDE DEF changed
    <2> QED BY <2>2, <2>4, <2>5, <2>6, <2>7, RecomputedAgrees
  <1> QED BY <1>1, <1>2

LEMMA RemoveAgrees ==
  ASSUME NEW g \in Graph, Agrees(g), NEW r \in Rids
  PROVE  RemoveRevision(g, r) \in Graph /\ Agrees(RemoveRevision(g, r))
  <1>1. CASE ~Has(g, r)
    BY <1>1 DEF RemoveRevision
  <1>2. CASE Has(g, r)
    <2> DEFINE row == g.rows[r]
               g1 == [rows |-> [g.rows EXCEPT ![r] = None], edges |-> [g.edges EXCEPT ![r] = {}],
                      primary |-> g.primary,
                      byFile |-> Removed(g.byFile, r, row.file),
                      byIdent |-> Removed(g.byIdent, r, row.ident),
                      byBody |-> Removed(g.byBody, r, row.body)]
               changed == {row.ident}
    <2>1. g.rows \in [Rids -> Row \cup {None}] /\ row \in Row
      BY <1>2 DEF Has, Graph
    <2>2. row.file \in Files /\ row.ident \in Idents /\ row.body \in Bodies
      BY <2>1 DEF Row
    <2>3. g1 \in Graph
      BY <2>1, <2>2 DEF Graph, Removed
    <2>4. ASSUME NEW q \in Rids
          PROVE  /\ FileOfRow(g1, q) = IF q = r THEN None ELSE FileOfRow(g, q)
                 /\ IdentOfRow(g1, q) = IF q = r THEN None ELSE IdentOfRow(g, q)
                 /\ BodyOfRow(g1, q) = IF q = r THEN None ELSE BodyOfRow(g, q)
      BY <2>1 DEF Has, FileOfRow, IdentOfRow, BodyOfRow
    <2>5. ASSUME NEW f \in Files PROVE g1.byFile[f] = RowsOfFile(g1, f)
      <3>1. g1.byFile[f] = IF f = row.file THEN g.byFile[f] \ {r} ELSE g.byFile[f]
        BY <2>2 DEF Graph, Removed
      <3>2. g.byFile[f] = RowsOfFile(g, f) /\ FileOfRow(g, r) = row.file
        BY <1>2 DEF Agrees, KeysAgree, FileOfRow
      <3> HIDE DEF g1, row
      <3> QED BY <2>4, <3>1, <3>2, GraphAssumption DEF RowsOfFile
    <2>6. ASSUME NEW i \in Idents PROVE g1.byIdent[i] = RowsOfIdent(g1, i)
      <3>1. g1.byIdent[i] = IF i = row.ident THEN g.byIdent[i] \ {r} ELSE g.byIdent[i]
        BY <2>2 DEF Graph, Removed
      <3>2. g.byIdent[i] = RowsOfIdent(g, i) /\ IdentOfRow(g, r) = row.ident
        BY <1>2 DEF Agrees, KeysAgree, IdentOfRow
      <3> HIDE DEF g1, row
      <3> QED BY <2>4, <3>1, <3>2, GraphAssumption DEF RowsOfIdent
    <2>7. ASSUME NEW b \in Bodies PROVE g1.byBody[b] = RowsOfBody(g1, b)
      <3>1. g1.byBody[b] = IF b = row.body THEN g.byBody[b] \ {r} ELSE g.byBody[b]
        BY <2>2 DEF Graph, Removed
      <3>2. g.byBody[b] = RowsOfBody(g, b) /\ BodyOfRow(g, r) = row.body
        BY <1>2 DEF Agrees, KeysAgree, BodyOfRow
      <3> HIDE DEF g1, row
      <3> QED BY <2>4, <3>1, <3>2, GraphAssumption DEF RowsOfBody
    <2>8. KeysAgree(g1)
      BY <2>5, <2>6, <2>7 DEF KeysAgree
    <2>9. ASSUME NEW i \in Idents \ changed PROVE PrimaryAgrees(g1, i)
      <3>1. r \notin RowsOfIdent(g, i)
        BY <1>2 DEF RowsOfIdent, IdentOfRow
      <3>2. RowsOfIdent(g1, i) = RowsOfIdent(g, i)
        <4> HIDE DEF g1
        <4> QED BY <2>4, <3>1, GraphAssumption DEF RowsOfIdent
      <3>3. \A s : WithStatus(g1.rows, RowsOfIdent(g, i), s)
                    = WithStatus(g.rows, RowsOfIdent(g, i), s)
        BY <2>1, <3>1 DEF WithStatus, RowsOfIdent
      <3> QED BY <3>2, <3>3 DEF PrimaryAgrees, Agrees
    <2>10. changed \in SUBSET Idents
      BY <2>2
    <2>11. RemoveRevision(g, r) = Recomputed(g1, changed)
      BY <1>2 DEF RemoveRevision
    <2> HIDE DEF g1, changed
    <2> QED BY <2>3, <2>8, <2>9, <2>10, <2>11, RecomputedAgrees
  <1> QED BY <1>1, <1>2

---------------------------------------------------------------------------
(* The operations the overlay is filled and changed by                      *)

LEMMA AbsorbAgrees ==
  ASSUME mem \in Graph, Agrees(mem), sqlRows \in [Rids -> Row \cup {None}],
         sqlEdges \in [Rids -> SUBSET Edge], NEW r \in Rids, sqlRows[r] # None
  PROVE  /\ Absorb(mem, r) \in Graph /\ Agrees(Absorb(mem, r))
         /\ CowRevision(mem, r) \in Graph /\ Agrees(CowRevision(mem, r))
  <1>1. sqlRows[r] \in Row /\ sqlEdges[r] \in SUBSET Edge
    OBVIOUS
  <1> DEFINE g1 == PutRevision(mem, r, sqlRows[r])
  <1>2. g1 \in Graph /\ Agrees(g1)
    BY <1>1, PutAgrees
  <1> HIDE DEF g1
  <1>3. ReplaceEdges(g1, r, sqlEdges[r]) \in Graph /\ Agrees(ReplaceEdges(g1, r, sqlEdges[r]))
    BY <1>1, <1>2, EdgesAgree
  <1> QED BY <1>2, <1>3 DEF Absorb, CowRevision, g1

(* Rows of the tables or of the overlay with another status are rows.       *)
LEMMA RowTypes ==
  ASSUME NEW row \in Row, NEW status \in Statuses
  PROVE  [row EXCEPT !.status = status] \in Row
  BY DEF Row

LEMMA ViewPrimaryHasRow ==
  ASSUME TypeOK, IndexesAgree, NEW i \in Idents, ViewPrimary(i) # None
  PROVE  /\ ViewPrimary(i) \in Rids /\ ViewRows[ViewPrimary(i)] \in Row
  <1>1. CASE mem.primary[i] # None
    <2>1. mem.primary[i] \in Rids /\ mem.rows \in [Rids -> Row \cup {None}]
      BY <1>1 DEF TypeOK, Graph
    <2>2. mem.rows[mem.primary[i]] # None
      BY <1>1, <2>1 DEF IndexesAgree, Agrees, PrimaryAgrees, WithStatus
    <2> QED BY <1>1, <2>1, <2>2 DEF ViewPrimary, ViewRows, Has
  <1>2. CASE mem.primary[i] = None
    <2> DEFINE S == {r \in Rids : sqlRows[r] # None /\ sqlRows[r].ident = i}
    <2>1. S \in SUBSET Rids /\ sqlRows \in [Rids -> Row \cup {None}]
          /\ mem.rows \in [Rids -> Row \cup {None}]
      BY DEF TypeOK, Graph
    <2>2. ViewPrimary(i) = PrimaryAmong(sqlRows, S)
      BY <1>2 DEF ViewPrimary
    <2>3. ViewPrimary(i) \in Rids /\ sqlRows[ViewPrimary(i)] # None
      <3> HIDE DEF S
      <3> QED BY <2>1, <2>2, PrimaryChoice DEF WithStatus
    <2> QED BY <2>1, <2>3 DEF ViewRows, Has
  <1> QED BY <1>1, <1>2

(* A flush replaces rows by rows.                                           *)
LEMMA FlushTypes ==
  ASSUME TypeOK, NEW f, ApplyDelta(f)
  PROVE  /\ sqlRows' \in [Rids -> Row \cup {None}] /\ sqlEdges' \in [Rids -> SUBSET Edge]
         /\ lossy' \in BOOLEAN
  <1> DEFINE ids == FlushIds(f)
  <1>1. PICK rank \in Orders(ids) : FlushedTables(ids, rank)
    BY DEF ApplyDelta
  <1>2. ids \in SUBSET Rids
    BY DEF FlushIds, Loaded
  <1> HIDE DEF ids
  <1>3. ASSUME NEW r \in Rids PROVE FlushedEdges(ids, rank, r) \in SUBSET Edge
    BY DEF FlushedEdges, TypeOK, Graph
  <1> QED BY <1>1, <1>2, <1>3 DEF FlushedTables, ApplyDelta, TypeOK, Graph

---------------------------------------------------------------------------
(* The invariant                                                            *)

(* A section under way keeps its kind, whatever else of it changes.         *)
LEMMA SectionTypes ==
  ASSUME section \in Sections, section.stage # "none",
         NEW stage \in {"between", "load", "write"}, NEW file \in Files \cup {None},
         NEW todo \in SUBSET Rids,
         section' \in {[section EXCEPT !.stage = stage, !.todo = todo],
                       [section EXCEPT !.stage = stage, !.file = file]}
  PROVE  section' \in Sections
  <1>1. section \in [kind : Kinds, stage : {"between", "load", "write"}, file : Files \cup {None},
                     todo : SUBSET Rids]
    BY DEF Sections, Idle
  <1>2. \/ section' = [kind |-> section.kind, stage |-> stage, file |-> section.file, todo |-> todo]
        \/ section' = [kind |-> section.kind, stage |-> stage, file |-> file, todo |-> section.todo]
    BY <1>1
  <1> QED BY <1>1, <1>2 DEF Sections

LEMMA InitInv == Init => IInv
  <1> SUFFICES ASSUME Init PROVE IInv
    OBVIOUS
  <1>1. writes \in 0..MaxWrites /\ faults \in 0..MaxFaults
    BY OverlayAssumption DEF Init
  <1>2. sqlRows \in [Rids -> Row \cup {None}] /\ sqlEdges \in [Rids -> SUBSET Edge]
    BY DEF Init
  <1> QED BY <1>1, <1>2, EmptyAgrees
          DEF Init, IInv, TypeOK, IndexesAgree, LoadsRows, PatchesRows, LoadsAFile, Sections, Idle,
              PatchKinds

LEMMA FillInv == IInv /\ Fill => IInv'
  <1> SUFFICES ASSUME IInv, Fill PROVE IInv'
    OBVIOUS
  <1> USE DEF IInv
  <1>1. CASE StartBatch
    BY <1>1, EmptyAgrees
    DEF StartBatch, TypeOK, IndexesAgree, LoadsRows, PatchesRows, LoadsAFile, Sections, Idle, Kinds,
        PatchKinds, WithStatus, tables
  <1>2. CASE StartWriting
    <2>1. section.file \in Files /\ mem.byFile[section.file] \in SUBSET Rids
      BY <1>2 DEF StartWriting, LoadsAFile, TypeOK, Graph
    <2>2. IndexesAgree' /\ mem' \in Graph /\ LoadsRows' /\ LoadsAFile'
      BY <1>2 DEF StartWriting, TypeOK, IndexesAgree, Sections, LoadsRows, LoadsAFile, Idle
    <2>3. section' \in Sections
      <3> DEFINE t == IF section.kind = "ingest" THEN {}
                      ELSE WithStatus(mem.rows, mem.byFile[section.file], StatusFrom[section.kind])
      <3>1. t \in SUBSET Rids
        BY <2>1 DEF WithStatus
      <3>2. section' = [section EXCEPT !.stage = "write", !.todo = t]
        BY <1>2 DEF StartWriting
      <3> HIDE DEF t
      <3> QED BY <1>2, <2>1, <3>1, <3>2, SectionTypes DEF StartWriting, TypeOK
    <2>4. PatchesRows'
      BY <1>2, <2>1 DEF StartWriting, TypeOK, Sections, Idle, WithStatus, PatchesRows, PatchKinds, Has
    <2> QED BY <1>2, <2>2, <2>3, <2>4 DEF StartWriting, TypeOK, tables
  <1>3. CASE StartMerge
    BY <1>3, EmptyAgrees
    DEF StartMerge, TypeOK, IndexesAgree, LoadsRows, PatchesRows, LoadsAFile, Sections, Idle, Kinds,
        PatchKinds, tables
  <1>4. ASSUME NEW f \in Files, OpenFile(f) PROVE IInv'
    BY <1>4 DEF OpenFile, TypeOK, IndexesAgree, LoadsRows, PatchesRows, LoadsAFile, Sections, Idle,
                Kinds, PatchKinds, SqlRowsOf, tables
  <1>5. ASSUME NEW kind \in PatchKinds, NEW f \in Files, OpenPatch(kind, f) PROVE IInv'
    BY <1>5 DEF OpenPatch, TypeOK, IndexesAgree, LoadsRows, PatchesRows, LoadsAFile, Sections, Idle,
                Kinds, PatchKinds, SqlRowsOf, tables
  <1>6. ASSUME NEW r \in Rids, AbsorbRow(r) PROVE IInv'
    <2>1. sqlRows[r] # None
      BY <1>6 DEF AbsorbRow, LoadsRows
    <2>2. mem' \in Graph /\ Agrees(mem')
      BY <1>6, <2>1, AbsorbAgrees DEF AbsorbRow, TypeOK, IndexesAgree
    <2>3. section' \in Sections
      BY <1>6 DEF AbsorbRow, TypeOK, Sections, Idle
    <2>4. LoadsRows' /\ PatchesRows' /\ LoadsAFile'
      BY <1>6 DEF AbsorbRow, TypeOK, Sections, Idle, LoadsRows, PatchesRows, LoadsAFile, tables
    <2> QED BY <1>6, <2>2, <2>3, <2>4 DEF AbsorbRow, TypeOK, IndexesAgree, tables
  <1> QED BY <1>1, <1>2, <1>3, <1>4, <1>5, <1>6 DEF Fill

(* A write by ingest or a merge: only the graph has to be looked at.        *)
LEMMA WroteInv ==
  ASSUME IInv, writes > 0, section.kind \in {"ingest", "merge"}, section.stage = "write",
         NEW g \in Graph, Agrees(g), Wrote(g), lossy' \in BOOLEAN
  PROVE  IInv'
  <1>1. writes' \in 0..MaxWrites
    BY OverlayAssumption DEF IInv, TypeOK, Wrote
  <1> QED BY <1>1 DEF IInv, TypeOK, Wrote, IndexesAgree, LoadsRows, PatchesRows, LoadsAFile, PatchKinds, tables

LEMMA ChangeInv == IInv /\ Change => IInv'
  <1> SUFFICES ASSUME IInv, Change PROVE IInv'
    OBVIOUS
  <1>0. /\ mem \in Graph /\ Agrees(mem) /\ mem.rows \in [Rids -> Row \cup {None}]
        /\ sqlRows \in [Rids -> Row \cup {None}] /\ sqlEdges \in [Rids -> SUBSET Edge]
        /\ mem.edges \in [Rids -> SUBSET Edge]
    BY DEF IInv, TypeOK, IndexesAgree, Graph
  <1>1. ASSUME NEW r \in Rids, RetireRow(r) PROVE IInv'
    <2>1. mem.rows[r] \in Row
      BY <1>0, <1>1 DEF RetireRow, Has
    <2> DEFINE g == PutRevision(mem, r, [mem.rows[r] EXCEPT !.status = "Tombstone"])
    <2>2. g \in Graph /\ Agrees(g)
      BY <1>0, <2>1, RowTypes, PutAgrees DEF Statuses
    <2> HIDE DEF g
    <2>3. Wrote(g) /\ writes > 0 /\ section.kind = "ingest" /\ section.stage = "write"
      BY <1>1 DEF RetireRow, Writing, g
    <2>4. lossy' \in BOOLEAN
      BY <1>1 DEF RetireRow
    <2> QED BY <2>2, <2>3, <2>4, WroteInv
  <1>2. ASSUME NEW r \in Rids, PatchRow(r) PROVE IInv'
    <2>1. mem.rows[r] \in Row /\ StatusTo[section.kind] \in Statuses
      BY <1>0, <1>2 DEF PatchRow, IInv, PatchesRows, Has, PatchKinds, StatusTo, Statuses
    <2>2. mem' \in Graph /\ Agrees(mem')
      BY <1>0, <1>2, <2>1, RowTypes, PutAgrees DEF PatchRow
    <2>3. ASSUME NEW q \in section'.todo PROVE Has(mem', q)
      <3>1. q # r /\ q \in Rids /\ Has(mem, q)
        BY <1>2 DEF PatchRow, IInv, PatchesRows, TypeOK, Sections, Idle
      <3>2. mem'.rows[q] = mem.rows[q]
        BY <1>0, <1>2, <3>1 DEF PatchRow, PutRevision, Recomputed, Placed
      <3> QED BY <3>1, <3>2 DEF Has
    <2>4. section' \in Sections /\ LoadsRows' /\ LoadsAFile' /\ section'.stage = "write"
      BY <1>2 DEF PatchRow, IInv, TypeOK, Sections, Idle, LoadsRows, LoadsAFile
    <2> QED BY <1>2, <2>2, <2>3, <2>4 DEF PatchRow, IInv, TypeOK, IndexesAgree, PatchesRows, tables
  <1>3. ASSUME NEW r \in Rids, OrphanRow(r) PROVE IInv'
    <2>1. CowRevision(mem, r) \in Graph /\ Agrees(CowRevision(mem, r))
      BY <1>0, AbsorbAgrees DEF CowRevision, Blind
    <2> DEFINE g == SetRevisionStatus(CowRevision(mem, r), r, "Orphaned")
    <2>2. g \in Graph /\ Agrees(g)
      BY <2>1, StatusAgrees DEF Statuses
    <2> HIDE DEF g
    <2>3. Wrote(g) /\ writes > 0 /\ section.kind = "merge" /\ section.stage = "write"
      BY <1>3 DEF OrphanRow, Writing, g
    <2>4. lossy' \in BOOLEAN
      BY <1>3 DEF OrphanRow, IInv, TypeOK
    <2> QED BY <2>2, <2>3, <2>4, WroteInv
  <1>4. ASSUME NEW r \in Rids, NEW i \in Idents, NEW b \in Bodies, PutRow(r, i, b) PROVE IInv'
    <2> DEFINE row == [ident |-> i, file |-> FileOf[r], body |-> b, status |-> "Active"]
               g == PutRevision(mem, r, row)
    <2>1. row \in Row
      BY OverlayAssumption DEF Row, Statuses
    <2>2. g \in Graph /\ Agrees(g)
      BY <1>0, <2>1, PutAgrees
    <2>3. Wrote(g) /\ writes > 0 /\ section.kind = "ingest" /\ section.stage = "write"
      BY <1>4 DEF PutRow, Writing
    <2>4. lossy' \in BOOLEAN
      BY <1>4 DEF PutRow
    <2> HIDE DEF g
    <2> QED BY <2>2, <2>3, <2>4, WroteInv
  <1>5. ASSUME NEW r \in Rids, NEW new \in SUBSET Edge, ReplaceRowEdges(r, new) PROVE IInv'
    <2>1. ReplaceEdges(mem, r, new) \in Graph /\ Agrees(ReplaceEdges(mem, r, new))
      BY <1>0, EdgesAgree
    <2> QED BY <1>5, <2>1, WroteInv DEF ReplaceRowEdges, Writing, IInv, TypeOK
  <1>6. ASSUME NEW r \in Rids, NEW new \in SUBSET Edge, MergeEdges(r, new) PROVE IInv'
    <2>1. CowRevision(mem, r) \in Graph /\ Agrees(CowRevision(mem, r))
      BY <1>0, AbsorbAgrees DEF CowRevision, Blind
    <2> DEFINE g == ReplaceEdges(CowRevision(mem, r), r, new)
    <2>2. g \in Graph /\ Agrees(g)
      BY <2>1, EdgesAgree
    <2> HIDE DEF g
    <2>3. Wrote(g) /\ writes > 0 /\ section.kind = "merge" /\ section.stage = "write"
      BY <1>6 DEF MergeEdges, Writing, g
    <2>4. lossy' \in BOOLEAN
      BY <1>6 DEF MergeEdges, IInv, TypeOK
    <2> QED BY <2>2, <2>3, <2>4, WroteInv
  <1>7. ASSUME NEW r \in Rids, NEW link \in Edge, LinkRename(r, link) PROVE IInv'
    <2> DEFINE new == {e \in mem.edges[r] : e.site \notin LinkSites} \cup {link}
    <2>1. new \in SUBSET Edge
      BY <1>0 DEF Edge
    <2>2. ReplaceEdges(mem, r, new) \in Graph /\ Agrees(ReplaceEdges(mem, r, new))
      BY <1>0, <2>1, EdgesAgree
    <2>3. Wrote(ReplaceEdges(mem, r, new)) /\ writes > 0 /\ section.kind = "ingest"
          /\ section.stage = "write" /\ lossy' \in BOOLEAN
      BY <1>7 DEF LinkRename, Writing
    <2> QED BY <2>2, <2>3, WroteInv
  <1>8. ASSUME NEW i \in Idents, FinalizeSoftDelete(i) PROVE IInv'
    <2> DEFINE r == ViewPrimary(i)
               g == PutRevision(mem, r, [ViewRows[r] EXCEPT !.status = "Tombstone"])
    <2>1. r \in Rids /\ ViewRows[r] \in Row
      BY <1>8, ViewPrimaryHasRow DEF FinalizeSoftDelete, IInv
    <2> HIDE DEF r
    <2>2. g \in Graph /\ Agrees(g)
      BY <1>0, <2>1, RowTypes, PutAgrees DEF Statuses
    <2>3. Wrote(g) /\ writes > 0 /\ section.kind = "merge" /\ section.stage = "write"
          /\ lossy' \in BOOLEAN
      BY <1>8 DEF FinalizeSoftDelete, Writing, r
    <2> HIDE DEF g
    <2> QED BY <2>2, <2>3, WroteInv
  <1> QED BY <1>1, <1>2, <1>3, <1>4, <1>5, <1>6, <1>7, <1>8 DEF Change

LEMMA EndInv == IInv /\ End => IInv'
  <1> SUFFICES ASSUME IInv, End PROVE IInv'
    OBVIOUS
  <1>1. CASE CommitFile
    <2>1. /\ sqlRows' \in [Rids -> Row \cup {None}] /\ sqlEdges' \in [Rids -> SUBSET Edge]
          /\ lossy' \in BOOLEAN
      BY <1>1, FlushTypes DEF CommitFile, IInv
    <2>2a. section \in Sections /\ section' = [section EXCEPT !.stage = "between", !.file = None]
           /\ section.stage = "write" /\ section.kind = "ingest"
      BY <1>1 DEF CommitFile, IInv, TypeOK
    <2>2b. section' \in Sections
      BY <2>2a, SectionTypes
    <2>2c. section'.stage = "between" /\ section'.kind = "ingest" /\ section'.file = None
      BY <2>2a DEF Sections, Idle
    <2>2. section' \in Sections /\ PatchesRows' /\ LoadsAFile'
      BY <2>2b, <2>2c DEF PatchesRows, LoadsAFile
    <2>3. section'.todo = {}
      BY <1>1 DEF CommitFile, IInv, LoadsAFile, TypeOK, Sections, Idle
    <2> QED BY <1>1, <2>1, <2>2, <2>3 DEF CommitFile, IInv, TypeOK, IndexesAgree, LoadsRows
  <1>2. CASE EndBatch
    BY <1>2, EmptyAgrees DEF EndBatch, IInv, TypeOK, IndexesAgree, LoadsRows, PatchesRows, LoadsAFile,
       Sections, Idle, PatchKinds, tables
  <1>3. CASE CommitAndDiscard
    <2>1. /\ sqlRows' \in [Rids -> Row \cup {None}] /\ sqlEdges' \in [Rids -> SUBSET Edge]
          /\ lossy' \in BOOLEAN
      BY <1>3, FlushTypes DEF CommitAndDiscard, IInv
    <2> QED BY <1>3, <2>1, EmptyAgrees
            DEF CommitAndDiscard, IInv, TypeOK, IndexesAgree, LoadsRows, PatchesRows, LoadsAFile,
                Sections, Idle, PatchKinds
  <1> QED BY <1>1, <1>2, <1>3 DEF End

(* The row the collector finds as the primary of an identity is there.      *)
LEMMA PrimaryHasRow ==
  ASSUME IInv, NEW i \in Idents, mem.primary[i] # None
  PROVE  mem.primary[i] \in Rids /\ mem.rows[mem.primary[i]] \in Row
  <1>1. PrimaryAgrees(mem, i) /\ mem.rows \in [Rids -> Row \cup {None}]
    BY DEF IInv, IndexesAgree, Agrees, TypeOK, Graph
  <1> QED BY <1>1 DEF PrimaryAgrees, WithStatus, RowsOfIdent

LEMMA FaultInv == IInv /\ Fault => IInv'
  <1> SUFFICES ASSUME IInv, Fault PROVE IInv'
    OBVIOUS
  <1>0. faults > 0 => faults - 1 \in 0..MaxFaults
    BY OverlayAssumption DEF IInv, TypeOK
  <1>1. CASE FlushFails
    BY <1>0, <1>1 DEF FlushFails, IInv, TypeOK, IndexesAgree, LoadsRows, PatchesRows, LoadsAFile,
                      Sections, Idle, PatchKinds, tables
  <1>2. CASE Crash
    BY <1>0, <1>2, EmptyAgrees DEF Crash, IInv, TypeOK, IndexesAgree, LoadsRows, PatchesRows,
                                   LoadsAFile, Sections, Idle, PatchKinds, tables
  <1>3. ASSUME NEW r \in Rids, CollectRow(r) PROVE IInv'
    <2>1. mem' \in Graph /\ Agrees(mem')
      BY <1>3, RemoveAgrees DEF CollectRow, IInv, TypeOK, IndexesAgree
    <2> QED BY <1>0, <1>3, <2>1 DEF CollectRow, IInv, TypeOK, IndexesAgree, LoadsRows, PatchesRows,
                                    LoadsAFile, tables
  <1>4. ASSUME NEW i \in Idents, BurySoftDeleted(i) PROVE IInv'
    <2> DEFINE r == mem.primary[i]
               row == [mem.rows[r] EXCEPT !.status = "Tombstone"]
    <2>1. r \in Rids /\ mem.rows[r] \in Row
      BY <1>4, PrimaryHasRow DEF BurySoftDeleted
    <2>2. mem' = PutRevision(mem, r, row)
      BY <1>4 DEF BurySoftDeleted
    <2> HIDE DEF r
    <2>3. row \in Row
      BY <2>1, RowTypes DEF Statuses
    <2> HIDE DEF row
    <2>4. mem' \in Graph /\ Agrees(mem')
      BY <2>1, <2>2, <2>3, PutAgrees DEF IInv, TypeOK, IndexesAgree
    <2>5. writes' \in 0..MaxWrites /\ lossy' \in BOOLEAN
      BY <1>4, OverlayAssumption DEF BurySoftDeleted, IInv, TypeOK
    <2> QED BY <1>4, <2>4, <2>5 DEF BurySoftDeleted, IInv, TypeOK, IndexesAgree, LoadsRows, PatchesRows,
                                    LoadsAFile, tables
  <1> QED BY <1>1, <1>2, <1>3, <1>4 DEF Fault, Collect

(* The invariant holds of every behaviour, for every size of the graph.     *)
THEOREM GraphInvariance == Spec => []IInv
  <1>1. IInv /\ [Next]_vars => IInv'
    <2> SUFFICES ASSUME IInv, [Next]_vars PROVE IInv'
      OBVIOUS
    <2>1. CASE UNCHANGED vars
      BY <2>1 DEF vars, tables, IInv, TypeOK, IndexesAgree, LoadsRows, PatchesRows, LoadsAFile
    <2> QED BY <2>1, FillInv, ChangeInv, EndInv, FaultInv DEF Next
  <1> QED BY <1>1, InitInv, PTL DEF Spec

(* The overlay, the tables and the sections keep their types.               *)
THEOREM GraphTypeCorrect == Spec => []TypeOK
  BY GraphInvariance, PTL DEF IInv

(* The secondary indexes of the overlay always say what its rows say:       *)
(* InMemoryGraph maintains them by hand in every writer.                    *)
THEOREM GraphIndexesAgree == Spec => []IndexesAgree
  BY GraphInvariance, PTL DEF IInv

---------------------------------------------------------------------------
(* What each operation does to rows and edges                               *)

LEMMA PutEffect ==
  ASSUME NEW g \in Graph, NEW r \in Rids, NEW row \in Row
  PROVE  /\ PutRevision(g, r, row).rows = [g.rows EXCEPT ![r] = row]
         /\ PutRevision(g, r, row).edges = g.edges
  BY DEF PutRevision, Recomputed, Placed

LEMMA EdgesEffect ==
  ASSUME NEW g \in Graph, NEW r \in Rids, NEW new \in SUBSET Edge
  PROVE  /\ ReplaceEdges(g, r, new).rows = g.rows
         /\ ReplaceEdges(g, r, new).edges =
              IF Has(g, r) /\ CardinalityOk(new) THEN [g.edges EXCEPT ![r] = new] ELSE g.edges
  BY DEF ReplaceEdges, Graph

LEMMA StatusEffect ==
  ASSUME NEW g \in Graph, NEW r \in Rids, Has(g, r), NEW status \in Statuses
  PROVE  /\ SetRevisionStatus(g, r, status).rows =
              [g.rows EXCEPT ![r] = [g.rows[r] EXCEPT !.status = status]]
         /\ SetRevisionStatus(g, r, status).edges = g.edges
  BY DEF SetRevisionStatus, Recomputed, Graph, Row, Has

LEMMA RemoveEffect ==
  ASSUME NEW g \in Graph, NEW r \in Rids, Has(g, r)
  PROVE  /\ RemoveRevision(g, r).rows = [g.rows EXCEPT ![r] = None]
         /\ RemoveRevision(g, r).edges = [g.edges EXCEPT ![r] = {}]
  BY DEF RemoveRevision, Recomputed

(* The rows of the tables are well formed: a row is of the file its id says,*)
(* has one rename at most, and none is without a row.                       *)
SoundAt(row, edges, r) ==
  /\ row # None => row.file = FileOf[r]
  /\ CardinalityOk(edges)
  /\ row = None => edges = {}
SoundMem(g) == \A r \in Rids : SoundAt(g.rows[r], g.edges[r], r)
Sound == /\ SoundMem(mem)
         /\ \A r \in Rids : SoundAt(sqlRows[r], sqlEdges[r], r)

(* Loading and copying a row give it the row and the edges of the tables.   *)
LEMMA AbsorbEffect ==
  ASSUME IInv, Sound, NEW r \in Rids, sqlRows[r] # None
  PROVE  /\ Absorb(mem, r).rows = [mem.rows EXCEPT ![r] = sqlRows[r]]
         /\ \A q \in Rids : Absorb(mem, r).edges[q] =
              IF q = r /\ sqlEdges[r] # {} THEN sqlEdges[r] ELSE mem.edges[q]
  <1> DEFINE g1 == PutRevision(mem, r, sqlRows[r])
  <1>1. /\ mem \in Graph /\ Agrees(mem) /\ sqlRows[r] \in Row /\ sqlEdges[r] \in SUBSET Edge
        /\ CardinalityOk(sqlEdges[r]) /\ mem.rows \in [Rids -> Row \cup {None}]
        /\ mem.edges \in [Rids -> SUBSET Edge]
    BY DEF IInv, TypeOK, IndexesAgree, Sound, SoundAt, Graph
  <1>2. g1 \in Graph /\ g1.rows = [mem.rows EXCEPT ![r] = sqlRows[r]] /\ g1.edges = mem.edges
    BY <1>1, PutAgrees, PutEffect
  <1>3. Has(g1, r)
    BY <1>1, <1>2 DEF Has
  <1>4. Absorb(mem, r) = IF sqlEdges[r] # {} THEN ReplaceEdges(g1, r, sqlEdges[r]) ELSE g1
    BY DEF Absorb
  <1> HIDE DEF g1
  <1>5. /\ ReplaceEdges(g1, r, sqlEdges[r]).rows = g1.rows
        /\ ReplaceEdges(g1, r, sqlEdges[r]).edges = [g1.edges EXCEPT ![r] = sqlEdges[r]]
    BY <1>1, <1>2, <1>3, EdgesEffect
  <1> QED BY <1>1, <1>2, <1>4, <1>5

(* Copying a row first gives the overlay what is seen of it.                *)
LEMMA CowEffect ==
  ASSUME IInv, Sound, NEW r \in Rids, ViewRows[r] # None
  PROVE  /\ CowRevision(mem, r) \in Graph /\ Agrees(CowRevision(mem, r))
         /\ CowRevision(mem, r).rows = [mem.rows EXCEPT ![r] = ViewRows[r]]
         /\ CowRevision(mem, r).edges = [mem.edges EXCEPT ![r] = ViewEdges[r]]
         /\ Has(CowRevision(mem, r), r) /\ ViewRows[r] \in Row /\ ViewRows[r].file = FileOf[r]
         /\ CardinalityOk(ViewEdges[r]) /\ ViewEdges[r] \in SUBSET Edge
  <1> DEFINE g1 == PutRevision(mem, r, sqlRows[r])
  <1>1. /\ mem \in Graph /\ Agrees(mem) /\ sqlRows \in [Rids -> Row \cup {None}]
        /\ sqlEdges \in [Rids -> SUBSET Edge]
        /\ CardinalityOk(sqlEdges[r]) /\ mem.rows \in [Rids -> Row \cup {None}]
        /\ mem.edges \in [Rids -> SUBSET Edge]
    BY DEF IInv, TypeOK, IndexesAgree, Sound, SoundAt, Graph
  <1>2. /\ ViewRows[r] = IF Has(mem, r) THEN mem.rows[r] ELSE sqlRows[r]
        /\ ViewEdges[r] = IF Has(mem, r) THEN mem.edges[r] ELSE sqlEdges[r]
    BY DEF ViewRows, ViewEdges
  <1>3. /\ ViewRows[r] \in Row /\ ViewRows[r].file = FileOf[r]
        /\ CardinalityOk(ViewEdges[r]) /\ ViewEdges[r] \in SUBSET Edge
    BY <1>1, <1>2 DEF Sound, SoundMem, SoundAt, Has
  <1>4. CASE Blind(r)
    <2>1. g1 \in Graph /\ g1.rows = [mem.rows EXCEPT ![r] = sqlRows[r]] /\ g1.edges = mem.edges
          /\ sqlRows[r] \in Row
      BY <1>1, <1>4, PutAgrees, PutEffect DEF Blind
    <2>2. Has(g1, r)
      BY <1>1, <2>1, GraphAssumption DEF Has
    <2>3. CowRevision(mem, r) = ReplaceEdges(g1, r, sqlEdges[r])
      BY <1>4 DEF CowRevision
    <2> HIDE DEF g1
    <2>4. /\ ReplaceEdges(g1, r, sqlEdges[r]).rows = g1.rows
          /\ ReplaceEdges(g1, r, sqlEdges[r]).edges = [g1.edges EXCEPT ![r] = sqlEdges[r]]
      BY <1>1, <2>1, <2>2, EdgesEffect
    <2>5. CowRevision(mem, r) \in Graph /\ Agrees(CowRevision(mem, r))
      BY <1>1, <1>4, AbsorbAgrees DEF Blind
    <2>6. Has(CowRevision(mem, r), r)
      BY <2>2, <2>3, <2>4 DEF Has
    <2> QED BY <1>2, <1>3, <1>4, <2>1, <2>3, <2>4, <2>5, <2>6 DEF Blind
  <1>5. CASE ~Blind(r)
    <2>1. Has(mem, r) /\ CowRevision(mem, r) = mem
      BY <1>2, <1>5 DEF Blind, CowRevision
    <2>2. mem.rows = [mem.rows EXCEPT ![r] = mem.rows[r]] /\ mem.edges = [mem.edges EXCEPT ![r] = mem.edges[r]]
      BY <1>1
    <2> QED BY <1>1, <1>2, <1>3, <2>1, <2>2
  <1> QED BY <1>4, <1>5

(* The files of a section: a patch changes the rows of its file only, and   *)
(* when it or the turn of a file in a batch starts to write, every row that *)
(* the tables have of the file is in the overlay, or is a tombstone, or was *)
(* buried and removed by the collector since the file was opened.           *)
PatchesFile == section.kind \in PatchKinds /\ section.stage = "write" =>
                 \A r \in section.todo : FileOf[r] = section.file
FileLoaded ==
  /\ section.stage = "load" => \A r \in SqlRowsOf(section.file) \ (section.todo \cup unburied) :
       Has(mem, r) \/ sqlRows[r].status = "Tombstone"
  /\ section.stage = "write" /\ section.kind # "merge" => \A r \in SqlRowsOf(section.file) \ unburied :
       Has(mem, r) \/ sqlRows[r].status = "Tombstone"

(* What a section has not flushed is of its file, and nothing is left when  *)
(* the file is done and while the next one is loaded.                       *)
Clean == ~lossy =>
  /\ section.stage = "between" \/ (section.stage = "load" /\ section.todo # {}) => Dirty = {}
  /\ section.stage \in {"load", "write"} /\ section.kind \in {"ingest", "promote", "revert"} =>
       \A r \in Dirty : FileOf[r] = section.file

GInv == IInv /\ Sound /\ PatchesFile /\ FileLoaded /\ Clean

(* The types that the steps below cite.                                     *)
LEMMA OverlayTypes ==
  ASSUME IInv
  PROVE  /\ mem \in Graph /\ Agrees(mem)
         /\ mem.rows \in [Rids -> Row \cup {None}] /\ mem.edges \in [Rids -> SUBSET Edge]
         /\ sqlRows \in [Rids -> Row \cup {None}] /\ sqlEdges \in [Rids -> SUBSET Edge]
         /\ section \in Sections /\ lossy \in BOOLEAN
  BY DEF IInv, TypeOK, IndexesAgree, Graph

(* One row of the overlay becomes another, or comes.                        *)
Becomes(r, row, new) ==
  /\ row \in Row /\ row.file = FileOf[r] /\ new \in SUBSET Edge /\ CardinalityOk(new)
  /\ mem'.rows = [mem.rows EXCEPT ![r] = row]
  /\ mem'.edges = [mem.edges EXCEPT ![r] = new]

(* What a write does: to one row, of the file of the section unless lossy   *)
(* says otherwise, and to its row or to its edges.                          *)
Changes(r, row, new) ==
  /\ Becomes(r, row, new)
  /\ \/ lossy'
     \/ new = ViewEdges[r]
     \/ row = ViewRows[r]
  /\ section.kind \in {"ingest", "promote", "revert"} /\ ~lossy' => FileOf[r] = section.file

StaysInSection ==
  /\ section.stage = "write" /\ section'.stage = "write"
  /\ section'.kind = section.kind /\ section'.file = section.file
  /\ section'.todo \subseteq section.todo
  /\ UNCHANGED <<tables, unburied>> /\ (lossy => lossy')

(* The graph that is seen, row by row, before a step and after it.          *)
LEMMA ViewAt ==
  ASSUME NEW r \in Rids
  PROVE  /\ ViewRows[r] = IF Has(mem, r) THEN mem.rows[r] ELSE sqlRows[r]
         /\ ViewEdges[r] = IF Has(mem, r) THEN mem.edges[r] ELSE sqlEdges[r]
  BY DEF ViewRows, ViewEdges

(* A row that is put keeps the edges that the overlay has of it: those that *)
(* are seen, unless the row is one that was not loaded.                     *)
LEMMA PutChanges ==
  ASSUME IInv, Sound, NEW r \in Rids, NEW row \in Row, row.file = FileOf[r],
         mem' = PutRevision(mem, r, row), Blind(r) => lossy',
         section.kind \in {"ingest", "promote", "revert"} /\ ~lossy' => FileOf[r] = section.file
  PROVE  Changes(r, row, mem.edges[r])
  <1>1. mem.rows \in [Rids -> Row \cup {None}] /\ mem.edges \in [Rids -> SUBSET Edge]
    BY OverlayTypes
  <1>2. mem'.rows = [mem.rows EXCEPT ![r] = row] /\ mem'.edges = mem.edges
    BY OverlayTypes, PutEffect
  <1>3. mem'.edges = [mem.edges EXCEPT ![r] = mem.edges[r]]
    BY <1>1, <1>2
  <1>4. CardinalityOk(mem.edges[r])
    BY DEF Sound, SoundMem, SoundAt
  <1>5. lossy' \/ mem.edges[r] = ViewEdges[r]
    BY ViewAt DEF Sound, SoundMem, SoundAt, Blind, Has
  <1> QED BY <1>1, <1>2, <1>3, <1>4, <1>5 DEF Changes, Becomes

(* The edges of a row that the overlay has are replaced, or too many are    *)
(* refused.                                                                 *)
LEMMA EdgesChange ==
  ASSUME IInv, Sound, NEW r \in Rids, Has(mem, r), NEW new \in SUBSET Edge,
         mem' = ReplaceEdges(mem, r, new),
         section.kind \in {"ingest", "promote", "revert"} /\ ~lossy' => FileOf[r] = section.file
  PROVE  \E set \in SUBSET Edge : Changes(r, mem.rows[r], set)
  <1>1. mem.rows \in [Rids -> Row \cup {None}] /\ mem.edges \in [Rids -> SUBSET Edge] /\ mem \in Graph
    BY OverlayTypes
  <1> DEFINE set == IF CardinalityOk(new) THEN new ELSE mem.edges[r]
  <1>2. mem'.rows = mem.rows /\ mem'.edges = [mem.edges EXCEPT ![r] = set]
    BY <1>1, EdgesEffect
  <1>3. mem.rows[r] \in Row /\ mem.rows[r].file = FileOf[r] /\ CardinalityOk(mem.edges[r])
    BY <1>1 DEF Has, Sound, SoundMem, SoundAt
  <1>4. CardinalityOk(set) /\ set \in SUBSET Edge
    BY <1>1, <1>3
  <1>5. mem.rows = [mem.rows EXCEPT ![r] = mem.rows[r]] /\ mem.rows[r] = ViewRows[r]
    BY <1>1, ViewAt
  <1> HIDE DEF set
  <1>6. Changes(r, mem.rows[r], set)
    BY <1>2, <1>3, <1>4, <1>5 DEF Changes, Becomes
  <1> QED BY <1>4, <1>6

(* A write by ingest or a merge leaves the section and the tables alone.    *)
LEMMA WriteStays ==
  ASSUME IInv, NEW g, NEW kind, Writing(kind), Wrote(g), lossy => lossy'
  PROVE  StaysInSection
  BY DEF Writing, Wrote, StaysInSection

(* Every write is such a change.                                            *)
LEMMA ChangeEffect ==
  ASSUME IInv, Sound, PatchesFile, Change
  PROVE  /\ StaysInSection
         /\ \E r \in Rids, row \in Row, new \in SUBSET Edge : Changes(r, row, new)
  <1>0. /\ mem.rows \in [Rids -> Row \cup {None}] /\ mem.edges \in [Rids -> SUBSET Edge]
        /\ mem \in Graph /\ section \in Sections
    BY OverlayTypes
  <1>0a. ASSUME NEW r \in Rids, Has(mem, r)
         PROVE  mem.rows[r] \in Row /\ mem.rows[r].file = FileOf[r] /\ mem.edges[r] \in SUBSET Edge
    BY <1>0, <1>0a DEF Has, Sound, SoundMem, SoundAt
  <1>1. ASSUME NEW r \in Rids, RetireRow(r)
        PROVE  StaysInSection /\ \E row \in Row, new \in SUBSET Edge : Changes(r, row, new)
    <2> DEFINE row == [mem.rows[r] EXCEPT !.status = "Tombstone"]
    <2>1. Has(mem, r) /\ (lossy' = (lossy \/ mem.rows[r].file # section.file))
          /\ mem' = PutRevision(mem, r, row)
      BY <1>1 DEF RetireRow, Wrote
    <2>2. row \in Row /\ row.file = FileOf[r]
      BY <1>0a, <2>1 DEF Row, Statuses
    <2> HIDE DEF row
    <2>3. Changes(r, row, mem.edges[r])
      BY <1>0a, <2>1, <2>2, PutChanges DEF Blind
    <2>4. StaysInSection
      BY <1>1, WriteStays DEF RetireRow
    <2> QED BY <1>0a, <2>1, <2>2, <2>3, <2>4
  <1>2. ASSUME NEW r \in Rids, PatchRow(r)
        PROVE  StaysInSection /\ \E row \in Row, new \in SUBSET Edge : Changes(r, row, new)
    <2> DEFINE row == [mem.rows[r] EXCEPT !.status = StatusTo[section.kind]]
    <2>1. Has(mem, r) /\ mem' = PutRevision(mem, r, row) /\ FileOf[r] = section.file
      BY <1>2 DEF PatchRow, IInv, PatchesRows, PatchesFile
    <2>2. row \in Row /\ row.file = FileOf[r]
      BY <1>0a, <1>2, <2>1 DEF Row, Statuses, StatusTo, PatchRow, PatchKinds
    <2> HIDE DEF row
    <2>3. Changes(r, row, mem.edges[r])
      BY <1>2, <2>1, <2>2, PutChanges DEF Blind
    <2>4. StaysInSection
      BY <1>0, <1>2 DEF PatchRow, StaysInSection, Sections, Idle
    <2> QED BY <1>0a, <2>1, <2>2, <2>3, <2>4
  <1>3. ASSUME NEW r \in Rids, OrphanRow(r)
        PROVE  StaysInSection /\ \E row \in Row, new \in SUBSET Edge : Changes(r, row, new)
    <2> DEFINE cow == CowRevision(mem, r)
               row == [ViewRows[r] EXCEPT !.status = "Orphaned"]
    <2>1. ViewRows[r] # None /\ mem' = SetRevisionStatus(cow, r, "Orphaned") /\ section.kind = "merge"
      BY <1>3 DEF OrphanRow, Wrote, Writing
    <2>2. /\ cow \in Graph /\ cow.rows = [mem.rows EXCEPT ![r] = ViewRows[r]]
          /\ cow.edges = [mem.edges EXCEPT ![r] = ViewEdges[r]] /\ Has(cow, r)
          /\ ViewRows[r] \in Row /\ ViewRows[r].file = FileOf[r]
          /\ CardinalityOk(ViewEdges[r]) /\ ViewEdges[r] \in SUBSET Edge
      BY <2>1, CowEffect
    <2> HIDE DEF cow
    <2>3. cow.rows[r] = ViewRows[r]
      BY <1>0, <2>2
    <2>4. mem'.rows = [cow.rows EXCEPT ![r] = row] /\ mem'.edges = cow.edges
      <3>1. /\ mem'.rows = [cow.rows EXCEPT ![r] = [cow.rows[r] EXCEPT !.status = "Orphaned"]]
            /\ mem'.edges = cow.edges
        BY <2>1, <2>2, StatusEffect, Zenon DEF Statuses
      <3> QED BY <2>3, <3>1, Zenon
    <2>5. mem'.rows = [mem.rows EXCEPT ![r] = row]
      <3> HIDE DEF row
      <3> QED BY <1>0, <2>2, <2>4
    <2>6. row \in Row /\ row.file = FileOf[r]
      BY <2>2 DEF Row, Statuses
    <2> HIDE DEF row
    <2>7. Changes(r, row, ViewEdges[r])
      BY <2>1, <2>2, <2>4, <2>5, <2>6 DEF Changes, Becomes
    <2>8. StaysInSection
      BY <1>3, WriteStays DEF OrphanRow
    <2> QED BY <2>2, <2>6, <2>7, <2>8
  <1>4. ASSUME NEW r \in Rids, NEW i \in Idents, NEW b \in Bodies, PutRow(r, i, b)
        PROVE  StaysInSection /\ \E row \in Row, new \in SUBSET Edge : Changes(r, row, new)
    <2> DEFINE row == [ident |-> i, file |-> FileOf[r], body |-> b, status |-> "Active"]
    <2>1. row \in Row /\ row.file = FileOf[r] /\ mem.edges[r] \in SUBSET Edge
      BY <1>0, OverlayAssumption DEF Row, Statuses
    <2>2. mem' = PutRevision(mem, r, row) /\ (lossy' = (lossy \/ Blind(r))) /\ FileOf[r] = section.file
      BY <1>4 DEF PutRow, Wrote
    <2> HIDE DEF row
    <2>3. Changes(r, row, mem.edges[r])
      BY <2>1, <2>2, PutChanges
    <2>4. StaysInSection
      BY <1>4, <2>2, WriteStays DEF PutRow
    <2> QED BY <2>1, <2>3, <2>4
  <1>5. ASSUME NEW r \in Rids, NEW new \in SUBSET Edge, ReplaceRowEdges(r, new)
        PROVE  StaysInSection /\ \E row \in Row, set \in SUBSET Edge : Changes(r, row, set)
    <2>1. Has(mem, r) /\ mem' = ReplaceEdges(mem, r, new) /\ mem.rows[r].file = section.file
      BY <1>5 DEF ReplaceRowEdges, Wrote
    <2>2. \E set \in SUBSET Edge : Changes(r, mem.rows[r], set)
      BY <1>0a, <2>1, EdgesChange
    <2>3. StaysInSection
      BY <1>5, WriteStays DEF ReplaceRowEdges
    <2> QED BY <1>0a, <2>1, <2>2, <2>3
  <1>6. ASSUME NEW r \in Rids, NEW new \in SUBSET Edge, MergeEdges(r, new)
        PROVE  StaysInSection /\ \E row \in Row, set \in SUBSET Edge : Changes(r, row, set)
    <2> DEFINE cow == CowRevision(mem, r)
               set == IF CardinalityOk(new) THEN new ELSE ViewEdges[r]
    <2>1. ViewRows[r] # None /\ mem' = ReplaceEdges(cow, r, new) /\ section.kind = "merge"
      BY <1>6 DEF MergeEdges, Wrote, Writing
    <2>2. /\ cow \in Graph /\ cow.rows = [mem.rows EXCEPT ![r] = ViewRows[r]]
          /\ cow.edges = [mem.edges EXCEPT ![r] = ViewEdges[r]] /\ Has(cow, r)
          /\ ViewRows[r] \in Row /\ ViewRows[r].file = FileOf[r]
          /\ CardinalityOk(ViewEdges[r]) /\ ViewEdges[r] \in SUBSET Edge
      BY <2>1, CowEffect
    <2> HIDE DEF cow
    <2>3. mem'.rows = cow.rows /\ mem'.edges = [mem.edges EXCEPT ![r] = set]
      <3>1. /\ mem'.rows = cow.rows
            /\ mem'.edges = IF CardinalityOk(new) THEN [cow.edges EXCEPT ![r] = new] ELSE cow.edges
        BY <2>1, <2>2, EdgesEffect
      <3> QED BY <1>0, <2>2, <3>1
    <2>4. CardinalityOk(set) /\ set \in SUBSET Edge
      BY <2>2
    <2> HIDE DEF set
    <2>5. Changes(r, ViewRows[r], set)
      BY <2>1, <2>2, <2>3, <2>4 DEF Changes, Becomes
    <2>6. StaysInSection
      BY <1>6, WriteStays DEF MergeEdges
    <2> QED BY <2>2, <2>4, <2>5, <2>6
  <1>7. ASSUME NEW r \in Rids, NEW link \in Edge, LinkRename(r, link)
        PROVE  StaysInSection /\ \E row \in Row, set \in SUBSET Edge : Changes(r, row, set)
    <2> DEFINE new == {e \in mem.edges[r] : e.site \notin LinkSites} \cup {link}
    <2>1. Has(mem, r) /\ mem' = ReplaceEdges(mem, r, new)
          /\ (lossy' = (lossy \/ mem.rows[r].file # section.file))
      BY <1>7 DEF LinkRename, Wrote
    <2>2. new \in SUBSET Edge
      BY <1>0
    <2> HIDE DEF new
    <2>3. \E set \in SUBSET Edge : Changes(r, mem.rows[r], set)
      BY <1>0a, <2>1, <2>2, EdgesChange
    <2>4. StaysInSection
      BY <1>7, <2>1, WriteStays DEF LinkRename
    <2> QED BY <1>0a, <2>1, <2>3, <2>4
  <1>8. ASSUME NEW i \in Idents, FinalizeSoftDelete(i)
        PROVE  StaysInSection /\ \E r \in Rids, row \in Row, set \in SUBSET Edge : Changes(r, row, set)
    <2> DEFINE r == ViewPrimary(i)
               row == [ViewRows[r] EXCEPT !.status = "Tombstone"]
    <2>1. r # None /\ mem' = PutRevision(mem, r, row) /\ (lossy' = (lossy \/ Blind(r)))
          /\ section.kind = "merge"
      BY <1>8 DEF FinalizeSoftDelete, Wrote, Writing
    <2>2. r \in Rids /\ ViewRows[r] \in Row
      BY <2>1, ViewPrimaryHasRow DEF IInv
    <2> HIDE DEF r
    <2>3. ViewRows[r].file = FileOf[r] /\ ViewRows[r] # None
      BY <2>2, ViewAt, GraphAssumption DEF Sound, SoundMem, SoundAt
    <2>4. row \in Row /\ row.file = FileOf[r] /\ mem.edges[r] \in SUBSET Edge
      BY <1>0, <2>2, <2>3 DEF Row, Statuses
    <2> HIDE DEF row
    <2>5. Changes(r, row, mem.edges[r])
      BY <2>1, <2>2, <2>4, PutChanges
    <2>6. StaysInSection
      BY <1>8, <2>1, WriteStays DEF FinalizeSoftDelete, r
    <2> QED BY <2>2, <2>4, <2>5, <2>6
  <1> QED BY <1>1, <1>2, <1>3, <1>4, <1>5, <1>6, <1>7, <1>8 DEF Change

(* The overlay stays well formed.                                           *)
LEMMA BecomesSound ==
  ASSUME IInv, Sound, NEW r \in Rids, NEW row, NEW new, Becomes(r, row, new)
  PROVE  SoundMem(mem)'
  <1>1. row # None /\ row.file = FileOf[r] /\ CardinalityOk(new)
    BY GraphAssumption DEF Becomes
  <1>2. ASSUME NEW q \in Rids
        PROVE  /\ mem'.rows[q] = IF q = r THEN row ELSE mem.rows[q]
               /\ mem'.edges[q] = IF q = r THEN new ELSE mem.edges[q]
    BY OverlayTypes DEF Becomes
  <1> QED BY <1>1, <1>2 DEF Sound, SoundMem, SoundAt

(* An empty overlay is sound and has nothing to flush.                      *)
LEMMA EmptyIsClean ==
  ASSUME mem' = EmptyGraph
  PROVE  SoundMem(mem)' /\ Loaded' = {} /\ Dirty' = {}
  <1>1. \A r \in Rids : mem'.rows[r] = None /\ mem'.edges[r] = {}
    BY DEF EmptyGraph
  <1>2. Loaded' = {}
    BY <1>1 DEF Loaded, Has
  <1> QED BY <1>1, <1>2 DEF SoundMem, SoundAt, CardinalityOk, Dirty

(* A flush saves the rows it is given, and touches no other when no two of  *)
(* their edges have one id.                                                 *)
LEMMA FlushEffect ==
  ASSUME IInv, Sound, NEW f, ApplyDelta(f)
  PROVE  /\ \A r \in Rids : SoundAt(sqlRows'[r], sqlEdges'[r], r)
         /\ lossy => lossy'
         /\ ~lossy' => \A r \in Rids :
              /\ sqlRows'[r] = IF r \in FlushIds(f) THEN mem.rows[r] ELSE sqlRows[r]
              /\ sqlEdges'[r] = IF r \in FlushIds(f) THEN mem.edges[r] ELSE sqlEdges[r]
  <1> DEFINE ids == FlushIds(f)
  <1>0. ids \in SUBSET Rids /\ (\A r \in ids : Has(mem, r))
    BY DEF FlushIds, Loaded
  <1>1. PICK rank \in Orders(ids) : FlushedTables(ids, rank)
    BY DEF ApplyDelta
  <1>2. lossy' = (lossy \/ Collides(ids))
    BY DEF ApplyDelta
  <1> HIDE DEF ids
  <1>3. /\ \A r \in Rids : sqlRows'[r] = IF r \in ids THEN mem.rows[r] ELSE sqlRows[r]
        /\ \A r \in Rids : sqlEdges'[r] = FlushedEdges(ids, rank, r)
    BY <1>1 DEF FlushedTables
  <1>4. ASSUME NEW r \in Rids PROVE SoundAt(sqlRows'[r], sqlEdges'[r], r)
    <2>1. FlushedEdges(ids, rank, r) \subseteq IF r \in ids THEN mem.edges[r] ELSE sqlEdges[r]
      BY DEF FlushedEdges
    <2>2. /\ r \in ids => SoundAt(mem.rows[r], mem.edges[r], r) /\ mem.rows[r] # None
          /\ SoundAt(sqlRows[r], sqlEdges[r], r)
      BY <1>0 DEF Sound, SoundMem, Has
    <2> QED BY <1>3, <2>1, <2>2 DEF SoundAt, CardinalityOk
  <1>5. ASSUME ~lossy', NEW r \in Rids
        PROVE  FlushedEdges(ids, rank, r) = IF r \in ids THEN mem.edges[r] ELSE sqlEdges[r]
    <2>1. ASSUME NEW p \in ids, NEW q \in Rids, q # p
          PROVE  SitesOf(mem.edges[p]) \cap SitesOf(IF q \in ids THEN mem.edges[q] ELSE sqlEdges[q]) = {}
      BY <1>2, <1>5, <2>1 DEF Collides
    <2>2. CASE r \in ids
      <3>1. ASSUME NEW e \in mem.edges[r], NEW q \in ids, e.site \in SitesOf(mem.edges[q])
            PROVE  rank[q] <= rank[r]
        <4>1. e.site \in SitesOf(mem.edges[r])
          BY <3>1 DEF SitesOf
        <4>2. q = r
          BY <1>0, <2>1, <2>2, <3>1, <4>1
        <4> QED BY <1>1, <2>2, <4>2 DEF Orders
      <3> QED BY <2>2, <3>1 DEF FlushedEdges, Last
    <2>3. CASE r \notin ids
      <3>1. ASSUME NEW e \in sqlEdges[r], NEW q \in ids PROVE e.site \notin SitesOf(mem.edges[q])
        <4>1. e.site \in SitesOf(sqlEdges[r])
          BY <3>1 DEF SitesOf
        <4> QED BY <2>1, <2>3, <4>1
      <3> QED BY <2>3, <3>1 DEF FlushedEdges
    <2> QED BY <2>2, <2>3
  <1> QED BY <1>2, <1>3, <1>4, <1>5 DEF ids

(* Every step keeps the four parts.                                         *)
LEMMA ChangeKeeps ==
  ASSUME GInv, Change
  PROVE  Sound' /\ PatchesFile' /\ FileLoaded' /\ Clean'
  <1> USE DEF GInv
  <1>1. StaysInSection
    BY ChangeEffect
  <1>2. PICK r \in Rids, row \in Row, new \in SUBSET Edge : Changes(r, row, new)
    BY ChangeEffect
  <1>3. Becomes(r, row, new) /\ row # None
    BY <1>2, GraphAssumption DEF Changes
  <1>4. ASSUME NEW q \in Rids
        PROVE  /\ mem'.rows[q] = IF q = r THEN row ELSE mem.rows[q]
               /\ mem'.edges[q] = IF q = r THEN new ELSE mem.edges[q]
    BY <1>3, OverlayTypes DEF Becomes
  <1>5. Sound'
    BY <1>1, <1>3, BecomesSound DEF Sound, StaysInSection, tables
  <1>6. PatchesFile'
    BY <1>1 DEF PatchesFile, StaysInSection
  <1>7. FileLoaded'
    <2>1. \A q \in Rids : Has(mem, q) => Has(mem', q)
      BY <1>3, <1>4 DEF Has
    <2> QED BY <1>1, <2>1 DEF FileLoaded, StaysInSection, tables, SqlRowsOf
  <1>8. Clean'
    <2>1. \A q \in Rids : q \in Dirty' => q = r \/ q \in Dirty
      BY <1>1, <1>4 DEF Dirty, Loaded, Has, StaysInSection, tables
    <2>2. Dirty' \in SUBSET Rids
      BY DEF Dirty, Loaded
    <2> QED BY <1>1, <1>2, <2>1, <2>2 DEF Clean, StaysInSection, Changes
  <1> QED BY <1>5, <1>6, <1>7, <1>8

(* The collector changes the row of its identity only, and says when it is  *)
(* not one of the file of the section.                                      *)
LEMMA BuryEffect ==
  ASSUME IInv, Sound, NEW i \in Idents, BurySoftDeleted(i)
  PROVE  \E r \in Rids, row \in Row :
           /\ Changes(r, row, mem.edges[r]) /\ row # None /\ mem.edges[r] \in SUBSET Edge
           /\ Becomes(r, row, mem.edges[r])
           /\ ~lossy' => section = Idle \/ section.kind = "speculate" \/ FileOf[r] = section.file
  <1> DEFINE r == mem.primary[i]
             row == [mem.rows[r] EXCEPT !.status = "Tombstone"]
  <1>1. r \in Rids /\ mem.rows[r] \in Row /\ Has(mem, r)
    BY PrimaryHasRow, GraphAssumption DEF BurySoftDeleted, Has
  <1>2. /\ mem' = PutRevision(mem, r, row)
        /\ lossy' = (lossy \/ (section # Idle /\ section.kind # "speculate"
                                 /\ mem.rows[r].file # section.file))
    BY DEF BurySoftDeleted
  <1> HIDE DEF r
  <1>3. row \in Row /\ row.file = FileOf[r] /\ mem.rows[r].file = FileOf[r]
    BY <1>1 DEF Row, Statuses, Sound, SoundMem, SoundAt, Has
  <1> HIDE DEF row
  <1>4. Changes(r, row, mem.edges[r])
    <2>1. ~Blind(r)
      BY <1>1 DEF Blind
    <2>2. section.kind \in {"ingest", "promote", "revert"} /\ ~lossy' => FileOf[r] = section.file
      <3>1. section = Idle => section.kind = "idle"
        BY DEF Idle
      <3>2. ~lossy' => section = Idle \/ section.kind = "speculate" \/ mem.rows[r].file = section.file
        BY <1>2
      <3> QED BY <1>3, <3>1, <3>2
    <2> QED BY <1>1, <1>2, <1>3, <2>1, <2>2, PutChanges
  <1>5. mem.edges[r] \in SUBSET Edge /\ row # None
    BY <1>1, <1>3, OverlayTypes, GraphAssumption
  <1> QED BY <1>1, <1>2, <1>3, <1>4, <1>5 DEF Changes

LEMMA FaultKeeps ==
  ASSUME GInv, Fault
  PROVE  Sound' /\ PatchesFile' /\ FileLoaded' /\ Clean'
  <1> USE DEF GInv
  <1>1. CASE FlushFails
    BY <1>1 DEF FlushFails, tables, Idle, Sound, PatchesFile, PatchKinds, FileLoaded, Clean
  <1>2. CASE Crash
    <2>1. SoundMem(mem)'
      BY <1>2, EmptyIsClean DEF Crash
    <2> QED BY <1>2, <2>1 DEF Crash, tables, Idle, Sound, PatchesFile, PatchKinds, FileLoaded, Clean
  <1>3. ASSUME NEW r \in Rids, CollectRow(r) PROVE Sound' /\ PatchesFile' /\ FileLoaded' /\ Clean'
    <2>0. Has(mem, r) /\ mem' = RemoveRevision(mem, r) /\ UNCHANGED <<tables, section>>
          /\ section.stage # "write" /\ section.todo = {} /\ mem.rows[r].status = "Tombstone"
          /\ (lossy => lossy')
          /\ unburied' = unburied \cup {q \in {r} : sqlRows[q] # None /\ sqlRows[q].status # "Tombstone"}
      BY <1>3 DEF CollectRow
    <2>1. mem'.rows = [mem.rows EXCEPT ![r] = None] /\ mem'.edges = [mem.edges EXCEPT ![r] = {}]
      BY <2>0, OverlayTypes, RemoveEffect
    <2>2. ASSUME NEW q \in Rids
          PROVE  /\ mem'.rows[q] = IF q = r THEN None ELSE mem.rows[q]
                 /\ mem'.edges[q] = IF q = r THEN {} ELSE mem.edges[q]
      BY <2>1, OverlayTypes
    <2>3. Sound'
      BY <2>0, <2>2 DEF Sound, SoundMem, SoundAt, CardinalityOk, tables
    <2>4. PatchesFile'
      BY <2>0 DEF PatchesFile
    <2>5. FileLoaded'
      <3>1. ASSUME NEW q \in SqlRowsOf(section.file) \ unburied', Has(mem, q) \/ sqlRows[q].status = "Tombstone"
            PROVE  Has(mem', q) \/ sqlRows[q].status = "Tombstone"
        BY <2>0, <2>2, <3>1 DEF SqlRowsOf, Has
      <3>2. SqlRowsOf(section.file)' = SqlRowsOf(section.file) /\ unburied \subseteq unburied'
        BY <2>0 DEF SqlRowsOf, tables
      <3> QED BY <2>0, <3>1, <3>2 DEF FileLoaded, tables
    <2>6. Dirty' \subseteq Dirty
      BY <2>0, <2>2 DEF Dirty, Loaded, Has, tables
    <2>7. Clean'
      BY <2>0, <2>6 DEF Clean
    <2> QED BY <2>3, <2>4, <2>5, <2>7
  <1>4. ASSUME NEW i \in Idents, BurySoftDeleted(i)
        PROVE  Sound' /\ PatchesFile' /\ FileLoaded' /\ Clean'
    <2>0. /\ section.stage # "write" /\ section.todo = {} /\ UNCHANGED <<tables, section, unburied>>
          /\ (lossy => lossy')
      BY <1>4 DEF BurySoftDeleted
    <2>1. PICK r \in Rids, row \in Row :
            /\ Becomes(r, row, mem.edges[r]) /\ row # None
            /\ ~lossy' => section = Idle \/ section.kind = "speculate" \/ FileOf[r] = section.file
      BY <1>4, BuryEffect
    <2>2. ASSUME NEW q \in Rids
          PROVE  /\ mem'.rows[q] = IF q = r THEN row ELSE mem.rows[q]
                 /\ mem'.edges[q] = mem.edges[q]
      BY <2>1, OverlayTypes DEF Becomes
    <2>3. Sound'
      BY <2>0, <2>1, BecomesSound DEF Sound, tables
    <2>4. PatchesFile'
      BY <2>0 DEF PatchesFile
    <2>5. FileLoaded'
      BY <2>0, <2>1, <2>2 DEF FileLoaded, SqlRowsOf, tables, Has
    <2>6. ASSUME NEW q \in Dirty', q # r PROVE q \in Dirty
      BY <2>0, <2>2, <2>6 DEF Dirty, Loaded, Has, tables
    <2>7. Dirty' \in SUBSET Rids /\ (section.stage = "between" => section.file = None)
      BY DEF Dirty, Loaded, IInv, LoadsAFile
    <2>8. FileOf[r] # None
      BY OverlayAssumption, GraphAssumption
    <2>9. Clean'
      <3>1. section = Idle => section.kind = "idle" /\ section.stage = "none"
        BY DEF Idle
      <3>2. ASSUME ~lossy', section.stage \in {"load", "write"},
                   section.kind \in {"ingest", "promote", "revert"}, NEW q \in Dirty'
            PROVE  FileOf[q] = section.file
        <4>1. CASE q = r
          BY <2>1, <3>1, <3>2, <4>1
        <4>2. CASE q # r
          BY <2>0, <2>6, <2>7, <3>2, <4>2 DEF Clean
        <4> QED BY <4>1, <4>2
      <3>3. ASSUME ~lossy', section.stage = "between" PROVE Dirty' = {}
        <4>1. section.kind = "ingest" /\ section # Idle
          BY <3>1, <3>3 DEF IInv, LoadsAFile
        <4> QED BY <2>1, <2>7, <2>8, <3>3, <4>1
      <3> QED BY <2>0, <3>2, <3>3 DEF Clean
    <2> QED BY <2>3, <2>4, <2>5, <2>9
  <1> QED BY <1>1, <1>2, <1>3, <1>4 DEF Fault, Collect

LEMMA EndKeeps ==
  ASSUME GInv, End
  PROVE  Sound' /\ PatchesFile' /\ FileLoaded' /\ Clean'
  <1> USE DEF GInv
  <1>1. CASE CommitFile
    <2>1. /\ section.kind = "ingest" /\ section.stage = "write" /\ ApplyDelta(section.file)
          /\ section'.stage = "between" /\ mem' = mem
      BY <1>1, OverlayTypes DEF CommitFile, Sections, Idle
    <2>2. /\ \A r \in Rids : SoundAt(sqlRows'[r], sqlEdges'[r], r)
          /\ lossy => lossy'
          /\ ~lossy' => \A r \in Rids :
               /\ sqlRows'[r] = IF r \in FlushIds(section.file) THEN mem.rows[r] ELSE sqlRows[r]
               /\ sqlEdges'[r] = IF r \in FlushIds(section.file) THEN mem.edges[r] ELSE sqlEdges[r]
      BY <2>1, FlushEffect
    <2>3. Sound'
      BY <2>1, <2>2 DEF Sound
    <2>4. PatchesFile' /\ FileLoaded'
      BY <2>1 DEF PatchesFile, FileLoaded
    <2>5. ASSUME ~lossy', NEW r \in Dirty' PROVE FALSE
      <3>1. r \in Rids /\ Has(mem, r) /\ mem.rows[r].file = FileOf[r]
            /\ (mem.rows[r] # sqlRows'[r] \/ mem.edges[r] # sqlEdges'[r])
        BY <2>1, <2>5 DEF Dirty, Loaded, Sound, SoundMem, SoundAt, Has
      <3>2. r \notin FlushIds(section.file) /\ r \in Dirty
        BY <2>2, <2>5, <3>1 DEF Dirty, Loaded
      <3>3. FileOf[r] = section.file
        BY <2>1, <2>2, <2>5, <3>2 DEF Clean
      <3> QED BY <3>1, <3>2, <3>3 DEF FlushIds, Loaded
    <2> QED BY <2>1, <2>3, <2>4, <2>5 DEF Clean
  <1>2. CASE EndBatch
    <2>1. SoundMem(mem)'
      BY <1>2, EmptyIsClean DEF EndBatch
    <2> QED BY <1>2, <2>1 DEF EndBatch, tables, Idle, Sound, PatchesFile, PatchKinds, FileLoaded, Clean
  <1>3. CASE CommitAndDiscard
    <2>1. SoundMem(mem)' /\ section' = Idle
      BY <1>3, EmptyIsClean DEF CommitAndDiscard
    <2>2. Sound'
      BY <1>3, <2>1, FlushEffect DEF CommitAndDiscard, Sound
    <2> QED BY <2>1, <2>2 DEF Idle, PatchesFile, PatchKinds, FileLoaded, Clean
  <1> QED BY <1>1, <1>2, <1>3 DEF End

LEMMA FillKeeps ==
  ASSUME GInv, Fill
  PROVE  Sound' /\ PatchesFile' /\ FileLoaded' /\ Clean'
  <1> USE DEF GInv
  <1>0. section \in Sections
    BY OverlayTypes
  <1>1. CASE StartBatch
    <2>1. SoundMem(mem)' /\ Dirty' = {}
      BY <1>1, EmptyIsClean DEF StartBatch
    <2> QED BY <1>1, <2>1 DEF StartBatch, tables, Sound, PatchesFile, PatchKinds, FileLoaded, Clean
  <1>2. CASE StartWriting
    <2>1. /\ section.stage = "load" /\ section.todo = {} /\ UNCHANGED <<mem, tables, lossy, unburied>>
          /\ section'.stage = "write" /\ section'.kind = section.kind /\ section'.file = section.file
          /\ section.kind # "ingest" =>
               section'.todo = WithStatus(mem.rows, mem.byFile[section.file], StatusFrom[section.kind])
      BY <1>0, <1>2 DEF StartWriting, Sections, Idle
    <2>2. section.file \in Files
      BY <2>1 DEF IInv, LoadsAFile
    <2>3. Sound'
      BY <2>1 DEF Sound, tables
    <2>4. PatchesFile'
      <3>1. ASSUME NEW r \in mem.byFile[section.file] PROVE FileOf[r] = section.file
        <4>1. r \in Rids /\ FileOfRow(mem, r) = section.file
          BY <2>2, <3>1, OverlayTypes DEF Agrees, KeysAgree, RowsOfFile
        <4> QED BY <2>2, <4>1, GraphAssumption DEF FileOfRow, Sound, SoundMem, SoundAt, Has
      <3> QED BY <2>1, <3>1 DEF PatchesFile, WithStatus, PatchKinds
    <2>5. FileLoaded'
      BY <2>1 DEF FileLoaded, SqlRowsOf, tables, Has
    <2>6. Clean'
      BY <2>1 DEF Clean, Dirty, Loaded, tables
    <2> QED BY <2>3, <2>4, <2>5, <2>6
  <1>3. CASE StartMerge
    <2>1. SoundMem(mem)'
      BY <1>3, EmptyIsClean DEF StartMerge
    <2> QED BY <1>3, <2>1 DEF StartMerge, tables, Sound, PatchesFile, PatchKinds, FileLoaded, Clean
  <1>4. ASSUME NEW f \in Files, OpenFile(f) PROVE Sound' /\ PatchesFile' /\ FileLoaded' /\ Clean'
    <2>1. /\ section.stage = "between" /\ section'.stage = "load" /\ section'.file = f
          /\ section'.todo = SqlRowsOf(f) /\ UNCHANGED <<mem, tables, lossy>>
      BY <1>0, <1>4 DEF OpenFile, Sections, Idle
    <2> QED BY <2>1 DEF tables, Sound, PatchesFile, FileLoaded, SqlRowsOf, Clean, Dirty, Loaded
  <1>5. ASSUME NEW kind \in PatchKinds, NEW f \in Files, OpenPatch(kind, f)
        PROVE  Sound' /\ PatchesFile' /\ FileLoaded' /\ Clean'
    <2>1. /\ section'.stage = "load" /\ section'.file = f /\ section'.todo = SqlRowsOf(f)
          /\ UNCHANGED <<mem, tables>> /\ (lossy' = (lossy \/ Dirty # {}))
      BY <1>5 DEF OpenPatch
    <2> QED BY <2>1 DEF tables, Sound, PatchesFile, FileLoaded, SqlRowsOf, Clean, Dirty, Loaded
  <1>6. ASSUME NEW r \in Rids, AbsorbRow(r) PROVE Sound' /\ PatchesFile' /\ FileLoaded' /\ Clean'
    <2>1. /\ section.stage \in {"between", "load"} /\ r \in section.todo /\ mem' = Absorb(mem, r)
          /\ section'.stage = section.stage /\ section'.file = section.file
          /\ section'.todo = section.todo \ {r} /\ UNCHANGED <<tables, lossy, unburied>>
      BY <1>0, <1>6 DEF AbsorbRow, Sections, Idle
    <2>2. sqlRows[r] # None
      BY <2>1 DEF IInv, LoadsRows
    <2>3. ASSUME NEW q \in Rids
          PROVE  /\ mem'.rows[q] = IF q = r THEN sqlRows[r] ELSE mem.rows[q]
                 /\ mem'.edges[q] = IF q = r /\ sqlEdges[r] # {} THEN sqlEdges[r] ELSE mem.edges[q]
      BY <2>1, <2>2, AbsorbEffect, OverlayTypes
    <2>4. Sound'
      BY <2>1, <2>2, <2>3 DEF Sound, SoundMem, SoundAt, tables
    <2>5. PatchesFile'
      BY <2>1 DEF PatchesFile
    <2>6. FileLoaded'
      <3>1. \A q \in Rids : Has(mem, q) \/ q = r => Has(mem', q)
        BY <2>2, <2>3 DEF Has
      <3>2. SqlRowsOf(section.file)' = SqlRowsOf(section.file) /\ SqlRowsOf(section.file) \subseteq Rids
        BY <2>1 DEF SqlRowsOf, tables
      <3> QED BY <2>1, <3>1, <3>2 DEF FileLoaded, tables
    <2>7. Clean'
      <3>1. ASSUME Dirty = {}, NEW q \in Dirty' PROVE FALSE
        <4>1. q \in Rids /\ Has(mem', q) /\ (mem'.rows[q] # sqlRows[q] \/ mem'.edges[q] # sqlEdges[q])
          BY <2>1, <3>1 DEF Dirty, Loaded, tables
        <4>2. Has(mem, q) => mem.rows[q] = sqlRows[q] /\ mem.edges[q] = sqlEdges[q]
          BY <3>1, <4>1 DEF Dirty, Loaded
        <4>3. ~Has(mem, q) => mem.edges[q] = {}
          BY <4>1 DEF Sound, SoundMem, SoundAt, Has
        <4> QED BY <2>3, <4>1, <4>2, <4>3 DEF Has
      <3> QED BY <2>1, <3>1 DEF Clean
    <2> QED BY <2>4, <2>5, <2>6, <2>7
  <1> QED BY <1>1, <1>2, <1>3, <1>4, <1>5, <1>6 DEF Fill

(* The four parts hold of every behaviour, for any sizes and bounds.        *)
THEOREM OverlayInvariance == Spec => []GInv
  <1>1. Init => GInv
    <2> SUFFICES ASSUME Init PROVE GInv
      OBVIOUS
    <2>1. Sound
      BY DEF Init, Sound, SoundMem, SoundAt, EmptyGraph, CardinalityOk
    <2> QED BY <2>1, InitInv DEF GInv, Init, Idle, PatchesFile, PatchKinds, FileLoaded, Clean
  <1>2. GInv /\ [Next]_vars => GInv'
    <2> SUFFICES ASSUME GInv, [Next]_vars PROVE GInv'
      OBVIOUS
    <2>1. CASE Next
      BY <2>1, FillInv, ChangeInv, EndInv, FaultInv, FillKeeps, ChangeKeeps, EndKeeps, FaultKeeps
         DEF Next, GInv
    <2>2. CASE UNCHANGED vars
      BY <2>2 DEF vars, tables, GInv, IInv, TypeOK, IndexesAgree, LoadsRows, PatchesRows, LoadsAFile,
                  Sound, PatchesFile, FileLoaded, SqlRowsOf, Clean, Dirty, Loaded
    <2> QED BY <2>1, <2>2
  <1> QED BY <1>1, <1>2, PTL DEF Spec

---------------------------------------------------------------------------
(* What the listings say                                                    *)

(* The rows of the file are all in the overlay, or dead in the tables.      *)
LEMMA SeenOwnFile == GInv => OwnFileIsSeen
  <1> SUFFICES ASSUME GInv, section.kind \in PatchKinds \cup {"ingest"}, section.stage = "write",
                      NEW r \in Rids, IsLive(ViewRows[r]), ViewRows[r].file = section.file
               PROVE  r \in ViewFile(section.file) \cup unburied
    BY DEF OwnFileIsSeen
  <1>0. /\ mem.rows \in [Rids -> Row \cup {None}] /\ sqlRows \in [Rids -> Row \cup {None}]
        /\ KeysAgree(mem)
    BY OverlayTypes DEF GInv, Agrees
  <1>1. ViewRows[r] \in Row
    BY <1>0, ViewAt DEF IsLive
  <1>2. section.file \in Files
    BY <1>1 DEF Row
  <1>3. MemFile(section.file) = RowsOfFile(mem, section.file)
    BY <1>0, <1>2 DEF MemFile, KeysAgree
  <1>4. CASE Has(mem, r)
    <2>1. r \in RowsOfFile(mem, section.file)
      BY <1>4, ViewAt DEF RowsOfFile, FileOfRow
    <2> QED BY <1>3, <2>1 DEF ViewFile
  <1>5. CASE ~Has(mem, r)
    <2>1. ViewRows[r] = sqlRows[r] /\ r \in SqlRowsOf(section.file)
      BY <1>5, ViewAt DEF SqlRowsOf, IsLive
    <2> QED BY <1>5, <2>1 DEF GInv, FileLoaded, IsLive, PatchKinds
  <1> QED BY <1>4, <1>5

(* The overlay lists what it has, by indexes that agree, and the tables the *)
(* rest.                                                                    *)
LEMMA NothingIsMissed == GInv => ListingsMissNothing
  <1> SUFFICES ASSUME GInv PROVE ListingsMissNothing
    OBVIOUS
  <1>0. /\ mem.rows \in [Rids -> Row \cup {None}] /\ sqlRows \in [Rids -> Row \cup {None}]
        /\ mem.edges \in [Rids -> SUBSET Edge] /\ sqlEdges \in [Rids -> SUBSET Edge]
        /\ KeysAgree(mem)
    BY OverlayTypes DEF GInv, Agrees
  <1>1. ASSUME NEW b \in Bodies, NEW r \in Rids, ViewRows[r] # None, ViewRows[r].body = b
        PROVE  r \in ViewBody(b)
    <2>1. Has(mem, r) => r \in RowsOfBody(mem, b)
      BY <1>1, ViewAt DEF RowsOfBody, BodyOfRow
    <2>2. ~Has(mem, r) => r \in QueryBody(b)
      BY <1>1, ViewAt DEF QueryBody
    <2> QED BY <1>0, <2>1, <2>2 DEF ViewBody, MemBody, KeysAgree
  <1>2. ASSUME NEW chain \in Chains, NEW r \in OnChain(ViewRows, chain)
        PROVE  /\ r \in Rids
               /\ \/ Has(mem, r) /\ ViewRows[r] = mem.rows[r] /\ r \in OnChain(mem.rows, chain)
                  \/ ~Has(mem, r) /\ ViewRows[r] = sqlRows[r] /\ r \in OnChain(sqlRows, chain)
                     /\ r \notin OnChain(mem.rows, chain)
    BY <1>2, ViewAt DEF OnChain, Has
  <1>3. ASSUME NEW chain \in Chains, NEW r \in OnChain(ViewRows, chain)
        PROVE  ViewRows[r].ident \in ViewIdents(chain)
    BY <1>2, <1>3 DEF ViewIdents, MemIdents, QueryIdents
  <1>4. ASSUME NEW chain \in Chains, NEW n \in Needles, NEW long \in BOOLEAN,
               NEW r \in n.exact \cap OnChain(ViewRows, chain)
        PROVE  <<r, ViewRows[r]>> \in ViewNamed(chain, n, long)
    <2>1. r \in n.folded
      BY QueryAssumption
    <2>2. CASE Has(mem, r)
      <3>1. ViewRows[r] = mem.rows[r] /\ r \in MemNamed(chain, n)
        BY <1>2, <2>2 DEF MemNamed
      <3> QED BY <3>1 DEF ViewNamed, Merged, Entries
    <2>3. CASE ~Has(mem, r)
      <3>1. /\ ViewRows[r] = sqlRows[r] /\ r \notin MemNamed(chain, n)
            /\ r \in QueryNamed(chain, n, long)
        BY <1>2, <2>1, <2>3 DEF MemNamed, QueryNamed, QueryNamedFts, QueryNamedLike
      <3> QED BY <3>1 DEF ViewNamed, Merged, Entries
    <2> QED BY <2>2, <2>3
  <1>5. ASSUME NEW r \in Rids, NEW e \in ViewEdges[r], ViewRows[r] # None
        PROVE  \E a \in ViewInbound(e.target) : a[2].site = e.site
    <2> DEFINE a == <<r, e>>
    <2>1. e \in Edge /\ a \in Rids \X Edge /\ a[1] = r /\ a[2] = e
      BY <1>0, <1>5, ViewAt
    <2> HIDE DEF a
    <2>2. CASE Has(mem, r)
      <3>1. a \in MemInbound(e.target)
        BY <1>5, <2>1, <2>2, ViewAt DEF MemInbound
      <3> QED BY <2>1, <3>1 DEF ViewInbound
    <2>3. CASE ~Has(mem, r)
      <3>1. a \in QueryInbound(e.target)
        BY <1>5, <2>1, <2>3, ViewAt DEF QueryInbound
      <3> QED BY <2>1, <3>1 DEF ViewInbound
    <2> QED BY <2>2, <2>3
  <1>6. ASSUME NEW chain \in Chains
        PROVE  /\ {ViewRows[r].ident : r \in OnChain(ViewRows, chain)} \subseteq ViewIdents(chain)
               /\ \A n \in Needles, long \in BOOLEAN :
                    Entries(n.exact \cap OnChain(ViewRows, chain), ViewRows)
                      \subseteq ViewNamed(chain, n, long)
    BY <1>3, <1>4 DEF Entries
  <1> QED BY <1>1, <1>5, <1>6 DEF ListingsMissNothing

(* A row does not change its file, so no row of the overlay hides from a    *)
(* listing of its branch.                                                   *)
LEMMA ListedAsSeen == GInv => ListingsAreCurrent
  <1> SUFFICES ASSUME GInv, NEW chain \in Chains
               PROVE  /\ \A a \in ViewOnBranches(chain) : a[2] = ViewRows[a[1]]
                      /\ \A n \in Needles, long \in BOOLEAN :
                           \A a \in ViewNamed(chain, n, long) : a[1] \in n.exact => a[2] = ViewRows[a[1]]
    BY DEF ListingsAreCurrent
  <1>1. ASSUME NEW r \in OnChain(sqlRows, chain), r \notin OnChain(mem.rows, chain)
        PROVE  r \in Rids /\ ViewRows[r] = sqlRows[r]
    <2>1. ~Has(mem, r)
      BY <1>1 DEF OnChain, Has, GInv, Sound, SoundMem, SoundAt
    <2> QED BY <1>1, <2>1, ViewAt DEF OnChain
  <1>2. \A r \in OnChain(mem.rows, chain) \cup Loaded : r \in Rids /\ ViewRows[r] = mem.rows[r]
    BY ViewAt DEF OnChain, Loaded, Has
  <1>3. ASSUME NEW inMem \in SUBSET (OnChain(mem.rows, chain) \cup Loaded), NEW inSql,
               NEW S, \A r \in (inSql \ inMem) \cap S : r \in Rids /\ ViewRows[r] = sqlRows[r],
               NEW a \in Merged(inMem, inSql), a[1] \in S
        PROVE  a[2] = ViewRows[a[1]]
    BY <1>2, <1>3 DEF Merged, Entries
  <1>4. ASSUME NEW a \in ViewOnBranches(chain) PROVE a[2] = ViewRows[a[1]]
    <2>1. MemOnBranches(chain) \in SUBSET (OnChain(mem.rows, chain) \cup Loaded)
      BY DEF MemOnBranches
    <2>2. ASSUME NEW r \in QueryOnBranches(chain) \ MemOnBranches(chain)
          PROVE  r \in Rids /\ ViewRows[r] = sqlRows[r]
      BY <1>1, <2>2, ViewAt DEF QueryOnBranches, MemOnBranches, Loaded
    <2>3. a[1] \in QueryOnBranches(chain) \cup MemOnBranches(chain)
      BY <1>4 DEF ViewOnBranches, Merged, Entries
    <2> QED BY <1>3, <1>4, <2>1, <2>2, <2>3 DEF ViewOnBranches
  <1>5. ASSUME NEW n \in Needles, NEW long \in BOOLEAN, NEW a \in ViewNamed(chain, n, long),
               a[1] \in n.exact
        PROVE  a[2] = ViewRows[a[1]]
    <2>1. MemNamed(chain, n) \in SUBSET (OnChain(mem.rows, chain) \cup Loaded)
      BY DEF MemNamed
    <2>2. ASSUME NEW r \in (QueryNamed(chain, n, long) \ MemNamed(chain, n)) \cap n.exact
          PROVE  r \in Rids /\ ViewRows[r] = sqlRows[r]
      BY <1>1, <2>2 DEF QueryNamed, QueryNamedFts, QueryNamedLike, MemNamed
    <2> QED BY <1>3, <1>5, <2>1, <2>2 DEF ViewNamed
  <1> QED BY <1>4, <1>5

(* A writer sees every live row of the file it is writing.                  *)
THEOREM OwnFileIsAlwaysSeen == Spec => []OwnFileIsSeen
  BY OverlayInvariance, SeenOwnFile, PTL

(* No listing misses a row, an edge or an identity of the merged graph.     *)
THEOREM ListingsAlwaysMissNothing == Spec => []ListingsMissNothing
  BY OverlayInvariance, NothingIsMissed, PTL

(* No listing has an old version of a row.                                  *)
THEOREM ListingsAreAlwaysCurrent == Spec => []ListingsAreCurrent
  BY OverlayInvariance, ListedAsSeen, PTL

---------------------------------------------------------------------------
(* One graph, as with the RAM backend                                       *)

Same == UNCHANGED <<ViewRows, ViewEdges, sqlRows, sqlEdges>>

(* The graph that is seen, from the rows and edges of each id.              *)
LEMMA ViewFunctions ==
  /\ DOMAIN ViewRows = Rids /\ DOMAIN ViewEdges = Rids
  /\ ViewRows = [r \in Rids |-> ViewRows[r]] /\ ViewEdges = [r \in Rids |-> ViewEdges[r]]
  BY DEF ViewRows, ViewEdges

LEMMA ViewAtNext ==
  ASSUME NEW r \in Rids
  PROVE  /\ ViewRows'[r] = IF Has(mem', r) THEN mem'.rows[r] ELSE sqlRows'[r]
         /\ ViewEdges'[r] = IF Has(mem', r) THEN mem'.edges[r] ELSE sqlEdges'[r]
  BY DEF ViewRows, ViewEdges

LEMMA SameView ==
  ASSUME UNCHANGED tables,
         \A r \in Rids : ViewRows'[r] = ViewRows[r] /\ ViewEdges'[r] = ViewEdges[r]
  PROVE  Same
  <1>1. ViewRows' = ViewRows
    BY DEF ViewRows
  <1>2. ViewEdges' = ViewEdges
    BY DEF ViewEdges
  <1> QED BY <1>1, <1>2 DEF Same, tables

(* An overlay thrown away shows the tables.                                 *)
LEMMA EmptyShowsTables ==
  ASSUME IInv', mem' = EmptyGraph
  PROVE  ViewRows' = sqlRows' /\ ViewEdges' = sqlEdges'
  <1>1. \A r \in Rids : ~Has(mem', r)
    BY DEF EmptyGraph, Has
  <1>2. sqlRows' \in [Rids -> Row \cup {None}] /\ sqlEdges' \in [Rids -> SUBSET Edge]
    BY DEF IInv, TypeOK
  <1> QED BY <1>1, <1>2 DEF ViewRows, ViewEdges

(* Each group of actions is a step of the one graph, or none: a write is a  *)
(* change of one row or of its edges.                                       *)
LEMMA RowIsRam ==
  ASSUME GInv, UNCHANGED tables, ~lossy',
         NEW r \in Rids, NEW row \in Row, NEW new \in SUBSET Edge, Changes(r, row, new)
  PROVE  Ram!AbsNext
  <1>3. row # None /\ (new = ViewEdges[r] \/ row = ViewRows[r])
    BY GraphAssumption DEF Changes
  <1>4. ASSUME NEW q \in Rids
        PROVE  /\ mem'.rows[q] = IF q = r THEN row ELSE mem.rows[q]
               /\ mem'.edges[q] = IF q = r THEN new ELSE mem.edges[q]
    BY OverlayTypes DEF GInv, Changes, Becomes
  <1>5. ASSUME NEW q \in Rids
        PROVE  /\ ViewRows'[q] = IF q = r THEN row ELSE ViewRows[q]
               /\ ViewEdges'[q] = IF q = r THEN new ELSE ViewEdges[q]
    BY <1>3, <1>4, ViewAt, ViewAtNext DEF Has, tables
  <1>6. ViewRows' = [q \in Rids |-> IF q = r THEN row ELSE ViewRows[q]]
    BY <1>5 DEF ViewRows
  <1>7. ViewEdges' = [q \in Rids |-> IF q = r THEN new ELSE ViewEdges[q]]
    BY <1>5 DEF ViewEdges
  <1>8. CASE new = ViewEdges[r]
    <2>1. ViewRows' = [ViewRows EXCEPT ![r] = row] /\ ViewEdges' = ViewEdges
      BY <1>6, <1>7, <1>8, ViewFunctions
    <2>2. Ram!SetRow(r, row)
      BY <2>1 DEF Ram!SetRow, tables
    <2> QED BY <2>2 DEF Ram!AbsNext
  <1>9. CASE row = ViewRows[r]
    <2>1. ViewRows' = ViewRows /\ ViewEdges' = [ViewEdges EXCEPT ![r] = new]
      BY <1>6, <1>7, <1>9, ViewFunctions
    <2>2. Ram!SetEdges(r, new)
      BY <1>3, <1>9, <2>1 DEF Ram!SetEdges, tables
    <2> QED BY <2>2 DEF Ram!AbsNext
  <1> QED BY <1>3, <1>8, <1>9

LEMMA ChangeIsRam ==
  ASSUME GInv, Change
  PROVE  Ram!AbsNext \/ lossy'
  <1>1. UNCHANGED tables
    BY ChangeEffect DEF GInv, StaysInSection
  <1>2. PICK r \in Rids, row \in Row, new \in SUBSET Edge : Changes(r, row, new)
    BY ChangeEffect DEF GInv
  <1> QED BY <1>1, <1>2, RowIsRam

LEMMA FillIsRam ==
  ASSUME GInv, GInv', Fill
  PROVE  Ram!AbsNext \/ Same \/ lossy'
  <1>1. CASE StartBatch
    <2>1. Ram!Lose
      BY <1>1, EmptyShowsTables DEF GInv, StartBatch, Ram!Lose, tables
    <2> QED BY <2>1 DEF Ram!AbsNext
  <1>2. CASE StartWriting
    BY <1>2 DEF StartWriting, Same, tables, ViewRows, ViewEdges
  <1>3. CASE StartMerge
    <2>1. Ram!Lose
      BY <1>3, EmptyShowsTables DEF GInv, StartMerge, Ram!Lose, tables
    <2> QED BY <2>1 DEF Ram!AbsNext
  <1>4. ASSUME NEW f \in Files, OpenFile(f) PROVE Same
    BY <1>4 DEF OpenFile, Same, tables, ViewRows, ViewEdges
  <1>5. ASSUME NEW kind \in PatchKinds, NEW f \in Files, OpenPatch(kind, f) PROVE Same
    BY <1>5 DEF OpenPatch, Same, tables, ViewRows, ViewEdges
  <1>6. ASSUME NEW r \in Rids, AbsorbRow(r), ~lossy' PROVE Same
    <2>1. /\ section.stage \in {"between", "load"} /\ r \in section.todo /\ mem' = Absorb(mem, r)
          /\ UNCHANGED <<tables, lossy>>
      BY <1>6 DEF AbsorbRow
    <2>2. sqlRows[r] # None /\ r \in Rids
      BY <2>1 DEF GInv, IInv, LoadsRows
    <2>3. ASSUME NEW q \in Rids
          PROVE  /\ mem'.rows[q] = IF q = r THEN sqlRows[r] ELSE mem.rows[q]
                 /\ mem'.edges[q] = IF q = r /\ sqlEdges[r] # {} THEN sqlEdges[r] ELSE mem.edges[q]
      BY <2>1, <2>2, AbsorbEffect, OverlayTypes DEF GInv
    <2>4. Dirty = {}
      BY <1>6, <2>1 DEF GInv, Clean
    <2>5. Has(mem, r) => mem.rows[r] = sqlRows[r] /\ mem.edges[r] = sqlEdges[r]
      BY <2>4 DEF Dirty, Loaded
    <2>6. ~Has(mem, r) => mem.edges[r] = {}
      BY DEF GInv, Sound, SoundMem, SoundAt, Has
    <2>7. ASSUME NEW q \in Rids PROVE ViewRows'[q] = ViewRows[q] /\ ViewEdges'[q] = ViewEdges[q]
      <3>1. sqlRows' = sqlRows /\ sqlEdges' = sqlEdges
        BY <2>1 DEF tables
      <3>2. CASE q # r
        <4>1. mem'.rows[q] = mem.rows[q] /\ mem'.edges[q] = mem.edges[q]
          BY <2>3, <3>2
        <4> QED BY <3>1, <4>1, ViewAt, ViewAtNext DEF Has
      <3>3. CASE q = r
        <4>1. mem'.rows[r] = sqlRows[r]
          BY <2>2, <2>3
        <4>2. mem'.edges[r] = sqlEdges[r]
          <5>1. CASE sqlEdges[r] # {}
            BY <2>2, <2>3, <5>1
          <5>2. CASE sqlEdges[r] = {}
            BY <2>2, <2>3, <2>5, <2>6, <5>2
          <5> QED BY <5>1, <5>2
        <4>3. ViewRows'[r] = sqlRows[r] /\ ViewEdges'[r] = sqlEdges[r]
          BY <2>2, <4>1, <4>2, ViewAtNext DEF Has
        <4>4. ViewRows[r] = sqlRows[r] /\ ViewEdges[r] = sqlEdges[r]
          BY <2>5, ViewAt DEF Has
        <4> QED BY <3>3, <4>3, <4>4
      <3> QED BY <3>2, <3>3
    <2> QED BY <2>1, <2>7, SameView
  <1> QED BY <1>1, <1>2, <1>3, <1>4, <1>5, <1>6 DEF Fill

(* A flush saves the whole graph: what it leaves out is as the tables have  *)
(* it.                                                                      *)
LEMMA FlushSaves ==
  ASSUME GInv, section.stage = "write", NEW f, ApplyDelta(f), ~lossy',
         f # None => f = section.file /\ section.kind \in {"ingest", "promote", "revert"}
  PROVE  \A r \in Rids : sqlRows'[r] = ViewRows[r] /\ sqlEdges'[r] = ViewEdges[r]
  <1> SUFFICES ASSUME NEW r \in Rids
               PROVE  sqlRows'[r] = ViewRows[r] /\ sqlEdges'[r] = ViewEdges[r]
    OBVIOUS
  <1>1. /\ ~lossy
        /\ sqlRows'[r] = IF r \in FlushIds(f) THEN mem.rows[r] ELSE sqlRows[r]
        /\ sqlEdges'[r] = IF r \in FlushIds(f) THEN mem.edges[r] ELSE sqlEdges[r]
    BY FlushEffect DEF GInv
  <1>2. CASE ~Has(mem, r)
    BY <1>1, <1>2, ViewAt DEF FlushIds, Loaded
  <1>3. CASE r \in FlushIds(f)
    BY <1>1, <1>3, ViewAt DEF FlushIds, Loaded
  <1>4. CASE Has(mem, r) /\ r \notin FlushIds(f)
    <2>1. f # None /\ mem.rows[r].file # f /\ mem.rows[r].file = FileOf[r]
      BY <1>4 DEF FlushIds, Loaded, GInv, Sound, SoundMem, SoundAt, Has
    <2>2. r \notin Dirty
      BY <1>1, <2>1 DEF GInv, Clean
    <2> QED BY <1>1, <1>4, <2>2, ViewAt DEF Dirty, Loaded
  <1> QED BY <1>2, <1>3, <1>4

LEMMA EndIsRam ==
  ASSUME GInv, GInv', End
  PROVE  Ram!AbsNext \/ lossy'
  <1>0. sqlRows' \in [Rids -> Row \cup {None}] /\ sqlEdges' \in [Rids -> SUBSET Edge]
    BY DEF GInv, IInv, TypeOK
  <1>1. ASSUME CommitFile, ~lossy' PROVE Ram!Save
    <2>1. /\ section.kind = "ingest" /\ section.stage = "write" /\ ApplyDelta(section.file) /\ mem' = mem
      BY <1>1 DEF CommitFile
    <2>2. \A r \in Rids : sqlRows'[r] = ViewRows[r] /\ sqlEdges'[r] = ViewEdges[r]
      BY <1>1, <2>1, FlushSaves
    <2>3. sqlRows' = ViewRows /\ sqlEdges' = ViewEdges
      BY <1>0, <2>2 DEF ViewRows, ViewEdges
    <2>4. \A r \in Rids : ViewRows'[r] = ViewRows[r] /\ ViewEdges'[r] = ViewEdges[r]
      BY <2>1, <2>2, ViewAt, ViewAtNext
    <2>5. ViewRows' = ViewRows /\ ViewEdges' = ViewEdges
      BY <2>4 DEF ViewRows, ViewEdges
    <2> QED BY <2>3, <2>5 DEF Ram!Save
  <1>2. ASSUME EndBatch PROVE Ram!Lose
    BY <1>2, EmptyShowsTables DEF GInv, EndBatch, Ram!Lose, tables
  <1>3. ASSUME CommitAndDiscard, ~lossy' PROVE Ram!Save
    <2> DEFINE f == IF section.kind \in {"promote", "revert"} THEN section.file ELSE None
    <2>1. section.stage = "write" /\ ApplyDelta(f) /\ mem' = EmptyGraph
      BY <1>3 DEF CommitAndDiscard
    <2>2. f # None => f = section.file /\ section.kind \in {"ingest", "promote", "revert"}
      OBVIOUS
    <2> HIDE DEF f
    <2>3. \A r \in Rids : sqlRows'[r] = ViewRows[r] /\ sqlEdges'[r] = ViewEdges[r]
      BY <1>3, <2>1, <2>2, FlushSaves
    <2>4. sqlRows' = ViewRows /\ sqlEdges' = ViewEdges
      BY <1>0, <2>3 DEF ViewRows, ViewEdges
    <2>5. ViewRows' = sqlRows' /\ ViewEdges' = sqlEdges'
      BY <2>1, EmptyShowsTables DEF GInv
    <2> QED BY <2>4, <2>5 DEF Ram!Save
  <1> QED BY <1>1, <1>2, <1>3 DEF End, Ram!AbsNext

LEMMA FaultIsRam ==
  ASSUME GInv, GInv', Fault
  PROVE  Ram!AbsNext \/ Same \/ lossy'
  <1>1. CASE FlushFails
    BY <1>1 DEF FlushFails, Same, tables, ViewRows, ViewEdges
  <1>2. CASE Crash
    <2>1. Ram!Lose
      BY <1>2, EmptyShowsTables DEF GInv, Crash, Ram!Lose, tables
    <2> QED BY <2>1 DEF Ram!AbsNext
  <1>3. ASSUME NEW r \in Rids, CollectRow(r), ~lossy' PROVE Same
    <2>1. Has(mem, r) /\ mem' = RemoveRevision(mem, r) /\ UNCHANGED tables /\ r \notin Dirty
      BY <1>3 DEF CollectRow, tables
    <2>2. mem'.rows = [mem.rows EXCEPT ![r] = None] /\ mem'.edges = [mem.edges EXCEPT ![r] = {}]
      BY <2>1, OverlayTypes, RemoveEffect DEF GInv
    <2>3. ASSUME NEW q \in Rids
          PROVE  /\ mem'.rows[q] = IF q = r THEN None ELSE mem.rows[q]
                 /\ mem'.edges[q] = IF q = r THEN {} ELSE mem.edges[q]
      BY <2>2, OverlayTypes DEF GInv
    <2>4. mem.rows[r] = sqlRows[r] /\ mem.edges[r] = sqlEdges[r]
      BY <2>1 DEF Dirty, Loaded
    <2>5. ASSUME NEW q \in Rids PROVE ViewRows'[q] = ViewRows[q] /\ ViewEdges'[q] = ViewEdges[q]
      BY <2>1, <2>3, <2>4, ViewAt, ViewAtNext DEF Has, tables
    <2> QED BY <2>1, <2>5, SameView
  <1>4. ASSUME NEW i \in Idents, BurySoftDeleted(i), ~lossy' PROVE Ram!AbsNext
    <2>1. UNCHANGED tables
      BY <1>4 DEF BurySoftDeleted
    <2>2. PICK r \in Rids, row \in Row : Changes(r, row, mem.edges[r]) /\ mem.edges[r] \in SUBSET Edge
      BY <1>4, BuryEffect DEF GInv
    <2> QED BY <1>4, <2>1, <2>2, RowIsRam
  <1> QED BY <1>1, <1>2, <1>3, <1>4 DEF Fault, Collect

(* Overlay over tables is one graph: whatever is loaded, copied, flushed in *)
(* part or thrown away, the callers see rows and edges change one at a time,*)
(* all of it saved by a flush and all since the last flush lost by a        *)
(* failure, but in the steps and after the ones that lossy names.           *)
THEOREM OverlayIsOneGraph == Spec => ImplementsRamUnlessLossy
  <1>1. Init => Ram!AbsInit
    <2> SUFFICES ASSUME Init PROVE Ram!AbsInit
      OBVIOUS
    <2>1. \A r \in Rids : ~Has(mem, r)
      BY DEF Init, EmptyGraph, Has
    <2> QED BY <2>1 DEF Init, Ram!AbsInit, ViewRows, ViewEdges
  <1>2. GInv /\ GInv' /\ [Next]_vars =>
          [Ram!AbsNext \/ lossy']_<<ViewRows, ViewEdges, sqlRows, sqlEdges>>
    <2> SUFFICES ASSUME GInv, GInv', [Next]_vars PROVE Ram!AbsNext \/ lossy' \/ Same
      BY DEF Same
    <2>1. CASE UNCHANGED vars
      BY <2>1 DEF vars, tables, Same, ViewRows, ViewEdges
    <2> QED BY <2>1, FillIsRam, ChangeIsRam, EndIsRam, FaultIsRam DEF Next
  <1> QED BY <1>1, <1>2, OverlayInvariance, PTL DEF Spec, ImplementsRamUnlessLossy
=============================================================================
