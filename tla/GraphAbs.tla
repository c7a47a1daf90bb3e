------------------------------ MODULE GraphAbs ------------------------------
(* What a graph promises its callers, whatever keeps it: one row or the     *)
(* edges of one row change at a time, what is saved is the whole graph as it*)
(* is, and what is lost is everything since the last save.  The RAM backend *)
(* is that graph; GraphOverlay shows what the SQLite backend makes of it.   *)
CONSTANTS Rids, Rows, EdgeSets, None

VARIABLES rows, edges,          \* the graph as its callers see it
          keptRows, keptEdges   \* the graph as it was saved last

absVars == <<rows, edges, keptRows, keptEdges>>

AbsInit == /\ rows = [r \in Rids |-> None] /\ edges = [r \in Rids |-> {}]
           /\ keptRows = rows /\ keptEdges = edges

SetRow(r, row) == /\ rows' = [rows EXCEPT ![r] = row]
                  /\ UNCHANGED <<edges, keptRows, keptEdges>>

SetEdges(r, new) == /\ rows[r] # None
                    /\ edges' = [edges EXCEPT ![r] = new]
                    /\ UNCHANGED <<rows, keptRows, keptEdges>>

Save == /\ keptRows' = rows /\ keptEdges' = edges
        /\ UNCHANGED <<rows, edges>>

Lose == /\ rows' = keptRows /\ edges' = keptEdges
        /\ UNCHANGED <<keptRows, keptEdges>>

AbsNext == \/ Save \/ Lose
           \/ \E r \in Rids : \/ \E row \in Rows : SetRow(r, row)
                              \/ \E new \in EdgeSets : SetEdges(r, new)

AbsSpec == AbsInit /\ [][AbsNext]_absVars
=============================================================================
