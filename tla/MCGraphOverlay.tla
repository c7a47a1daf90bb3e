--------------------------- MODULE MCGraphOverlay ---------------------------
(* Instances of GraphOverlay for TLC: two rows of one symbol of a file, and *)
(* one of another file.                                                     *)
EXTENDS GraphQueries

CONSTANTS r1, r2, r3, f1, f2, c1

FileMap == [r \in Rids |-> IF r = r3 THEN f2 ELSE f1]
NeedleSet == {[exact |-> {r1}, folded |-> {r1, r3} \cap Rids]}
CallMap == [r \in Rids |-> IF r = r3 THEN {} ELSE {c1}]
=============================================================================
