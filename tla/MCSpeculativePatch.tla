------------------------- MODULE MCSpeculativePatch -------------------------
(* Instances of SpeculativePatch for TLC: a write racing the sync thread,   *)
(* and beside them a request of another session, an edit, a fault anywhere  *)
(* and a merge, or a second write of the session.                           *)
EXTENDS SpeculativePatch
CONSTANTS s1, s2, f1
Bound(writes, requests, edits, faults) ==
  [writes |-> [s \in Sessions |-> IF s = s1 THEN writes ELSE 0],
   requests |-> [s \in Sessions |-> IF s = s2 THEN requests ELSE 0],
   flushes |-> 2, edits |-> edits, faults |-> faults, merges |-> faults]
MCBounds == {Bound(1, 1, 0, 0), Bound(1, 0, 1, 0), Bound(1, 0, 0, 1), Bound(2, 0, 0, 0)}
=============================================================================
