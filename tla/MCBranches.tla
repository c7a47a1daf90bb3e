----------------------------- MODULE MCBranches -----------------------------
(* Small instances of Branches.                                             *)
EXTENDS Branches, TLC

CONSTANTS main, f, g, i1, i2, f1, f2, mcp, git

MCHome == i1 :> f1 @@ i2 :> f2
MCHome1 == i1 :> f1
MCRequests == mcp :> 2 @@ git :> 1
Alike == Permutations({f, g})
=============================================================================
