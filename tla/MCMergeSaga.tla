---------------------------- MODULE MCMergeSaga ----------------------------
(* Instances of MergeSaga for TLC.  The target starts with the base         *)
(* revisions of f and g; on the source f was changed and g deleted.         *)
EXTENDS MergeSaga

CONSTANTS m1, m2,             \* merges
          f, g,               \* identities
          f0, f1, f2, g0      \* revisions: base, the source's, the reindexed, base

MCBodyHash == [r \in Revisions |-> CASE r = f0 -> "a" [] r = f1 -> "b" [] r = f2 -> "c"
                                     [] OTHER -> "g"]
(* The source renamed f before it changed it; or g was renamed before the   *)
(* branches parted.                                                         *)
MCRenameSource == [r \in Revisions |-> IF r = f1 THEN f ELSE None]
MCRenamedBefore == [r \in Revisions |-> IF r = g0 THEN g ELSE None]
MCTheirs == [i \in Identities |-> IF i = f THEN f1 ELSE None]
MCReindexed == [i \in Identities |-> IF i = f THEN f2 ELSE g0]
MCStrategiesOf == [m \in Merges |-> IF m = m1 THEN {None} ELSE {"Ours"}]
(* One merge, two faults and a cancel.                                      *)
MCOneMerge ==
  {[ri |-> [i \in Identities |-> IF i = f THEN f0 ELSE g0], deleted |-> d,
    merges |-> {m1}, faults |-> 2, edits |-> 0, cancels |-> 1] : d \in {{}, {f}}}
(* Two merges and the recovery, or one beside a reindex of the branch.      *)
MCRace ==
  {[ri |-> [i \in Identities |-> IF i = f THEN f0 ELSE None], deleted |-> {},
    merges |-> {m1, m2}, faults |-> 0, edits |-> 0, cancels |-> 0],
   [ri |-> [i \in Identities |-> IF i = f THEN f0 ELSE g0], deleted |-> {},
    merges |-> {m1}, faults |-> 1, edits |-> 1, cancels |-> 1]}
=============================================================================
