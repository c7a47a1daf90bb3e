--------------------------- MODULE MergeClassify ---------------------------
(* Phase A and the decision of phase B of the merge engine, as operators on *)
(* bindings.  Bindings map an identity to the revision bound on a branch,   *)
(* or to None.  Of a revision only its body hash and the identity it says   *)
(* it was renamed from are read.                                            *)
EXTENDS Naturals, FiniteSets

CONSTANTS Identities,      \* symbols
          Revisions,       \* stored revisions of symbols
          None,            \* absence of a revision, a strategy, an identity
          BodyHash,        \* body hash of each revision
          RenameSource     \* identity a revision was renamed from, or None

ASSUME MergeClassifyAssumption ==
  /\ None \notin Revisions /\ None \notin Identities
  /\ \A r \in Revisions : BodyHash[r] # None
  /\ RenameSource \in [Revisions -> Identities \cup {None}]

Bindings == [Identities -> Revisions \cup {None}]
NoBindings == [i \in Identities |-> None]

Strategies == {"Ours", "Theirs"}

(* BaseDeletedFeatureNew is left out: no code path produces it.              *)
ConflictClasses ==
  {"BothModifiedUnresolved", "BothNewDivergent", "OursDeletedTheirsModified",
   "TheirsDeletedOursModified"}
MergeIdentityClass ==
  ConflictClasses \cup
  {"Clean", "OursOnly", "TheirsOnly", "BothModifiedSame", "RenamedCandidate",
   "BothDeleted", "OursNew", "TheirsNew"}

Hash(r) == IF r = None THEN None ELSE BodyHash[r]

(* Mutant: the test of the deleted: marker is inverted.                     *)
LiveBindingsInverted(bound, deleted) ==
  [i \in Identities |-> IF i \in deleted THEN bound[i] ELSE None]

(* What is live for a merge: a soft-deleted identity counts as absent.      *)
LiveBindings(bound, deleted) ==
  [i \in Identities |-> IF i \in deleted THEN None ELSE bound[i]]

---------------------------------------------------------------------------
(* classify_single_identity: the class of an identity whose revisions have  *)
(* the hashes b (base), o (ours) and t (theirs).                            *)
ClassifyHashes(b, o, t) ==
  CASE b = None /\ o = None /\ t = None -> "Clean"
    [] b = None /\ o # None /\ t = None -> "OursNew"
    [] b = None /\ o = None /\ t # None -> "TheirsNew"
    [] b = None /\ o # None /\ t # None ->
         IF o = t THEN "BothModifiedSame" ELSE "BothNewDivergent"
    [] b # None /\ o # None /\ t # None ->
         (CASE o = b /\ t = b -> "Clean"
            [] o = b /\ t # b -> "TheirsOnly"
            [] o # b /\ t = b -> "OursOnly"
            [] o # b /\ t # b -> IF o = t THEN "BothModifiedSame"
                                          ELSE "BothModifiedUnresolved")
    [] b # None /\ o # None /\ t = None ->
         IF o = b THEN "TheirsOnly" ELSE "TheirsDeletedOursModified"
    [] b # None /\ o = None /\ t # None ->
         IF t = b THEN "OursOnly" ELSE "OursDeletedTheirsModified"
    [] b # None /\ o = None /\ t = None -> "BothDeleted"

(* The rows phase A builds before it looks for renames.                     *)
ClassifyRows(base, ours, theirs) ==
  [i \in {j \in Identities : base[j] # None \/ ours[j] # None \/ theirs[j] # None} |->
     [class |-> ClassifyHashes(Hash(base[i]), Hash(ours[i]), Hash(theirs[i])),
      base |-> base[i], ours |-> ours[i], theirs |-> theirs[i]]]

(* The first of ours and theirs that names a rename source.                 *)
RenameSourceOf(row) ==
  LET named == {r \in {row.ours, row.theirs} \ {None} : RenameSource[r] # None}
  IN CASE named = {}          -> None
       [] row.ours \in named  -> RenameSource[row.ours]
       [] OTHER               -> RenameSource[row.theirs]

RenamePairs(rows) ==
  LET gone == {i \in DOMAIN rows : rows[i].class \in {"TheirsOnly", "OursOnly", "BothDeleted"}}
      fresh == {i \in DOMAIN rows :
                  rows[i].class \in {"OursNew", "TheirsNew", "OursOnly", "TheirsOnly",
                                     "BothNewDivergent", "BothModifiedUnresolved"}}
  IN {p \in gone \X fresh : RenameSourceOf(rows[p[2]]) = p[1]}

(* detect_renames.  The pairs are applied one after the other in the order  *)
(* of a hash map: an identity that is the new name in one pair and the old  *)
(* name in another keeps the class of whichever pair comes last.            *)
DetectRenames(rows) ==
  LET pairs == RenamePairs(rows)
      olds  == {p[1] : p \in {q \in pairs : q[1] # q[2]}}
      news  == {p[2] : p \in pairs}
  IN { [i \in DOMAIN rows |->
          [rows[i] EXCEPT !.class =
             CASE i \in news /\ i \notin olds           -> "RenamedCandidate"
               [] i \in olds /\ i \notin news           -> "BothDeleted"
               [] i \in olds \cap news                  -> last[i]
               [] OTHER                                 -> @]]
       : last \in [olds \cap news -> {"RenamedCandidate", "BothDeleted"}] }

(* phase_a_classify_with_base: every classification the code may return.    *)
PhaseA(base, ours, theirs) == DetectRenames(ClassifyRows(base, ours, theirs))

(* merge_phase_a_report: the merge cannot go on without a strategy.         *)
RequiresResolution(rows) == \E i \in DOMAIN rows : rows[i].class \in ConflictClasses

---------------------------------------------------------------------------
(* phase_b_promote: which identities it decides, and the winner of each     *)
(* (None: the identity is unbound and an absence marker planted).           *)
Decided(rows, strategy) ==
  {i \in DOMAIN rows : rows[i].class \in ConflictClasses => strategy # None}

Winner(row, strategy) ==
  CASE row.class = "Clean"            -> IF row.ours # None THEN row.ours ELSE row.base
    [] row.class \in {"OursOnly", "OursNew", "BothModifiedSame"} -> row.ours
    [] row.class \in {"TheirsOnly", "TheirsNew"}                 -> row.theirs
    [] row.class = "RenamedCandidate" -> IF row.theirs # None THEN row.theirs ELSE row.ours
    [] row.class = "BothDeleted"      -> None
    [] row.class \in ConflictClasses  -> IF strategy = "Ours" THEN row.ours ELSE row.theirs
=============================================================================
