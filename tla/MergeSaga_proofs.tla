-------------------------- MODULE MergeSaga_proofs --------------------------
(* For any merges, identities, revisions and bounds, and in any interleaving*)
(* of merges, cancels, sweeps, reindexes, crashes and recoveries: two merges*)
(* that kept their lock are never in merge_branch together, a merge binds   *)
(* nothing that neither side had, and a recovery leaves no merge half done. *)
EXTENDS MergeSaga, TLAPS

---------------------------------------------------------------------------
(* The types the other proofs need: rows of phase A, calls, the recovery.   *)
Row == [class : MergeIdentityClass, base : Revisions \cup {None}, ours : Revisions \cup {None},
        theirs : Revisions \cup {None}]
Tables == UNION {[D -> Row] : D \in SUBSET Identities}
Call == [pc : {"idle", "lock", "snap", "ctx", "intent", "classify", "pending",
               "promoting", "edgebatch", "write", "promote", "flush", "payload",
               "commit", "cleanup", "release", "done", "failed"},
         pre : Bindings, rows : Tables, strategy : Strategies \cup {None},
         todo : SUBSET Identities]
Recovery == [pc : {"idle", "visit", "promote", "commit", "release", "restored", "flush",
                   "compensate"},
             sagas : SUBSET Merges, at : Merges \cup {None}, rows : Tables,
             todo : SUBSET Identities]

(* The merges the recovery still has to do with.                            *)
Recovering == rec.pc \in {"promote", "commit", "release", "restored"} => rec.at \in Merges

RowsTyped ==
  /\ ri \in Bindings /\ deleted \subseteq Identities
  /\ msnap \in [Merges -> Bindings \cup {None}]
  /\ lock \in Merges \cup {None}
  /\ saga \in [Merges -> Phases \cup {None}]
  /\ ctx \in [Merges -> Strategies \cup {None, "absent"}]
  /\ payload \subseteq Merges
GraphTyped ==
  /\ reconciled \subseteq Merges /\ overlay \subseteq Merges \X BOOLEAN
  /\ glock \in Merges \cup {None, Recon}
CallsTyped ==
  call \in [Merges -> Call] /\ \A m \in Merges : call[m].todo \subseteq DOMAIN call[m].rows
RecTyped == rec \in Recovery /\ rec.todo \subseteq DOMAIN rec.rows /\ Recovering
ProcessTyped ==
  /\ started \subseteq Merges /\ gate \in BOOLEAN /\ up \in BOOLEAN /\ known \subseteq Merges
  /\ cancel \in [Merges -> {"idle", "begun", "restored", "flush", "purge", "end"}]
HistoryTyped ==
  /\ left \in Bound /\ edited \subseteq Identities
  /\ robbed \subseteq Merges /\ stale \subseteq Merges /\ torn \subseteq Merges
Typed == RowsTyped /\ GraphTyped /\ CallsTyped /\ RecTyped /\ ProcessTyped /\ HistoryTyped

LEMMA TypedImpliesTypeOK == Typed => TypeOK
  <1> SUFFICES ASSUME Typed PROVE TypeOK
    OBVIOUS
  <1>1. \A m \in Merges : call[m] \in Call
    BY DEF Typed, CallsTyped
  <1> QED BY <1>1 DEF Typed, RowsTyped, GraphTyped, CallsTyped, RecTyped, ProcessTyped, HistoryTyped, TypeOK, Call, Recovery

---------------------------------------------------------------------------
(* Phase A *)

(* The class of an identity that one side has: deleted on both sides only if*)
(* the source has none, clean only if the target has one.                   *)
LEMMA ClassifyHashesRange ==
  ASSUME NEW b, NEW o, NEW t
  PROVE  /\ ClassifyHashes(b, o, t) \in MergeIdentityClass
         /\ ClassifyHashes(b, o, t) = "BothDeleted" => t = None
         /\ ClassifyHashes(b, o, t) = "Clean" => o # None \/ (b = None /\ t = None)
  BY DEF ClassifyHashes, MergeIdentityClass, ConflictClasses

LEMMA HashOfNone ==
  ASSUME NEW r \in Revisions \cup {None}
  PROVE  Hash(r) = None <=> r = None
  BY MergeClassifyAssumption DEF Hash

(* What phase A says of one identity, with the revisions it was given.      *)
RowOf(row, i, ours, theirs) ==
  /\ row \in Row /\ row.ours = ours[i] /\ row.theirs = theirs[i]
  /\ row.class = "BothDeleted" => theirs[i] = None
  /\ row.class = "Clean" => ours[i] # None

LEMMA ClassifyRowsRange ==
  ASSUME NEW base \in Bindings, NEW ours \in Bindings, NEW theirs \in Bindings
  PROVE  /\ DOMAIN ClassifyRows(base, ours, theirs) \subseteq Identities
         /\ \A i \in DOMAIN ClassifyRows(base, ours, theirs) :
              RowOf(ClassifyRows(base, ours, theirs)[i], i, ours, theirs)
  <1> DEFINE plain == ClassifyRows(base, ours, theirs)
             D == {j \in Identities : base[j] # None \/ ours[j] # None \/ theirs[j] # None}
             row(i) == [class |-> ClassifyHashes(Hash(base[i]), Hash(ours[i]), Hash(theirs[i])),
                        base |-> base[i], ours |-> ours[i], theirs |-> theirs[i]]
  <1>1. DOMAIN plain = D /\ \A i \in D : plain[i] = row(i)
    BY DEF ClassifyRows
  <1>2. ASSUME NEW i \in D
        PROVE  RowOf(row(i), i, ours, theirs)
    <2>1. /\ base[i] \in Revisions \cup {None} /\ ours[i] \in Revisions \cup {None}
          /\ theirs[i] \in Revisions \cup {None}
      BY DEF Bindings
    <2> DEFINE class == ClassifyHashes(Hash(base[i]), Hash(ours[i]), Hash(theirs[i]))
    <2>2. /\ class \in MergeIdentityClass
          /\ class = "BothDeleted" => Hash(theirs[i]) = None
          /\ class = "Clean" => Hash(ours[i]) # None \/ (Hash(base[i]) = None /\ Hash(theirs[i]) = None)
      BY ClassifyHashesRange
    <2> HIDE DEF class
    <2>3. row(i) = [class |-> class, base |-> base[i], ours |-> ours[i], theirs |-> theirs[i]]
      BY DEF class
    <2>4. class = "BothDeleted" => theirs[i] = None
      BY <2>1, <2>2, HashOfNone
    <2>5. class = "Clean" => ours[i] # None
      BY <2>1, <2>2, HashOfNone
    <2> QED BY <2>1, <2>2, <2>3, <2>4, <2>5 DEF RowOf, Row
  <1> QED BY <1>1, <1>2

(* The look for renames changes the class of a row only, and of an identity *)
(* that is its own rename source to RenamedCandidate.                       *)
LEMMA PhaseARows ==
  ASSUME NEW base \in Bindings, NEW ours \in Bindings, NEW theirs \in Bindings,
         RenamesKeepIdentity(ours), RenamesKeepIdentity(theirs),
         NEW table \in PhaseA(base, ours, theirs)
  PROVE  /\ DOMAIN table \subseteq Identities
         /\ \A i \in DOMAIN table : RowOf(table[i], i, ours, theirs)
  <1> DEFINE plain == ClassifyRows(base, ours, theirs)
             pairs == RenamePairs(plain)
             olds == {p[1] : p \in {q \in pairs : q[1] # q[2]}}
             news == {p[2] : p \in pairs}
  <1>1. DOMAIN plain \subseteq Identities /\ \A i \in DOMAIN plain : RowOf(plain[i], i, ours, theirs)
    BY ClassifyRowsRange
  <1> HIDE DEF plain
  <1>2. \A p \in pairs : p[1] = p[2]
    <2> SUFFICES ASSUME NEW p \in pairs PROVE p[1] = p[2]
      OBVIOUS
    <2>1. p[1] \in DOMAIN plain /\ p[2] \in DOMAIN plain /\ RenameSourceOf(plain[p[2]]) = p[1]
      BY DEF RenamePairs
    <2> DEFINE i == p[2]
    <2>2. i \in Identities /\ plain[i].ours = ours[i] /\ plain[i].theirs = theirs[i]
      BY <1>1, <2>1 DEF RowOf
    <2>3. /\ ours[i] # None => RenameSource[ours[i]] \in {None, i}
          /\ theirs[i] # None => RenameSource[theirs[i]] \in {None, i}
      BY <2>2 DEF RenamesKeepIdentity
    <2>4. RenameSourceOf(plain[i]) \in {None, i}
      BY <2>2, <2>3 DEF RenameSourceOf
    <2>5. p[1] \in Identities
      BY <1>1, <2>1
    <2> QED BY <2>1, <2>4, <2>5, MergeClassifyAssumption
  <1>3. olds = {}
    BY <1>2
  <1>4. PICK last \in [olds \cap news -> {"RenamedCandidate", "BothDeleted"}] :
          table = [i \in DOMAIN plain |->
                     [plain[i] EXCEPT !.class =
                        CASE i \in news /\ i \notin olds           -> "RenamedCandidate"
                          [] i \in olds /\ i \notin news           -> "BothDeleted"
                          [] i \in olds \cap news                  -> last[i]
                          [] OTHER                                 -> @]]
    BY DEF PhaseA, DetectRenames, plain
  <1> HIDE DEF olds, news
  <1>5. DOMAIN table = DOMAIN plain
    BY <1>4
  <1>6. ASSUME NEW i \in DOMAIN plain
        PROVE  table[i] = IF i \in news THEN [plain[i] EXCEPT !.class = "RenamedCandidate"] ELSE plain[i]
    <2>1. plain[i] \in Row
      BY <1>1 DEF RowOf
    <2>2. table[i] = [plain[i] EXCEPT !.class = IF i \in news THEN "RenamedCandidate" ELSE plain[i].class]
      BY <1>3, <1>4
    <2> QED BY <2>1, <2>2 DEF Row
  <1>7. ASSUME NEW i \in DOMAIN plain
        PROVE  RowOf(table[i], i, ours, theirs)
    <2>1. CASE i \notin news
      BY <1>1, <1>6, <2>1
    <2>2. CASE i \in news
      <3> DEFINE r == plain[i]
      <3>1. r \in Row /\ r.ours = ours[i] /\ r.theirs = theirs[i]
        BY <1>1 DEF RowOf
      <3>2. table[i] = [r EXCEPT !.class = "RenamedCandidate"]
        BY <1>6, <2>2
      <3> HIDE DEF r
      <3>3. [r EXCEPT !.class = "RenamedCandidate"] \in Row
        BY <3>1 DEF Row, MergeIdentityClass
      <3>4. /\ [r EXCEPT !.class = "RenamedCandidate"].ours = r.ours
            /\ [r EXCEPT !.class = "RenamedCandidate"].theirs = r.theirs
            /\ [r EXCEPT !.class = "RenamedCandidate"].class = "RenamedCandidate"
        BY <3>1 DEF Row
      <3> QED BY <3>1, <3>2, <3>3, <3>4 DEF RowOf
    <2> QED BY <2>1, <2>2
  <1> QED BY <1>1, <1>5, <1>7

(* The winner for an identity is what one side has.                         *)
LEMMA WinnerIsASide ==
  ASSUME NEW i \in Identities, NEW ours, NEW theirs, NEW row, RowOf(row, i, ours, theirs),
         NEW strategy
  PROVE  Winner(row, strategy) \in {ours[i], theirs[i]}
  BY DEF RowOf, Row, Winner, MergeIdentityClass, ConflictClasses
LEMMA WinnerTyped ==
  ASSUME NEW row \in Row, NEW strategy
  PROVE  Winner(row, strategy) \in Revisions \cup {None}
  BY DEF Row, Winner, MergeIdentityClass, ConflictClasses

---------------------------------------------------------------------------
(* The inductive invariant behind BindingsFromEitherSide: whatever may yet  *)
(* be written to the target is what a side had.  That is the rows of every  *)
(* classification still at work, the snapshots and what calls have read; and*)
(* an identity that is marked deleted may be unbound.                       *)
TableOk(table) ==
  \A i \in DOMAIN table :
    table[i] \in Row /\ \A s \in Strategies \cup {None, "absent"} : Winner(table[i], s) \in MayBind(i)
FromASide(bound) == \A i \in Identities : bound[i] \in MayBind(i) \cup {None}

Sides ==
  /\ \A i \in Identities : ri[i] \in MayBind(i)
  /\ \A i \in deleted : None \in MayBind(i)
  /\ \A m \in Merges : /\ msnap[m] # None => FromASide(msnap[m])
                       /\ FromASide(call[m].pre) /\ TableOk(call[m].rows)
  /\ TableOk(rec.rows)
  /\ RenamesKeepIdentity(left.ri)

(* What phase A finds in the rows of the target as they are now.            *)
LEMMA PhaseANowTable ==
  ASSUME Typed, Sides, NEW m \in Merges, NEW table \in PhaseANow(m)
  PROVE  table \in Tables /\ TableOk(table)
  <1> DEFINE base == IF msnap[m] \in {None, NoBindings} THEN ri ELSE msnap[m]
             ours == LiveBindings(ri, deleted)
  <1>1. base \in Bindings /\ ri \in Bindings /\ deleted \subseteq Identities
    BY DEF Typed, RowsTyped
  <1>2. ours \in Bindings /\ \A i \in Identities : ours[i] \in {None, ri[i]} /\ (ours[i] = None => i \in deleted \/ ri[i] = None)
    BY <1>1 DEF LiveBindings, Bindings
  <1>3. \A i \in Identities : ours[i] \in MayBind(i) /\ Theirs[i] \in MayBind(i)
    BY <1>2 DEF Sides, MayBind, LiveBindings
  <1>4. left.ri \in Bindings /\ Theirs \in Bindings /\ Reindexed \in [Identities -> Revisions]
    BY MergeSagaAssumption DEF Typed, HistoryTyped, Bound
  <1>5. ASSUME NEW i \in Identities, ours[i] # None
        PROVE  RenameSource[ours[i]] \in {None, i}
    <2>1. ri[i] = ours[i] /\ ri[i] \in MayBind(i)
      BY <1>2, <1>5 DEF Sides
    <2>2. ours[i] \in {left.ri[i], Theirs[i], Reindexed[i]}
      BY <2>1, <1>5 DEF MayBind
    <2>3. Reindexed[i] # None
      BY <1>4, MergeClassifyAssumption
    <2> QED BY <1>5, <2>2, <2>3, MergeSagaAssumption DEF RenamesKeepIdentity, Sides
  <1>6. RenamesKeepIdentity(ours) /\ RenamesKeepIdentity(Theirs)
    BY <1>5, MergeSagaAssumption DEF RenamesKeepIdentity
  <1>7. table \in PhaseA(base, ours, Theirs)
    BY DEF PhaseANow
  <1> HIDE DEF base, ours
  <1>8. DOMAIN table \subseteq Identities /\ \A i \in DOMAIN table : RowOf(table[i], i, ours, Theirs)
    BY <1>1, <1>2, <1>4, <1>6, <1>7, PhaseARows
  <1>9. table \in [DOMAIN table -> Row]
    BY <1>7, <1>8 DEF RowOf, PhaseA, DetectRenames
  <1>10. table \in Tables
    BY <1>8, <1>9 DEF Tables
  <1>11. TableOk(table)
    BY <1>3, <1>8, WinnerIsASide DEF TableOk, RowOf
  <1> QED BY <1>10, <1>11

---------------------------------------------------------------------------
(* Steps of a call *)

(* A step that only moves a call on.                                        *)
LEMMA GotoCall ==
  ASSUME CallsTyped, NEW m \in Merges, NEW pc, Goto(m, pc),
         pc \in {"idle", "lock", "snap", "ctx", "intent", "classify", "pending", "promoting",
                 "edgebatch", "write", "promote", "flush", "payload", "commit", "cleanup",
                 "release", "done", "failed"}
  PROVE  /\ CallsTyped' /\ call'[m].pc = pc
         /\ \A n \in Merges : /\ n # m => call'[n] = call[n]
                              /\ call'[n].pre = call[n].pre /\ call'[n].rows = call[n].rows
  <1>1. call[m] \in Call /\ call' = [call EXCEPT ![m] = [call[m] EXCEPT !.pc = pc]]
    BY DEF CallsTyped, Goto
  <1> DEFINE c == [call[m] EXCEPT !.pc = pc]
  <1>2. /\ c \in Call /\ c.pc = pc /\ c.pre = call[m].pre /\ c.rows = call[m].rows
        /\ c.todo = call[m].todo
    BY <1>1 DEF Call
  <1> HIDE DEF c
  <1>3. /\ call' \in [Merges -> Call] /\ call'[m] = c
        /\ \A n \in Merges : n # m => call'[n] = call[n]
    BY <1>1, <1>2 DEF CallsTyped, c
  <1> QED BY <1>2, <1>3 DEF CallsTyped

(* A step that puts a call into another state.                              *)
LEMMA PutCall ==
  ASSUME CallsTyped, NEW m \in Merges, NEW c \in Call, c.todo \subseteq DOMAIN c.rows,
         call' = [call EXCEPT ![m] = c]
  PROVE  CallsTyped' /\ call'[m] = c /\ \A n \in Merges : n # m => call'[n] = call[n]
  BY DEF CallsTyped

LEMMA IdleCalls ==
  ASSUME NEW pre \in Bindings, NEW strategy \in Strategies \cup {None},
         NEW pc \in {"idle", "lock", "flush", "failed"}
  PROVE  /\ [pc |-> pc, pre |-> pre, rows |-> NoRows, strategy |-> strategy, todo |-> {}] \in Call
         /\ DOMAIN NoRows = {} /\ NoBindings \in Bindings
  <1>1. NoRows \in [{} -> Row] /\ DOMAIN NoRows = {}
    BY DEF NoRows
  <1>2. NoRows \in Tables
    BY <1>1 DEF Tables
  <1> QED BY <1>1, <1>2 DEF Call, NoBindings, Bindings
LEMMA IdleTyped == Idle \in Call /\ Idle.todo = {} /\ Idle.rows = NoRows /\ Idle.pre = NoBindings
  <1>1. NoBindings \in Bindings
    BY DEF NoBindings, Bindings
  <1> QED BY <1>1, IdleCalls DEF Idle

---------------------------------------------------------------------------
(* Types *)

LEMMA InitTyped == Init => Typed
  <1> SUFFICES ASSUME Init PROVE Typed
    OBVIOUS
  <1>1. left \in Bound
    BY MergeSagaAssumption DEF Init
  <1>2. ri \in Bindings /\ deleted \subseteq Identities
    BY <1>1 DEF Init, Bound
  <1>9. msnap \in [Merges -> Bindings \cup {None}] /\ saga \in [Merges -> Phases \cup {None}]
    BY DEF Init
  <1>8. RowsTyped
    BY <1>2, <1>9 DEF Init, RowsTyped
  <1>3. Idle \in Call /\ Idle.todo = {}
    BY IdleTyped
  <1>4. CallsTyped
    BY <1>3 DEF Init, CallsTyped
  <1>5. NoRows \in [{} -> Row]
    BY DEF NoRows
  <1>6. NoRows \in Tables
    BY <1>5 DEF Tables
  <1>7. RecTyped
    BY <1>6 DEF Init, RecTyped, NoRecovery, Recovery, Recovering
  <1> QED BY <1>1, <1>8, <1>4, <1>7 DEF Init, Typed, GraphTyped, ProcessTyped, HistoryTyped

(* What phase B writes.                                                     *)
LEMMA PromoteTyped ==
  ASSUME RowsTyped, NEW table, TableOk(table), NEW i \in DOMAIN table \cap Identities, NEW strategy,
         PromoteIdentity(i, table, strategy)
  PROVE  ri' \in Bindings /\ deleted' \subseteq Identities
  <1>1. Winner(table[i], strategy) \in Revisions \cup {None}
    BY WinnerTyped DEF TableOk
  <1> QED BY <1>1 DEF PromoteIdentity, RowsTyped, Bindings

(* Steps that move a call on keep the types.                                *)
LEMMA MergeStepTyped ==
  ASSUME Typed, Sides, NEW m \in Merges,
         MergeStep(m) \/ ContinueMerge(m) \/ ReadPreBindings(m) \/ FlushFails(m)
  PROVE  Typed'
  <1> USE DEF Typed, rows, graph, history, RowsTyped, GraphTyped, RecTyped, Recovering, ProcessTyped,
              HistoryTyped
  <1>1. CASE ReadPreBindings(m)
    <2>1. PICK s \in StrategiesOf[m] :
            call' = [call EXCEPT ![m] = [pc |-> "lock", pre |-> ri, rows |-> NoRows, strategy |-> s,
                                         todo |-> {}]]
      BY <1>1 DEF ReadPreBindings
    <2>2. s \in Strategies \cup {None}
      BY MergeSagaAssumption
    <2>4. CallsTyped'
      BY <2>1, <2>2, IdleCalls, PutCall
    <2> QED BY <1>1, <2>4 DEF ReadPreBindings
  <1>2. CASE AcquireMergeLock(m)
    BY <1>2, GotoCall DEF AcquireMergeLock
  <1>3. CASE PreflightRefused(m)
    BY <1>3, GotoCall DEF PreflightRefused
  <1>4. CASE RecordPremergeBindings(m)
    <2>1. call[m] \in Call
      BY DEF CallsTyped
    <2> DEFINE c == [call[m] EXCEPT !.pc = "ctx", !.pre = NoBindings]
    <2>2. c \in Call /\ c.todo = call[m].todo /\ c.rows = call[m].rows
      BY <2>1, IdleCalls DEF Call
    <2>3. call' = [call EXCEPT ![m] = c]
      BY <1>4, <2>1 DEF RecordPremergeBindings, CallsTyped
    <2> HIDE DEF c
    <2>4. CallsTyped'
      BY <2>2, <2>3, PutCall DEF CallsTyped
    <2>5. call[m].pre \in Bindings
      BY <2>1 DEF Call
    <2> QED BY <1>4, <2>4, <2>5 DEF RecordPremergeBindings
  <1>5. CASE ContinueMerge(m)
    <2>1. PICK s \in Strategies :
            call' = [call EXCEPT ![m].pc = IF lock = m THEN "ctx" ELSE "failed", ![m].strategy = s]
      BY <1>5 DEF ContinueMerge
    <2>2. call[m] \in Call
      BY DEF CallsTyped
    <2> DEFINE c == [call[m] EXCEPT !.pc = IF lock = m THEN "ctx" ELSE "failed", !.strategy = s]
    <2>3. c \in Call /\ c.todo = call[m].todo /\ c.rows = call[m].rows
      BY <2>2 DEF Call
    <2>4. call' = [call EXCEPT ![m] = c]
      BY <2>1, <2>2 DEF CallsTyped
    <2> HIDE DEF c
    <2>5. CallsTyped'
      BY <2>3, <2>4, PutCall DEF CallsTyped
    <2> QED BY <1>5, <2>5 DEF ContinueMerge
  <1>6. CASE PersistContext(m)
    <2>1. call[m].strategy \in Strategies \cup {None}
      BY DEF CallsTyped, Call
    <2> QED BY <1>6, <2>1, GotoCall DEF PersistContext
  <1>7. ASSUME NEW from, NEW phase \in Phases,
               NEW to \in {"classify", "edgebatch", "write", "cleanup"},
               PersistPhase(m, from, phase, to)
        PROVE  Typed'
    BY <1>7, GotoCall DEF PersistPhase
  <1>8. CASE Classify(m)
    <2>1. PICK table \in PhaseANow(m) :
            LET asks == RequiresResolution(table) /\ call[m].strategy = None IN
            /\ call' = [call EXCEPT ![m].rows = table,
                                    ![m].todo = Decided(table, call[m].strategy),
                                    ![m].pc = IF asks THEN "pending" ELSE "promoting"]
            /\ known' = IF asks THEN known \cup {m} ELSE known
      BY <1>8 DEF Classify
    <2>2. call[m] \in Call
      BY DEF CallsTyped
    <2>3. table \in Tables
      BY PhaseANowTable
    <2> DEFINE todo == Decided(table, call[m].strategy)
               pc == IF RequiresResolution(table) /\ call[m].strategy = None THEN "pending" ELSE "promoting"
               c == [call[m] EXCEPT !.rows = table, !.todo = todo, !.pc = pc]
    <2>4. todo \subseteq DOMAIN table /\ todo \subseteq Identities
      BY <2>3 DEF Decided, Tables
    <2>5. call' = [call EXCEPT ![m] = c]
      BY <2>1, <2>2 DEF CallsTyped
    <2> HIDE DEF todo
    <2>6. c \in Call /\ c.todo = todo /\ c.rows = table
      BY <2>2, <2>3, <2>4 DEF Call
    <2> HIDE DEF c
    <2>7. CallsTyped'
      BY <2>4, <2>5, <2>6, PutCall
    <2> QED BY <1>8, <2>1, <2>7 DEF Classify, Phases
  <1>9. CASE BeginMergeWrite(m)
    BY <1>9, GotoCall DEF BeginMergeWrite, BeginWrite
  <1>10. CASE PromoteOne(m)
    <2>1. PICK i \in call[m].todo :
            /\ PromoteIdentity(i, call[m].rows, call[m].strategy)
            /\ call' = [call EXCEPT ![m].todo = @ \ {i}]
      BY <1>10 DEF PromoteOne
    <2>2. call[m] \in Call /\ call[m].todo \subseteq DOMAIN call[m].rows
      BY DEF CallsTyped
    <2> DEFINE c == [call[m] EXCEPT !.todo = @ \ {i}]
    <2>3. c \in Call /\ c.todo = call[m].todo \ {i} /\ c.rows = call[m].rows
      BY <2>2 DEF Call
    <2>4. call' = [call EXCEPT ![m] = c]
      BY <2>1, <2>2 DEF CallsTyped
    <2> HIDE DEF c
    <2>5. CallsTyped'
      BY <2>2, <2>3, <2>4, PutCall
    <2>6. ri' \in Bindings /\ deleted' \subseteq Identities
      <3>1. TableOk(call[m].rows) /\ i \in DOMAIN call[m].rows \cap Identities
        BY <2>2 DEF Call, Sides
      <3> QED BY <2>1, <3>1, PromoteTyped
    <2> QED BY <1>10, <2>5, <2>6 DEF PromoteOne
  <1>11. CASE ReconcileEdges(m)
    <2>1. [Idle EXCEPT !.pc = "flush"]
            = [pc |-> "flush", pre |-> NoBindings, rows |-> NoRows, strategy |-> None, todo |-> {}]
      BY DEF Idle
    <2>2. CallsTyped'
      BY <1>11, <2>1, IdleCalls, PutCall DEF ReconcileEdges
    <2>3. <<m, TRUE>> \in Merges \X BOOLEAN
      OBVIOUS
    <2>4. overlay' \subseteq Merges \X BOOLEAN
      BY <1>11, <2>3 DEF ReconcileEdges
    <2> QED BY <1>11, <2>2, <2>4 DEF ReconcileEdges
  <1>12. CASE FlushMerge(m)
    BY <1>12, GotoCall DEF FlushMerge, FlushOverlay
  <1>13. CASE FlushFails(m)
    BY <1>13, GotoCall DEF FlushFails, Bound
  <1>14. CASE PersistPayload(m)
    BY <1>14, GotoCall DEF PersistPayload
  <1>15. CASE RemoveContext(m)
    BY <1>15, GotoCall DEF RemoveContext
  <1>16. CASE ReleaseMergeLock(m)
    BY <1>16, GotoCall DEF ReleaseMergeLock, ReleaseLock
  <1> QED BY <1>1, <1>2, <1>3, <1>4, <1>5, <1>6, <1>7, <1>8, <1>9, <1>10, <1>11, <1>12, <1>13,
             <1>14, <1>15, <1>16
          DEF MergeStep, PersistIntent, PersistPromoting, PersistEdgeBatch, PersistCommitted, Phases

LEMMA NoRecoveryTyped ==
  /\ NoRows \in Tables /\ DOMAIN NoRows = {} /\ NoRecovery \in Recovery
  /\ rec' = NoRecovery => RecTyped'
  <1>1. NoRows \in [{} -> Row] /\ DOMAIN NoRows = {}
    BY DEF NoRows
  <1>2. NoRows \in Tables
    BY <1>1 DEF Tables
  <1> QED BY <1>1, <1>2 DEF RecTyped, NoRecovery, Recovery, Recovering

LEMMA CancelStepTyped ==
  ASSUME Typed, NEW m \in Merges,
         CancelBegin(m) \/ CancelStep(m) \/ CancelFlushFails(m) \/ SweepExpired(m)
  PROVE  Typed'
  <1> USE DEF Typed, rows, graph, history, RowsTyped, GraphTyped, CallsTyped, RecTyped, Recovering,
              ProcessTyped, HistoryTyped
  <1>1. CASE CancelBegin(m)
    BY <1>1 DEF CancelBegin, Bound
  <1>2. CASE CancelRestore(m)
    <2>1. <<m, FALSE>> \in Merges \X BOOLEAN
      OBVIOUS
    <2>2. overlay' \subseteq Merges \X BOOLEAN
      BY <1>2, <2>1 DEF CancelRestore, UndoneEdges
    <2>3. ri' \in Bindings
      BY <1>2 DEF CancelRestore, RestoreSnapshot, Bindings
    <2> QED BY <1>2, <2>2, <2>3 DEF CancelRestore
  <1>3. CASE CancelRelease(m)
    BY <1>3 DEF CancelRelease, ReleaseLock
  <1>4. CASE CancelFlush(m)
    BY <1>4 DEF CancelFlush, FlushOverlay
  <1>5. CASE CancelFlushFails(m)
    BY <1>5 DEF CancelFlushFails, Bound
  <1>6. CASE CancelPurge(m)
    BY <1>6 DEF CancelPurge
  <1>7. CASE CancelEnd(m)
    BY <1>7 DEF CancelEnd
  <1>8. CASE SweepExpired(m)
    BY <1>8 DEF SweepExpired, ReleaseLock, Bound
  <1> QED BY <1>1, <1>2, <1>3, <1>4, <1>5, <1>6, <1>7, <1>8 DEF CancelStep

LEMMA ReindexTyped ==
  ASSUME Typed, NEW i \in Identities, Reindex(i)
  PROVE  Typed'
  <1> USE DEF Typed, RowsTyped, HistoryTyped
  <1>1. ri' \in Bindings
    BY MergeSagaAssumption DEF Reindex, Bindings
  <1>2. left' \in Bound
    BY DEF Reindex, Bound
  <1> QED BY <1>1, <1>2 DEF Reindex, graph, process, GraphTyped, CallsTyped, RecTyped, Recovering, ProcessTyped

LEMMA CrashTyped ==
  ASSUME Typed, Crash
  PROVE  Typed'
  <1> USE DEF Typed
  <1>1. [Idle EXCEPT !.pc = "failed"] \in Call /\ [Idle EXCEPT !.pc = "failed"].todo = {}
    BY IdleTyped DEF Call
  <1>2. \A m \in Merges : call[m] \in Call /\ call[m].todo \subseteq DOMAIN call[m].rows
    BY DEF CallsTyped
  <1>3. call' = [m \in Merges |-> IF call[m].pc \in {"idle", "pending", "done"} THEN call[m]
                                  ELSE [Idle EXCEPT !.pc = "failed"]]
    BY DEF Crash
  <1> DEFINE c == [Idle EXCEPT !.pc = "failed"]
  <1> HIDE DEF c
  <1>4. \A m \in Merges : call'[m] = call[m] \/ call'[m] = c
    BY <1>3 DEF c
  <1>5. CallsTyped'
    BY <1>1, <1>2, <1>3, <1>4 DEF CallsTyped, c
  <1>6. RecTyped'
    BY NoRecoveryTyped DEF Crash
  <1>7. left' \in Bound
    BY DEF Crash, HistoryTyped, Bound
  <1>8. cancel' \in [Merges -> {"idle", "begun", "restored", "flush", "purge", "end"}]
    BY DEF Crash
  <1> QED BY <1>5, <1>6, <1>7, <1>8 DEF Crash, rows, RowsTyped, GraphTyped, ProcessTyped, HistoryTyped

LEMMA RecoverStepTyped ==
  ASSUME Typed, Sides, RecoverStep
  PROVE  Typed'
  <1> USE DEF Typed, rows, graph, history, RowsTyped, GraphTyped, CallsTyped, RecTyped, Recovering,
              ProcessTyped, HistoryTyped
  <1>0. rec \in Recovery
    OBVIOUS
  <1>1. CASE RecoverBegin
    <2>1. RecTyped'
      BY <1>1, NoRecoveryTyped DEF RecoverBegin, Recovery, NoRecovery
    <2> QED BY <1>1, <2>1 DEF RecoverBegin, BeginWrite
  <1>2. CASE RecoverPromoteOne
    <2>1. PICK i \in rec.todo :
            /\ PromoteIdentity(i, rec.rows, ctx[rec.at])
            /\ rec' = [rec EXCEPT !.todo = @ \ {i}]
      BY <1>2 DEF RecoverPromoteOne
    <2>2. RecTyped'
      BY <1>0, <2>1 DEF Recovery
    <2>3. ri' \in Bindings /\ deleted' \subseteq Identities
      <3>1. TableOk(rec.rows) /\ i \in DOMAIN rec.rows \cap Identities
        BY <1>0 DEF Recovery, Sides
      <3> QED BY <2>1, <3>1, PromoteTyped
    <2> QED BY <1>2, <2>2, <2>3 DEF RecoverPromoteOne
  <1>3. CASE RecoverEdgeBatch
    <2>1. RecTyped'
      BY <1>0, <1>3, NoRecoveryTyped DEF RecoverEdgeBatch, Recovery, NoRecovery
    <2> QED BY <1>3, <2>1 DEF RecoverEdgeBatch, Phases
  <1>4. CASE RecoverCommit
    <2>1. RecTyped' /\ rec.at \in Merges
      BY <1>0, <1>4 DEF RecoverCommit, Recovery
    <2>2. <<rec.at, TRUE>> \in Merges \X BOOLEAN
      BY <2>1
    <2>3. overlay' \subseteq Merges \X BOOLEAN
      BY <1>4, <2>2 DEF RecoverCommit
    <2> QED BY <1>4, <2>1, <2>3 DEF RecoverCommit, Phases
  <1>5. CASE RecoverRelease
    <2>1. RecTyped' /\ rec.at \in Merges
      BY <1>0, <1>5 DEF RecoverRelease, Recovery
    <2> QED BY <1>5, <2>1 DEF RecoverRelease, ReleaseLock
  <1>6. CASE RecoverCancelled
    <2>1. RecTyped' /\ rec.at \in Merges
      BY <1>0, <1>6 DEF RecoverCancelled, Recovery
    <2> QED BY <1>6, <2>1 DEF RecoverCancelled, ReleaseLock
  <1>7. CASE RecoverEnd
    <2>1. RecTyped'
      BY <1>7, NoRecoveryTyped DEF RecoverEnd, Recovery, NoRecovery
    <2> QED BY <1>7, <2>1 DEF RecoverEnd
  <1>8. CASE RecoverFlush
    <2>1. RecTyped'
      BY <1>0, <1>8 DEF RecoverFlush, Recovery
    <2>2. left' \in Bound
      BY <1>8 DEF RecoverFlush, Bound
    <2>3. reconciled' \subseteq Merges /\ overlay' \subseteq Merges \X BOOLEAN
      BY <1>8 DEF RecoverFlush, FlushOverlay
    <2> QED BY <1>8, <2>1, <2>2, <2>3 DEF RecoverFlush
  <1>9. CASE CompensateOrphans
    <2>1. RecTyped'
      BY <1>9, NoRecoveryTyped DEF CompensateOrphans
    <2> QED BY <1>9, <2>1 DEF CompensateOrphans
  <1>10. ASSUME NEW m \in Merges, RecoverPurge(m)
         PROVE  Typed'
    <2>1. RecTyped'
      BY <1>0, <1>10 DEF RecoverPurge, Visited, Recovery
    <2> QED BY <1>10, <2>1 DEF RecoverPurge
  <1>11. ASSUME NEW m \in Merges, ResumeFromPromotion(m)
         PROVE  Typed'
    <2>1. PICK table \in PhaseANow(m) :
            \/ saga' = [saga EXCEPT ![m] = "Classifying"] /\ Visited(m, "visit")
            \/ /\ saga' = [saga EXCEPT ![m] = "Promoting"]
               /\ rec' = [pc |-> "promote", sagas |-> rec.sagas \ {m}, at |-> m, rows |-> table,
                          todo |-> Decided(table, ctx[m])]
      BY <1>11 DEF ResumeFromPromotion
    <2>2. table \in Tables
      BY PhaseANowTable
    <2> DEFINE todo == Decided(table, ctx[m])
    <2>3. todo \subseteq DOMAIN table /\ todo \subseteq Identities
      BY <2>2 DEF Decided, Tables
    <2> HIDE DEF todo
    <2>4. [pc |-> "promote", sagas |-> rec.sagas \ {m}, at |-> m, rows |-> table, todo |-> todo]
            \in Recovery
      BY <1>0, <2>2, <2>3 DEF Recovery
    <2>5. ASSUME Visited(m, "visit")
          PROVE  RecTyped'
      BY <1>0, <2>5 DEF Visited, Recovery
    <2>6. ASSUME rec' = [pc |-> "promote", sagas |-> rec.sagas \ {m}, at |-> m, rows |-> table,
                         todo |-> Decided(table, ctx[m])]
          PROVE  RecTyped'
      BY <2>3, <2>4, <2>6 DEF todo
    <2>7. RecTyped'
      BY <2>1, <2>5, <2>6
    <2> QED BY <1>11, <2>1, <2>7 DEF ResumeFromPromotion, Phases
  <1>12. ASSUME NEW m \in Merges, ResumeFromEdgeBatch(m)
         PROVE  Typed'
    <2>1. RecTyped'
      BY <1>0, <1>12 DEF ResumeFromEdgeBatch, Visited, Recovery
    <2> QED BY <1>12, <2>1 DEF ResumeFromEdgeBatch
  <1>13. ASSUME NEW m \in Merges, RecoverRestore(m)
         PROVE  Typed'
    <2>1. RecTyped'
      BY <1>0, <1>13 DEF RecoverRestore, Visited, Recovery
    <2>2. <<m, FALSE>> \in Merges \X BOOLEAN
      OBVIOUS
    <2>3. overlay' \subseteq Merges \X BOOLEAN
      BY <1>13, <2>2 DEF RecoverRestore, UndoneEdges
    <2>4. ri' \in Bindings
      BY <1>13 DEF RecoverRestore, RestoreSnapshot, Bindings
    <2> QED BY <1>13, <2>1, <2>3, <2>4 DEF RecoverRestore
  <1> QED BY <1>1, <1>2, <1>3, <1>4, <1>5, <1>6, <1>7, <1>8, <1>9, <1>10, <1>11, <1>12, <1>13
          DEF RecoverStep

---------------------------------------------------------------------------
(* What a step may do to the bindings, and to what bindings will come from. *)
SideStep ==
  /\ left'.ri = left.ri /\ left'.deleted = left.deleted /\ edited \subseteq edited'
  /\ \A i \in Identities : ri'[i] = ri[i] \/ ri'[i] \in MayBind(i)'
  /\ \A i \in deleted' : i \in deleted \/ None \in MayBind(i)
  /\ \A m \in Merges : /\ msnap'[m] \in {msnap[m], None} \/ FromASide(msnap'[m])
                       /\ call'[m].pre = call[m].pre \/ FromASide(call'[m].pre)
                       /\ call'[m].rows = call[m].rows \/ TableOk(call'[m].rows)
  /\ rec'.rows = rec.rows \/ TableOk(rec'.rows)

LEMMA SideStepKeepsSides ==
  ASSUME Typed, Sides, SideStep, deleted' \subseteq Identities, Typed'
  PROVE  Sides'
  <1>1. \A i \in Identities : MayBind(i) \subseteq MayBind(i)'
    BY DEF SideStep, MayBind
  <1>2. ASSUME NEW bound, FromASide(bound)
        PROVE  FromASide(bound)'
    BY <1>1, <1>2 DEF FromASide
  <1>3. ASSUME NEW table \in Tables, TableOk(table)
        PROVE  TableOk(table)'
    BY <1>1, <1>3 DEF TableOk, Tables
  <1>4. \A i \in Identities : (ri[i] \in MayBind(i))'
    BY <1>1 DEF SideStep, Sides
  <1>5. \A i \in deleted' : (None \in MayBind(i))'
    BY <1>1 DEF SideStep, Sides
  <1>6. ASSUME NEW m \in Merges
        PROVE  (/\ msnap[m] # None => FromASide(msnap[m])
                /\ FromASide(call[m].pre) /\ TableOk(call[m].rows))'
    <2>1. call'[m].rows \in Tables
      BY DEF Typed, CallsTyped, Call
    <2>2. TableOk(call'[m].rows) /\ FromASide(call'[m].pre)
      BY DEF SideStep, Sides
    <2>3. msnap'[m] # None => FromASide(msnap'[m])
      BY DEF SideStep, Sides
    <2>4. ASSUME msnap'[m] # None
          PROVE  FromASide(msnap[m])'
      BY <1>2, <2>3, <2>4
    <2>5. FromASide(call[m].pre)' /\ TableOk(call[m].rows)'
      BY <1>2, <1>3, <2>1, <2>2
    <2> QED BY <2>4, <2>5
  <1>7. TableOk(rec.rows)'
    <2>1. rec'.rows \in Tables
      BY DEF Typed, RecTyped, Recovery
    <2>2. TableOk(rec'.rows)
      BY DEF SideStep, Sides
    <2> QED BY <1>3, <2>1, <2>2
  <1>8. RenamesKeepIdentity(left.ri)'
    BY DEF SideStep, Sides, RenamesKeepIdentity
  <1> QED BY <1>4, <1>5, <1>6, <1>7, <1>8 DEF Sides

---------------------------------------------------------------------------
(* The inductive invariant behind MergesExclude: whoever is about to release*)
(* a lock that is not its own call's has already been counted as the robber *)
(* of that merge.                                                           *)
Robbers ==
  /\ \A m \in Merges : cancel[m] = "restored" => m \in robbed
  /\ rec.pc = "restored" => rec.at \in robbed

(* What a step may do to the lock.                                          *)
LockStep ==
  /\ robbed \subseteq robbed'
  /\ \A m \in Merges : InSection(m)' => InSection(m) \/ lock' = m
  /\ \A m \in Merges : lock = m /\ lock' # m => m \in robbed' \/ ~InSection(m)'
  /\ \A m \in Merges : cancel'[m] = "restored" => cancel[m] = "restored" \/ m \in robbed'
  /\ rec'.pc = "restored" => (rec.pc = "restored" /\ rec'.at = rec.at) \/ rec'.at \in robbed'

LEMMA LockStepKeeps ==
  ASSUME Typed, MergesExclude, Robbers, LockStep
  PROVE  MergesExclude' /\ Robbers'
  <1>1. ASSUME NEW m \in Merges, InSection(m)', m \notin robbed'
        PROVE  lock' = m
    BY <1>1, MergeSagaAssumption DEF LockStep, MergesExclude
  <1> QED BY <1>1 DEF MergesExclude, LockStep, Robbers

---------------------------------------------------------------------------
(* Every step is a SideStep and a LockStep.                                 *)

LEMMA NothingIsFine == FromASide(NoBindings) /\ TableOk(NoRows)
  BY DEF FromASide, NoBindings, TableOk, NoRows

(* A step that only moves the call of m on.                                 *)
LEMMA GotoIsFine ==
  ASSUME Typed, NEW m \in Merges, NEW pc, Goto(m, pc),
         pc \in {"snap", "ctx", "intent", "classify", "pending", "promoting",
                 "edgebatch", "write", "promote", "flush", "payload", "commit", "cleanup",
                 "release", "done", "failed"}
  PROVE  /\ \A n \in Merges : call'[n].pre = call[n].pre /\ call'[n].rows = call[n].rows
         /\ \A n \in Merges : n # m => InSection(n)' = InSection(n)
         /\ pc \in {"done", "failed"} => ~InSection(m)'
  BY GotoCall DEF Typed, InSection

(* What phase B writes is a winner.                                         *)
LEMMA PromoteIsFine ==
  ASSUME Typed, NEW table, TableOk(table), NEW i \in DOMAIN table,
         NEW strategy \in Strategies \cup {None, "absent"}, PromoteIdentity(i, table, strategy)
  PROVE  /\ \A j \in Identities : ri'[j] = ri[j] \/ ri'[j] \in MayBind(j)
         /\ \A j \in deleted' : j \in deleted \/ None \in MayBind(j)
  <1>1. Winner(table[i], strategy) \in MayBind(i)
    BY DEF TableOk
  <1> QED BY <1>1 DEF PromoteIdentity, Typed, RowsTyped, Bindings

LEMMA MergeStepKinds ==
  ASSUME Typed, Sides, NEW m \in Merges,
         MergeStep(m) \/ ContinueMerge(m) \/ ReadPreBindings(m) \/ FlushFails(m)
  PROVE  SideStep /\ LockStep
  <1> USE DEF rows, graph, history, SideStep, LockStep
  <1>0. InSection(m) <=> call[m].pc \in {"snap", "ctx", "intent", "classify", "pending", "promoting",
                                         "edgebatch", "write", "promote", "flush", "payload",
                                         "commit", "cleanup", "release"}
    BY DEF InSection
  <1>1. CASE ReadPreBindings(m)
    <2>1. PICK c : /\ c.pc = "lock" /\ c.pre = ri /\ c.rows = NoRows
                   /\ call' = [call EXCEPT ![m] = c]
      BY <1>1 DEF ReadPreBindings
    <2>2. \A n \in Merges : call'[n] = IF n = m THEN c ELSE call[n]
      BY <2>1 DEF Typed, CallsTyped
    <2>3. FromASide(ri)
      BY DEF FromASide, Sides
    <2>4. \A n \in Merges : /\ call'[n].pre = call[n].pre \/ FromASide(call'[n].pre)
                            /\ call'[n].rows = call[n].rows \/ TableOk(call'[n].rows)
                            /\ InSection(n)' => InSection(n)
      BY <2>1, <2>2, <2>3, NothingIsFine DEF InSection
    <2> QED BY <1>1, <2>4 DEF ReadPreBindings
  <1>2. CASE AcquireMergeLock(m)
    BY <1>2, GotoIsFine, MergeSagaAssumption DEF AcquireMergeLock
  <1>3. CASE PreflightRefused(m)
    BY <1>3, GotoIsFine DEF PreflightRefused
  <1>4. CASE RecordPremergeBindings(m)
    <2>1. PICK c : /\ c.pc = "ctx" /\ c.pre = NoBindings /\ c.rows = call[m].rows
                   /\ call' = [call EXCEPT ![m] = c]
      <3> DEFINE c == [call[m] EXCEPT !.pc = "ctx", !.pre = NoBindings]
      <3>1. c.pc = "ctx" /\ c.pre = NoBindings /\ c.rows = call[m].rows
        BY DEF Typed, CallsTyped, Call
      <3>2. call' = [call EXCEPT ![m] = c]
        BY <1>4 DEF RecordPremergeBindings, Typed, CallsTyped
      <3> QED BY <3>1, <3>2
    <2>2. \A n \in Merges : call'[n] = IF n = m THEN c ELSE call[n]
      BY <2>1 DEF Typed, CallsTyped
    <2>3. \A n \in Merges : /\ call'[n].pre = call[n].pre \/ FromASide(call'[n].pre)
                            /\ call'[n].rows = call[n].rows \/ TableOk(call'[n].rows)
                            /\ InSection(n)' => InSection(n)
      BY <1>0, <1>4, <2>1, <2>2, NothingIsFine DEF InSection, RecordPremergeBindings, At
    <2>4. \A n \in Merges : msnap'[n] \in {msnap[n], None} \/ FromASide(msnap'[n])
      BY <1>4 DEF RecordPremergeBindings, Typed, RowsTyped, Sides
    <2> QED BY <1>4, <2>3, <2>4 DEF RecordPremergeBindings
  <1>5. CASE ContinueMerge(m)
    <2>1. PICK c : /\ c.pc \in {"ctx", "failed"} /\ c.pre = call[m].pre /\ c.rows = call[m].rows
                   /\ call' = [call EXCEPT ![m] = c]
      <3>1. PICK s \in Strategies :
              call' = [call EXCEPT ![m].pc = IF lock = m THEN "ctx" ELSE "failed", ![m].strategy = s]
        BY <1>5 DEF ContinueMerge
      <3> DEFINE c == [call[m] EXCEPT !.pc = IF lock = m THEN "ctx" ELSE "failed", !.strategy = s]
      <3>2. c.pc \in {"ctx", "failed"} /\ c.pre = call[m].pre /\ c.rows = call[m].rows
        BY DEF Typed, CallsTyped, Call
      <3>3. call' = [call EXCEPT ![m] = c]
        BY <3>1 DEF Typed, CallsTyped
      <3> QED BY <3>2, <3>3
    <2>2. \A n \in Merges : call'[n] = IF n = m THEN c ELSE call[n]
      BY <2>1 DEF Typed, CallsTyped
    <2>3. \A n \in Merges : /\ call'[n].pre = call[n].pre /\ call'[n].rows = call[n].rows
                            /\ InSection(n)' => InSection(n)
      BY <1>0, <1>5, <2>1, <2>2 DEF InSection, ContinueMerge, At
    <2> QED BY <1>5, <2>3 DEF ContinueMerge
  <1>6. CASE PersistContext(m)
    BY <1>0, <1>6, GotoIsFine DEF PersistContext, At
  <1>7. ASSUME NEW from \in {"intent", "promoting", "edgebatch", "commit"}, NEW phase \in Phases,
               NEW to \in {"classify", "edgebatch", "write", "cleanup"},
               PersistPhase(m, from, phase, to)
        PROVE  SideStep /\ LockStep
    BY <1>0, <1>7, GotoIsFine DEF PersistPhase, At
  <1>8. CASE Classify(m)
    <2>1. PICK table \in PhaseANow(m) :
            call' = [call EXCEPT ![m].rows = table,
                                 ![m].todo = Decided(table, call[m].strategy),
                                 ![m].pc = IF RequiresResolution(table) /\ call[m].strategy = None
                                           THEN "pending" ELSE "promoting"]
      BY <1>8 DEF Classify
    <2>2. TableOk(table)
      BY PhaseANowTable
    <2> DEFINE todo == Decided(table, call[m].strategy)
               pc == IF RequiresResolution(table) /\ call[m].strategy = None THEN "pending" ELSE "promoting"
    <2>3. PICK c : c.rows = table /\ c.pre = call[m].pre /\ call' = [call EXCEPT ![m] = c]
      <3> DEFINE c == [call[m] EXCEPT !.rows = table, !.todo = todo, !.pc = pc]
      <3>1. call' = [call EXCEPT ![m] = c]
        BY <2>1 DEF Typed, CallsTyped
      <3> HIDE DEF todo, pc
      <3>2. c.rows = table /\ c.pre = call[m].pre
        BY DEF Typed, CallsTyped, Call
      <3> QED BY <3>1, <3>2
    <2>4. \A n \in Merges : call'[n] = IF n = m THEN c ELSE call[n]
      BY <2>3 DEF Typed, CallsTyped
    <2>5. \A n \in Merges : /\ call'[n].pre = call[n].pre
                            /\ call'[n].rows = call[n].rows \/ TableOk(call'[n].rows)
      BY <2>2, <2>3, <2>4
    <2>6. \A n \in Merges : InSection(n)' => InSection(n)
      BY <1>0, <1>8, <2>4 DEF InSection, Classify, At
    <2> QED BY <1>8, <2>5, <2>6 DEF Classify
  <1>9. CASE BeginMergeWrite(m)
    BY <1>0, <1>9, GotoIsFine DEF BeginMergeWrite, BeginWrite, At
  <1>10. CASE PromoteOne(m)
    <2>1. PICK i \in call[m].todo :
            /\ PromoteIdentity(i, call[m].rows, call[m].strategy)
            /\ call' = [call EXCEPT ![m].todo = @ \ {i}]
      BY <1>10 DEF PromoteOne
    <2>2. call[m] \in Call /\ i \in DOMAIN call[m].rows /\ call[m].strategy \in Strategies \cup {None}
      BY DEF Typed, CallsTyped, Call
    <2>3. PICK c : /\ c.rows = call[m].rows /\ c.pre = call[m].pre /\ c.pc = call[m].pc
                   /\ call' = [call EXCEPT ![m] = c]
      <3> DEFINE c == [call[m] EXCEPT !.todo = @ \ {i}]
      <3>1. c.rows = call[m].rows /\ c.pre = call[m].pre /\ c.pc = call[m].pc
        BY <2>2 DEF Call
      <3>2. call' = [call EXCEPT ![m] = c]
        BY <2>1 DEF Typed, CallsTyped
      <3> QED BY <3>1, <3>2
    <2>4. \A n \in Merges : call'[n] = IF n = m THEN c ELSE call[n]
      BY <2>3 DEF Typed, CallsTyped
    <2>5. \A n \in Merges : /\ call'[n].pre = call[n].pre /\ call'[n].rows = call[n].rows
                            /\ InSection(n)' => InSection(n)
      BY <2>3, <2>4 DEF InSection
    <2>6. TableOk(call[m].rows)
      BY DEF Sides
    <2>7. /\ \A j \in Identities : ri'[j] = ri[j] \/ ri'[j] \in MayBind(j)
          /\ \A j \in deleted' : j \in deleted \/ None \in MayBind(j)
      BY <2>1, <2>2, <2>6, PromoteIsFine
    <2>8. \A j \in Identities : MayBind(j)' = MayBind(j)
      BY <1>10 DEF PromoteOne, MayBind
    <2> QED BY <1>10, <2>5, <2>7, <2>8 DEF PromoteOne
  <1>11. CASE ReconcileEdges(m)
    <2>1. PICK c : /\ c.pc = "flush" /\ c.pre = NoBindings /\ c.rows = NoRows
                   /\ call' = [call EXCEPT ![m] = c]
      BY <1>11 DEF ReconcileEdges, Idle
    <2>2. \A n \in Merges : call'[n] = IF n = m THEN c ELSE call[n]
      BY <2>1 DEF Typed, CallsTyped
    <2>3. \A n \in Merges : /\ call'[n].pre = call[n].pre \/ FromASide(call'[n].pre)
                            /\ call'[n].rows = call[n].rows \/ TableOk(call'[n].rows)
                            /\ InSection(n)' => InSection(n)
      BY <1>0, <1>11, <2>1, <2>2, NothingIsFine DEF InSection, ReconcileEdges, At
    <2> QED BY <1>11, <2>3 DEF ReconcileEdges
  <1>12. CASE FlushMerge(m)
    BY <1>0, <1>12, GotoIsFine DEF FlushMerge, FlushOverlay, At
  <1>13. CASE FlushFails(m)
    BY <1>0, <1>13, GotoIsFine DEF FlushFails, Bound, At, Typed, HistoryTyped
  <1>14. CASE PersistPayload(m)
    BY <1>0, <1>14, GotoIsFine DEF PersistPayload, At
  <1>15. CASE RemoveContext(m)
    BY <1>0, <1>15, GotoIsFine DEF RemoveContext, At
  <1>16. CASE ReleaseMergeLock(m)
    BY <1>0, <1>16, GotoIsFine DEF ReleaseMergeLock, ReleaseLock, At
  <1> QED BY <1>1, <1>2, <1>3, <1>4, <1>5, <1>6, <1>7, <1>8, <1>9, <1>10, <1>11, <1>12, <1>13,
             <1>14, <1>15, <1>16
          DEF MergeStep, PersistIntent, PersistPromoting, PersistEdgeBatch, PersistCommitted, Phases

(* What a cancel puts back is what the merge read.                          *)
LEMMA RestoreIsFine ==
  ASSUME Typed, Sides, NEW m \in Merges, RestoreSnapshot(m)
  PROVE  \A i \in Identities : ri'[i] = ri[i] \/ ri'[i] \in MayBind(i)
  BY DEF RestoreSnapshot, Sides, FromASide, Typed, RowsTyped

LEMMA CancelStepKinds ==
  ASSUME Typed, Sides, Robbers, NEW m \in Merges,
         CancelBegin(m) \/ CancelStep(m) \/ CancelFlushFails(m) \/ SweepExpired(m)
  PROVE  SideStep /\ LockStep
  <1> USE DEF rows, graph, history, SideStep, LockStep, InSection
  <1>0. cancel \in [Merges -> {"idle", "begun", "restored", "flush", "purge", "end"}]
    BY DEF Typed, ProcessTyped
  <1>1. CASE CancelBegin(m)
    BY <1>0, <1>1 DEF CancelBegin, Bound, Typed, HistoryTyped
  <1>2. CASE CancelRestore(m)
    <2>1. \A i \in Identities : ri'[i] = ri[i] \/ ri'[i] \in MayBind(i)
      BY <1>2, RestoreIsFine DEF CancelRestore
    <2>2. \A i \in Identities : MayBind(i)' = MayBind(i)
      BY <1>2 DEF CancelRestore, MayBind
    <2> QED BY <1>0, <1>2, <2>1, <2>2 DEF CancelRestore
  <1>3. CASE CancelRelease(m)
    BY <1>0, <1>3 DEF CancelRelease, ReleaseLock, Robbers, Typed, RowsTyped
  <1>4. CASE CancelFlush(m)
    BY <1>0, <1>4 DEF CancelFlush, FlushOverlay
  <1>5. CASE CancelFlushFails(m)
    BY <1>0, <1>5 DEF CancelFlushFails, Bound, Typed, HistoryTyped
  <1>6. CASE CancelPurge(m)
    BY <1>0, <1>6 DEF CancelPurge
  <1>7. CASE CancelEnd(m)
    BY <1>0, <1>7 DEF CancelEnd
  <1>8. CASE SweepExpired(m)
    BY <1>8 DEF SweepExpired, ReleaseLock, Bound, Typed, HistoryTyped
  <1> QED BY <1>1, <1>2, <1>3, <1>4, <1>5, <1>6, <1>7, <1>8 DEF CancelStep

LEMMA ReindexKinds ==
  ASSUME Typed, NEW i \in Identities, Reindex(i)
  PROVE  SideStep /\ LockStep
  <1>1. left'.ri = left.ri /\ left'.deleted = left.deleted
    BY DEF Reindex, Typed, HistoryTyped, Bound
  <1>2. \A j \in Identities : ri'[j] = ri[j] \/ ri'[j] \in MayBind(j)'
    BY DEF Reindex, Typed, RowsTyped, Bindings, MayBind
  <1> QED BY <1>1, <1>2 DEF Reindex, graph, process, SideStep, LockStep, InSection

LEMMA CrashKinds ==
  ASSUME Typed, Crash
  PROVE  SideStep /\ LockStep
  <1>1. left'.ri = left.ri /\ left'.deleted = left.deleted
    BY DEF Crash, Typed, HistoryTyped, Bound
  <1> DEFINE c == [Idle EXCEPT !.pc = "failed"]
  <1>2. c.pc = "failed" /\ c.pre = NoBindings /\ c.rows = NoRows
    BY IdleTyped DEF Idle
  <1>3. \A m \in Merges : call'[m] = call[m] \/ call'[m] = c
    BY DEF Crash
  <1> HIDE DEF c
  <1>4. \A m \in Merges : /\ call'[m].pre = call[m].pre \/ FromASide(call'[m].pre)
                          /\ call'[m].rows = call[m].rows \/ TableOk(call'[m].rows)
                          /\ InSection(m)' => InSection(m)
    BY <1>2, <1>3, NothingIsFine DEF InSection
  <1>5. rec'.rows = NoRows /\ rec'.pc = "idle"
    BY DEF Crash, NoRecovery
  <1> QED BY <1>1, <1>4, <1>5, NothingIsFine DEF Crash, rows, SideStep, LockStep

LEMMA RecoverStepKinds ==
  ASSUME Typed, Sides, Robbers, RecoverStep
  PROVE  SideStep /\ LockStep
  <1> USE DEF rows, graph, history, SideStep, LockStep, InSection
  <1>0. rec \in Recovery /\ (rec.pc \in {"promote", "commit", "release", "restored"} => rec.at \in Merges)
    BY DEF Typed, RecTyped, Recovering
  <1>1. CASE RecoverBegin
    <2>1. rec'.rows = NoRows /\ rec'.pc = "visit"
      BY <1>1 DEF RecoverBegin, NoRecovery
    <2> QED BY <1>1, <2>1, NothingIsFine DEF RecoverBegin, BeginWrite
  <1>2. CASE RecoverPromoteOne
    <2>1. PICK i \in rec.todo :
            /\ PromoteIdentity(i, rec.rows, ctx[rec.at])
            /\ rec' = [rec EXCEPT !.todo = @ \ {i}]
      BY <1>2 DEF RecoverPromoteOne
    <2>2. rec'.rows = rec.rows /\ rec'.pc = rec.pc /\ rec'.at = rec.at
      BY <1>0, <2>1 DEF Recovery
    <2>3. TableOk(rec.rows) /\ i \in DOMAIN rec.rows
      BY DEF Sides, Typed, RecTyped
    <2>4. ctx[rec.at] \in Strategies \cup {None, "absent"}
      BY <1>0, <1>2 DEF RecoverPromoteOne, Typed, RowsTyped
    <2>5. /\ \A j \in Identities : ri'[j] = ri[j] \/ ri'[j] \in MayBind(j)
          /\ \A j \in deleted' : j \in deleted \/ None \in MayBind(j)
      BY <2>1, <2>3, <2>4, PromoteIsFine
    <2>6. \A j \in Identities : MayBind(j)' = MayBind(j)
      BY <1>2 DEF RecoverPromoteOne, MayBind
    <2> QED BY <1>2, <2>2, <2>5, <2>6 DEF RecoverPromoteOne
  <1>3. CASE RecoverEdgeBatch
    <2>1. rec'.rows = NoRows /\ rec'.pc = "commit"
      BY <1>0, <1>3 DEF RecoverEdgeBatch, Recovery
    <2> QED BY <1>3, <2>1, NothingIsFine DEF RecoverEdgeBatch
  <1>4. CASE RecoverCommit
    <2>1. rec'.rows = rec.rows /\ rec'.pc = "release"
      BY <1>0, <1>4 DEF RecoverCommit, Recovery
    <2> QED BY <1>4, <2>1 DEF RecoverCommit
  <1>5. CASE RecoverRelease
    <2>1. rec'.rows = rec.rows /\ rec'.pc = "visit"
      BY <1>0, <1>5 DEF RecoverRelease, Recovery
    <2> QED BY <1>5, <2>1 DEF RecoverRelease, ReleaseLock
  <1>6. CASE RecoverCancelled
    <2>1. rec'.rows = rec.rows /\ rec'.pc = "visit" /\ rec.at \in robbed /\ rec.at \in Merges
      BY <1>0, <1>6 DEF RecoverCancelled, Recovery, Robbers
    <2>2. \A m \in Merges : msnap'[m] \in {msnap[m], None}
      BY <1>6, <2>1 DEF RecoverCancelled, Typed, RowsTyped
    <2> QED BY <1>6, <2>1, <2>2 DEF RecoverCancelled, ReleaseLock
  <1>7. CASE RecoverEnd
    <2>1. rec'.rows = NoRows /\ rec'.pc = "flush"
      BY <1>7 DEF RecoverEnd, NoRecovery
    <2> QED BY <1>7, <2>1, NothingIsFine DEF RecoverEnd
  <1>8. CASE RecoverFlush
    <2>1. rec'.rows = rec.rows /\ rec'.pc = "compensate"
      BY <1>0, <1>8 DEF RecoverFlush, Recovery
    <2>2. left'.ri = left.ri /\ left'.deleted = left.deleted
      BY <1>8 DEF RecoverFlush, Typed, HistoryTyped, Bound
    <2> QED BY <1>8, <2>1, <2>2 DEF RecoverFlush
  <1>9. CASE CompensateOrphans
    <2>1. rec'.rows = NoRows /\ rec'.pc = "idle"
      BY <1>9 DEF CompensateOrphans, NoRecovery
    <2>2. (lock' = lock /\ robbed' = robbed) \/ robbed' = robbed \cup {lock}
      BY <1>9 DEF CompensateOrphans
    <2> QED BY <1>9, <2>1, <2>2, NothingIsFine DEF CompensateOrphans
  <1>10. ASSUME NEW m \in Merges, RecoverPurge(m)
         PROVE  SideStep /\ LockStep
    <2>1. rec'.rows = rec.rows /\ rec'.pc = "visit"
      BY <1>0, <1>10 DEF RecoverPurge, Visited, Recovery
    <2> QED BY <1>10, <2>1 DEF RecoverPurge
  <1>11. ASSUME NEW m \in Merges, ResumeFromPromotion(m)
         PROVE  SideStep /\ LockStep
    <2>1. PICK table \in PhaseANow(m) :
            \/ Visited(m, "visit")
            \/ rec' = [pc |-> "promote", sagas |-> rec.sagas \ {m}, at |-> m, rows |-> table,
                       todo |-> Decided(table, ctx[m])]
      BY <1>11 DEF ResumeFromPromotion
    <2>2. TableOk(table)
      BY PhaseANowTable
    <2>3. ASSUME Visited(m, "visit")
          PROVE  rec'.rows = rec.rows /\ rec'.pc = "visit"
      BY <1>0, <2>3 DEF Visited, Recovery
    <2>4. (rec'.rows = rec.rows \/ TableOk(rec'.rows)) /\ rec'.pc \in {"visit", "promote"}
      BY <2>1, <2>2, <2>3
    <2> QED BY <1>11, <2>4 DEF ResumeFromPromotion
  <1>12. ASSUME NEW m \in Merges, ResumeFromEdgeBatch(m)
         PROVE  SideStep /\ LockStep
    <2>1. rec'.rows = rec.rows /\ rec'.pc = "commit"
      BY <1>0, <1>12 DEF ResumeFromEdgeBatch, Visited, Recovery
    <2> QED BY <1>12, <2>1 DEF ResumeFromEdgeBatch
  <1>13. ASSUME NEW m \in Merges, RecoverRestore(m)
         PROVE  SideStep /\ LockStep
    <2>1. rec'.rows = rec.rows /\ rec'.pc = "restored" /\ rec'.at = m
      BY <1>0, <1>13 DEF RecoverRestore, Visited, Recovery
    <2>2. \A i \in Identities : ri'[i] = ri[i] \/ ri'[i] \in MayBind(i)
      BY <1>13, RestoreIsFine DEF RecoverRestore
    <2>3. \A i \in Identities : MayBind(i)' = MayBind(i)
      BY <1>13 DEF RecoverRestore, MayBind
    <2> QED BY <1>13, <2>1, <2>2, <2>3 DEF RecoverRestore
  <1> QED BY <1>1, <1>2, <1>3, <1>4, <1>5, <1>6, <1>7, <1>8, <1>9, <1>10, <1>11, <1>12, <1>13
          DEF RecoverStep

---------------------------------------------------------------------------
LEMMA InitSides == Init => Sides /\ MergesExclude /\ Robbers
  <1> SUFFICES ASSUME Init PROVE Sides /\ MergesExclude /\ Robbers
    OBVIOUS
  <1>1. left \in Bound /\ RenamesKeepIdentity(left.ri)
    BY MergeSagaAssumption DEF Init
  <1>2. \A i \in Identities : ri[i] \in MayBind(i) /\ (i \in deleted => None \in MayBind(i))
    BY DEF Init, MayBind
  <1>3. deleted \subseteq Identities
    BY <1>1 DEF Init, Bound
  <1>4. \A m \in Merges : msnap[m] = None /\ call[m].pre = NoBindings /\ call[m].rows = NoRows
                          /\ call[m].pc = "idle" /\ cancel[m] = "idle"
    BY IdleTyped DEF Init, Idle
  <1>5. rec.rows = NoRows /\ rec.pc = "idle"
    BY DEF Init, NoRecovery
  <1> QED BY <1>1, <1>2, <1>3, <1>4, <1>5, NothingIsFine DEF Sides, MergesExclude, Robbers, InSection

(* The inductive invariant of the merge.                                    *)
MergeInv == Typed /\ Sides /\ MergesExclude /\ Robbers

THEOREM MergeInvariance == Spec => []MergeInv
  <1>1. Init => MergeInv
    BY InitTyped, InitSides DEF MergeInv
  <1>2. MergeInv /\ [Next]_vars => MergeInv'
    <2> SUFFICES ASSUME MergeInv, [Next]_vars PROVE MergeInv'
      OBVIOUS
    <2> USE DEF MergeInv
    <2>1. CASE UNCHANGED vars
      <3> USE <2>1 DEF vars, rows, graph, process, history
      <3>1. RowsTyped' /\ GraphTyped' /\ ProcessTyped' /\ HistoryTyped'
        BY DEF Typed, RowsTyped, GraphTyped, ProcessTyped, HistoryTyped
      <3>2. CallsTyped' /\ RecTyped'
        BY DEF Typed, CallsTyped, RecTyped, Recovering
      <3>3. SideStep /\ LockStep
        BY DEF SideStep, LockStep, InSection
      <3>4. deleted' \subseteq Identities
        BY <3>1 DEF RowsTyped
      <3> QED BY <3>1, <3>2, <3>3, <3>4, SideStepKeepsSides, LockStepKeeps DEF Typed
    <2>2. CASE Next
      <3>1. Typed' /\ SideStep /\ LockStep
        BY <2>2, MergeStepTyped, CancelStepTyped, ReindexTyped, CrashTyped, RecoverStepTyped,
           MergeStepKinds, CancelStepKinds, ReindexKinds, CrashKinds, RecoverStepKinds DEF Next
      <3>2. Sides'
        BY <3>1, SideStepKeepsSides DEF Typed, RowsTyped
      <3>3. MergesExclude' /\ Robbers'
        BY <3>1, LockStepKeeps
      <3> QED BY <3>1, <3>2, <3>3
    <2> QED BY <2>1, <2>2
  <1> QED BY <1>1, <1>2, PTL DEF Spec

(* The stores, the calls and the recovery keep their types.                 *)
THEOREM MergeTypeCorrect == Spec => []TypeOK
  BY MergeInvariance, TypedImpliesTypeOK, PTL DEF MergeInv

(* Whatever crashes, resumed, cancelled or competing merges and reindexes   *)
(* do, the target is never bound to what neither side had, and loses no     *)
(* binding that both sides kept. [merge_engine.rs phase_a_classify_with_    *)
(* base, phase_b_promote; merge_saga.rs]                                    *)
THEOREM BindingsComeFromEitherSide == Spec => []BindingsFromEitherSide
  <1>1. MergeInv => BindingsFromEitherSide
    BY DEF MergeInv, Sides, BindingsFromEitherSide
  <1> QED BY <1>1, MergeInvariance, PTL

(* Two merges that nobody robbed of their lock are never in merge_branch    *)
(* together, although the lock is one row without an owner in memory.       *)
(* [merge_lock.rs release_merge_lock]                                       *)
THEOREM MergesAlwaysExclude == Spec => []MergesExclude
  BY MergeInvariance, PTL DEF MergeInv

(* A recovery that ends leaves every merge Committed or gone, and the lock  *)
(* free or with a Committed merge. [merge_saga.rs compensate_orphans]       *)
THEOREM RecoveryAlwaysSettles == Spec => RecoverySettles
  <1>1. ASSUME Typed, CompensateOrphans
        PROVE  /\ \A m \in Merges : saga'[m] \in {None, "Committed"}
               /\ lock' # None => saga'[lock'] = "Committed"
    <2>1. /\ saga \in [Merges -> Phases \cup {None}] /\ lock \in Merges \cup {None}
      BY <1>1 DEF Typed, RowsTyped
    <2>2. \A m \in Merges : saga'[m] = IF saga[m] \in Open THEN None ELSE saga[m]
      BY <1>1 DEF CompensateOrphans
    <2>3. \A m \in Merges : saga'[m] \in {None, "Committed"}
      BY <2>1, <2>2 DEF Phases, Open
    <2>4. lock' = None \/ (lock' = lock /\ saga'[lock] # None)
      BY <1>1 DEF CompensateOrphans
    <2> QED BY <2>1, <2>3, <2>4
  <1>2. Typed /\ [Next]_vars =>
          [CompensateOrphans => /\ \A m \in Merges : saga'[m] \in {None, "Committed"}
                                /\ lock' # None => saga'[lock'] = "Committed"]_vars
    BY <1>1
  <1> QED BY <1>2, MergeInvariance, PTL DEF MergeInv, Spec, RecoverySettles
=============================================================================
