----------------------- MODULE SpeculativePatch_proofs -----------------------
(* The tracker, the leases and the graph follow the patches and the files,  *)
(* for any number of sessions, files, patches, edits, merges and faults.    *)
EXTENDS SpeculativePatch, FiniteSetTheorems, WellFoundedInduction, TLAPS

---------------------------------------------------------------------------
(* Types, and what each step of a request may rely on.                      *)

Patches == {r \in Record : r.path[1] = "abs"}
Readings == Contents \cup {Absent}
Snapshots == [f : Files, content : Readings]
Seen == [todo : SUBSET Files, read : [Files -> Readings], at : Files \cup {None},
         beaten : SUBSET Files, rids : SUBSET Slots]
FileRows == [Slots -> Row \cup {None}]
Ops == {"none", "write", "confirm", "revert", "reindex", "flush", "sweep"}
Pcs == {"idle", "next", "promote", "promoted", "clear", "wal_promote", "set_active", "check",
        "restore", "remove", "removed", "clear_reverted", "wal_revert", "set_tombstone",
        "reindex_reverted", "open", "capture", "token", "write", "ingest", "files", "commit",
        "mark", "set_speculative", "probe"}
Calls == [op : Ops, pc : Pcs, f : Files \cup {None}, id : 0..MaxId, owner : Sessions \cup {None},
          ids : SUBSET Ids, files : SUBSET Files, batch : SUBSET Files]

DataTyped ==
  /\ file \in [Files -> Readings] /\ row \in [Files -> FileRows]
  /\ seen \in [Threads -> Seen] /\ astray \in [Files -> SUBSET Strays]
  /\ tokens \subseteq Ids /\ events \subseteq Files /\ locked \in BOOLEAN
  /\ snap \in [Ids -> Snapshots \cup {None}]

MemoryTyped ==
  /\ patch \in [Ids -> Patches \cup {None}]
  /\ lease \in [PathForms -> Sessions \cup {None}] /\ refs \in [PathForms -> Nat]
  /\ nextId \in 1..(MaxId + 1)
  /\ \A i \in Ids : i >= nextId => patch[i] = None
  /\ call \in [Threads -> Calls]

(* What holds of a call between two of its steps.  A patch is never put     *)
(* back, so what a call learnt of its patch stays true while the patch is.  *)
Fits(t, c) ==
  /\ c.pc = "idle" => c = Idle
  /\ c.batch # {} => c.op = "flush"
  /\ c.op = "write" => c.f \in Files
  /\ c.pc \in {"open", "capture", "token", "write", "mark", "set_speculative"} => c.op = "write"
  /\ c.pc \in {"ingest", "probe"} => c.f \in Files /\ c.op \in {"write", "reindex"}
  /\ c.pc = "probe" => c.op = "reindex"
  /\ c.pc \in {"files", "commit"} /\ c.op = "reindex" => c.f \in Files
  /\ c.pc = "check" => c.op # "write"
  /\ c.pc \in {"promote", "check", "restore", "remove", "capture", "token", "write"} => c.id \in Ids
  /\ c.pc \in {"check", "restore", "remove", "capture", "token", "write"} => c.id < nextId
  /\ \A i \in c.ids : i < nextId
  /\ c.pc \in {"restore", "remove"} => patch[c.id] = None \/ patch[c.id].path = Abs(c.f)
  /\ c.pc \in {"capture", "token", "write"} =>
       patch[c.id] = None \/ patch[c.id] = [session |-> t, path |-> Abs(c.f)]
  /\ c.pc \in {"promoted", "removed"} => c.f \in Files /\ c.owner \in Sessions
  /\ c.pc \in {"clear", "wal_promote", "set_active", "clear_reverted", "wal_revert", "set_tombstone",
               "reindex_reverted"} => c.f \in Files

CallsFit == \A t \in Threads : Fits(t, call[t])

(* Every write that has not opened its patch yet has an id set aside.       *)
Unopened(c) == c.op = "write" /\ c.pc \notin Opened
Writers == {t \in Sessions : Unopened(call[t])}
Reserved == nextId + Cardinality(Writers) <= MaxId + 1

(* A path is registered once for every open patch, and once for every       *)
(* thread that has removed a patch and not ended its lease.                 *)
AtEnd(c) == c.pc \in {"promoted", "removed"}
OpenOn(p) == {i \in Open : patch[i].path = p}
EndingOn(p) == {t \in Threads : AtEnd(call[t]) /\ Abs(call[t].f) = p}
Counted == \A p \in PathForms : refs[p] = Cardinality(OpenOn(p)) + Cardinality(EndingOn(p))
Leased ==
  \A p \in PathForms : lease[p] # None =>
    \/ \E i \in OpenOn(p) : patch[i].session = lease[p]
    \/ \E t \in EndingOn(p) : call[t].owner = lease[p]

Tracked == MemoryTyped /\ CallsFit /\ Reserved /\ Counted /\ Leased

(* A thread has read the files of its ingest, and goes on with one of them. *)
ReadsFit(c, n) ==
  /\ n.todo # {} => c.pc \in {"files", "commit"}
  /\ c.pc = "commit" => n.at \in n.todo /\ n.read[n.at] # Absent
SeenFits == \A t \in Threads : ReadsFit(call[t], seen[t])

(* A file has one live row, unless a mutation has revived one.              *)
Single(fr) == \A a, b \in Live(fr) : a = b
RowsSingle == \A f \in Files : "revived" \in astray[f] \/ Single(row[f])

(* Rows that do not show what the file holds, x, will be made to: by the    *)
(* event of the file, by the batch it is in, by the revert that tombstoned  *)
(* them, or by a thread that has read x and will commit it.  A thread that  *)
(* will commit an older reading is beaten by a later one, or the file is    *)
(* still due.                                                               *)
Remade(f, c, n, x) ==
  f \in c.batch \/ (c.pc = "reindex_reverted" /\ c.f = f) \/ (f \in n.todo /\ n.read[f] \in {x, Absent})
Stale(f, n, x) == f \in n.todo /\ x # Absent /\ n.read[f] \notin {x, Absent} /\ f \notin n.beaten
Due(f) == f \in events \/ astray[f] # {} \/ \E t \in Threads : Remade(f, call[t], seen[t], file[f])
Safe(f) ==
  \/ Due(f)
  \/ /\ file[f] # Absent => Show(row[f], file[f])
     /\ \A t \in Threads : ~Stale(f, seen[t], file[f])
Covered == failed \/ \A f \in Files : Safe(f)

PatchInv == DataTyped /\ Tracked /\ SeenFits /\ RowsSingle /\ Covered

---------------------------------------------------------------------------
(* Sets of ids and of threads                                               *)

LEMMA LeastNatural ==
  ASSUME NEW T, T \subseteq Nat, T # {}
  PROVE  \E n \in T : \A m \in T : n <= m
  <1> DEFINE R == {ss \in Nat \X Nat : ss[1] < ss[2]}
  <1>1. IsWellFoundedOn(R, Nat)
    BY NatLessThanWellFounded DEF OpToRel
  <1> HIDE DEF R
  <1>2. PICK x \in T : \A y \in T : ~(<<y, x>> \in R)
    BY <1>1, WFMin
  <1>3. ASSUME NEW y \in T PROVE x <= y
    <2>1. x \in Nat /\ y \in Nat /\ <<y, x>> \in Nat \X Nat
      OBVIOUS
    <2>2. ~(y < x)
      BY <1>2, <2>1 DEF R
    <2> QED BY <2>1, <2>2
  <1> QED BY <1>3

(* The oldest and the newest id of a set of ids are ids of the set.         *)
LEMMA OldestAndNewest ==
  ASSUME NEW S, S \subseteq Ids, S # {}
  PROVE  Min(S) \in S /\ Max(S) \in S
  <1>1. \E n \in S : \A m \in S : n <= m
    <2>1. S \subseteq Nat
      BY SpeculativePatchAssumption DEF Ids
    <2> QED BY <2>1, LeastNatural
  <1>2. \E n \in S : \A m \in S : n >= m
    <2> DEFINE Gaps == {n \in Nat : n <= MaxId /\ MaxId - n \in S}
    <2>1. Gaps # {}
      <3>1. PICK i \in S : TRUE
        OBVIOUS
      <3>2. MaxId - i \in Nat /\ MaxId - i <= MaxId /\ MaxId - (MaxId - i) = i
        BY SpeculativePatchAssumption DEF Ids
      <3> QED BY <3>2
    <2>2. PICK n \in Gaps : \A m \in Gaps : n <= m
      BY <2>1, LeastNatural
    <2>3. \A m \in S : MaxId - m \in Gaps
      BY SpeculativePatchAssumption DEF Ids
    <2>4. \A m \in S : MaxId - n >= m
      BY <2>2, <2>3, SpeculativePatchAssumption DEF Ids
    <2> QED BY <2>4
  <1> QED BY <1>1, <1>2 DEF Min, Max

LEMMA Finite ==
  /\ IsFiniteSet(Ids) /\ IsFiniteSet(Sessions) /\ IsFiniteSet(Threads)
  /\ \A p : IsFiniteSet(OpenOn(p)) /\ IsFiniteSet(EndingOn(p))
  /\ IsFiniteSet(Writers)
  <1>1. IsFiniteSet(Ids) /\ IsFiniteSet(Sessions) /\ IsFiniteSet(Threads)
    BY SpeculativePatchAssumption, FS_Interval, FS_AddElement DEF Ids, Threads
  <1>2. ASSUME NEW p PROVE IsFiniteSet(OpenOn(p)) /\ IsFiniteSet(EndingOn(p))
    <2>1. OpenOn(p) \subseteq Ids /\ EndingOn(p) \subseteq Threads
      BY DEF OpenOn, Open, EndingOn
    <2> QED BY <1>1, <2>1, FS_Subset
  <1>3. Writers \subseteq Sessions
    BY DEF Writers
  <1> QED BY <1>1, <1>2, <1>3, FS_Subset

(* One element more, one element less.                                      *)
LEMMA CountOne ==
  ASSUME NEW S, IsFiniteSet(S), NEW x
  PROVE  /\ Cardinality(S) \in Nat
         /\ x \notin S => IsFiniteSet(S \cup {x}) /\ Cardinality(S \cup {x}) = Cardinality(S) + 1
         /\ x \in S => Cardinality(S \ {x}) = Cardinality(S) - 1
  BY FS_CardinalityType, FS_AddElement, FS_RemoveElement

LEMMA CountsAreNatural ==
  /\ Cardinality(Writers) \in Nat
  /\ \A p : Cardinality(OpenOn(p)) \in Nat /\ Cardinality(EndingOn(p)) \in Nat
  BY Finite, FS_CardinalityType

---------------------------------------------------------------------------
(* Kinds of steps.  One thread moves to call c; the patches, the leases and *)
(* the tracker stay, or a patch is removed, a lease ended, a patch opened.  *)

Moves(t, c) == t \in Threads /\ c \in Calls /\ call' = [call EXCEPT ![t] = c]

Quiet(t, c) ==
  /\ Moves(t, c) /\ UNCHANGED <<patch, lease, refs, nextId>> /\ Fits(t, c)
  /\ ~AtEnd(call[t]) /\ ~AtEnd(c)
  /\ Unopened(c) => Unopened(call[t]) \/ nextId + Cardinality(Writers) <= MaxId

Takes(t, c) ==
  /\ Moves(t, c) /\ UNCHANGED <<lease, refs, nextId>> /\ Fits(t, c)
  /\ ~AtEnd(call[t]) /\ AtEnd(c)
  /\ \E i \in Open : /\ patch' = [patch EXCEPT ![i] = None]
                     /\ Abs(c.f) = patch[i].path /\ c.owner = patch[i].session
  /\ Unopened(c) => Unopened(call[t])

Ends(t, c) ==
  /\ Moves(t, c) /\ UNCHANGED <<patch, nextId>> /\ Fits(t, c)
  /\ AtEnd(call[t]) /\ ~AtEnd(c) /\ EndLease(Abs(call[t].f), call[t].owner)
  /\ Unopened(c) => Unopened(call[t])

Opens(t, c) ==
  /\ Moves(t, c) /\ t \in Sessions /\ Unopened(call[t]) /\ ~AtEnd(call[t])
  /\ c.op = "write" /\ c.pc = "capture" /\ c.f \in Files /\ c.id = nextId
  /\ c.ids = call[t].ids /\ c.batch = call[t].batch
  /\ lease[Abs(c.f)] \in {None, t} /\ lease' = [lease EXCEPT ![Abs(c.f)] = t]
  /\ refs' = [refs EXCEPT ![Abs(c.f)] = @ + 1]
  /\ patch' = [patch EXCEPT ![nextId] = [session |-> t, path |-> Abs(c.f)]]
  /\ nextId' = nextId + 1

(* What a call knows stays true when patches are removed or opened.         *)
LEMMA FitsKept ==
  ASSUME MemoryTyped, NEW t \in Threads, NEW c \in Calls, Fits(t, c),
         \A i \in Ids : patch'[i] = patch[i] \/ patch'[i] = None \/ i >= nextId,
         nextId' \in Nat, nextId' >= nextId
  PROVE  Fits(t, c)'
  <1>1. nextId \in Nat /\ c.ids \subseteq Ids /\ \A i \in Ids : i \in Nat
    BY SpeculativePatchAssumption DEF MemoryTyped, Calls, Ids
  <1>2. \A i \in c.ids : i < nextId'
    BY <1>1 DEF Fits
  <1>3. c.pc \in {"check", "restore", "remove", "capture", "token", "write"} => c.id < nextId'
    BY <1>1 DEF Fits, Calls
  <1>4. c.pc \in {"restore", "remove", "capture", "token", "write"} =>
          patch'[c.id] = patch[c.id] \/ patch'[c.id] = None
    BY <1>1 DEF Fits
  <1> QED BY <1>2, <1>3, <1>4 DEF Fits

LEMMA CallsFitKept ==
  ASSUME MemoryTyped, CallsFit, NEW t, NEW c, Moves(t, c), Fits(t, c)',
         \A i \in Ids : patch'[i] = patch[i] \/ patch'[i] = None \/ i >= nextId,
         nextId' \in Nat, nextId' >= nextId
  PROVE  CallsFit' /\ call' \in [Threads -> Calls]
  <1>1. call' \in [Threads -> Calls] /\ call'[t] = c
    BY DEF Moves, MemoryTyped
  <1>2. ASSUME NEW u \in Threads, u # t PROVE Fits(u, call[u])'
    <2>1. PICK d \in Calls : d = call[u] /\ call'[u] = d
      BY <1>2 DEF Moves, MemoryTyped
    <2>2. Fits(u, d)
      BY <2>1 DEF CallsFit
    <2>3. Fits(u, d)'
      BY <2>2, FitsKept
    <2> QED BY <2>1, <2>3 DEF Fits
  <1>3. Fits(t, call[t])'
    BY <1>1 DEF Fits
  <1> QED BY <1>1, <1>2, <1>3 DEF CallsFit

---------------------------------------------------------------------------
(* What a move does to the sets that are counted.                           *)

LEMMA EndingMoves ==
  ASSUME MemoryTyped, NEW t, NEW c, Moves(t, c)
  PROVE  /\ call' \in [Threads -> Calls] /\ call'[t] = c
         /\ \A u \in Threads : u # t => call'[u] = call[u]
         /\ \A p : /\ ~AtEnd(call[t]) => t \notin EndingOn(p)
                   /\ ~AtEnd(call[t]) /\ ~AtEnd(c) => EndingOn(p)' = EndingOn(p)
                   /\ ~AtEnd(call[t]) /\ AtEnd(c) =>
                        EndingOn(p)' = IF Abs(c.f) = p THEN EndingOn(p) \cup {t} ELSE EndingOn(p)
                   /\ AtEnd(call[t]) /\ ~AtEnd(c) => EndingOn(p)' = EndingOn(p) \ {t}
                   /\ AtEnd(call[t]) => (t \in EndingOn(p) <=> Abs(call[t].f) = p)
  <1>1. call' \in [Threads -> Calls] /\ call'[t] = c /\ t \in Threads
    BY DEF Moves, MemoryTyped
  <1>2. \A u \in Threads : u # t => call'[u] = call[u]
    BY DEF Moves, MemoryTyped
  <1> QED BY <1>1, <1>2 DEF EndingOn, AtEnd

LEMMA WritersMove ==
  ASSUME MemoryTyped, NEW t, NEW c, Moves(t, c)
  PROVE  /\ Unopened(c) => Cardinality(Writers') <= Cardinality(Writers) + 1
         /\ (Unopened(c) => Unopened(call[t])) => Cardinality(Writers') <= Cardinality(Writers)
         /\ t \in Sessions /\ Unopened(call[t]) /\ ~Unopened(c) =>
              Cardinality(Writers') + 1 <= Cardinality(Writers)
         /\ Cardinality(Writers') \in Nat
  <1>1. call'[t] = c /\ \A u \in Threads : u # t => call'[u] = call[u]
    BY EndingMoves
  <1>2. Writers' \subseteq Writers \cup {t}
    BY <1>1 DEF Writers, Unopened, Threads
  <1>3. (Unopened(c) => Unopened(call[t])) => Writers' \subseteq Writers
    BY <1>1 DEF Writers, Unopened, Threads
  <1>4. t \in Sessions /\ Unopened(call[t]) /\ ~Unopened(c) => t \in Writers /\ Writers' \subseteq Writers \ {t}
    BY <1>1 DEF Writers, Unopened, Threads
  <1>5. IsFiniteSet(Writers) /\ IsFiniteSet(Writers \cup {t}) /\ IsFiniteSet(Writers \ {t})
    BY Finite, FS_AddElement, FS_RemoveElement
  <1>6. Cardinality(Writers \cup {t}) <= Cardinality(Writers) + 1
    BY <1>5, FS_AddElement, FS_CardinalityType
  <1>7. t \in Writers => Cardinality(Writers \ {t}) = Cardinality(Writers) - 1
    BY <1>5, FS_RemoveElement
  <1>8. IsFiniteSet(Writers') /\ Cardinality(Writers') \in Nat /\ Cardinality(Writers') <= Cardinality(Writers \cup {t})
        /\ Cardinality(Writers) \in Nat /\ Cardinality(Writers \cup {t}) \in Nat
    BY <1>2, <1>5, FS_Subset, FS_CardinalityType
  <1>9. (Unopened(c) => Unopened(call[t])) => Cardinality(Writers') <= Cardinality(Writers)
    BY <1>3, <1>5, FS_Subset
  <1>10. t \in Sessions /\ Unopened(call[t]) /\ ~Unopened(c) => Cardinality(Writers') <= Cardinality(Writers \ {t})
    BY <1>4, <1>5, FS_Subset
  <1> QED BY <1>4, <1>6, <1>7, <1>8, <1>9, <1>10

LEMMA ReservedKept ==
  ASSUME MemoryTyped, Reserved, NEW t, NEW c, Moves(t, c), nextId' = nextId,
         Unopened(c) => Unopened(call[t]) \/ nextId + Cardinality(Writers) <= MaxId
  PROVE  Reserved'
  <1>1. nextId \in Nat /\ MaxId \in Nat /\ Cardinality(Writers) \in Nat
    BY SpeculativePatchAssumption, CountsAreNatural DEF MemoryTyped
  <1>2. CASE Unopened(c) => Unopened(call[t])
    BY <1>1, <1>2, WritersMove DEF Reserved
  <1>3. CASE Unopened(c) /\ ~Unopened(call[t])
    BY <1>1, <1>3, WritersMove DEF Reserved
  <1> QED BY <1>2, <1>3

---------------------------------------------------------------------------
(* Every kind of step keeps the tracker right.                              *)

LEMMA StillTracks ==
  ASSUME Tracked, UNCHANGED <<patch, lease, refs, nextId, call>>
  PROVE  Tracked'
  <1>1. MemoryTyped' /\ CallsFit'
    BY DEF Tracked, MemoryTyped, CallsFit, Fits
  <1>2. Reserved' /\ Counted' /\ Leased'
    BY DEF Tracked, Reserved, Writers, Unopened, Counted, Leased, OpenOn, Open, EndingOn, AtEnd
  <1> QED BY <1>1, <1>2 DEF Tracked

LEMMA QuietTracks ==
  ASSUME Tracked, NEW t, NEW c, Quiet(t, c)
  PROVE  Tracked'
  <1>1. MemoryTyped /\ CallsFit /\ Moves(t, c)
    BY DEF Tracked, Quiet
  <1>2. Fits(t, c)' /\ nextId' \in Nat /\ nextId' >= nextId /\ \A i \in Ids : patch'[i] = patch[i]
    BY <1>1 DEF Quiet, Fits, MemoryTyped
  <1>3. CallsFit' /\ call' \in [Threads -> Calls]
    BY <1>1, <1>2, CallsFitKept
  <1>4. MemoryTyped'
    BY <1>1, <1>3 DEF MemoryTyped, Quiet
  <1>5. Reserved'
    BY <1>1, ReservedKept DEF Tracked, Quiet
  <1>6. \A p : OpenOn(p)' = OpenOn(p) /\ EndingOn(p)' = EndingOn(p) /\ t \notin EndingOn(p)
    BY <1>1, EndingMoves DEF Quiet, OpenOn, Open
  <1>7. Counted'
    BY <1>6 DEF Tracked, Counted, Quiet
  <1>8. Leased'
    <2> SUFFICES ASSUME NEW p \in PathForms, lease[p] # None
                 PROVE  \/ \E i \in OpenOn(p) : patch[i].session = lease[p]
                        \/ \E u \in EndingOn(p) : call'[u].owner = lease[p]
      BY <1>6 DEF Leased, Quiet
    <2>1. \A u \in EndingOn(p) : call'[u] = call[u]
      BY <1>1, <1>6, EndingMoves DEF EndingOn
    <2> QED BY <2>1 DEF Tracked, Leased
  <1> QED BY <1>3, <1>4, <1>5, <1>7, <1>8 DEF Tracked

LEMMA TakesTracks ==
  ASSUME Tracked, NEW t, NEW c, Takes(t, c)
  PROVE  Tracked'
  <1>1. MemoryTyped /\ CallsFit /\ Moves(t, c) /\ t \in Threads /\ c \in Calls
    BY DEF Tracked, Takes, Moves
  <1>2. PICK i \in Open : /\ patch' = [patch EXCEPT ![i] = None]
                          /\ Abs(c.f) = patch[i].path /\ c.owner = patch[i].session
    BY DEF Takes
  <1>3. i \in Ids /\ patch[i] # None
    BY DEF Open
  <1>4. patch' \in [Ids -> Patches \cup {None}] /\ \A j \in Ids : patch'[j] = IF j = i THEN None ELSE patch[j]
    BY <1>1, <1>2, <1>3 DEF MemoryTyped
  <1>5. nextId' = nextId /\ nextId \in Nat
    BY <1>1 DEF Takes, MemoryTyped
  <1>6. Fits(t, c)'
    BY <1>1, <1>4, <1>5, FitsKept DEF Takes
  <1>7. CallsFit' /\ call' \in [Threads -> Calls]
    BY <1>1, <1>4, <1>5, <1>6, CallsFitKept
  <1>8. MemoryTyped'
    BY <1>1, <1>4, <1>7 DEF MemoryTyped, Takes
  <1>9. Reserved'
    BY <1>1, <1>5, ReservedKept DEF Tracked, Takes
  <1>10. \A p : /\ OpenOn(p)' = OpenOn(p) \ {i}
                /\ i \in OpenOn(p) <=> Abs(c.f) = p
    BY <1>2, <1>3, <1>4 DEF OpenOn, Open
  <1>11. \A p : /\ EndingOn(p)' = IF Abs(c.f) = p THEN EndingOn(p) \cup {t} ELSE EndingOn(p)
                /\ t \notin EndingOn(p)
    BY <1>1, EndingMoves DEF Takes
  <1>12. Counted'
    <2> SUFFICES ASSUME NEW p \in PathForms
                 PROVE  refs[p] = Cardinality(OpenOn(p)') + Cardinality(EndingOn(p)')
      BY DEF Counted, Takes
    <2>1. refs[p] = Cardinality(OpenOn(p)) + Cardinality(EndingOn(p))
      BY DEF Tracked, Counted
    <2>2. CASE Abs(c.f) = p
      <3>1. Cardinality(OpenOn(p)') = Cardinality(OpenOn(p)) - 1
        BY <1>10, <2>2, Finite, CountOne
      <3>2. Cardinality(EndingOn(p)') = Cardinality(EndingOn(p)) + 1
        BY <1>11, <2>2, Finite, CountOne
      <3> QED BY <2>1, <3>1, <3>2, CountsAreNatural
    <2>3. CASE Abs(c.f) # p
      BY <1>10, <1>11, <2>1, <2>3
    <2> QED BY <2>2, <2>3
  <1>13. Leased'
    <2> SUFFICES ASSUME NEW p \in PathForms, lease[p] # None
                 PROVE  \/ \E j \in OpenOn(p)' : patch'[j].session = lease[p]
                        \/ \E u \in EndingOn(p)' : call'[u].owner = lease[p]
      BY DEF Leased, Takes
    <2>1. \A u \in EndingOn(p) : u \in EndingOn(p)' /\ call'[u] = call[u]
      BY <1>1, <1>11, EndingMoves DEF EndingOn
    <2>2. CASE \E u \in EndingOn(p) : call[u].owner = lease[p]
      BY <2>1, <2>2
    <2>3. CASE \E j \in OpenOn(p) : j # i /\ patch[j].session = lease[p]
      <3>1. PICK j \in OpenOn(p) : j # i /\ patch[j].session = lease[p]
        BY <2>3
      <3>2. j \in OpenOn(p)' /\ patch'[j] = patch[j]
        BY <1>4, <1>10, <3>1 DEF OpenOn, Open
      <3> QED BY <3>1, <3>2
    <2>4. CASE i \in OpenOn(p) /\ patch[i].session = lease[p]
      <3>1. t \in EndingOn(p)' /\ call'[t] = c
        BY <1>1, <1>10, <1>11, <2>4, EndingMoves
      <3> QED BY <1>2, <2>4, <3>1
    <2> QED BY <2>2, <2>3, <2>4 DEF Tracked, Leased
  <1> QED BY <1>7, <1>8, <1>9, <1>12, <1>13 DEF Tracked

LEMMA EndsTracks ==
  ASSUME Tracked, NEW t, NEW c, Ends(t, c)
  PROVE  Tracked'
  <1>1. MemoryTyped /\ CallsFit /\ Moves(t, c) /\ t \in Threads /\ c \in Calls
    BY DEF Tracked, Ends, Moves
  <1> DEFINE q == Abs(call[t].f)
             owner == call[t].owner
  <1>2. q \in PathForms /\ owner \in Sessions /\ patch' = patch /\ nextId' = nextId
    BY <1>1 DEF Ends, CallsFit, Fits, AtEnd, Abs, PathForms
  <1>3. Fits(t, c)' /\ nextId' \in Nat /\ nextId' >= nextId
    BY <1>1, <1>2 DEF Ends, Fits, MemoryTyped
  <1>4. CallsFit' /\ call' \in [Threads -> Calls]
    BY <1>1, <1>2, <1>3, CallsFitKept
  <1>5. \A p : /\ OpenOn(p)' = OpenOn(p) /\ EndingOn(p)' = EndingOn(p) \ {t}
               /\ t \in EndingOn(p) <=> q = p
    BY <1>1, <1>2, EndingMoves DEF Ends, OpenOn, Open
  <1>6. refs[q] = Cardinality(OpenOn(q)) + Cardinality(EndingOn(q)) /\ Cardinality(EndingOn(q)) # 0
    <2>1. Cardinality(EndingOn(q)) - 1 = Cardinality(EndingOn(q) \ {t})
      BY <1>5, Finite, CountOne
    <2>2. IsFiniteSet(EndingOn(q) \ {t})
      BY Finite, FS_RemoveElement
    <2> QED BY <1>2, <2>1, <2>2, FS_CardinalityType, CountsAreNatural DEF Tracked, Counted
  <1>7. /\ refs' = [refs EXCEPT ![q] = refs[q] - 1] /\ refs[q] - 1 \in Nat
        /\ lease' = [lease EXCEPT ![q] = IF lease[q] = owner THEN None ELSE lease[q]]
    <2>1. refs[q] \in Nat /\ refs[q] # 0
      BY <1>1, <1>2, <1>6, CountsAreNatural DEF MemoryTyped
    <2>2. refs' = [refs EXCEPT ![q] = IF refs[q] = 0 THEN 0 ELSE refs[q] - 1]
      BY DEF Ends, EndLease
    <2>3. lease' = [lease EXCEPT ![q] = IF lease[q] = owner THEN None ELSE lease[q]]
      BY DEF Ends, EndLease
    <2>4. refs[q] - 1 \in Nat
      BY <2>1
    <2> QED BY <2>1, <2>2, <2>3, <2>4
  <1>8. MemoryTyped'
    BY <1>1, <1>2, <1>4, <1>7 DEF MemoryTyped
  <1>9. Reserved'
    BY <1>1, <1>2, ReservedKept DEF Tracked, Ends
  <1>10. Counted'
    <2> SUFFICES ASSUME NEW p \in PathForms
                 PROVE  refs'[p] = Cardinality(OpenOn(p)) + Cardinality(EndingOn(p)')
      BY <1>5 DEF Counted
    <2>1. CASE p = q
      <3>1. Cardinality(EndingOn(p)') = Cardinality(EndingOn(p)) - 1
        BY <1>5, <2>1, Finite, CountOne
      <3>2. refs'[p] = refs[q] - 1
        BY <1>1, <1>7, <2>1 DEF MemoryTyped
      <3> QED BY <1>6, <2>1, <3>1, <3>2, CountsAreNatural
    <2>2. CASE p # q
      BY <1>1, <1>5, <1>7, <2>2 DEF MemoryTyped, Tracked, Counted
    <2> QED BY <2>1, <2>2
  <1>11. Leased'
    <2> SUFFICES ASSUME NEW p \in PathForms, lease'[p] # None
                 PROVE  \/ \E j \in OpenOn(p) : patch[j].session = lease'[p]
                        \/ \E u \in EndingOn(p) \ {t} : call'[u].owner = lease'[p]
      BY <1>2, <1>5 DEF Leased
    <2>1. lease'[p] = lease[p] /\ (p = q => lease[p] # owner)
      BY <1>1, <1>7 DEF MemoryTyped
    <2>2. \A u \in EndingOn(p) : u # t => call'[u] = call[u]
      BY <1>1, EndingMoves DEF EndingOn
    <2>3. t \in EndingOn(p) => lease[p] # call[t].owner
      BY <1>5, <2>1
    <2> QED BY <2>1, <2>2, <2>3 DEF Tracked, Leased
  <1> QED BY <1>4, <1>8, <1>9, <1>10, <1>11 DEF Tracked

LEMMA OpensTracks ==
  ASSUME Tracked, NEW t, NEW c, Opens(t, c)
  PROVE  Tracked'
  <1>1. MemoryTyped /\ CallsFit /\ Moves(t, c) /\ t \in Threads /\ c \in Calls /\ t \in Sessions
    BY DEF Tracked, Opens, Moves
  <1> DEFINE q == Abs(c.f)
             new == [session |-> t, path |-> q]
  <1>2. q \in PathForms /\ new \in Patches /\ new # None
    BY <1>1, SpeculativePatchAssumption DEF Opens, Abs, PathForms, Patches, Record
  <1>3. MaxId \in Nat /\ nextId \in Nat /\ nextId <= MaxId /\ nextId \in Ids
    <2>1. t \in Writers
      BY <1>1 DEF Opens, Writers
    <2>2. Cardinality(Writers) # 0
      <3>1. IsFiniteSet(Writers \ {t}) /\ Cardinality(Writers) - 1 = Cardinality(Writers \ {t})
        BY <2>1, Finite, CountOne, FS_RemoveElement
      <3> QED BY <3>1, FS_CardinalityType, CountsAreNatural
    <2>3. MaxId \in Nat /\ nextId \in 1..(MaxId + 1)
      BY <1>1, SpeculativePatchAssumption DEF MemoryTyped
    <2> QED BY <2>2, <2>3, CountsAreNatural DEF Tracked, Reserved, Ids
  <1>4. patch[nextId] = None
    BY <1>1, <1>3 DEF MemoryTyped
  <1>5. /\ patch' \in [Ids -> Patches \cup {None}]
        /\ \A j \in Ids : patch'[j] = IF j = nextId THEN new ELSE patch[j]
    BY <1>1, <1>2, <1>3 DEF MemoryTyped, Opens
  <1>6. nextId' = nextId + 1
    BY DEF Opens
  <1>7. Fits(t, c)'
    <2>1. Fits(t, call[t]) /\ call[t] \in Calls
      BY <1>1 DEF CallsFit, MemoryTyped
    <2>2. \A i \in c.ids : i < nextId'
      <3>1. \A i \in c.ids : i < nextId /\ i \in Nat
        BY <1>3, <2>1 DEF Opens, Fits, Calls, Ids
      <3> QED BY <1>3, <1>6, <3>1
    <2>3. c.batch = {}
      BY <2>1 DEF Opens, Fits, Unopened
    <2>4. patch'[c.id] = [session |-> t, path |-> Abs(c.f)] /\ c.id \in Ids /\ c.id < nextId'
      BY <1>3, <1>5, <1>6 DEF Opens
    <2> QED BY <2>2, <2>3, <2>4 DEF Opens, Fits
  <1>8. CallsFit' /\ call' \in [Threads -> Calls]
    <2>1. \A i \in Ids : patch'[i] = patch[i] \/ patch'[i] = None \/ i >= nextId
      BY <1>3, <1>5
    <2> QED BY <1>1, <1>3, <1>6, <1>7, <2>1, CallsFitKept
  <1>9. refs[q] \in Nat /\ refs' = [refs EXCEPT ![q] = refs[q] + 1] /\ lease' = [lease EXCEPT ![q] = t]
    BY <1>1, <1>2 DEF MemoryTyped, Opens
  <1>10. MemoryTyped'
    <2>1. nextId' \in 1..(MaxId + 1)
      BY <1>3, <1>6
    <2>2. \A i \in Ids : i >= nextId' => patch'[i] = None
      BY <1>1, <1>3, <1>5, <1>6 DEF MemoryTyped, Ids
    <2>3. lease' \in [PathForms -> Sessions \cup {None}] /\ refs' \in [PathForms -> Nat]
      <3>1. refs[q] + 1 \in Nat
        BY <1>9
      <3> QED BY <1>1, <1>9, <3>1 DEF MemoryTyped
    <2> QED BY <1>5, <1>8, <2>1, <2>2, <2>3 DEF MemoryTyped
  <1>11. Reserved'
    <2>1. ~Unopened(c)
      BY DEF Opens, Unopened, Opened
    <2>2. Cardinality(Writers') + 1 <= Cardinality(Writers) /\ Cardinality(Writers') \in Nat
      BY <1>1, <2>1, WritersMove DEF Opens
    <2> QED BY <1>3, <1>6, <2>2, CountsAreNatural DEF Tracked, Reserved
  <1>12. \A p : /\ OpenOn(p)' = IF p = q THEN OpenOn(p) \cup {nextId} ELSE OpenOn(p)
                /\ nextId \notin OpenOn(p)
    <2>1. patch'[nextId] = new /\ new.path = q
      BY <1>3, <1>5
    <2>2. \A j \in Ids : j # nextId => patch'[j] = patch[j]
      BY <1>5
    <2>3. new # None
      BY <1>2
    <2> HIDE DEF new, q
    <2> SUFFICES ASSUME NEW p
                 PROVE  /\ OpenOn(p)' = IF p = q THEN OpenOn(p) \cup {nextId} ELSE OpenOn(p)
                        /\ nextId \notin OpenOn(p)
      OBVIOUS
    <2>4. nextId \in OpenOn(p)' <=> p = q
      BY <1>3, <2>1, <2>3 DEF OpenOn, Open
    <2>5. \A j \in Ids : j # nextId => (j \in OpenOn(p)' <=> j \in OpenOn(p))
      BY <2>2 DEF OpenOn, Open
    <2>6. nextId \notin OpenOn(p) /\ OpenOn(p) \subseteq Ids /\ OpenOn(p)' \subseteq Ids
      BY <1>4 DEF OpenOn, Open
    <2> QED BY <2>4, <2>5, <2>6
  <1>13. \A p : EndingOn(p)' = EndingOn(p) /\ t \notin EndingOn(p)
    <2>1. ~AtEnd(call[t]) /\ ~AtEnd(c)
      BY DEF Opens, AtEnd
    <2> QED BY <1>1, <2>1, EndingMoves
  <1>14. Counted'
    <2> SUFFICES ASSUME NEW p \in PathForms
                 PROVE  refs'[p] = Cardinality(OpenOn(p)') + Cardinality(EndingOn(p))
      BY <1>13 DEF Counted
    <2>1. refs[p] = Cardinality(OpenOn(p)) + Cardinality(EndingOn(p))
      BY DEF Tracked, Counted
    <2>2. CASE p = q
      <3>1. Cardinality(OpenOn(p)') = Cardinality(OpenOn(p)) + 1
        BY <1>12, <2>2, Finite, CountOne
      <3>2. refs'[p] = refs[p] + 1
        BY <1>1, <1>2, <1>9, <2>2 DEF MemoryTyped
      <3> QED BY <2>1, <3>1, <3>2, CountsAreNatural
    <2>3. CASE p # q
      BY <1>1, <1>9, <1>12, <2>1, <2>3 DEF MemoryTyped
    <2> QED BY <2>2, <2>3
  <1>15. Leased'
    <2> SUFFICES ASSUME NEW p \in PathForms, lease'[p] # None
                 PROVE  \/ \E j \in OpenOn(p)' : patch'[j].session = lease'[p]
                        \/ \E u \in EndingOn(p) : call'[u].owner = lease'[p]
      BY <1>13 DEF Leased
    <2>1. CASE p = q
      <3>1. nextId \in OpenOn(p)' /\ patch'[nextId].session = t /\ lease'[p] = t
        BY <1>1, <1>2, <1>3, <1>5, <1>9, <1>12, <2>1 DEF MemoryTyped
      <3> QED BY <3>1
    <2>2. CASE p # q
      <3>1. lease'[p] = lease[p] /\ OpenOn(p)' = OpenOn(p)
        BY <1>1, <1>9, <1>12, <2>2 DEF MemoryTyped
      <3>2. \A j \in OpenOn(p) : patch'[j] = patch[j]
        BY <1>5, <1>12 DEF OpenOn, Open
      <3>3. \A u \in EndingOn(p) : call'[u] = call[u]
        BY <1>1, <1>13, EndingMoves DEF EndingOn
      <3> QED BY <3>1, <3>2, <3>3 DEF Tracked, Leased
    <2> QED BY <2>1, <2>2
  <1> QED BY <1>8, <1>10, <1>11, <1>14, <1>15 DEF Tracked

(* A start from nothing: at first, and after a crash.                       *)
Empty ==
  /\ patch = [i \in Ids |-> None] /\ lease = [p \in PathForms |-> None]
  /\ refs = [p \in PathForms |-> 0] /\ nextId = 1 /\ call = [t \in Threads |-> Idle]

LEMMA EmptyTracks == Empty => Tracked
  <1> SUFFICES ASSUME Empty PROVE Tracked
    OBVIOUS
  <1> USE DEF Empty
  <1>1. Idle \in Calls /\ MaxId \in Nat
    BY SpeculativePatchAssumption DEF Idle, Calls, Ops, Pcs
  <1>2. MemoryTyped
    BY <1>1 DEF MemoryTyped
  <1>3. CallsFit
    BY DEF CallsFit, Fits, Idle
  <1>4. Writers = {} /\ \A p : OpenOn(p) = {} /\ EndingOn(p) = {}
    BY DEF Writers, Unopened, Idle, Threads, OpenOn, Open, EndingOn, AtEnd
  <1>5. Reserved /\ Counted /\ Leased
    BY <1>1, <1>4, FS_EmptySet DEF Reserved, Counted, Leased
  <1> QED BY <1>2, <1>3, <1>5 DEF Tracked

---------------------------------------------------------------------------
(* The steps of the code are of these kinds.                                *)

Like(c, d) ==
  /\ c.op = d.op /\ c.f = d.f /\ c.id = d.id /\ c.owner = d.owner
  /\ c.ids = d.ids /\ c.files = d.files /\ c.batch = d.batch

LEMMA CallIsKnown ==
  ASSUME Tracked, NEW t \in Threads
  PROVE  call[t] \in Calls /\ Fits(t, call[t]) /\ MemoryTyped
  BY DEF Tracked, MemoryTyped, CallsFit

LEMMA GotoMoves ==
  ASSUME Tracked, NEW t \in Threads, NEW pc \in Pcs, Goto(t, pc)
  PROVE  \E c \in Calls : Moves(t, c) /\ c.pc = pc /\ Like(c, call[t])
  <1>1. call[t] \in Calls
    BY CallIsKnown
  <1>2. PICK c : c = [call[t] EXCEPT !.pc = pc]
    OBVIOUS
  <1>3. c \in Calls /\ c.pc = pc /\ Like(c, call[t])
    BY <1>1, <1>2 DEF Calls, Like
  <1>4. call' = [call EXCEPT ![t] = c]
    BY <1>2 DEF Goto
  <1> QED BY <1>3, <1>4 DEF Moves

LEMMA IdleTracks ==
  ASSUME Tracked, NEW t \in Threads, ~AtEnd(call[t]), call' = [call EXCEPT ![t] = Idle],
         UNCHANGED <<patch, lease, refs, nextId>>
  PROVE  Tracked'
  <1>1. Idle \in Calls
    BY SpeculativePatchAssumption DEF Idle, Calls, Ops, Pcs
  <1>2. Fits(t, Idle) /\ ~AtEnd(Idle) /\ ~Unopened(Idle)
    BY DEF Fits, Idle, AtEnd, Unopened
  <1>3. Quiet(t, Idle)
    BY <1>1, <1>2 DEF Quiet, Moves
  <1> QED BY <1>3, QuietTracks

LEMMA ContinueTracks ==
  ASSUME Tracked, NEW t \in Threads, ~AtEnd(call[t]), Continue(t),
         call[t].op = "write" => call[t].pc \notin Opened,
         UNCHANGED <<patch, lease, refs, nextId>>
  PROVE  Tracked'
  <1>1. ~AtEnd(call[t])
    OBVIOUS
  <1>2. CASE call[t].op \in {"write", "flush", "sweep"}
    <2>1. Goto(t, "next")
      BY <1>2 DEF Continue, Goto
    <2>2. PICK c \in Calls : Moves(t, c) /\ c.pc = "next" /\ Like(c, call[t])
      BY <2>1, GotoMoves DEF Pcs
    <2>3. Fits(t, c)
      BY <2>2, CallIsKnown DEF Fits, Like
    <2>4. Unopened(c) => Unopened(call[t])
      BY <2>2 DEF Unopened, Like
    <2> QED BY <1>1, <2>2, <2>3, <2>4, QuietTracks DEF Quiet, AtEnd
  <1>3. CASE call[t].op \notin {"write", "flush", "sweep"}
    <2>1. call' = [call EXCEPT ![t] = Idle]
      BY <1>3 DEF Continue
    <2> QED BY <1>1, <2>1, IdleTracks
  <1> QED BY <1>2, <1>3

(* A step that only moves on.                                               *)
LEMMA GotoTracks ==
  ASSUME Tracked, NEW t \in Threads, NEW pc \in Pcs, Goto(t, pc), ~AtEnd(call[t]),
         pc \notin {"idle", "promoted", "removed"},
         pc \in Opened \/ call[t].pc \notin Opened,
         \A c \in Calls : c.pc = pc /\ Like(c, call[t]) => Fits(t, c),
         UNCHANGED <<patch, lease, refs, nextId>>
  PROVE  Tracked'
  <1>1. PICK c \in Calls : Moves(t, c) /\ c.pc = pc /\ Like(c, call[t])
    BY GotoMoves
  <1>2. Unopened(c) => Unopened(call[t])
    BY <1>1 DEF Unopened, Like
  <1> QED BY <1>1, <1>2, QuietTracks DEF Quiet, AtEnd

LEMMA OpenIdsAreGiven ==
  ASSUME Tracked, NEW i \in Open
  PROVE  i \in Ids /\ i < nextId /\ patch[i] \in Patches /\ patch[i].session \in Sessions
         /\ \E f \in Files : patch[i].path = Abs(f) /\ patch[i].path[2] = f
  <1>1. i \in Ids /\ patch[i] # None /\ patch[i] \in Patches
    BY DEF Open, Tracked, MemoryTyped
  <1>2. i < nextId
    BY <1>1, SpeculativePatchAssumption DEF Tracked, MemoryTyped, Ids
  <1>3. patch[i].session \in Sessions /\ \E f \in Files : patch[i].path = Abs(f) /\ patch[i].path[2] = f
    BY <1>1 DEF Patches, Record, PathForms, Abs
  <1> QED BY <1>1, <1>2, <1>3

LEMMA RequestTracks ==
  ASSUME Tracked, NEW s \in Sessions, Request(s)
  PROVE  Tracked'
  <1> s \in Threads
    BY DEF Threads
  <1>1. ASSUME NEW op \in Ops, NEW pc \in Pcs, NEW f \in Files \cup {None}, NEW i \in 0..MaxId,
               NEW ids \in SUBSET Ids, Begin(s, op, pc, f, i, ids),
               pc \in {"next", "promote", "check", "ingest"},
               op = "write" => f \in Files /\ nextId + Cardinality(Writers) <= MaxId,
               pc = "ingest" => f \in Files /\ op = "reindex", pc \in {"promote", "check"} => i \in Ids /\ i < nextId,
               pc = "check" => op = "revert",
               \A j \in ids : j < nextId
        PROVE  Tracked'
    <2>1. PICK c : c = [Idle EXCEPT !.op = op, !.pc = pc, !.f = f, !.id = i, !.ids = ids]
      OBVIOUS
    <2>2. c.op = op /\ c.pc = pc /\ c.f = f /\ c.id = i /\ c.ids = ids /\ c.batch = {} /\ c \in Calls
      BY <2>1 DEF Idle, Calls
    <2>3. call' = [call EXCEPT ![s] = c] /\ ~AtEnd(call[s]) /\ UNCHANGED <<patch, lease, refs, nextId>>
      BY <1>1, <2>1 DEF Begin, memory, At, AtEnd
    <2>4. Fits(s, c)
      BY <1>1, <2>2 DEF Fits
    <2> QED BY <1>1, <2>2, <2>3, <2>4, QuietTracks DEF Quiet, Moves, AtEnd, Unopened
  <1>2. ASSUME NEW f \in Files, WriteFile(s, f) PROVE Tracked'
    <2> DEFINE ids == {i \in On(f) : patch[i].session = s}
    <2>1. \A j \in ids : j \in Ids /\ j < nextId
      BY OpenIdsAreGiven DEF On
    <2>2. Begin(s, "write", "next", f, 0, ids) /\ nextId + Cardinality(Writers) <= MaxId
      BY <1>2 DEF WriteFile, Writers, Unopened
    <2> HIDE DEF ids
    <2>3. ids \in SUBSET Ids /\ 0 \in 0..MaxId
      BY <2>1, SpeculativePatchAssumption
    <2> QED BY <1>1, <2>1, <2>2, <2>3 DEF Ops, Pcs
  <1>3. ASSUME NEW f \in Files, ReindexPaths(s, f) PROVE Tracked'
    <2>1. 0 \in 0..MaxId
      BY SpeculativePatchAssumption
    <2> QED BY <1>1, <1>3, <2>1 DEF ReindexPaths, Ops, Pcs
  <1>4. ASSUME NEW i \in Ids, ConfirmPatch(s, i) \/ RevertPatch(s, i) PROVE Tracked'
    <2>1. i \in 0..MaxId
      BY DEF Ids
    <2> QED BY <1>1, <1>4, <2>1 DEF ConfirmPatch, RevertPatch, Ops, Pcs
  <1> QED BY <1>2, <1>3, <1>4 DEF Request

LEMMA NextOlderTracks ==
  ASSUME Tracked, NEW s \in Sessions, NextOlder(s)
  PROVE  Tracked'
  <1> s \in Threads
    BY DEF Threads
  <1> DEFINE older == call[s].ids
  <1>1. UNCHANGED <<patch, lease, refs, nextId>> /\ call[s].pc = "next" /\ call[s].op = "write"
    BY DEF NextOlder, memory, At
  <1>2. call[s] \in Calls /\ Fits(s, call[s])
    BY CallIsKnown
  <1>3. CASE older = {}
    <2>1. Goto(s, "open")
      BY <1>3 DEF NextOlder, Goto
    <2>2. \A c \in Calls : c.pc = "open" /\ Like(c, call[s]) => Fits(s, c)
      BY <1>1, <1>2 DEF Fits, Like
    <2> QED BY <1>1, <2>1, <2>2, GotoTracks DEF Opened, AtEnd, Pcs
  <1>4. CASE older # {}
    <2>1. Min(older) \in older /\ older \subseteq Ids
      BY <1>2, <1>4, OldestAndNewest DEF Calls
    <2>2. PICK c : c = [call[s] EXCEPT !.id = Min(older), !.ids = older \ {Min(older)}, !.pc = "promote"]
      OBVIOUS
    <2>3. call' = [call EXCEPT ![s] = c]
      BY <1>4, <2>2 DEF NextOlder
    <2>4. Min(older) \in 0..MaxId
      BY <2>1 DEF Ids
    <2>5. /\ c \in Calls /\ c.pc = "promote" /\ c.op = "write" /\ c.f = call[s].f /\ c.batch = call[s].batch
          /\ c.id = Min(older) /\ c.ids \subseteq older
      BY <1>1, <1>2, <2>1, <2>2, <2>4 DEF Calls, Pcs
    <2>6. Fits(s, c)
      BY <1>1, <1>2, <2>1, <2>5 DEF Fits
    <2> QED BY <1>1, <2>3, <2>5, <2>6, QuietTracks DEF Quiet, Moves, AtEnd, Unopened, Opened
  <1> QED BY <1>3, <1>4

LEMMA OpenPatchTracks ==
  ASSUME Tracked, NEW s \in Sessions, OpenPatch(s)
  PROVE  Tracked'
  <1> s \in Threads
    BY DEF Threads
  <1> DEFINE path == Abs(call[s].f)
  <1>1. call[s].pc = "open" /\ call[s] \in Calls /\ Fits(s, call[s])
    BY CallIsKnown DEF OpenPatch, At
  <1>2. CASE locked \/ lease[path] \notin {None, s}
    <2>1. call' = [call EXCEPT ![s] = Idle] /\ UNCHANGED memory
      BY <1>2 DEF OpenPatch
    <2> QED BY <1>1, <2>1, IdleTracks DEF memory, AtEnd
  <1>3. CASE ~(locked \/ lease[path] \notin {None, s})
    <2>1. /\ lease' = [lease EXCEPT ![path] = s] /\ refs' = [refs EXCEPT ![path] = @ + 1]
          /\ patch' = [patch EXCEPT ![nextId] = [session |-> s, path |-> path]]
          /\ nextId' = nextId + 1 /\ call' = [call EXCEPT ![s].id = nextId, ![s].pc = "capture"]
      BY <1>3 DEF OpenPatch
    <2>2. PICK c : c = [call[s] EXCEPT !.id = nextId, !.pc = "capture"]
      OBVIOUS
    <2>3. call' = [call EXCEPT ![s] = c]
      BY <2>1, <2>2, CallIsKnown DEF MemoryTyped
    <2>4. /\ c.pc = "capture" /\ c.op = call[s].op /\ c.f = call[s].f /\ c.id = nextId
          /\ c.ids = call[s].ids /\ c.batch = call[s].batch
      BY <1>1, <2>2 DEF Calls
    <2>5. call[s].op = "write" /\ call[s].f \in Files /\ Unopened(call[s])
      BY <1>1 DEF Fits, Unopened, Opened
    <2>6. nextId \in 0..MaxId
      <3>1. s \in Writers
        BY <2>5 DEF Writers
      <3>2. Cardinality(Writers) # 0
        <4>1. IsFiniteSet(Writers \ {s}) /\ Cardinality(Writers) - 1 = Cardinality(Writers \ {s})
          BY <3>1, Finite, CountOne, FS_RemoveElement
        <4> QED BY <4>1, FS_CardinalityType, CountsAreNatural
      <3> QED BY <3>2, SpeculativePatchAssumption, CountsAreNatural DEF Tracked, Reserved, MemoryTyped
    <2>7. c \in Calls
      BY <1>1, <2>2, <2>6 DEF Calls, Pcs
    <2>8. Moves(s, c)
      BY <2>3, <2>7 DEF Moves
    <2>9. Opens(s, c)
      BY <1>1, <1>3, <2>1, <2>4, <2>5, <2>8 DEF Opens, AtEnd
    <2> QED BY <2>9, OpensTracks
  <1> QED BY <1>2, <1>3

LEMMA WriteFailsTracks ==
  ASSUME Tracked, NEW s \in Sessions, WriteFails(s)
  PROVE  Tracked'
  <1> s \in Threads
    BY DEF Threads
  <1> DEFINE i == call[s].id
  <1>1. /\ call[s].pc \in {"capture", "token", "write"} /\ call[s] \in Calls /\ Fits(s, call[s])
        /\ UNCHANGED <<lease, refs, nextId>> /\ patch' = [patch EXCEPT ![i] = None]
    BY CallIsKnown DEF WriteFails
  <1>2. i \in Ids /\ call[s].op = "write" /\ call[s].f \in Files
        /\ (patch[i] = None \/ patch[i] = [session |-> s, path |-> Abs(call[s].f)])
    BY <1>1 DEF Fits
  <1>3. CASE i \in Open
    <2>1. PICK c : c = [call[s] EXCEPT !.pc = "removed", !.owner = s]
      OBVIOUS
    <2>2. call' = [call EXCEPT ![s] = c]
      BY <1>3, <2>1 DEF WriteFails
    <2>3. /\ c \in Calls /\ c.pc = "removed" /\ c.owner = s /\ c.f = call[s].f /\ c.op = call[s].op
          /\ c.ids = call[s].ids /\ c.batch = call[s].batch
      BY <1>1, <2>1 DEF Calls, Pcs
    <2>4. Fits(s, c)
      BY <1>1, <1>2, <2>3 DEF Fits
    <2>5. patch[i].path = Abs(c.f) /\ patch[i].session = c.owner
      BY <1>2, <1>3, <2>3 DEF Open
    <2>6. Takes(s, c)
      BY <1>1, <1>3, <2>2, <2>3, <2>4, <2>5 DEF Takes, Moves, AtEnd, Unopened, Opened
    <2> QED BY <2>6, TakesTracks
  <1>4. CASE i \notin Open
    <2>1. patch' = patch
      BY <1>1, <1>2, <1>4, CallIsKnown DEF Open, MemoryTyped
    <2>2. call' = [call EXCEPT ![s] = Idle]
      BY <1>4 DEF WriteFails
    <2> QED BY <1>1, <2>1, <2>2, IdleTracks DEF AtEnd
  <1> QED BY <1>3, <1>4

LEMMA ConfirmPendingTracks ==
  ASSUME DataTyped, Tracked, NEW s \in Sessions, ConfirmPending(s)
  PROVE  Tracked'
  <1> s \in Threads
    BY DEF Threads
  <1> DEFINE i == Pending(call[s].f)
  <1>1. /\ call[s].pc = "probe" /\ call[s] \in Calls /\ Fits(s, call[s])
        /\ UNCHANGED <<patch, lease, refs, nextId>>
    BY CallIsKnown DEF ConfirmPending, At, memory
  <1>2. CASE i \in tokens
    <2>1. i \in Ids /\ i \in Open
      <3>1. i \in Ids
        BY <1>2 DEF DataTyped
      <3>2. On(call[s].f) # {}
        BY <3>1 DEF Pending, Ids
      <3>3. On(call[s].f) \subseteq Ids /\ On(call[s].f) \subseteq Open
        BY DEF On, Open
      <3> QED BY <3>2, <3>3, OldestAndNewest DEF Pending
    <2>2. PICK c : c = [call[s] EXCEPT !.op = "confirm", !.id = i, !.owner = patch[i].session, !.pc = "promote"]
      OBVIOUS
    <2>3. call' = [call EXCEPT ![s] = c]
      BY <1>2, <2>2 DEF ConfirmPending
    <2>4. i \in 0..MaxId /\ i \in Ids /\ patch[i].session \in Sessions
      BY <2>1, OpenIdsAreGiven DEF Ids
    <2> HIDE DEF i
    <2>5. /\ c \in Calls /\ c.pc = "promote" /\ c.op = "confirm" /\ c.id = i /\ c.ids = call[s].ids
          /\ c.batch = call[s].batch
      BY <1>1, <2>2, <2>4 DEF Calls, Ops, Pcs
    <2>6. c.batch = {}
      BY <1>1, <2>5 DEF Fits
    <2>7. Fits(s, c)
      BY <1>1, <2>4, <2>5, <2>6 DEF Fits
    <2> QED BY <1>1, <2>3, <2>5, <2>7, QuietTracks DEF Quiet, Moves, AtEnd, Unopened
  <1>3. CASE i \notin tokens
    <2>1. call' = [call EXCEPT ![s] = Idle]
      BY <1>3 DEF ConfirmPending
    <2> QED BY <1>1, <2>1, IdleTracks DEF AtEnd
  <1> QED BY <1>2, <1>3

LEMMA WritingTracks ==
  ASSUME DataTyped, Tracked, NEW s \in Sessions, Writing(s)
  PROVE  Tracked'
  <1> s \in Threads
    BY DEF Threads
  <1>1. call[s] \in Calls /\ Fits(s, call[s])
    BY CallIsKnown
  <1>2. CASE CapturePreWrite(s)
    <2>1. call[s].pc = "capture" /\ Goto(s, "token") /\ UNCHANGED <<patch, lease, refs, nextId>>
      BY <1>2 DEF CapturePreWrite, At
    <2>2. \A c \in Calls : c.pc = "token" /\ Like(c, call[s]) => Fits(s, c)
      BY <1>1, <2>1 DEF Fits, Like
    <2> QED BY <2>1, <2>2, GotoTracks DEF AtEnd, Opened, Pcs
  <1>3. CASE WriteToken(s)
    <2>1. call[s].pc = "token" /\ Goto(s, "write") /\ UNCHANGED <<patch, lease, refs, nextId>>
      BY <1>3 DEF WriteToken, At, memory
    <2>2. \A c \in Calls : c.pc = "write" /\ Like(c, call[s]) => Fits(s, c)
      BY <1>1, <2>1 DEF Fits, Like
    <2> QED BY <2>1, <2>2, GotoTracks DEF AtEnd, Opened, Pcs
  <1>4. CASE WriteContent(s)
    <2>1. call[s].pc = "write" /\ Goto(s, "ingest") /\ UNCHANGED <<patch, lease, refs, nextId>>
      BY <1>4 DEF WriteContent, At, memory
    <2>2. \A c \in Calls : c.pc = "ingest" /\ Like(c, call[s]) => Fits(s, c)
      BY <1>1, <2>1 DEF Fits, Like
    <2> QED BY <2>1, <2>2, GotoTracks DEF AtEnd, Opened, Pcs
  <1>5. CASE Ingest(s)
    <2>1. call[s].pc = "ingest" /\ Goto(s, "files") /\ UNCHANGED <<patch, lease, refs, nextId>>
      BY <1>5 DEF Ingest, At, memory
    <2>2. \A c \in Calls : c.pc = "files" /\ Like(c, call[s]) => Fits(s, c)
      BY <1>1, <2>1 DEF Fits, Like
    <2> QED BY <2>1, <2>2, GotoTracks DEF AtEnd, Opened, Pcs
  <1>6. CASE MarkSpeculative(s)
    <2>1. call[s].pc = "mark" /\ Goto(s, "set_speculative") /\ UNCHANGED <<patch, lease, refs, nextId>>
      BY <1>6 DEF MarkSpeculative, At, memory
    <2>2. \A c \in Calls : c.pc = "set_speculative" /\ Like(c, call[s]) => Fits(s, c)
      BY <1>1, <2>1 DEF Fits, Like
    <2> QED BY <2>1, <2>2, GotoTracks DEF AtEnd, Opened, Pcs
  <1>7. CASE SetSpeculative(s)
    BY <1>7, IdleTracks DEF SetSpeculative, memory, At, AtEnd
  <1> QED BY <1>2, <1>3, <1>4, <1>5, <1>6, <1>7, NextOlderTracks, OpenPatchTracks, WriteFailsTracks,
            ConfirmPendingTracks DEF Writing

LEMMA PromoteRecordTracks ==
  ASSUME Tracked, NEW t \in Threads, PromoteRecord(t)
  PROVE  Tracked'
  <1> DEFINE i == call[t].id
             mine == call[t].op = "confirm" /\ call[t].owner = None => patch[i].session = t
  <1>1. /\ call[t].pc = "promote" /\ call[t] \in Calls /\ Fits(t, call[t])
        /\ UNCHANGED <<lease, refs, nextId>>
    BY CallIsKnown DEF PromoteRecord, At
  <1>2. i \in Ids
    BY <1>1 DEF Fits
  <1>3. CASE patch[i] # None /\ mine
    <2>1. i \in Open /\ patch[i].session \in Sessions /\ patch[i].path[2] \in Files
          /\ patch[i].path = Abs(patch[i].path[2])
      BY <1>2, <1>3, OpenIdsAreGiven DEF Open
    <2>2. PICK c : c = [call[t] EXCEPT !.owner = patch[i].session, !.f = patch[i].path[2], !.pc = "promoted"]
      OBVIOUS
    <2>3. call' = [call EXCEPT ![t] = c] /\ patch' = [patch EXCEPT ![i] = None]
      BY <1>3, <2>2, CallIsKnown DEF PromoteRecord, MemoryTyped
    <2>4. /\ c \in Calls /\ c.pc = "promoted" /\ c.op = call[t].op /\ c.ids = call[t].ids
          /\ c.batch = call[t].batch /\ c.owner = patch[i].session /\ c.f = patch[i].path[2]
      BY <1>1, <2>1, <2>2 DEF Calls, Pcs
    <2>5. Fits(t, c)
      BY <1>1, <2>1, <2>4 DEF Fits
    <2>6. Abs(c.f) = patch[i].path
      BY <2>1, <2>4
    <2>7. Moves(t, c) /\ ~AtEnd(call[t]) /\ AtEnd(c) /\ (Unopened(c) => Unopened(call[t]))
      BY <1>1, <2>3, <2>4 DEF Moves, AtEnd, Unopened, Opened
    <2>8. Takes(t, c)
      BY <1>1, <2>1, <2>3, <2>4, <2>5, <2>6, <2>7 DEF Takes
    <2> QED BY <2>8, TakesTracks
  <1>4. CASE ~(patch[i] # None /\ mine)
    <2>1. Continue(t) /\ UNCHANGED patch
      BY <1>4 DEF PromoteRecord
    <2> QED BY <1>1, <2>1, ContinueTracks DEF Opened, AtEnd
  <1> QED BY <1>3, <1>4

LEMMA CheckNewerTracks ==
  ASSUME Tracked, NEW t \in Threads, CheckNewer(t)
  PROVE  Tracked'
  <1> DEFINE i == call[t].id
             known == patch[i] # None
             refused == NewerOpen(i) \/ (t = Sync /\ ~known)
  <1>1. /\ call[t].pc = "check" /\ call[t] \in Calls /\ Fits(t, call[t])
        /\ UNCHANGED <<patch, lease, refs, nextId>>
    BY CallIsKnown DEF CheckNewer, At, memory
  <1>2. i \in Ids /\ i < nextId
    BY <1>1 DEF Fits
  <1>3. CASE refused
    <2>1. Continue(t)
      BY <1>3 DEF CheckNewer
    <2> QED BY <1>1, <2>1, ContinueTracks DEF Opened, AtEnd
  <1>4. CASE ~refused
    <2>1. known => /\ patch[i].session \in Sessions /\ patch[i].path[2] \in Files
                   /\ patch[i].path = Abs(patch[i].path[2])
      BY <1>2, OpenIdsAreGiven DEF Open
    <2>2. PICK c : c = [call[t] EXCEPT !.pc = "restore",
                          !.f = IF known THEN patch[i].path[2] ELSE None,
                          !.owner = IF t = Sync THEN patch[i].session ELSE t]
      OBVIOUS
    <2>3. call' = [call EXCEPT ![t] = c]
      BY <1>4, <2>2, CallIsKnown DEF CheckNewer, MemoryTyped
    <2>4. (IF t = Sync THEN patch[i].session ELSE t) \in Sessions
      BY <1>4, <2>1 DEF Threads
    <2>5. (IF known THEN patch[i].path[2] ELSE None) \in Files \cup {None}
      BY <2>1
    <2>6. /\ c.pc = "restore" /\ c.op = call[t].op /\ c.ids = call[t].ids /\ c.id = i
          /\ c.batch = call[t].batch /\ c.f = IF known THEN patch[i].path[2] ELSE None
      BY <1>1, <2>2 DEF Calls
    <2>7. c \in Calls
      BY <1>1, <2>2, <2>4, <2>5 DEF Calls, Pcs
    <2>8. patch[i] = None \/ patch[i].path = Abs(c.f)
      BY <2>1, <2>6
    <2>9. c.op = "write" => c.f \in Files
      BY <1>1, <2>6 DEF Fits
    <2>10. Fits(t, c)
      BY <1>1, <1>2, <2>6, <2>8, <2>9 DEF Fits
    <2>11. Moves(t, c) /\ ~AtEnd(call[t]) /\ ~AtEnd(c) /\ (Unopened(c) => Unopened(call[t]))
      BY <1>1, <2>3, <2>6, <2>7 DEF Moves, AtEnd, Unopened, Opened
    <2> QED BY <1>1, <2>10, <2>11, QuietTracks DEF Quiet
  <1> QED BY <1>3, <1>4

LEMMA EndLeaseTracks ==
  ASSUME Tracked, NEW t \in Threads, EndPromoted(t) \/ EndRemoved(t)
  PROVE  Tracked'
  <1>1. /\ AtEnd(call[t]) /\ call[t] \in Calls /\ Fits(t, call[t])
        /\ EndLease(Abs(call[t].f), call[t].owner) /\ UNCHANGED <<patch, nextId>>
    BY CallIsKnown DEF EndPromoted, EndRemoved, At, AtEnd
  <1>2. ASSUME NEW pc \in {"clear", "clear_reverted"}, Goto(t, pc), Unopened(call[t]) \/ call[t].op # "write"
        PROVE  Tracked'
    <2>1. PICK c \in Calls : Moves(t, c) /\ c.pc = pc /\ Like(c, call[t])
      BY <1>2, GotoMoves DEF Pcs
    <2>2. Fits(t, c)
      BY <1>1, <2>1 DEF Fits, Like, AtEnd
    <2>3. ~AtEnd(c) /\ (Unopened(c) => Unopened(call[t]))
      BY <1>2, <2>1 DEF AtEnd, Unopened, Like
    <2> QED BY <1>1, <2>1, <2>2, <2>3, EndsTracks DEF Ends
  <1>3. CASE EndPromoted(t)
    <2>1. Goto(t, "clear") /\ (Unopened(call[t]) \/ call[t].op # "write")
      BY <1>3 DEF EndPromoted, At, Unopened, Opened
    <2> QED BY <1>2, <2>1
  <1>4. CASE EndRemoved(t)
    <2>1. CASE call[t].op = "write"
      <3>1. call' = [call EXCEPT ![t] = Idle]
        BY <1>4, <2>1 DEF EndRemoved
      <3>2. Idle \in Calls
        BY SpeculativePatchAssumption DEF Idle, Calls, Ops, Pcs
      <3>3. Fits(t, Idle) /\ ~AtEnd(Idle) /\ ~Unopened(Idle)
        BY DEF Fits, Idle, AtEnd, Unopened
      <3>4. Ends(t, Idle)
        BY <1>1, <3>1, <3>2, <3>3 DEF Ends, Moves
      <3> QED BY <3>4, EndsTracks
    <2>2. CASE call[t].op # "write"
      <3>1. Goto(t, "clear_reverted")
        BY <1>4, <2>2 DEF EndRemoved
      <3> QED BY <1>2, <2>2, <3>1
    <2> QED BY <2>1, <2>2
  <1> QED BY <1>3, <1>4

LEMMA RemoveRecordTracks ==
  ASSUME Tracked, NEW t \in Threads, RemoveRecord(t)
  PROVE  Tracked'
  <1> DEFINE i == call[t].id
             mine == patch[i] # None /\ patch[i].session = call[t].owner
  <1>1. /\ call[t].pc = "remove" /\ call[t] \in Calls /\ Fits(t, call[t])
        /\ UNCHANGED <<lease, refs, nextId>>
    BY CallIsKnown DEF RemoveRecord, At
  <1>2. i \in Ids /\ (patch[i] = None \/ patch[i].path = Abs(call[t].f))
    BY <1>1 DEF Fits
  <1>3. CASE mine
    <2>1. i \in Open /\ patch[i].session \in Sessions
      BY <1>2, <1>3, OpenIdsAreGiven DEF Open
    <2>2. call[t].f \in Files
      <3>1. PICK g \in Files : patch[i].path = Abs(g)
        BY <2>1, OpenIdsAreGiven
      <3> QED BY <1>2, <1>3, <3>1 DEF Abs
    <2>3. Goto(t, "removed") /\ patch' = [patch EXCEPT ![i] = None]
      BY <1>3 DEF RemoveRecord
    <2>4. PICK c \in Calls : Moves(t, c) /\ c.pc = "removed" /\ Like(c, call[t])
      BY <2>3, GotoMoves DEF Pcs
    <2>5. Fits(t, c)
      BY <1>1, <1>3, <2>1, <2>2, <2>4 DEF Fits, Like
    <2>6. Abs(c.f) = patch[i].path /\ c.owner = patch[i].session
      BY <1>2, <1>3, <2>4 DEF Like
    <2>7. ~AtEnd(call[t]) /\ AtEnd(c) /\ (Unopened(c) => Unopened(call[t]))
      BY <1>1, <2>4 DEF AtEnd, Unopened, Opened, Like
    <2> QED BY <1>1, <2>1, <2>3, <2>4, <2>5, <2>6, <2>7, TakesTracks DEF Takes
  <1>4. CASE ~mine
    <2>1. Continue(t) /\ UNCHANGED patch
      BY <1>4 DEF RemoveRecord
    <2> QED BY <1>1, <2>1, ContinueTracks DEF Opened, AtEnd
  <1> QED BY <1>3, <1>4

LEMMA DoneTracks ==
  ASSUME Tracked, NEW t \in Threads, NEW f, call[t].pc \in {"files", "commit"}, Done(t, f),
         UNCHANGED <<patch, lease, refs, nextId>>
  PROVE  Tracked'
  <1>1. call[t] \in Calls /\ Fits(t, call[t])
    BY CallIsKnown
  <1>2. ASSUME NEW pc \in {"files", "mark", "probe"}, Goto(t, pc),
               pc = "mark" => call[t].op = "write", pc = "probe" => call[t].op = "reindex"
        PROVE  Tracked'
    <2>1. PICK c \in Calls : Moves(t, c) /\ c.pc = pc /\ Like(c, call[t])
      BY <1>2, GotoMoves DEF Pcs
    <2>2. Fits(t, c)
      BY <1>1, <1>2, <2>1 DEF Fits, Like
    <2>3. ~Unopened(c)
      BY <1>2, <2>1 DEF Unopened, Opened, Like
    <2> QED BY <2>1, <2>2, <2>3, QuietTracks DEF Quiet, AtEnd
  <1>3. CASE call' = [call EXCEPT ![t] = Idle]
    BY <1>3, IdleTracks DEF AtEnd
  <1>4. CASE Continue(t) /\ call[t].op # "write"
    BY <1>4, ContinueTracks DEF AtEnd
  <1>5. CASE seen[t].todo # {f}
    <2>1. Goto(t, "files")
      BY <1>5 DEF Done
    <2> QED BY <1>2, <2>1
  <1>6. CASE seen[t].todo = {f} /\ call[t].op = "write"
    <2>1. Goto(t, "mark")
      BY <1>6 DEF Done
    <2> QED BY <1>2, <1>6, <2>1
  <1>7. CASE seen[t].todo = {f} /\ call[t].op = "reindex"
    <2>1. Goto(t, "probe")
      BY <1>7 DEF Done
    <2> QED BY <1>2, <1>7, <2>1
  <1>8. CASE seen[t].todo = {f} /\ call[t].op \notin {"write", "reindex"}
    BY <1>3, <1>4, <1>8 DEF Done
  <1> QED BY <1>5, <1>6, <1>7, <1>8

LEMMA IngestingTracks ==
  ASSUME Tracked, NEW t \in Threads, Ingesting(t)
  PROVE  Tracked'
  <1>1. CASE SkipFile(t)
    BY <1>1, DoneTracks DEF SkipFile, At, memory
  <1>2. CASE ReadAgain(t)
    <2>1. call[t].pc = "files" /\ Goto(t, "commit") /\ UNCHANGED <<patch, lease, refs, nextId>>
      BY <1>2 DEF ReadAgain, At, memory
    <2>2. \A c \in Calls : c.pc = "commit" /\ Like(c, call[t]) => Fits(t, c)
      BY <2>1, CallIsKnown DEF Fits, Like
    <2> QED BY <2>1, <2>2, GotoTracks DEF AtEnd, Opened, Pcs
  <1>3. CASE CommitFile(t)
    <2>1. Done(t, seen[t].at) /\ call[t].pc = "commit" /\ UNCHANGED <<patch, lease, refs, nextId>>
      BY <1>3 DEF CommitFile, At, memory
    <2> QED BY <2>1, DoneTracks
  <1>4. CASE IngestFails(t)
    <2>1. call[t].pc = "commit" /\ UNCHANGED <<patch, lease, refs, nextId>>
      BY <1>4 DEF IngestFails, At, memory
    <2>2. CASE call' = [call EXCEPT ![t] = Idle]
      BY <2>1, <2>2, IdleTracks DEF AtEnd
    <2>3. CASE Continue(t) /\ call[t].op # "write"
      BY <2>1, <2>3, ContinueTracks DEF AtEnd
    <2> QED BY <1>4, <2>2, <2>3 DEF IngestFails
  <1> QED BY <1>1, <1>2, <1>3, <1>4 DEF Ingesting

LEMMA EndingTracks ==
  ASSUME Tracked, NEW t \in Threads, Ending(t)
  PROVE  Tracked'
  <1>1. call[t] \in Calls /\ Fits(t, call[t])
    BY CallIsKnown
  <1>2. ASSUME NEW from \in {"clear", "clear_reverted"}, NEW to \in {"wal_promote", "wal_revert"},
               ClearToken(t, from, to)
        PROVE  Tracked'
    <2>1. call[t].pc = from /\ Goto(t, to) /\ UNCHANGED <<patch, lease, refs, nextId>>
      BY <1>2 DEF ClearToken, At, memory
    <2>2. \A c \in Calls : c.pc = to /\ Like(c, call[t]) => Fits(t, c)
      BY <1>1, <2>1 DEF Fits, Like
    <2> QED BY <2>1, <2>2, GotoTracks DEF AtEnd, Opened, Pcs
  <1>3. ASSUME NEW from \in {"wal_promote", "wal_revert", "reindex_reverted"},
               NEW to \in {"set_active", "set_tombstone", "files"}, call[t].pc = from, Goto(t, to),
               UNCHANGED <<patch, lease, refs, nextId>>
        PROVE  Tracked'
    <2>1. \A c \in Calls : c.pc = to /\ Like(c, call[t]) => Fits(t, c)
      BY <1>1, <1>3 DEF Fits, Like
    <2> QED BY <1>3, <2>1, GotoTracks DEF AtEnd, Opened, Pcs
  <1>4. CASE RestoreFile(t)
    <2>1. call[t].pc = "restore" /\ UNCHANGED <<patch, lease, refs, nextId>>
      BY <1>4 DEF RestoreFile, At, memory
    <2>2. CASE Goto(t, "remove")
      <3>1. \A c \in Calls : c.pc = "remove" /\ Like(c, call[t]) => Fits(t, c)
        BY <1>1, <2>1 DEF Fits, Like
      <3> QED BY <2>1, <2>2, <3>1, GotoTracks DEF AtEnd, Opened, Pcs
    <2>3. CASE Continue(t)
      BY <2>1, <2>3, ContinueTracks DEF Opened, AtEnd
    <2> QED BY <1>4, <2>2, <2>3 DEF RestoreFile
  <1>5. CASE WalPromote(t) \/ WalRevert(t) \/ ReindexReverted(t)
    BY <1>3, <1>5 DEF WalPromote, WalRevert, ReindexReverted, At, memory
  <1>6. CASE SetActive(t)
    BY <1>6, ContinueTracks DEF SetActive, At, Opened, AtEnd
  <1>7. CASE SetTombstone(t)
    <2>1. call[t].pc = "set_tombstone" /\ UNCHANGED <<patch, lease, refs, nextId>>
      BY <1>7 DEF SetTombstone, At
    <2>2. CASE Goto(t, "reindex_reverted")
      <3>1. \A c \in Calls : c.pc = "reindex_reverted" /\ Like(c, call[t]) => Fits(t, c)
        BY <1>1, <2>1 DEF Fits, Like
      <3> QED BY <2>1, <2>2, <3>1, GotoTracks DEF AtEnd, Opened, Pcs
    <2>3. CASE Continue(t)
      BY <2>1, <2>3, ContinueTracks DEF Opened, AtEnd
    <2> QED BY <1>7, <2>2, <2>3 DEF SetTombstone
  <1> QED BY <1>2, <1>4, <1>5, <1>6, <1>7, IngestingTracks, PromoteRecordTracks, EndLeaseTracks, CheckNewerTracks,
            RemoveRecordTracks DEF Ending

LEMMA PendingIsOpen ==
  ASSUME Tracked, NEW f, Pending(f) # 0
  PROVE  Pending(f) \in Open /\ Pending(f) \in Ids /\ Pending(f) < nextId
  <1>1. On(f) # {} /\ On(f) \subseteq Ids /\ On(f) \subseteq Open
    BY DEF Pending, On, Open
  <1>2. Pending(f) \in Open
    BY <1>1, OldestAndNewest DEF Pending
  <1> QED BY <1>2, OpenIdsAreGiven

LEMMA SyncingTracks ==
  ASSUME DataTyped, Tracked, Syncing
  PROVE  Tracked'
  <1> Sync \in Threads
    BY DEF Threads
  <1> DEFINE d == call[Sync]
  <1>1. d \in Calls /\ Fits(Sync, d) /\ MaxId \in Nat
    BY CallIsKnown, SpeculativePatchAssumption
  <1>2. UNCHANGED <<patch, lease, refs, nextId>> /\ d.pc \in {"idle", "next"}
    BY DEF Syncing, Drain, NextEvent, ReindexBatch, Sweep, NextExpired, At, memory
  <1>3. ASSUME NEW c \in Calls, call' = [call EXCEPT ![Sync] = c], Fits(Sync, c), c.op \in {"flush", "sweep"},
               c.pc \notin {"promoted", "removed"}
        PROVE  Tracked'
    BY <1>2, <1>3, QuietTracks DEF Quiet, Moves, AtEnd, Unopened
  <1>4. CASE Drain
    <2>1. PICK batch \in SUBSET events :
            call' = [call EXCEPT ![Sync] = [Idle EXCEPT !.op = "flush", !.pc = "next",
                                                        !.files = batch, !.batch = batch]]
      BY <1>4 DEF Drain
    <2>2. PICK c : c = [Idle EXCEPT !.op = "flush", !.pc = "next", !.files = batch, !.batch = batch]
      OBVIOUS
    <2>3. batch \subseteq Files /\ 0 \in 0..MaxId
      BY <1>1 DEF DataTyped
    <2>4. c \in Calls /\ c.op = "flush" /\ c.pc = "next" /\ c.ids = {} /\ c.batch = batch
      BY <2>2, <2>3 DEF Idle, Calls, Ops, Pcs
    <2>5. Fits(Sync, c)
      BY <2>4 DEF Fits
    <2> QED BY <1>3, <2>1, <2>2, <2>4, <2>5
  <1>5. CASE NextEvent
    <2>1. PICK f \in d.files :
            call' = [call EXCEPT ![Sync] =
                       [@ EXCEPT !.files = d.files \ {f}, !.id = Pending(f), !.f = f,
                                 !.pc = CASE Pending(f) = 0       -> "next"
                                          [] Pending(f) \in tokens -> "promote"
                                          [] OTHER        -> "check"]]
      BY <1>5 DEF NextEvent
    <2>2. PICK pc \in {"next", "promote", "check"} :
            /\ call' = [call EXCEPT ![Sync] =
                          [@ EXCEPT !.files = d.files \ {f}, !.id = Pending(f), !.f = f, !.pc = pc]]
            /\ pc # "next" => Pending(f) # 0
      <3>1. CASE Pending(f) = 0
        <4>1. Pending(f) \notin tokens
          BY <3>1 DEF DataTyped, Ids
        <4> QED BY <2>1, <3>1, <4>1
      <3>2. CASE Pending(f) # 0 /\ Pending(f) \in tokens
        BY <2>1, <3>2
      <3>3. CASE Pending(f) # 0 /\ Pending(f) \notin tokens
        BY <2>1, <3>3
      <3> QED BY <3>1, <3>2, <3>3
    <2>3. PICK i : i = Pending(f)
      OBVIOUS
    <2>4. i \in 0..MaxId /\ (pc # "next" => i \in Ids /\ i < nextId)
      <3>1. i # 0 => i \in Ids /\ i < nextId
        BY <2>3, PendingIsOpen
      <3> QED BY <1>1, <2>2, <2>3, <3>1 DEF Ids
    <2>5. PICK c : c = [d EXCEPT !.files = d.files \ {f}, !.id = i, !.f = f, !.pc = pc]
      OBVIOUS
    <2>6. call' = [call EXCEPT ![Sync] = c]
      BY <2>2, <2>3, <2>5
    <2>7. /\ c \in Calls /\ c.op = d.op /\ c.pc = pc /\ c.ids = d.ids /\ c.batch = d.batch
          /\ c.id = i /\ c.f \in Files
      BY <1>1, <2>2, <2>4, <2>5 DEF Calls, Pcs
    <2>8. c.op = "flush"
      BY <1>5, <2>7 DEF NextEvent
    <2>9. Fits(Sync, c)
      BY <1>1, <2>2, <2>4, <2>7, <2>8 DEF Fits
    <2> QED BY <1>3, <2>2, <2>6, <2>7, <2>8, <2>9
  <1>6. CASE ReindexBatch
    <2>1. call' = [call EXCEPT ![Sync].pc = "files", ![Sync].batch = {}] /\ d.op = "flush"
      BY <1>6 DEF ReindexBatch
    <2>2. PICK c : c = [d EXCEPT !.pc = "files", !.batch = {}]
      OBVIOUS
    <2>3. call' = [call EXCEPT ![Sync] = c]
      BY <2>1, <2>2, CallIsKnown DEF MemoryTyped
    <2>4. c \in Calls /\ c.op = "flush" /\ c.pc = "files" /\ c.ids = d.ids /\ c.batch = {}
      BY <1>1, <2>1, <2>2 DEF Calls, Pcs
    <2>5. Fits(Sync, c)
      BY <1>1, <2>4 DEF Fits
    <2> QED BY <1>3, <2>3, <2>4, <2>5
  <1>7. CASE Sweep
    <2>1. PICK k \in Open :
            call' = [call EXCEPT ![Sync] = [Idle EXCEPT !.op = "sweep", !.pc = "next",
                                                        !.ids = {i \in Open : i <= k}]]
      BY <1>7 DEF Sweep
    <2>2. PICK ids : ids = {i \in Open : i <= k}
      OBVIOUS
    <2>3. \A j \in ids : j \in Ids /\ j < nextId
      BY <2>2, OpenIdsAreGiven
    <2>4. PICK c : c = [Idle EXCEPT !.op = "sweep", !.pc = "next", !.ids = ids]
      OBVIOUS
    <2>5. ids \subseteq Ids /\ 0 \in 0..MaxId
      BY <1>1, <2>3
    <2>6. c \in Calls /\ c.op = "sweep" /\ c.pc = "next" /\ c.ids = ids /\ c.batch = {}
      BY <2>4, <2>5 DEF Idle, Calls, Ops, Pcs
    <2>7. Fits(Sync, c)
      BY <2>3, <2>6 DEF Fits
    <2> QED BY <1>3, <2>1, <2>2, <2>4, <2>6, <2>7
  <1>8. CASE NextExpired
    <2> DEFINE ids == d.ids
    <2>1. CASE ids = {}
      <3>1. call' = [call EXCEPT ![Sync] = Idle]
        BY <1>8, <2>1, CallIsKnown DEF NextExpired, MemoryTyped
      <3> QED BY <1>2, <3>1, IdleTracks DEF AtEnd
    <2>2. CASE ids # {}
      <3>1. Max(ids) \in ids /\ ids \subseteq Ids
        BY <1>1, <2>2, OldestAndNewest DEF Calls
      <3>2. Max(ids) \in Ids /\ Max(ids) \in 0..MaxId /\ Max(ids) < nextId
        BY <1>1, <3>1 DEF Ids, Fits
      <3>3. PICK c : c = [d EXCEPT !.id = Max(ids), !.ids = ids \ {Max(ids)}, !.pc = "check"]
        OBVIOUS
      <3>4. call' = [call EXCEPT ![Sync] = c]
        BY <1>8, <2>2, <3>3, CallIsKnown DEF NextExpired, MemoryTyped
      <3>5. /\ c \in Calls /\ c.op = d.op /\ c.pc = "check" /\ c.ids \subseteq ids /\ c.batch = d.batch
            /\ c.id = Max(ids)
        BY <1>1, <3>1, <3>2, <3>3 DEF Calls, Pcs
      <3>6. c.op = "sweep"
        BY <1>8, <3>5 DEF NextExpired
      <3>7. Fits(Sync, c)
        BY <1>1, <3>2, <3>5, <3>6 DEF Fits
      <3> QED BY <1>3, <3>4, <3>5, <3>6, <3>7
    <2> QED BY <2>1, <2>2
  <1> QED BY <1>4, <1>5, <1>6, <1>7, <1>8 DEF Syncing

LEMMA CrashTracks ==
  ASSUME Crash
  PROVE  Tracked'
  <1>1. Empty'
    BY DEF Crash, Empty
  <1>2. (Empty => Tracked)'
    BY EmptyTracks, PTL
  <1> QED BY <1>1, <1>2

LEMMA TrackedStep ==
  ASSUME DataTyped, Tracked, [Next]_vars
  PROVE  Tracked'
  <1>1. CASE UNCHANGED vars \/ (\E f \in Files, content \in {Edited, Absent} : Edit(f, content))
             \/ MergePreflight \/ MergeEnds \/ SweepSidecars
    <2>1. UNCHANGED <<patch, lease, refs, nextId, call>>
      BY <1>1 DEF vars, memory, Edit, MergePreflight, MergeEnds, SweepSidecars
    <2> QED BY <2>1, StillTracks
  <1> QED BY <1>1, RequestTracks, WritingTracks, EndingTracks, SyncingTracks, CrashTracks DEF Next

---------------------------------------------------------------------------
(* Files, rows, events, snapshots and readings                              *)

LEMMA Constants ==
  /\ MaxId \in Nat /\ 0 \in Contents /\ Ids \subseteq Contents /\ Edited \in Contents
  /\ Contents \subseteq Readings /\ Absent \in Readings
  /\ Contents \subseteq Slots /\ Stable \in Slots
  /\ NothingSeen \in Seen /\ NothingSeen.todo = {} /\ NothingSeen.rids = {}
  <1>1. MaxId \in Nat
    BY SpeculativePatchAssumption
  <1>2. 0 \in Contents /\ Ids \subseteq Contents /\ Edited \in Contents
    BY <1>1 DEF Contents, Edited, Ids
  <1>3. Contents \subseteq Readings /\ Absent \in Readings /\ Contents \subseteq Slots /\ Stable \in Slots
    BY DEF Readings, Slots
  <1>4. NothingSeen \in Seen /\ NothingSeen.todo = {} /\ NothingSeen.rids = {}
    BY <1>3 DEF NothingSeen, Seen
  <1> QED BY <1>1, <1>2, <1>3, <1>4

LEMMA RowsAreRecords == \A r \in Row : r # None
  <1>1. Contents \subseteq Nat
    BY Constants DEF Contents, Edited
  <1>2. Row \subseteq [content : Nat, status : {"Active", "Speculative", "Tombstone"}]
    BY <1>1 DEF Row
  <1> QED BY <1>2, RowAssumption

LEMMA ActiveRowIsLive ==
  ASSUME NEW content \in Contents
  PROVE  /\ ActiveRow(content) \in Row /\ ActiveRow(content) # None
         /\ ActiveRow(content).content = content /\ ActiveRow(content).status = "Active"
  <1>1. ActiveRow(content) \in Row
    BY DEF ActiveRow, Row
  <1> QED BY <1>1, RowsAreRecords DEF ActiveRow

LEMMA LiveRows ==
  ASSUME NEW fr, NEW s
  PROVE  s \in Live(fr) <=> s \in Slots /\ fr[s] # None /\ fr[s].status \in {"Active", "Speculative"}
  BY DEF Live, WithStatus

(* Ingested rows are rows, and one is live, with what was ingested, if one  *)
(* was live before.                                                         *)
LEMMA UpsertedRows ==
  ASSUME NEW fr \in FileRows, NEW content \in Contents, NEW new \in Upserted(fr, content)
  PROVE  /\ new \in FileRows
         /\ Single(fr) => Single(new) /\ Show(new, content)
  <1>1. ActiveRow(content) \in Row /\ ActiveRow(content) # None
        /\ ActiveRow(content).content = content /\ ActiveRow(content).status = "Active"
    BY ActiveRowIsLive
  <1>2. Stable \in Slots /\ content \in Slots
    BY Constants
  <1>3. ASSUME NEW s \in Slots, new \in FileRows, Live(new) = {s}, new[s].content = content
        PROVE  Single(new) /\ Show(new, content)
    BY <1>3 DEF Single, Show
  <1>4. CASE Live(fr) = {}
    <2>1. new = [fr EXCEPT ![Stable] = ActiveRow(content)]
      BY <1>4 DEF Upserted
    <2>2. new \in FileRows
      BY <1>1, <2>1 DEF FileRows
    <2>3. \A s \in Slots : new[s] = IF s = Stable THEN ActiveRow(content) ELSE fr[s]
      BY <1>2, <2>1 DEF FileRows
    <2>4. \A s : s \in Live(new) <=> s = Stable
      BY <1>1, <1>2, <1>4, <2>3, LiveRows
    <2>5. Live(new) = {Stable} /\ new[Stable].content = content
      BY <1>1, <1>2, <2>3, <2>4
    <2> QED BY <1>2, <1>3, <2>2, <2>5
  <1>5. CASE Live(fr) # {}
    <2>1. PICK p \in Primaries(fr) :
            new = IF fr[p].content = content THEN [fr EXCEPT ![p] = ActiveRow(content)]
                  ELSE [[fr EXCEPT ![p].status = "Tombstone"] EXCEPT ![content] = ActiveRow(content)]
      BY <1>5 DEF Upserted
    <2>2. p \in Live(fr)
      BY <2>1 DEF Primaries, Live
    <2>3. p \in Slots /\ fr[p] \in Row
      BY <2>2, LiveRows DEF FileRows
    <2>4. Single(fr) => Live(fr) = {p}
      BY <2>2 DEF Single
    <2>5. CASE fr[p].content = content
      <3>1. new = [fr EXCEPT ![p] = ActiveRow(content)]
        BY <2>1, <2>5
      <3>2. new \in FileRows
        BY <1>1, <3>1 DEF FileRows
      <3>3. \A s \in Slots : new[s] = IF s = p THEN ActiveRow(content) ELSE fr[s]
        BY <2>3, <3>1 DEF FileRows
      <3>4. Single(fr) => \A s : s \in Live(new) <=> s = p
        BY <1>1, <2>3, <2>4, <3>3, LiveRows
      <3>5. Single(fr) => Live(new) = {p} /\ new[p].content = content
        BY <1>1, <2>3, <3>3, <3>4
      <3> QED BY <1>3, <2>3, <3>2, <3>5
    <2>6. CASE fr[p].content # content
      <3>1. PICK dead : dead = [fr[p] EXCEPT !.status = "Tombstone"]
        OBVIOUS
      <3>2. dead \in Row /\ dead.status = "Tombstone"
        BY <2>3, <3>1 DEF Row
      <3>3. new = [[fr EXCEPT ![p] = dead] EXCEPT ![content] = ActiveRow(content)]
        BY <2>1, <2>6, <3>1
      <3>4. new \in FileRows
        BY <1>1, <3>2, <3>3 DEF FileRows
      <3>5. \A s \in Slots : new[s] = IF s = content THEN ActiveRow(content) ELSE IF s = p THEN dead ELSE fr[s]
        BY <1>2, <2>3, <3>3 DEF FileRows
      <3>6. Single(fr) => \A s : s \in Live(new) <=> s = content
        BY <1>1, <1>2, <2>4, <3>2, <3>5, LiveRows
      <3>7. Single(fr) => Live(new) = {content} /\ new[content].content = content
        BY <1>1, <1>2, <3>5, <3>6
      <3> QED BY <1>2, <1>3, <3>4, <3>7
    <2> QED BY <2>5, <2>6
  <1> QED BY <1>4, <1>5

(* What the helpers leave of the types.                                     *)
LEMMA ReadsTyped ==
  ASSUME DataTyped, NEW t \in Threads
  PROVE  /\ \A fs : fs \subseteq Files /\ ReadFiles(t, fs) =>
              /\ seen' \in [Threads -> Seen]
              /\ \E n \in Seen : /\ seen' = [seen EXCEPT ![t] = n] /\ n.todo = fs
                                 /\ \A f \in fs : n.read[f] = file[f]
         /\ \A status : ChooseRows(t, status) =>
              /\ seen' \in [Threads -> Seen]
              /\ \E n \in Seen : seen' = [seen EXCEPT ![t] = n] /\ n.todo = seen[t].todo
         /\ seen' = [seen EXCEPT ![t] = NothingSeen] => seen' \in [Threads -> Seen]
  <1>1. seen[t] \in Seen /\ \A f \in Files : file[f] \in Readings
    BY DEF DataTyped
  <1>2. ASSUME NEW fs, fs \subseteq Files, ReadFiles(t, fs)
        PROVE  /\ seen' \in [Threads -> Seen]
               /\ \E n \in Seen : /\ seen' = [seen EXCEPT ![t] = n] /\ n.todo = fs
                                  /\ \A f \in fs : n.read[f] = file[f]
    <2> DEFINE read == [f \in Files |-> IF f \in fs THEN file[f] ELSE Absent]
    <2>1. PICK n : n = [NothingSeen EXCEPT !.todo = fs, !.read = read]
      OBVIOUS
    <2>2. read \in [Files -> Readings] /\ \A f \in fs : read[f] = file[f]
      BY <1>1, <1>2, Constants
    <2> HIDE DEF read
    <2>3. n \in Seen /\ n.todo = fs /\ n.read = read
      BY <1>2, <2>1, <2>2 DEF NothingSeen, Seen
    <2>4. seen' = [seen EXCEPT ![t] = n]
      BY <1>2, <2>1 DEF ReadFiles, read
    <2> QED BY <2>2, <2>3, <2>4 DEF DataTyped
  <1>3. ASSUME NEW status, ChooseRows(t, status)
        PROVE  /\ seen' \in [Threads -> Seen]
               /\ \E n \in Seen : seen' = [seen EXCEPT ![t] = n] /\ n.todo = seen[t].todo
    <2>1. PICK n : n = [seen[t] EXCEPT !.rids = WithStatus(row[call[t].f], status)]
      OBVIOUS
    <2>2. n \in Seen /\ n.todo = seen[t].todo
      BY <1>1, <2>1 DEF Seen, WithStatus
    <2>3. seen' = [seen EXCEPT ![t] = n]
      BY <1>3, <2>1 DEF ChooseRows, DataTyped
    <2> QED BY <2>2, <2>3 DEF DataTyped
  <1>4. seen' = [seen EXCEPT ![t] = NothingSeen] => seen' \in [Threads -> Seen]
    BY Constants DEF DataTyped
  <1> QED BY <1>2, <1>3, <1>4

(* Changing the status of chosen rows: they stay what they show unless one  *)
(* that was retired is revived, and tombstones leave no more live.          *)
LEMMA RowsSet ==
  ASSUME DataTyped, NEW t \in Threads, NEW f \in Files, call[t].f = f,
         NEW status \in {"Active", "Speculative", "Tombstone"}, SetRows(t, status)
  PROVE  /\ row' \in [Files -> FileRows] /\ astray' \in [Files -> SUBSET Strays]
         /\ seen' = [seen EXCEPT ![t] = NothingSeen]
         /\ \A g \in Files : g # f => row'[g] = row[g] /\ astray'[g] = astray[g]
         /\ astray[f] \subseteq astray'[f]
         /\ status = "Tombstone" => Live(row'[f]) \subseteq Live(row[f])
         /\ status # "Tombstone" =>
              \/ "revived" \in astray'[f]
              \/ /\ Live(row'[f]) = Live(row[f])
                 /\ \A s \in Live(row[f]) : row'[f][s].content = row[f][s].content
  <1> DEFINE chosen == {s \in seen[t].rids : row[f][s] # None}
  <1>1. row[f] \in FileRows /\ seen[t] \in Seen /\ astray[f] \subseteq Strays
    BY DEF DataTyped
  <1>2. chosen \subseteq Slots /\ \A s \in chosen : row[f][s] \in Row
    BY <1>1 DEF Seen, FileRows
  <1>3. /\ row' = [row EXCEPT ![f] = [s \in Slots |->
                     IF s \in chosen THEN [row[f][s] EXCEPT !.status = status] ELSE row[f][s]]]
        /\ IF status # "Tombstone" /\ chosen \cap WithStatus(row[f], "Tombstone") # {}
             THEN Stray(f, "revived") ELSE UNCHANGED astray
        /\ seen' = [seen EXCEPT ![t] = NothingSeen]
    BY DEF SetRows
  <1> HIDE DEF chosen
  <1>4. PICK new : new = [s \in Slots |->
                     IF s \in chosen THEN [row[f][s] EXCEPT !.status = status] ELSE row[f][s]]
    OBVIOUS
  <1>5. \A s \in chosen : /\ new[s] \in Row /\ new[s].content = row[f][s].content /\ new[s].status = status
    BY <1>2, <1>4 DEF Row
  <1>6. \A s \in Slots \ chosen : new[s] = row[f][s]
    BY <1>4
  <1>7. new \in FileRows
    BY <1>1, <1>4, <1>5, <1>6 DEF FileRows
  <1>8. row' = [row EXCEPT ![f] = new]
    BY <1>3, <1>4
  <1>9. row' \in [Files -> FileRows] /\ row'[f] = new /\ \A g \in Files : g # f => row'[g] = row[g]
    BY <1>7, <1>8 DEF DataTyped
  <1>10. /\ astray' \in [Files -> SUBSET Strays] /\ astray[f] \subseteq astray'[f]
         /\ \A g \in Files : g # f => astray'[g] = astray[g]
    <2>1. "revived" \in Strays
      BY DEF Strays
    <2>2. CASE Stray(f, "revived")
      BY <2>1, <2>2 DEF Stray, DataTyped
    <2>3. CASE UNCHANGED astray
      BY <2>3 DEF DataTyped
    <2> QED BY <1>3, <2>2, <2>3
  <1>11. ASSUME status = "Tombstone" PROVE Live(new) \subseteq Live(row[f])
    BY <1>5, <1>6, <1>11, LiveRows
  <1>12. ASSUME status # "Tombstone", "revived" \notin astray'[f]
         PROVE  /\ Live(new) = Live(row[f])
                /\ \A s \in Live(row[f]) : new[s].content = row[f][s].content
    <2>1. chosen \cap WithStatus(row[f], "Tombstone") = {}
      <3>1. Stray(f, "revived") => "revived" \in astray'[f]
        BY DEF Stray, DataTyped
      <3> QED BY <1>3, <1>12, <3>1
    <2>2. \A s \in chosen : row[f][s].status # "Tombstone" /\ row[f][s] # None
      BY <1>2, <2>1 DEF WithStatus, chosen
    <2>3. \A s \in chosen : row[f][s].status \in {"Active", "Speculative"}
      BY <1>2, <2>2 DEF Row
    <2>4. \A s \in chosen : new[s] # None
      BY <1>5, RowsAreRecords
    <2>5. \A s : s \in Live(new) <=> s \in Live(row[f])
      BY <1>2, <1>5, <1>6, <1>12, <2>2, <2>3, <2>4, LiveRows
    <2>6. Live(row[f]) \subseteq Slots
      BY LiveRows
    <2> QED BY <1>5, <1>6, <2>5, <2>6
  <1> QED BY <1>3, <1>9, <1>10, <1>11, <1>12

LEMMA DoneReads ==
  ASSUME DataTyped, NEW t \in Threads, NEW f \in Files, f \in seen[t].todo, Done(t, f)
  PROVE  /\ seen' \in [Threads -> Seen]
         /\ seen[t].todo = {f} => seen'[t] = NothingSeen
         /\ seen[t].todo # {f} => /\ seen'[t].todo = seen[t].todo \ {f}
                                  /\ seen'[t].read = seen[t].read /\ seen'[t].beaten = seen[t].beaten
         /\ \A u \in Threads : u # t =>
              /\ seen'[u].todo = seen[u].todo /\ seen'[u].read = seen[u].read /\ seen'[u].at = seen[u].at
              /\ seen[u].beaten \subseteq seen'[u].beaten
              /\ call[t].pc = "commit" /\ f \in seen[u].todo /\ seen[u].read[f] # Absent
                   => f \in seen'[u].beaten
  <1>1. \A u \in Threads : seen[u] \in Seen
    BY DEF DataTyped
  <1>2. \A u \in Threads :
          seen'[u] = IF u = t THEN IF seen[t].todo = {f} THEN NothingSeen
                                   ELSE [seen[t] EXCEPT !.todo = seen[t].todo \ {f}, !.at = None]
                     ELSE IF At(t, "commit") /\ f \in seen[u].todo /\ seen[u].read[f] # Absent
                       THEN [seen[u] EXCEPT !.beaten = seen[u].beaten \cup {f}] ELSE seen[u]
    BY DEF Done
  <1>3. seen' = [u \in Threads |-> seen'[u]]
    BY DEF Done
  <1>4. /\ seen[t].todo = {f} => seen'[t] = NothingSeen
        /\ seen[t].todo # {f} => seen'[t] = [seen[t] EXCEPT !.todo = seen[t].todo \ {f}, !.at = None]
    BY <1>2
  <1>5. PICK next : next = [seen[t] EXCEPT !.todo = seen[t].todo \ {f}, !.at = None]
    OBVIOUS
  <1>6. next \in Seen /\ next.todo = seen[t].todo \ {f} /\ next.read = seen[t].read
        /\ next.beaten = seen[t].beaten
    BY <1>1, <1>5 DEF Seen
  <1>7. ASSUME NEW u \in Threads, u # t
        PROVE  /\ seen'[u] \in Seen
               /\ seen'[u].todo = seen[u].todo /\ seen'[u].read = seen[u].read /\ seen'[u].at = seen[u].at
               /\ seen[u].beaten \subseteq seen'[u].beaten
               /\ call[t].pc = "commit" /\ f \in seen[u].todo /\ seen[u].read[f] # Absent
                    => f \in seen'[u].beaten
    <2>1. CASE At(t, "commit") /\ f \in seen[u].todo /\ seen[u].read[f] # Absent
      <3>1. seen'[u] = [seen[u] EXCEPT !.beaten = seen[u].beaten \cup {f}]
        BY <1>2, <1>7, <2>1
      <3> QED BY <1>1, <3>1 DEF Seen
    <2>2. CASE ~(At(t, "commit") /\ f \in seen[u].todo /\ seen[u].read[f] # Absent)
      <3>1. seen'[u] = seen[u]
        BY <1>2, <1>7, <2>2
      <3> QED BY <1>1, <2>2, <3>1 DEF At
    <2> QED BY <2>1, <2>2
  <1>8. seen'[t] \in Seen
    BY <1>4, <1>5, <1>6, Constants
  <1>9. seen' \in [Threads -> Seen]
    BY <1>3, <1>7, <1>8
  <1> QED BY <1>4, <1>5, <1>6, <1>7, <1>9

LEMMA DataWrites ==
  ASSUME DataTyped
  PROVE  \A f \in Files, content \in Readings :
           Put(f, content) => file' \in [Files -> Readings] /\ events' \subseteq Files
  BY DEF DataTyped, Put

LEMMA IngestingTyped ==
  ASSUME DataTyped, Tracked, SeenFits, NEW t \in Threads, Ingesting(t)
  PROVE  DataTyped'
  <1>1. seen[t] \in Seen
    BY DEF DataTyped
  <1>2. CASE SkipFile(t)
    <2>1. PICK f \in seen[t].todo : Done(t, f) /\ IF locked THEN Stray(f, "skipped") ELSE UNCHANGED astray
      BY <1>2 DEF SkipFile
    <2>2. f \in Files
      BY <1>1 DEF Seen
    <2>3. seen' \in [Threads -> Seen]
      BY <2>1, <2>2, DoneReads
    <2>4. astray' \in [Files -> SUBSET Strays]
      BY <2>1, <2>2 DEF Stray, Strays, DataTyped
    <2> QED BY <1>2, <2>3, <2>4 DEF SkipFile, disk, memory, DataTyped
  <1>3. CASE ReadAgain(t)
    <2>1. PICK f \in seen[t].todo :
            /\ ~locked /\ file[f] # Absent
            /\ seen' = [seen EXCEPT ![t].at = f, ![t].read[f] = IF @ = Absent THEN file[f] ELSE @]
      BY <1>3 DEF ReadAgain
    <2>2. f \in Files /\ file[f] \in Readings
      BY <1>1, <2>1 DEF Seen, DataTyped
    <2>3. PICK n : n = [seen[t] EXCEPT !.at = f, !.read[f] = IF @ = Absent THEN file[f] ELSE @]
      OBVIOUS
    <2>4. n \in Seen
      BY <1>1, <2>2, <2>3 DEF Seen
    <2>5. seen' = [seen EXCEPT ![t] = n]
      BY <2>1, <2>3 DEF DataTyped
    <2>6. seen' \in [Threads -> Seen]
      BY <2>4, <2>5 DEF DataTyped
    <2> QED BY <1>3, <2>6 DEF ReadAgain, disk, memory, DataTyped
  <1>4. CASE CommitFile(t)
    <2> DEFINE f == seen[t].at
    <2>1. call[t].pc = "commit"
      BY <1>4 DEF CommitFile, At
    <2>2. f \in seen[t].todo /\ f \in Files /\ seen[t].read[f] \in Contents
      <3>1. f \in seen[t].todo /\ seen[t].read[f] # Absent
        BY <2>1 DEF SeenFits, ReadsFit
      <3> QED BY <1>1, <3>1 DEF Seen, Readings
    <2>3. PICK fr \in Upserted(row[f], seen[t].read[f]) :
            /\ row' = [row EXCEPT ![f] = fr] /\ Done(t, f)
            /\ astray' = [astray EXCEPT ![f] = IF Show(fr, file[f]) THEN {}
                                               ELSE IF f \in seen[t].beaten THEN @ \cup {"overtaken"}
                                               ELSE @]
      BY <1>4 DEF CommitFile
    <2> HIDE DEF f
    <2>4. fr \in FileRows
      BY <2>2, <2>3, UpsertedRows DEF DataTyped
    <2>5. row' \in [Files -> FileRows]
      BY <2>2, <2>3, <2>4 DEF DataTyped
    <2>6. astray' \in [Files -> SUBSET Strays]
      BY <2>2, <2>3 DEF DataTyped, Strays
    <2>7. seen' \in [Threads -> Seen]
      BY <2>2, <2>3, DoneReads
    <2> QED BY <1>4, <2>5, <2>6, <2>7 DEF CommitFile, memory, DataTyped
  <1>5. CASE IngestFails(t)
    BY <1>5, ReadsTyped DEF IngestFails, disk, memory, DataTyped
  <1> QED BY <1>2, <1>3, <1>4, <1>5 DEF Ingesting

LEMMA SnapshotCleared ==
  ASSUME DataTyped, NEW i, snap' = [snap EXCEPT ![i] = None]
  PROVE  snap' \in [Ids -> Snapshots \cup {None}]
  BY DEF DataTyped

LEMMA WritingTyped ==
  ASSUME DataTyped, Tracked, NEW s \in Sessions, Writing(s)
  PROVE  DataTyped'
  <1> s \in Threads
    BY DEF Threads
  <1>1. call[s] \in Calls /\ Fits(s, call[s])
    BY CallIsKnown
  <1>2. CASE NextOlder(s) \/ OpenPatch(s) \/ ConfirmPending(s)
    <2>1. UNCHANGED <<file, row, tokens, events, locked, snap, seen, astray>>
      BY <1>2 DEF NextOlder, OpenPatch, ConfirmPending, disk, memory, work
    <2> QED BY <2>1 DEF DataTyped
  <1>3. CASE CapturePreWrite(s)
    <2>1. call[s].f \in Files /\ UNCHANGED <<file, row, tokens, events, locked, seen, astray>>
      BY <1>1, <1>3 DEF CapturePreWrite, At, Fits, disk, work
    <2>2. [f |-> call[s].f, content |-> file[call[s].f]] \in Snapshots
      BY <2>1 DEF Snapshots, DataTyped
    <2> QED BY <1>3, <2>1, <2>2 DEF CapturePreWrite, DataTyped
  <1>4. CASE WriteToken(s)
    BY <1>1, <1>4 DEF WriteToken, At, Fits, memory, work, DataTyped
  <1>5. CASE WriteContent(s)
    <2>1. call[s].f \in Files /\ call[s].id \in Readings
      BY <1>1, <1>5, Constants DEF WriteContent, At, Fits
    <2> QED BY <1>5, <2>1, DataWrites DEF WriteContent, memory, work, DataTyped
  <1>6. CASE WriteFails(s)
    <2> DEFINE i == call[s].id
               pre == IF snap[i] = None THEN file[call[s].f] ELSE snap[i].content
    <2>1. call[s].f \in Files /\ i \in Ids
      BY <1>1, <1>6 DEF WriteFails, Fits
    <2>2. pre \in Readings
      BY <2>1 DEF DataTyped, Snapshots
    <2>3. Put(call[s].f, pre) \/ UNCHANGED <<file, events>>
      BY <1>6 DEF WriteFails
    <2>4. file' \in [Files -> Readings] /\ events' \subseteq Files
      <3>1. CASE Put(call[s].f, pre)
        BY <2>1, <2>2, <3>1, DataWrites
      <3>2. CASE UNCHANGED <<file, events>>
        BY <3>2 DEF DataTyped
      <3> QED BY <2>3, <3>1, <3>2
    <2>5. UNCHANGED <<row, locked, seen, astray>> /\ tokens' \subseteq tokens /\ snap' = [snap EXCEPT ![i] = None]
      BY <1>6 DEF WriteFails, work
    <2> QED BY <2>4, <2>5 DEF DataTyped
  <1>7. CASE Ingest(s)
    <2>1. ReadFiles(s, {call[s].f}) /\ {call[s].f} \subseteq Files
      BY <1>1, <1>7 DEF Ingest, At, Fits
    <2>2. seen' \in [Threads -> Seen]
      BY <2>1, ReadsTyped
    <2> QED BY <1>7, <2>2 DEF Ingest, disk, memory, DataTyped
  <1>8. CASE MarkSpeculative(s)
    <2>1. seen' \in [Threads -> Seen]
      BY <1>8, ReadsTyped DEF MarkSpeculative
    <2> QED BY <1>8, <2>1 DEF MarkSpeculative, disk, memory, DataTyped
  <1>9. CASE SetSpeculative(s)
    <2>1. call[s].f \in Files
      BY <1>1, <1>9 DEF SetSpeculative, At, Fits
    <2>2. CASE SetRows(s, "Speculative")
      <3>1. row' \in [Files -> FileRows] /\ astray' \in [Files -> SUBSET Strays] /\ seen' \in [Threads -> Seen]
        BY <2>1, <2>2, RowsSet, ReadsTyped
      <3> QED BY <1>9, <3>1 DEF SetSpeculative, memory, DataTyped
    <2>3. CASE seen' = [seen EXCEPT ![s] = NothingSeen] /\ UNCHANGED <<row, astray>>
      BY <1>9, <2>3, ReadsTyped DEF SetSpeculative, memory, DataTyped
    <2> QED BY <1>9, <2>2, <2>3 DEF SetSpeculative
  <1> QED BY <1>2, <1>3, <1>4, <1>5, <1>6, <1>7, <1>8, <1>9 DEF Writing

LEMMA EndingTyped ==
  ASSUME DataTyped, Tracked, SeenFits, NEW t \in Threads, Ending(t)
  PROVE  DataTyped'
  <1>1. call[t] \in Calls /\ Fits(t, call[t])
    BY CallIsKnown
  <1>2. CASE PromoteRecord(t) \/ EndPromoted(t) \/ CheckNewer(t) \/ RemoveRecord(t) \/ EndRemoved(t)
    <2>1. UNCHANGED <<file, row, tokens, events, locked, snap, seen, astray>>
      BY <1>2 DEF PromoteRecord, EndPromoted, CheckNewer, RemoveRecord, EndRemoved, disk, memory, work
    <2> QED BY <2>1 DEF DataTyped
  <1>3. CASE ClearToken(t, "clear", "wal_promote") \/ ClearToken(t, "clear_reverted", "wal_revert")
    <2>1. UNCHANGED <<file, row, events, locked, snap, seen, astray>> /\ tokens' \subseteq tokens
      BY <1>3 DEF ClearToken, memory, work
    <2> QED BY <2>1 DEF DataTyped
  <1>4. CASE WalPromote(t) \/ WalRevert(t)
    <2>1. seen' \in [Threads -> Seen]
      BY <1>4, ReadsTyped DEF WalPromote, WalRevert
    <2> QED BY <1>4, <2>1 DEF WalPromote, WalRevert, disk, memory, DataTyped
  <1>5. CASE SetActive(t) \/ SetTombstone(t)
    <2>1. call[t].f \in Files /\ UNCHANGED <<file, tokens, events, locked>>
      BY <1>1, <1>5 DEF SetActive, SetTombstone, At, Fits
    <2>2. snap' \in [Ids -> Snapshots \cup {None}]
      BY <1>5, SnapshotCleared DEF SetActive, SetTombstone, DataTyped
    <2>3. /\ row' \in [Files -> FileRows] /\ astray' \in [Files -> SUBSET Strays]
          /\ seen' = [seen EXCEPT ![t] = NothingSeen]
      <3>1. CASE \E status \in {"Active", "Tombstone"} : SetRows(t, status)
        BY <2>1, <3>1, RowsSet
      <3>2. CASE seen' = [seen EXCEPT ![t] = NothingSeen] /\ UNCHANGED <<row, astray>>
        BY <3>2 DEF DataTyped
      <3> QED BY <1>5, <3>1, <3>2 DEF SetActive, SetTombstone
    <2> QED BY <2>1, <2>2, <2>3, ReadsTyped DEF DataTyped
  <1>6. CASE RestoreFile(t)
    <2> DEFINE saved == snap[call[t].id]
    <2>1. CASE UNCHANGED <<file, events>>
      BY <1>6, <2>1 DEF RestoreFile, memory, work, DataTyped
    <2>2. CASE saved # None /\ Put(saved.f, saved.content)
      <3>1. saved.f \in Files /\ saved.content \in Readings
        BY <1>1, <1>6, <2>2 DEF RestoreFile, At, Fits, DataTyped, Snapshots
      <3> QED BY <1>6, <2>2, <3>1, DataWrites DEF RestoreFile, memory, work, DataTyped
    <2> QED BY <1>6, <2>1, <2>2 DEF RestoreFile
  <1>7. CASE ReindexReverted(t)
    <2>1. ReadFiles(t, {call[t].f}) /\ {call[t].f} \subseteq Files
      BY <1>1, <1>7 DEF ReindexReverted, At, Fits
    <2>2. seen' \in [Threads -> Seen]
      BY <2>1, ReadsTyped
    <2> QED BY <1>7, <2>2 DEF ReindexReverted, disk, memory, DataTyped
  <1> QED BY <1>2, <1>3, <1>4, <1>5, <1>6, <1>7, IngestingTyped DEF Ending

LEMMA DataStep ==
  ASSUME DataTyped, Tracked, SeenFits, [Next]_vars
  PROVE  DataTyped'
  <1>1. CASE UNCHANGED vars
    BY <1>1 DEF vars, disk, memory, work, DataTyped
  <1>2. ASSUME NEW s \in Sessions, Request(s) PROVE DataTyped'
    <2>1. UNCHANGED <<file, row, tokens, events, locked, snap, seen, astray>>
      BY <1>2 DEF Request, WriteFile, ReindexPaths, ConfirmPatch, RevertPatch, Begin, disk, memory, work
    <2> QED BY <2>1 DEF DataTyped
  <1>3. CASE Syncing
    <2>1. CASE ReindexBatch
      <3>1. Sync \in Threads /\ call[Sync].batch \subseteq Files /\ ReadFiles(Sync, call[Sync].batch)
        BY <2>1, CallIsKnown DEF ReindexBatch, Threads, Calls
      <3>2. seen' \in [Threads -> Seen]
        BY <3>1, ReadsTyped
      <3> QED BY <2>1, <3>2 DEF ReindexBatch, disk, memory, DataTyped
    <2>2. CASE Drain \/ NextEvent \/ Sweep \/ NextExpired
      <3>1. UNCHANGED <<file, row, tokens, locked, snap, seen, astray>> /\ events' \subseteq events
        BY <2>2 DEF Drain, NextEvent, Sweep, NextExpired, disk, memory, work
      <3> QED BY <3>1 DEF DataTyped
    <2> QED BY <1>3, <2>1, <2>2 DEF Syncing
  <1>4. ASSUME NEW f \in Files, NEW content \in {Edited, Absent}, Edit(f, content) PROVE DataTyped'
    BY <1>4, Constants, DataWrites DEF Edit, memory, work, DataTyped
  <1>5. CASE MergePreflight \/ MergeEnds
    <2>1. UNCHANGED <<file, row, tokens, events, snap, seen, astray>> /\ locked' \in BOOLEAN
      BY <1>5 DEF MergePreflight, MergeEnds, disk, memory, work
    <2> QED BY <2>1 DEF DataTyped
  <1>6. CASE Crash
    BY <1>6, Constants DEF Crash, disk, DataTyped
  <1>7. CASE SweepSidecars
    BY <1>7 DEF SweepSidecars, memory, work, DataTyped
  <1> QED BY <1>1, <1>2, <1>3, <1>4, <1>5, <1>6, <1>7, WritingTyped, EndingTyped DEF Next

---------------------------------------------------------------------------
(* The graph: steps that read, write and choose, but do not ingest          *)

LEMMA SafeKept ==
  ASSUME NEW f \in Files, Safe(f), file'[f] = file[f],
         Due(f) => Due(f)',
         Show(row[f], file[f]) => Show(row'[f], file'[f]),
         \A t \in Threads : Stale(f, seen'[t], file[f]) => Stale(f, seen[t], file[f]) \/ Due(f)'
  PROVE  Safe(f)'
  <1>1. CASE Due(f)'
    BY <1>1 DEF Safe
  <1>2. CASE ~Due(f)'
    <2>1. file'[f] # Absent => Show(row'[f], file'[f])
      BY <1>2 DEF Safe
    <2>2. \A t \in Threads : ~Stale(f, seen'[t], file'[f])
      BY <1>2 DEF Safe
    <2> QED BY <2>1, <2>2 DEF Safe
  <1> QED BY <1>1, <1>2

(* A step of a thread that has no reading to ingest, before or after.       *)
Calm(t, c, n) ==
  /\ t \in Threads /\ call' = [call EXCEPT ![t] = c] /\ seen' = [seen EXCEPT ![t] = n]
  /\ seen[t].todo = {} /\ n.todo = {}
  /\ call[t].batch \subseteq c.batch /\ call[t].pc # "reindex_reverted" /\ c.pc # "commit"

LEMMA CalmKeeps ==
  ASSUME DataTyped, MemoryTyped, SeenFits, Covered, NEW t, NEW c, NEW n, Calm(t, c, n),
         failed => failed', events \subseteq events', \A f \in Files : astray[f] \subseteq astray'[f],
         ~failed' => \A f \in Files :
           \/ f \in events' \/ astray'[f] # {} \/ (c.pc = "reindex_reverted" /\ c.f = f)
           \/ file'[f] = file[f] /\ (Show(row[f], file[f]) => Show(row'[f], file'[f]))
  PROVE  SeenFits' /\ Covered'
  <1>1. /\ call'[t] = c /\ seen'[t] = n
        /\ \A u \in Threads : u # t => call'[u] = call[u] /\ seen'[u] = seen[u]
    BY DEF Calm, MemoryTyped, DataTyped
  <1>2. SeenFits'
    <2> SUFFICES ASSUME NEW u \in Threads PROVE ReadsFit(call'[u], seen'[u])
      BY DEF SeenFits, ReadsFit
    <2>1. CASE u = t
      BY <1>1, <2>1 DEF Calm, ReadsFit
    <2>2. CASE u # t
      BY <1>1, <2>2 DEF SeenFits
    <2> QED BY <2>1, <2>2
  <1>3. ASSUME ~failed', NEW f \in Files PROVE Safe(f)'
    <2>1. Safe(f)
      BY <1>3 DEF Covered
    <2>2. CASE f \in events' \/ astray'[f] # {} \/ (c.pc = "reindex_reverted" /\ c.f = f)
      <3>1. t \in Threads /\ (c.pc = "reindex_reverted" /\ c.f = f => Remade(f, call'[t], seen'[t], file'[f]))
        BY <1>1 DEF Calm, Remade
      <3>2. Due(f)'
        BY <2>2, <3>1 DEF Due
      <3> QED BY <3>2 DEF Safe
    <2>3. CASE file'[f] = file[f] /\ (Show(row[f], file[f]) => Show(row'[f], file'[f]))
      <3>1. \A u \in Threads : Remade(f, call[u], seen[u], file[f]) => Remade(f, call'[u], seen'[u], file[f])
        <4> SUFFICES ASSUME NEW u \in Threads, Remade(f, call[u], seen[u], file[f])
                     PROVE  Remade(f, call'[u], seen'[u], file[f])
          OBVIOUS
        <4>1. CASE u = t
          BY <1>1, <4>1 DEF Calm, Remade
        <4>2. CASE u # t
          BY <1>1, <4>2
        <4> QED BY <4>1, <4>2
      <3>2. Due(f) => Due(f)'
        BY <2>3, <3>1 DEF Due
      <3>3. \A u \in Threads : Stale(f, seen'[u], file[f]) => Stale(f, seen[u], file[f])
        BY <1>1 DEF Calm, Stale
      <3> QED BY <2>1, <2>3, <3>2, <3>3, SafeKept
    <2> QED BY <1>3, <2>2, <2>3
  <1> QED BY <1>2, <1>3 DEF Covered

(* A step that leaves files, rows, events and readings alone.               *)
Plain(t, c) ==
  /\ t \in Threads /\ call' = [call EXCEPT ![t] = c] /\ call[t].batch \subseteq c.batch
  /\ call[t].pc \notin {"reindex_reverted", "files", "commit"} /\ c.pc # "commit"

LEMMA PlainIsCalm ==
  ASSUME DataTyped, SeenFits, NEW t, NEW c, Plain(t, c), UNCHANGED seen
  PROVE  Calm(t, c, seen[t])
  <1>1. seen' = [seen EXCEPT ![t] = seen[t]]
    BY DEF DataTyped
  <1>2. seen[t].todo = {}
    BY DEF SeenFits, ReadsFit, Plain
  <1> QED BY <1>1, <1>2 DEF Calm, Plain

LEMMA PlainKeeps ==
  ASSUME DataTyped, MemoryTyped, SeenFits, Covered, NEW t, \E c : Plain(t, c),
         failed => failed', UNCHANGED <<file, row, events, seen, astray>>
  PROVE  SeenFits' /\ Covered'
  <1>1. PICK c : Plain(t, c)
    OBVIOUS
  <1>2. Calm(t, c, seen[t])
    BY <1>1, PlainIsCalm
  <1> QED BY <1>2, CalmKeeps

(* Writing a file makes it due.                                             *)
LEMMA PutKeeps ==
  ASSUME DataTyped, MemoryTyped, SeenFits, Covered, NEW t, \E c : Plain(t, c),
         failed => failed', UNCHANGED <<row, seen, astray>>, NEW f, NEW content, Put(f, content)
  PROVE  SeenFits' /\ Covered'
  <1>1. PICK c : Plain(t, c)
    OBVIOUS
  <1>2. Calm(t, c, seen[t])
    BY <1>1, PlainIsCalm
  <1>3. events \subseteq events' /\ \A g \in Files : g \in events' \/ file'[g] = file[g]
    BY DEF Put, DataTyped
  <1> QED BY <1>2, <1>3, CalmKeeps

(* Choosing rows only notes them.                                           *)
LEMMA ChooseKeeps ==
  ASSUME DataTyped, MemoryTyped, SeenFits, Covered, NEW t, NEW status, \E c : Plain(t, c),
         ChooseRows(t, status), failed => failed', UNCHANGED <<file, row, events, astray>>
  PROVE  SeenFits' /\ Covered'
  <1>1. PICK c : Plain(t, c)
    OBVIOUS
  <1>2. seen[t].todo = {} /\ t \in Threads
    BY <1>1 DEF SeenFits, ReadsFit, Plain
  <1>3. PICK n : seen' = [seen EXCEPT ![t] = n] /\ n.todo = {}
    BY <1>2, ReadsTyped
  <1>4. Calm(t, c, n)
    BY <1>1, <1>2, <1>3 DEF Calm, Plain
  <1> QED BY <1>4, CalmKeeps

(* Setting rows leaves the file what it shows, or astray, or due.           *)
LEMMA SetKeeps ==
  ASSUME DataTyped, MemoryTyped, SeenFits, Covered, NEW t, NEW f \in Files, call[t].f = f,
         NEW status \in {"Active", "Speculative", "Tombstone"}, SetRows(t, status), failed => failed',
         \E c : Plain(t, c) /\ (status = "Tombstone" /\ ~failed' => c.pc = "reindex_reverted" /\ c.f = f),
         UNCHANGED <<file, events>>
  PROVE  SeenFits' /\ Covered'
  <1>1. PICK c : Plain(t, c) /\ (status = "Tombstone" /\ ~failed' => c.pc = "reindex_reverted" /\ c.f = f)
    OBVIOUS
  <1>2. seen[t].todo = {} /\ t \in Threads
    BY <1>1 DEF SeenFits, ReadsFit, Plain
  <1>3. /\ seen' = [seen EXCEPT ![t] = NothingSeen]
        /\ \A g \in Files : g # f => row'[g] = row[g] /\ astray'[g] = astray[g]
        /\ astray[f] \subseteq astray'[f]
        /\ status # "Tombstone" =>
             \/ "revived" \in astray'[f]
             \/ /\ Live(row'[f]) = Live(row[f])
                /\ \A s \in Live(row[f]) : row'[f][s].content = row[f][s].content
    BY <1>2, RowsSet, ZenonT(60)
  <1>4. Calm(t, c, NothingSeen)
    BY <1>1, <1>2, <1>3, Constants DEF Calm, Plain
  <1>5. ASSUME status # "Tombstone", astray'[f] = {}, Show(row[f], file[f])
        PROVE  Show(row'[f], file'[f])
    <2>1. PICK s \in Slots : Live(row[f]) = {s} /\ row[f][s].content = file[f]
      BY <1>5 DEF Show
    <2>2. Live(row'[f]) = {s} /\ row'[f][s].content = file'[f]
      BY <1>3, <1>5, <2>1
    <2> QED BY <2>2 DEF Show
  <1>6. ASSUME ~failed', NEW g \in Files
        PROVE  \/ g \in events' \/ astray'[g] # {} \/ (c.pc = "reindex_reverted" /\ c.f = g)
               \/ file'[g] = file[g] /\ (Show(row[g], file[g]) => Show(row'[g], file'[g]))
    <2>1. CASE g # f
      BY <1>3, <2>1
    <2>2. CASE g = f
      BY <1>1, <1>5, <1>6, <2>2
    <2> QED BY <2>1, <2>2
  <1> QED BY <1>3, <1>4, <1>6, CalmKeeps

(* Reading a batch: what was due by it is now in the readings.              *)
LEMMA ReadKeeps ==
  ASSUME DataTyped, MemoryTyped, SeenFits, Covered, NEW t \in Threads, NEW c, NEW fs, fs \subseteq Files,
         call' = [call EXCEPT ![t] = c], c.pc = "files", ReadFiles(t, fs),
         call[t].pc \notin {"files", "commit"}, call[t].batch \subseteq c.batch \cup fs,
         call[t].pc = "reindex_reverted" => call[t].f \in fs,
         UNCHANGED <<file, row, events, astray, failed>>
  PROVE  SeenFits' /\ Covered'
  <1>1. PICK n : seen' = [seen EXCEPT ![t] = n] /\ n.todo = fs /\ \A f \in fs : n.read[f] = file[f]
    BY ReadsTyped
  <1>2. /\ call'[t] = c /\ seen'[t] = n /\ seen[t].todo = {}
        /\ \A u \in Threads : u # t => call'[u] = call[u] /\ seen'[u] = seen[u]
    BY <1>1 DEF MemoryTyped, DataTyped, SeenFits, ReadsFit
  <1>3. SeenFits'
    <2> SUFFICES ASSUME NEW u \in Threads PROVE ReadsFit(call'[u], seen'[u])
      BY DEF SeenFits, ReadsFit
    <2>1. CASE u = t
      BY <1>2, <2>1 DEF ReadsFit
    <2>2. CASE u # t
      BY <1>2, <2>2 DEF SeenFits
    <2> QED BY <2>1, <2>2
  <1>4. ASSUME NEW f \in Files, Safe(f) PROVE Safe(f)'
    <2>1. \A u \in Threads : Remade(f, call[u], seen[u], file[f]) => Remade(f, call'[u], seen'[u], file[f])
      <3> SUFFICES ASSUME NEW u \in Threads, Remade(f, call[u], seen[u], file[f])
                   PROVE  Remade(f, call'[u], seen'[u], file[f])
        OBVIOUS
      <3>1. CASE u = t
        <4>1. f \in c.batch \/ f \in fs
          BY <1>2, <3>1 DEF Remade
        <4> QED BY <1>1, <1>2, <3>1, <4>1 DEF Remade
      <3>2. CASE u # t
        BY <1>2, <3>2
      <3> QED BY <3>1, <3>2
    <2>2. Due(f) => Due(f)'
      BY <2>1 DEF Due
    <2>3. \A u \in Threads : Stale(f, seen'[u], file[f]) => Stale(f, seen[u], file[f])
      BY <1>1, <1>2 DEF Stale
    <2> QED BY <1>4, <2>2, <2>3, SafeKept
  <1> QED BY <1>3, <1>4 DEF Covered

---------------------------------------------------------------------------
(* The graph: ingesting                                                     *)

LEMMA GotoPlain ==
  ASSUME Tracked, NEW t \in Threads, NEW pc \in Pcs \ {"commit"}, Goto(t, pc),
         call[t].pc \notin {"reindex_reverted", "files", "commit"}
  PROVE  \E c : Plain(t, c) /\ c.pc = pc /\ c.f = call[t].f
  <1>1. PICK c \in Calls : Moves(t, c) /\ c.pc = pc /\ Like(c, call[t])
    BY GotoMoves
  <1> QED BY <1>1 DEF Moves, Like, Plain

LEMMA ContinueMoves ==
  ASSUME Tracked, NEW t \in Threads, Continue(t)
  PROVE  \E c : call' = [call EXCEPT ![t] = c] /\ call[t].batch \subseteq c.batch /\ c.pc \in {"next", "idle"}
  <1>1. CASE call[t].op \in {"write", "flush", "sweep"}
    <2>1. Goto(t, "next")
      BY <1>1 DEF Continue, Goto
    <2>2. PICK c \in Calls : Moves(t, c) /\ c.pc = "next" /\ Like(c, call[t])
      BY <2>1, GotoMoves DEF Pcs
    <2> QED BY <2>2 DEF Moves, Like
  <1>2. CASE call[t].op \notin {"write", "flush", "sweep"}
    <2>1. call' = [call EXCEPT ![t] = Idle] /\ call[t].batch = {} /\ Idle.pc = "idle"
      BY <1>2, CallIsKnown DEF Continue, Fits, Idle
    <2> QED BY <2>1
  <1> QED BY <1>1, <1>2

LEMMA ContinuePlain ==
  ASSUME Tracked, NEW t \in Threads, Continue(t),
         call[t].pc \notin {"reindex_reverted", "files", "commit"}
  PROVE  \E c : Plain(t, c)
  BY ContinueMoves DEF Plain

LEMMA DoneMoves ==
  ASSUME Tracked, NEW t \in Threads, NEW f, Done(t, f)
  PROVE  \E c : /\ call' = [call EXCEPT ![t] = c] /\ call[t].batch \subseteq c.batch /\ c.pc # "commit"
                /\ seen[t].todo # {f} => c.pc = "files"
  <1>1. ASSUME NEW pc \in {"files", "mark", "probe"}, Goto(t, pc), seen[t].todo # {f} => pc = "files"
        PROVE  \E c : /\ call' = [call EXCEPT ![t] = c] /\ call[t].batch \subseteq c.batch /\ c.pc # "commit"
                      /\ seen[t].todo # {f} => c.pc = "files"
    <2>1. PICK c \in Calls : Moves(t, c) /\ c.pc = pc /\ Like(c, call[t])
      BY <1>1, GotoMoves DEF Pcs
    <2> QED BY <1>1, <2>1 DEF Moves, Like
  <1>2. CASE seen[t].todo # {f}
    <2>1. Goto(t, "files")
      BY <1>2 DEF Done
    <2> QED BY <1>1, <2>1
  <1>3. CASE seen[t].todo = {f} /\ call[t].op = "write"
    <2>1. Goto(t, "mark")
      BY <1>3 DEF Done
    <2> QED BY <1>1, <1>3, <2>1
  <1>4. CASE seen[t].todo = {f} /\ call[t].op = "reindex"
    <2>1. Goto(t, "probe")
      BY <1>4 DEF Done
    <2> QED BY <1>1, <1>4, <2>1
  <1>5. CASE seen[t].todo = {f} /\ call[t].op \notin {"write", "reindex"}
    <2>1. CASE call[t].op = "flush" /\ call[t].batch = {}
      <3>1. call' = [call EXCEPT ![t] = Idle] /\ Idle.pc = "idle"
        BY <1>5, <2>1 DEF Done, Idle
      <3> QED BY <1>5, <2>1, <3>1
    <2>2. CASE ~(call[t].op = "flush" /\ call[t].batch = {})
      <3>1. Continue(t)
        BY <1>5, <2>2 DEF Done
      <3> QED BY <1>5, <3>1, ContinueMoves
    <2> QED BY <2>1, <2>2
  <1> QED BY <1>2, <1>3, <1>4, <1>5

(* A file is done with when it shows what it holds, or is due otherwise.    *)
LEMMA DoneKeeps ==
  ASSUME DataTyped, Tracked, SeenFits, Covered, NEW t \in Threads, NEW f \in Files, f \in seen[t].todo,
         call[t].pc \in {"files", "commit"}, Done(t, f), UNCHANGED <<file, events, failed>>,
         \A g \in Files : g # f => row'[g] = row[g] /\ astray'[g] = astray[g],
         \/ failed \/ astray'[f] # {} \/ f \in events \/ file[f] = Absent \/ f \in call[t].batch
         \/ call[t].pc = "commit" /\ Show(row'[f], file[f])
         \/ \E u \in Threads : u # t /\ Remade(f, call[u], seen[u], file[f])
  PROVE  SeenFits' /\ Covered'
  <1>1. PICK c : /\ call' = [call EXCEPT ![t] = c] /\ call[t].batch \subseteq c.batch /\ c.pc # "commit"
                 /\ seen[t].todo # {f} => c.pc = "files"
    BY DoneMoves
  <1>2. call'[t] = c /\ \A u \in Threads : u # t => call'[u] = call[u]
    BY <1>1 DEF Tracked, MemoryTyped
  <1>3. /\ seen[t].todo = {f} => seen'[t] = NothingSeen
        /\ seen[t].todo # {f} => /\ seen'[t].todo = seen[t].todo \ {f}
                                 /\ seen'[t].read = seen[t].read /\ seen'[t].beaten = seen[t].beaten
    BY DoneReads
  <1>4. \A u \in Threads : u # t =>
          /\ seen'[u].todo = seen[u].todo /\ seen'[u].read = seen[u].read /\ seen'[u].at = seen[u].at
          /\ seen[u].beaten \subseteq seen'[u].beaten
          /\ call[t].pc = "commit" /\ f \in seen[u].todo /\ seen[u].read[f] # Absent => f \in seen'[u].beaten
    BY DoneReads
  <1>5. f \notin seen'[t].todo /\ seen'[t].todo \subseteq seen[t].todo
    BY <1>3, Constants
  <1>6. SeenFits'
    <2> SUFFICES ASSUME NEW u \in Threads PROVE ReadsFit(call'[u], seen'[u])
      BY DEF SeenFits, ReadsFit
    <2>1. CASE u = t
      BY <1>1, <1>2, <1>3, <2>1, Constants DEF ReadsFit
    <2>2. CASE u # t
      BY <1>2, <1>4, <2>2 DEF SeenFits, ReadsFit
    <2> QED BY <2>1, <2>2
  <1>7. ASSUME NEW g \in Files, NEW u \in Threads, u # t, Remade(g, call[u], seen[u], file[g])
        PROVE  Remade(g, call'[u], seen'[u], file'[g])
    BY <1>2, <1>4, <1>7 DEF Remade
  <1>8. ASSUME ~failed, NEW g \in Files, g # f PROVE Safe(g)'
    <2>1. Safe(g)
      BY <1>8 DEF Covered
    <2>2. Remade(g, call[t], seen[t], file[g]) => Remade(g, call'[t], seen'[t], file'[g])
      BY <1>1, <1>2, <1>3, <1>8 DEF Remade
    <2>3. Due(g) => Due(g)'
      BY <1>7, <1>8, <2>2 DEF Due
    <2>4. ASSUME NEW u \in Threads, Stale(g, seen'[u], file[g]) PROVE Stale(g, seen[u], file[g])
      <3>1. CASE u = t
        BY <1>3, <2>4, <3>1, Constants DEF Stale
      <3>2. CASE u # t
        BY <1>4, <2>4, <3>2 DEF Stale
      <3> QED BY <3>1, <3>2
    <2> QED BY <1>8, <2>1, <2>3, <2>4, SafeKept
  <1>9. ASSUME ~failed PROVE Safe(f)'
    <2>1. CASE astray'[f] # {} \/ f \in events
      <3>1. Due(f)'
        BY <2>1 DEF Due
      <3> QED BY <3>1 DEF Safe
    <2>2. CASE f \in call[t].batch
      <3>1. Remade(f, call'[t], seen'[t], file'[f])
        BY <1>1, <1>2, <2>2 DEF Remade
      <3>2. Due(f)'
        BY <3>1 DEF Due
      <3> QED BY <3>2 DEF Safe
    <2>3. CASE \E u \in Threads : u # t /\ Remade(f, call[u], seen[u], file[f])
      <3>1. Due(f)'
        BY <1>7, <2>3 DEF Due
      <3> QED BY <3>1 DEF Safe
    <2>4. CASE file[f] = Absent
      <3>1. file'[f] = Absent /\ \A u \in Threads : ~Stale(f, seen'[u], file'[f])
        BY <2>4 DEF Stale
      <3> QED BY <3>1 DEF Safe
    <2>5. CASE call[t].pc = "commit" /\ Show(row'[f], file[f])
      <3>1. \A u \in Threads : ~Stale(f, seen'[u], file'[f])
        <4> SUFFICES ASSUME NEW u \in Threads, Stale(f, seen'[u], file'[f]) PROVE FALSE
          OBVIOUS
        <4>1. u # t
          BY <1>5 DEF Stale
        <4> QED BY <1>4, <2>5, <4>1 DEF Stale
      <3>2. Show(row'[f], file'[f])
        BY <2>5
      <3> QED BY <3>1, <3>2 DEF Safe
    <2> QED BY <1>9, <2>1, <2>2, <2>3, <2>4, <2>5
  <1> QED BY <1>6, <1>8, <1>9 DEF Covered

LEMMA SingleKept ==
  ASSUME RowsSingle, UNCHANGED <<row, astray>>
  PROVE  RowsSingle'
  BY DEF RowsSingle, Single, Live, WithStatus

LEMMA IngestingKeeps ==
  ASSUME DataTyped, Tracked, SeenFits, RowsSingle, Covered, NEW t \in Threads, Ingesting(t)
  PROVE  SeenFits' /\ RowsSingle' /\ Covered'
  <1>1. seen[t] \in Seen /\ MemoryTyped
    BY DEF DataTyped, Tracked
  <1>2. CASE SkipFile(t)
    <2>1. PICK f \in seen[t].todo :
            /\ locked \/ file[f] = Absent
            /\ Done(t, f) /\ IF locked THEN Stray(f, "skipped") ELSE UNCHANGED astray
      BY <1>2 DEF SkipFile
    <2>2. f \in Files /\ call[t].pc = "files" /\ UNCHANGED <<file, row, events, failed>>
      BY <1>1, <1>2 DEF SkipFile, Seen, At, disk
    <2>3. /\ astray'[f] # {} \/ file[f] = Absent
          /\ \A g \in Files : g # f => row'[g] = row[g] /\ astray'[g] = astray[g]
          /\ \A g \in Files : astray[g] \subseteq astray'[g]
      BY <2>1, <2>2 DEF Stray, DataTyped
    <2>4. SeenFits' /\ Covered'
      BY <2>1, <2>2, <2>3, DoneKeeps
    <2>5. RowsSingle'
      BY <2>2, <2>3 DEF RowsSingle, Single, Live, WithStatus
    <2> QED BY <2>4, <2>5
  <1>3. CASE ReadAgain(t)
    <2>1. PICK f \in seen[t].todo :
            /\ ~locked /\ file[f] # Absent
            /\ seen' = [seen EXCEPT ![t].at = f, ![t].read[f] = IF @ = Absent THEN file[f] ELSE @]
      BY <1>3 DEF ReadAgain
    <2>2. f \in Files /\ file[f] \in Readings /\ UNCHANGED <<file, row, events, astray, failed>>
          /\ call[t].pc = "files"
      BY <1>1, <1>3, <2>1 DEF Seen, DataTyped, ReadAgain, disk, At
    <2>3. PICK n : n = [seen[t] EXCEPT !.at = f, !.read[f] = IF @ = Absent THEN file[f] ELSE @]
      OBVIOUS
    <2>4. /\ n.todo = seen[t].todo /\ n.beaten = seen[t].beaten /\ n.at = f
          /\ \A g \in Files : n.read[g] = IF g = f /\ seen[t].read[f] = Absent THEN file[f] ELSE seen[t].read[g]
      BY <1>1, <2>2, <2>3 DEF Seen
    <2>5. seen'[t] = n /\ \A u \in Threads : u # t => seen'[u] = seen[u]
      BY <2>1, <2>3 DEF DataTyped
    <2>6. PICK c \in Calls : Moves(t, c) /\ c.pc = "commit" /\ Like(c, call[t])
      BY <1>3, GotoMoves DEF ReadAgain, Pcs
    <2>7. call'[t] = c /\ \A u \in Threads : u # t => call'[u] = call[u]
      BY <1>1, <2>6 DEF Moves, MemoryTyped
    <2>8. SeenFits'
      <3> SUFFICES ASSUME NEW u \in Threads PROVE ReadsFit(call'[u], seen'[u])
        BY DEF SeenFits, ReadsFit
      <3>1. CASE u = t
        <4>1. n.at \in n.todo /\ n.read[n.at] # Absent
          BY <2>1, <2>2, <2>4
        <4>2. call'[u] = c /\ seen'[u] = n /\ c.pc = "commit"
          BY <2>5, <2>6, <2>7, <3>1
        <4> QED BY <4>1, <4>2 DEF ReadsFit
      <3>2. CASE u # t
        BY <2>5, <2>7, <3>2 DEF SeenFits
      <3> QED BY <3>1, <3>2
    <2>9. ASSUME NEW g \in Files, Safe(g) PROVE Safe(g)'
      <3>1. \A u \in Threads : Remade(g, call[u], seen[u], file[g]) => Remade(g, call'[u], seen'[u], file[g])
        <4> SUFFICES ASSUME NEW u \in Threads, Remade(g, call[u], seen[u], file[g])
                     PROVE  Remade(g, call'[u], seen'[u], file[g])
          OBVIOUS
        <4>1. CASE u = t
          BY <2>2, <2>4, <2>5, <2>6, <2>7, <4>1 DEF Remade, Like
        <4>2. CASE u # t
          BY <2>5, <2>7, <4>2
        <4> QED BY <4>1, <4>2
      <3>2. Due(g) => Due(g)'
        BY <2>2, <3>1 DEF Due
      <3>3. \A u \in Threads : Stale(g, seen'[u], file[g]) => Stale(g, seen[u], file[g])
        BY <2>4, <2>5 DEF Stale
      <3> QED BY <2>2, <2>9, <3>2, <3>3, SafeKept
    <2>10. Covered' /\ RowsSingle'
      BY <2>2, <2>9, SingleKept DEF Covered
    <2> QED BY <2>8, <2>10
  <1>4. CASE CommitFile(t)
    <2>1. call[t].pc = "commit" /\ UNCHANGED <<file, events, failed>>
      BY <1>4 DEF CommitFile, At
    <2>2. PICK f : f = seen[t].at
      OBVIOUS
    <2>3. PICK r : r = seen[t].read[f]
      OBVIOUS
    <2>4. f \in seen[t].todo /\ f \in Files /\ r \in Contents /\ r # Absent /\ row[f] \in FileRows
      <3>1. f \in seen[t].todo /\ r # Absent
        BY <2>1, <2>2, <2>3 DEF SeenFits, ReadsFit
      <3>2. f \in Files /\ r \in Readings
        BY <1>1, <2>3, <3>1 DEF Seen
      <3> QED BY <3>1, <3>2 DEF Readings, DataTyped
    <2>5. PICK fr \in Upserted(row[f], r) :
            /\ row' = [row EXCEPT ![f] = fr] /\ Done(t, f)
            /\ astray' = [astray EXCEPT ![f] = IF Show(fr, file[f]) THEN {}
                                               ELSE IF f \in seen[t].beaten THEN @ \cup {"overtaken"}
                                               ELSE @]
      BY <1>4, <2>2, <2>3 DEF CommitFile
    <2>6. Single(row[f]) => Single(fr) /\ Show(fr, r)
      BY <2>4, <2>5, UpsertedRows
    <2>7. row'[f] = fr /\ \A g \in Files : g # f => row'[g] = row[g] /\ astray'[g] = astray[g]
      BY <2>4, <2>5 DEF DataTyped
    <2>8. astray'[f] = IF Show(fr, file[f]) THEN {}
                       ELSE IF f \in seen[t].beaten THEN astray[f] \cup {"overtaken"} ELSE astray[f]
      BY <2>4, <2>5 DEF DataTyped
    <2>9. \/ failed \/ astray'[f] # {} \/ f \in events \/ file[f] = Absent \/ f \in call[t].batch
          \/ call[t].pc = "commit" /\ Show(row'[f], file[f])
          \/ \E u \in Threads : u # t /\ Remade(f, call[u], seen[u], file[f])
      <3> SUFFICES ASSUME ~failed, ~Show(fr, file[f]), f \notin seen[t].beaten, astray[f] = {},
                          file[f] # Absent, f \notin events
                   PROVE  \/ f \in call[t].batch
                          \/ \E u \in Threads : u # t /\ Remade(f, call[u], seen[u], file[f])
        BY <2>1, <2>7, <2>8
      <3>1. Show(fr, r)
        BY <2>4, <2>6 DEF RowsSingle
      <3>2. r # file[f]
        BY <3>1
      <3>3. Stale(f, seen[t], file[f])
        BY <2>3, <2>4, <3>2 DEF Stale
      <3>4. Due(f)
        BY <2>4, <3>3 DEF Covered, Safe
      <3>5. PICK u \in Threads : Remade(f, call[u], seen[u], file[f])
        BY <3>4 DEF Due
      <3> QED BY <2>1, <2>3, <2>4, <3>2, <3>5 DEF Remade
    <2>10. SeenFits' /\ Covered'
      BY <2>1, <2>4, <2>5, <2>7, <2>9, DoneKeeps
    <2>11. Show(fr, file[f]) => Single(fr)
      BY DEF Show, Single
    <2>12. "revived" \in astray'[f] \/ Single(fr)
      BY <2>4, <2>6, <2>8, <2>11 DEF RowsSingle
    <2>13. RowsSingle'
      BY <2>7, <2>12 DEF RowsSingle, Single, Live, WithStatus
    <2> QED BY <2>10, <2>13
  <1>5. CASE IngestFails(t)
    <2>1. /\ failed' /\ seen' = [seen EXCEPT ![t] = NothingSeen] /\ UNCHANGED <<row, astray>>
      BY <1>5 DEF IngestFails, Fault, disk
    <2>2. \E c : call' = [call EXCEPT ![t] = c] /\ c.pc # "commit"
      <3>1. CASE call' = [call EXCEPT ![t] = Idle]
        <4>1. Idle.pc # "commit"
          BY DEF Idle
        <4> QED BY <3>1, <4>1
      <3>2. CASE Continue(t)
        BY <3>2, ContinueMoves
      <3> QED BY <1>5, <3>1, <3>2 DEF IngestFails
    <2>3. PICK c : call' = [call EXCEPT ![t] = c] /\ c.pc # "commit"
      BY <2>2
    <2>4. /\ call'[t] = c /\ seen'[t] = NothingSeen
          /\ \A u \in Threads : u # t => call'[u] = call[u] /\ seen'[u] = seen[u]
      BY <1>1, <2>1, <2>3 DEF MemoryTyped, DataTyped
    <2>5. SeenFits'
      <3> SUFFICES ASSUME NEW u \in Threads PROVE ReadsFit(call'[u], seen'[u])
        BY DEF SeenFits, ReadsFit
      <3>1. CASE u = t
        BY <2>3, <2>4, <3>1, Constants DEF ReadsFit
      <3>2. CASE u # t
        BY <2>4, <3>2 DEF SeenFits
      <3> QED BY <3>1, <3>2
    <2> QED BY <2>1, <2>5, SingleKept DEF Covered
  <1> QED BY <1>2, <1>3, <1>4, <1>5 DEF Ingesting

---------------------------------------------------------------------------
(* The graph: every step                                                    *)

Followed == SeenFits /\ RowsSingle /\ Covered

LEMMA SetSingle ==
  ASSUME DataTyped, RowsSingle, NEW t \in Threads, NEW f \in Files, call[t].f = f,
         NEW status \in {"Active", "Speculative", "Tombstone"}, SetRows(t, status)
  PROVE  RowsSingle'
  <1>1. /\ \A g \in Files : g # f => row'[g] = row[g] /\ astray'[g] = astray[g]
        /\ astray[f] \subseteq astray'[f]
        /\ status = "Tombstone" => Live(row'[f]) \subseteq Live(row[f])
        /\ status # "Tombstone" => "revived" \in astray'[f] \/ Live(row'[f]) = Live(row[f])
    BY RowsSet, ZenonT(60)
  <1>2. "revived" \in astray'[f] \/ Live(row'[f]) \subseteq Live(row[f])
    BY <1>1
  <1>3. "revived" \in astray'[f] \/ \A a, b \in Live(row'[f]) : a = b
    BY <1>1, <1>2 DEF RowsSingle, Single
  <1>4. \A g \in Files : g # f => "revived" \in astray'[g] \/ \A a, b \in Live(row'[g]) : a = b
    BY <1>1 DEF RowsSingle, Single
  <1>5. \A g \in Files : "revived" \in astray'[g] \/ \A a, b \in Live(row'[g]) : a = b
    BY <1>3, <1>4
  <1> QED BY <1>5 DEF RowsSingle, Single, Live, WithStatus

LEMMA IdlePlain ==
  ASSUME NEW t \in Threads, call' = [call EXCEPT ![t] = Idle], call[t].batch = {},
         call[t].pc \notin {"reindex_reverted", "files", "commit"}
  PROVE  \E c : Plain(t, c)
  <1>1. Idle.pc # "commit"
    BY DEF Idle
  <1> QED BY <1>1 DEF Plain

(* Requests, and the steps of a write.                                      *)
LEMMA SessionFollows ==
  ASSUME DataTyped, Tracked, Followed, NEW s \in Sessions, Request(s) \/ Writing(s)
  PROVE  Followed'
  <1> s \in Threads
    BY DEF Threads
  <1> DEFINE d == call[s]
             Still == UNCHANGED <<file, row, events, seen, astray>> /\ failed' = failed
  <1>1. d \in Calls /\ Fits(s, d) /\ MemoryTyped /\ SeenFits /\ RowsSingle /\ Covered
    BY CallIsKnown DEF Followed
  <1>2. ASSUME Still, \E c : Plain(s, c) PROVE Followed'
    BY <1>1, <1>2, PlainKeeps, SingleKept DEF Followed
  <1>3. CASE Request(s)
    <2>1. PICK c : call' = [call EXCEPT ![s] = c] /\ c.pc \in {"next", "promote", "check", "ingest"}
      <3>1. PICK op, pc, f, i, ids : Begin(s, op, pc, f, i, ids) /\ pc \in {"next", "promote", "check", "ingest"}
        BY <1>3 DEF Request, WriteFile, ReindexPaths, ConfirmPatch, RevertPatch
      <3>2. PICK c : c = [Idle EXCEPT !.op = op, !.pc = pc, !.f = f, !.id = i, !.ids = ids]
        OBVIOUS
      <3>3. c.pc = pc
        BY <3>2 DEF Idle
      <3> QED BY <3>1, <3>2, <3>3 DEF Begin
    <2>2. Still /\ d.pc = "idle"
      BY <1>3 DEF Request, WriteFile, ReindexPaths, ConfirmPatch, RevertPatch, Begin, disk, work, At
    <2>3. d.batch = {}
      BY <1>1, <2>2 DEF Fits, Idle
    <2> QED BY <1>2, <2>1, <2>2, <2>3 DEF Plain
  <1>4. CASE NextOlder(s)
    <2>1. Still /\ d.pc = "next"
      BY <1>4 DEF NextOlder, disk, work, At
    <2>2. CASE d.ids = {}
      <3>1. Goto(s, "open")
        BY <1>4, <2>2 DEF NextOlder, Goto
      <3> QED BY <1>2, <2>1, <3>1, GotoPlain DEF Pcs
    <2>3. CASE d.ids # {}
      <3>1. PICK c : c = [d EXCEPT !.id = Min(d.ids), !.ids = d.ids \ {Min(d.ids)}, !.pc = "promote"]
        OBVIOUS
      <3>2. call' = [call EXCEPT ![s] = c]
        BY <1>4, <2>3, <3>1 DEF NextOlder
      <3>3. c.pc = "promote" /\ c.batch = d.batch
        BY <1>1, <3>1 DEF Calls
      <3> QED BY <1>2, <2>1, <3>2, <3>3 DEF Plain
    <2> QED BY <2>2, <2>3
  <1>5. CASE OpenPatch(s)
    <2>1. Still /\ d.pc = "open"
      BY <1>5 DEF OpenPatch, disk, work, At
    <2>2. d.batch = {}
      BY <1>1, <2>1 DEF Fits
    <2>3. CASE call' = [call EXCEPT ![s] = Idle]
      BY <1>2, <2>1, <2>2, <2>3, IdlePlain
    <2>4. CASE call' = [call EXCEPT ![s].id = nextId, ![s].pc = "capture"]
      <3>1. PICK c : c = [d EXCEPT !.id = nextId, !.pc = "capture"]
        OBVIOUS
      <3>2. call' = [call EXCEPT ![s] = c]
        BY <2>4, <3>1, <1>1 DEF MemoryTyped
      <3>3. c.pc = "capture" /\ c.batch = d.batch
        BY <1>1, <3>1 DEF Calls
      <3> QED BY <1>2, <2>1, <3>2, <3>3 DEF Plain
    <2> QED BY <1>5, <2>3, <2>4 DEF OpenPatch
  <1>6. CASE CapturePreWrite(s) \/ WriteToken(s)
    <2>1. Still /\ d.pc \in {"capture", "token"} /\ (Goto(s, "token") \/ Goto(s, "write"))
      BY <1>6 DEF CapturePreWrite, WriteToken, disk, work, At
    <2> QED BY <1>2, <2>1, GotoPlain DEF Pcs
  <1>7. CASE WriteContent(s)
    <2>1. /\ Goto(s, "ingest") /\ d.pc = "write" /\ failed' = failed /\ Put(d.f, d.id)
          /\ UNCHANGED <<row, seen, astray>>
      BY <1>7 DEF WriteContent, At, work
    <2>2. \E c : Plain(s, c)
      BY <2>1, GotoPlain DEF Pcs
    <2> QED BY <1>1, <2>1, <2>2, PutKeeps, SingleKept DEF Followed
  <1>8. CASE WriteFails(s)
    <2>1. /\ d.pc \in {"capture", "token", "write"} /\ failed' /\ UNCHANGED <<row, seen, astray>>
          /\ UNCHANGED <<file, events>> \/ \E content : Put(d.f, content)
      BY <1>8 DEF WriteFails, Fault, work
    <2>2. d.batch = {}
      BY <1>1, <2>1 DEF Fits
    <2>3. \E c : Plain(s, c)
      <3>1. CASE d.id \in Open
        <4>1. PICK c : c = [d EXCEPT !.pc = "removed", !.owner = s]
          OBVIOUS
        <4>2. call' = [call EXCEPT ![s] = c] /\ c.pc = "removed" /\ c.batch = d.batch
          BY <1>1, <1>8, <3>1, <4>1 DEF WriteFails, Calls
        <4> QED BY <2>1, <4>2 DEF Plain
      <3>2. CASE d.id \notin Open
        <4>1. call' = [call EXCEPT ![s] = Idle]
          BY <1>8, <3>2 DEF WriteFails
        <4> QED BY <2>1, <2>2, <4>1, IdlePlain
      <3> QED BY <3>1, <3>2
    <2>4. CASE UNCHANGED <<file, events>>
      BY <1>1, <2>1, <2>3, <2>4, PlainKeeps, SingleKept DEF Followed
    <2>5. CASE \E content : Put(d.f, content)
      BY <1>1, <2>1, <2>3, <2>5, PutKeeps, SingleKept DEF Followed
    <2> QED BY <2>1, <2>4, <2>5
  <1>9. CASE Ingest(s)
    <2>1. /\ d.pc = "ingest" /\ Goto(s, "files") /\ ReadFiles(s, {d.f})
          /\ UNCHANGED <<file, row, events, astray, failed>>
      BY <1>9 DEF Ingest, At, disk
    <2>2. PICK c \in Calls : Moves(s, c) /\ c.pc = "files" /\ Like(c, d)
      BY <2>1, GotoMoves DEF Pcs
    <2>3. d.f \in Files
      BY <1>1, <2>1 DEF Fits
    <2> QED BY <1>1, <2>1, <2>2, <2>3, ReadKeeps, SingleKept DEF Followed, Moves, Like
  <1>10. CASE MarkSpeculative(s)
    <2>1. /\ d.pc = "mark" /\ Goto(s, "set_speculative") /\ ChooseRows(s, "Active")
          /\ UNCHANGED <<file, row, events, astray, failed>>
      BY <1>10 DEF MarkSpeculative, At, disk
    <2>2. \E c : Plain(s, c)
      BY <2>1, GotoPlain DEF Pcs
    <2> QED BY <1>1, <2>1, <2>2, ChooseKeeps, SingleKept DEF Followed
  <1>11. CASE SetSpeculative(s)
    <2>1. d.pc = "set_speculative" /\ call' = [call EXCEPT ![s] = Idle] /\ UNCHANGED <<file, events>>
      BY <1>11 DEF SetSpeculative, At
    <2>2. d.f \in Files /\ d.batch = {}
      BY <1>1, <2>1 DEF Fits
    <2>3. PICK c : Plain(s, c)
      BY <2>1, <2>2, IdlePlain
    <2>4. CASE SetRows(s, "Speculative") /\ NoFault
      <3>1. failed' = failed
        BY <2>4 DEF NoFault
      <3>2. SeenFits' /\ Covered'
        BY <1>1, <2>1, <2>2, <2>3, <2>4, <3>1, SetKeeps
      <3>3. RowsSingle'
        BY <1>1, <2>2, <2>4, SetSingle
      <3> QED BY <3>2, <3>3 DEF Followed
    <2>5. CASE Fault /\ seen' = [seen EXCEPT ![s] = NothingSeen] /\ UNCHANGED <<row, astray>>
      <3>1. failed'
        BY <2>5 DEF Fault
      <3>2. Calm(s, c, NothingSeen)
        BY <1>1, <2>3, <2>5, Constants DEF Calm, Plain, SeenFits, ReadsFit
      <3> QED BY <1>1, <2>1, <2>5, <3>1, <3>2, CalmKeeps, SingleKept DEF Followed
    <2> QED BY <1>11, <2>4, <2>5 DEF SetSpeculative
  <1>12. CASE ConfirmPending(s)
    <2>1. Still /\ d.pc = "probe"
      BY <1>12 DEF ConfirmPending, disk, work, At
    <2>2. d.batch = {}
      BY <1>1, <2>1 DEF Fits
    <2> DEFINE i == Pending(d.f)
    <2>3. CASE i \notin tokens
      <3>1. call' = [call EXCEPT ![s] = Idle]
        BY <1>12, <2>3 DEF ConfirmPending
      <3> QED BY <1>2, <2>1, <2>2, <3>1, IdlePlain
    <2>4. CASE i \in tokens
      <3>1. PICK c : c = [d EXCEPT !.op = "confirm", !.id = i, !.owner = patch[i].session, !.pc = "promote"]
        OBVIOUS
      <3>2. call' = [call EXCEPT ![s] = c]
        BY <1>12, <2>4, <3>1 DEF ConfirmPending
      <3>3. c.pc = "promote" /\ c.batch = d.batch
        BY <1>1, <3>1 DEF Calls
      <3> QED BY <1>2, <2>1, <3>2, <3>3 DEF Plain
    <2> QED BY <2>3, <2>4
  <1> QED BY <1>3, <1>4, <1>5, <1>6, <1>7, <1>8, <1>9, <1>10, <1>11, <1>12 DEF Writing

(* Confirming and reverting: rows that are tombstoned are read again.       *)
LEMMA EndingFollows ==
  ASSUME DataTyped, Tracked, Followed, NEW t \in Threads, Ending(t)
  PROVE  Followed'
  <1> DEFINE d == call[t]
             Still == UNCHANGED <<file, row, events, seen, astray>> /\ (failed => failed')
  <1>1. d \in Calls /\ Fits(t, d) /\ MemoryTyped /\ SeenFits /\ RowsSingle /\ Covered
    BY CallIsKnown DEF Followed
  <1>2. ASSUME Still, \E c : Plain(t, c) PROVE Followed'
    BY <1>1, <1>2, PlainKeeps, SingleKept DEF Followed
  <1>3. CASE PromoteRecord(t)
    <2>1. Still /\ d.pc = "promote"
      BY <1>3 DEF PromoteRecord, disk, work, At
    <2>2. CASE Continue(t)
      BY <1>2, <2>1, <2>2, ContinuePlain
    <2>3. CASE ~Continue(t)
      <3>1. PICK c : c = [d EXCEPT !.owner = patch[d.id].session, !.f = patch[d.id].path[2], !.pc = "promoted"]
        OBVIOUS
      <3>2. call' = [call EXCEPT ![t].owner = patch[d.id].session, ![t].f = patch[d.id].path[2],
                                 ![t].pc = "promoted"]
        BY <1>3, <2>3 DEF PromoteRecord
      <3>3. call' = [call EXCEPT ![t] = c] /\ c.pc = "promoted" /\ c.batch = d.batch
        BY <1>1, <3>1, <3>2 DEF MemoryTyped, Calls
      <3> QED BY <1>2, <2>1, <3>3 DEF Plain
    <2> QED BY <2>2, <2>3
  <1>4. CASE CheckNewer(t)
    <2>1. Still /\ d.pc = "check"
      BY <1>4 DEF CheckNewer, disk, work, At
    <2>2. CASE Continue(t)
      BY <1>2, <2>1, <2>2, ContinuePlain
    <2>3. CASE ~Continue(t)
      <3>1. PICK g, o : call' = [call EXCEPT ![t].pc = "restore", ![t].f = g, ![t].owner = o]
        BY <1>4, <2>3 DEF CheckNewer
      <3>2. PICK c : c = [d EXCEPT !.pc = "restore", !.f = g, !.owner = o]
        OBVIOUS
      <3>3. call' = [call EXCEPT ![t] = c] /\ c.pc = "restore" /\ c.batch = d.batch
        BY <1>1, <3>1, <3>2 DEF MemoryTyped, Calls
      <3> QED BY <1>2, <2>1, <3>3 DEF Plain
    <2> QED BY <2>2, <2>3
  <1>5. CASE RemoveRecord(t)
    <2>1. Still /\ d.pc = "remove" /\ (Continue(t) \/ Goto(t, "removed"))
      BY <1>5 DEF RemoveRecord, disk, work, At
    <2> QED BY <1>2, <2>1, ContinuePlain, GotoPlain DEF Pcs
  <1>6. CASE EndPromoted(t) \/ EndRemoved(t)
    <2>1. /\ Still /\ d.pc \in {"promoted", "removed"}
          /\ \/ Goto(t, "clear") \/ Goto(t, "clear_reverted")
             \/ d.op = "write" /\ call' = [call EXCEPT ![t] = Idle]
      BY <1>6 DEF EndPromoted, EndRemoved, disk, work, At
    <2>2. d.op = "write" => d.batch = {}
      BY <1>1 DEF Fits
    <2> QED BY <1>2, <2>1, <2>2, IdlePlain, GotoPlain DEF Pcs
  <1>7. CASE ClearToken(t, "clear", "wal_promote") \/ ClearToken(t, "clear_reverted", "wal_revert")
    <2>1. /\ Still /\ d.pc \in {"clear", "clear_reverted"}
          /\ Goto(t, "wal_promote") \/ Goto(t, "wal_revert")
      BY <1>7 DEF ClearToken, work, At, NoFault, Fault
    <2> QED BY <1>2, <2>1, GotoPlain DEF Pcs
  <1>8. CASE WalPromote(t) \/ WalRevert(t)
    <2>1. /\ d.pc \in {"wal_promote", "wal_revert"} /\ ChooseRows(t, "Speculative")
          /\ UNCHANGED <<file, row, events, astray, failed>>
          /\ Goto(t, "set_active") \/ Goto(t, "set_tombstone")
      BY <1>8 DEF WalPromote, WalRevert, disk, At
    <2>2. \E c : Plain(t, c)
      BY <2>1, GotoPlain DEF Pcs
    <2> QED BY <1>1, <2>1, <2>2, ChooseKeeps, SingleKept DEF Followed
  <1>9. ASSUME d.pc \in {"set_active", "set_tombstone"}, failed', \E c : Plain(t, c),
               \/ \E status \in {"Active", "Tombstone"} : SetRows(t, status)
               \/ seen' = [seen EXCEPT ![t] = NothingSeen] /\ UNCHANGED <<row, astray>>,
               UNCHANGED <<file, events>>
        PROVE  Followed'
    <2>1. PICK c : Plain(t, c)
      BY <1>9
    <2>2. d.f \in Files
      BY <1>1, <1>9 DEF Fits
    <2>3. CASE seen' = [seen EXCEPT ![t] = NothingSeen] /\ UNCHANGED <<row, astray>>
      <3>1. Calm(t, c, NothingSeen)
        BY <1>1, <2>1, <2>3, Constants DEF Calm, Plain, SeenFits, ReadsFit
      <3> QED BY <1>1, <1>9, <2>3, <3>1, CalmKeeps, SingleKept DEF Followed
    <2>4. ASSUME NEW status \in {"Active", "Tombstone"}, SetRows(t, status) PROVE Followed'
      <3>1. SeenFits' /\ Covered'
        BY <1>1, <1>9, <2>1, <2>2, <2>4, SetKeeps
      <3>2. RowsSingle'
        BY <1>1, <2>2, <2>4, SetSingle
      <3> QED BY <3>1, <3>2 DEF Followed
    <2> QED BY <1>9, <2>3, <2>4
  <1>10. CASE SetActive(t)
    <2>1. d.pc = "set_active" /\ Continue(t) /\ UNCHANGED <<file, events>>
      BY <1>10 DEF SetActive, At
    <2>2. d.f \in Files /\ \E c : Plain(t, c)
      BY <1>1, <2>1, ContinuePlain DEF Fits
    <2>3. CASE failed'
      BY <1>9, <1>10, <2>1, <2>2, <2>3 DEF SetActive
    <2>4. CASE ~failed'
      <3>1. SetRows(t, "Active") /\ failed' = failed
        BY <1>10, <2>4 DEF SetActive, Fault, NoFault
      <3>2. SeenFits' /\ Covered'
        BY <1>1, <2>1, <2>2, <3>1, SetKeeps
      <3>3. RowsSingle'
        BY <1>1, <2>2, <3>1, SetSingle
      <3> QED BY <3>2, <3>3 DEF Followed
    <2> QED BY <2>3, <2>4
  <1>11. CASE SetTombstone(t)
    <2>1. d.pc = "set_tombstone" /\ UNCHANGED <<file, events>>
      BY <1>11 DEF SetTombstone, At
    <2>2. d.f \in Files
      BY <1>1, <2>1 DEF Fits
    <2>3. CASE Goto(t, "reindex_reverted") /\ SetRows(t, "Tombstone") /\ NoFault
      <3>1. \E c : Plain(t, c) /\ c.pc = "reindex_reverted" /\ c.f = d.f
        BY <2>1, <2>3, GotoPlain DEF Pcs
      <3>2. failed' = failed
        BY <2>3 DEF NoFault
      <3>3. SeenFits' /\ Covered'
        BY <1>1, <2>1, <2>2, <2>3, <3>1, <3>2, SetKeeps
      <3>4. RowsSingle'
        BY <1>1, <2>2, <2>3, SetSingle
      <3> QED BY <3>3, <3>4 DEF Followed
    <2>4. CASE Continue(t) /\ Fault
      <3>1. failed' /\ \E c : Plain(t, c)
        BY <2>1, <2>4, ContinuePlain DEF Fault
      <3> QED BY <1>9, <1>11, <2>1, <3>1 DEF SetTombstone
    <2> QED BY <1>11, <2>3, <2>4 DEF SetTombstone
  <1>12. CASE RestoreFile(t)
    <2>1. /\ d.pc = "restore" /\ (Goto(t, "remove") \/ Continue(t)) /\ (failed => failed')
          /\ UNCHANGED <<row, seen, astray>>
      BY <1>12 DEF RestoreFile, At, work, NoFault, Fault
    <2>2. \E c : Plain(t, c)
      BY <2>1, GotoPlain, ContinuePlain DEF Pcs
    <2>3. CASE UNCHANGED <<file, events>>
      BY <1>2, <2>1, <2>2, <2>3
    <2>4. CASE \E f, content : Put(f, content)
      BY <1>1, <2>1, <2>2, <2>4, PutKeeps, SingleKept DEF Followed
    <2> QED BY <1>12, <2>3, <2>4 DEF RestoreFile
  <1>13. CASE ReindexReverted(t)
    <2>1. /\ d.pc = "reindex_reverted" /\ Goto(t, "files") /\ ReadFiles(t, {d.f})
          /\ UNCHANGED <<file, row, events, astray, failed>>
      BY <1>13 DEF ReindexReverted, At, disk
    <2>2. PICK c \in Calls : Moves(t, c) /\ c.pc = "files" /\ Like(c, d)
      BY <2>1, GotoMoves DEF Pcs
    <2>3. d.f \in Files
      BY <1>1, <2>1 DEF Fits
    <2>4. call' = [call EXCEPT ![t] = c] /\ c.batch = d.batch
      BY <2>2 DEF Moves, Like
    <2>5. SeenFits' /\ Covered'
      BY <1>1, <2>1, <2>2, <2>3, <2>4, ReadKeeps
    <2> QED BY <1>1, <2>1, <2>5, SingleKept DEF Followed
  <1>14. CASE Ingesting(t)
    BY <1>1, <1>14, IngestingKeeps DEF Followed
  <1> QED BY <1>3, <1>4, <1>5, <1>6, <1>7, <1>8, <1>10, <1>11, <1>12, <1>13, <1>14 DEF Ending

(* The sync thread: what leaves the debouncer is in the batch until all of  *)
(* the batch is read.                                                       *)
LEMMA SyncingFollows ==
  ASSUME DataTyped, Tracked, Followed, Syncing
  PROVE  Followed'
  <1> Sync \in Threads
    BY DEF Threads
  <1> DEFINE d == call[Sync]
             Still == UNCHANGED <<file, row, events, seen, astray, failed>>
  <1>1. d \in Calls /\ Fits(Sync, d) /\ MemoryTyped /\ SeenFits /\ RowsSingle /\ Covered
    BY CallIsKnown DEF Followed
  <1>2. ASSUME Still, \E c : Plain(Sync, c) PROVE Followed'
    BY <1>1, <1>2, PlainKeeps, SingleKept DEF Followed
  <1>3. d.pc = "idle" => d.batch = {}
    BY <1>1 DEF Fits, Idle
  <1>4. CASE Drain
    <2>1. PICK batch \in SUBSET events :
            /\ events' = events \ batch
            /\ call' = [call EXCEPT ![Sync] = [Idle EXCEPT !.op = "flush", !.pc = "next",
                                                           !.files = batch, !.batch = batch]]
      BY <1>4 DEF Drain
    <2>2. PICK c : c = [Idle EXCEPT !.op = "flush", !.pc = "next", !.files = batch, !.batch = batch]
      OBVIOUS
    <2>3. c.batch = batch /\ c.pc = "next"
      BY <2>2 DEF Idle
    <2>4. d.pc = "idle" /\ UNCHANGED <<file, row, seen, astray, failed>>
      BY <1>4 DEF Drain, At, disk, work
    <2>5. call'[Sync] = c /\ \A u \in Threads : u # Sync => call'[u] = call[u]
      BY <1>1, <2>1, <2>2 DEF MemoryTyped
    <2>6. SeenFits'
      <3> SUFFICES ASSUME NEW u \in Threads PROVE ReadsFit(call'[u], seen[u])
        BY <2>4 DEF SeenFits, ReadsFit
      <3>1. CASE u = Sync
        BY <1>1, <2>3, <2>4, <2>5, <3>1 DEF SeenFits, ReadsFit
      <3>2. CASE u # Sync
        BY <1>1, <2>5, <3>2 DEF SeenFits
      <3> QED BY <3>1, <3>2
    <2>7. ASSUME NEW f \in Files, Safe(f) PROVE Safe(f)'
      <3>1. ASSUME NEW u \in Threads, Remade(f, d, seen[Sync], file[f]) \/ u # Sync,
                   Remade(f, call[u], seen[u], file[f])
            PROVE  Remade(f, call'[u], seen'[u], file'[f])
        BY <1>3, <2>3, <2>4, <2>5, <3>1 DEF Remade
      <3>2. f \in batch => Remade(f, call'[Sync], seen'[Sync], file'[f])
        BY <2>3, <2>5 DEF Remade
      <3>3. f \in events => f \in events' \/ f \in batch
        BY <2>1
      <3>4. Due(f) => Due(f)'
        BY <2>4, <3>1, <3>2, <3>3 DEF Due
      <3> QED BY <2>4, <2>7, <3>4, SafeKept
    <2> QED BY <1>1, <2>4, <2>6, <2>7, SingleKept DEF Followed, Covered
  <1>5. CASE ReindexBatch
    <2>1. /\ d.pc = "next" /\ ReadFiles(Sync, d.batch) /\ UNCHANGED <<file, row, events, astray, failed>>
          /\ call' = [call EXCEPT ![Sync].pc = "files", ![Sync].batch = {}]
      BY <1>5 DEF ReindexBatch, At, disk
    <2>2. PICK c : c = [d EXCEPT !.pc = "files", !.batch = {}]
      OBVIOUS
    <2>3. call' = [call EXCEPT ![Sync] = c] /\ c.pc = "files"
      BY <1>1, <2>1, <2>2 DEF MemoryTyped, Calls
    <2>4. d.batch \subseteq Files
      BY <1>1 DEF Calls
    <2>5. SeenFits' /\ Covered'
      BY <1>1, <2>1, <2>3, <2>4, ReadKeeps
    <2> QED BY <1>1, <2>1, <2>5, SingleKept DEF Followed
  <1>6. CASE NextEvent
    <2>1. Still /\ d.pc = "next"
      BY <1>6 DEF NextEvent, disk, work, At
    <2>2. PICK f \in d.files :
            call' = [call EXCEPT ![Sync] =
                       [@ EXCEPT !.files = d.files \ {f}, !.id = Pending(f), !.f = f,
                                 !.pc = CASE Pending(f) = 0       -> "next"
                                          [] Pending(f) \in tokens -> "promote"
                                          [] OTHER        -> "check"]]
      BY <1>6 DEF NextEvent
    <2>3. PICK pc : pc = CASE Pending(f) = 0       -> "next"
                           [] Pending(f) \in tokens -> "promote"
                           [] OTHER        -> "check"
      OBVIOUS
    <2>4. pc # "commit"
      BY <2>3
    <2>5. PICK c : c = [d EXCEPT !.files = d.files \ {f}, !.id = Pending(f), !.f = f, !.pc = pc]
      OBVIOUS
    <2>6. call' = [call EXCEPT ![Sync] = c]
      BY <2>2, <2>3, <2>5
    <2>7. c.pc = pc /\ c.batch = d.batch
      BY <1>1, <2>5 DEF Calls
    <2> QED BY <1>2, <2>1, <2>4, <2>6, <2>7 DEF Plain
  <1>7. CASE Sweep
    <2>1. Still /\ d.pc = "idle"
      BY <1>7 DEF Sweep, disk, work, At
    <2>2. PICK ids : call' = [call EXCEPT ![Sync] = [Idle EXCEPT !.op = "sweep", !.pc = "next", !.ids = ids]]
      BY <1>7 DEF Sweep
    <2>3. PICK c : c = [Idle EXCEPT !.op = "sweep", !.pc = "next", !.ids = ids]
      OBVIOUS
    <2>4. c.pc = "next"
      BY <2>3 DEF Idle
    <2> QED BY <1>2, <1>3, <2>1, <2>2, <2>3, <2>4 DEF Plain
  <1>8. CASE NextExpired
    <2>1. Still /\ d.pc = "next" /\ d.op = "sweep"
      BY <1>8 DEF NextExpired, disk, work, At
    <2>2. d.batch = {}
      BY <1>1, <2>1 DEF Fits
    <2>3. CASE d.ids = {}
      <3>1. call' = [call EXCEPT ![Sync] = Idle]
        BY <1>8, <2>3 DEF NextExpired
      <3> QED BY <1>2, <2>1, <2>2, <3>1, IdlePlain
    <2>4. CASE d.ids # {}
      <3>1. PICK c : c = [d EXCEPT !.id = Max(d.ids), !.ids = d.ids \ {Max(d.ids)}, !.pc = "check"]
        OBVIOUS
      <3>2. call' = [call EXCEPT ![Sync] = c]
        BY <1>8, <2>4, <3>1 DEF NextExpired
      <3>3. c.pc = "check" /\ c.batch = d.batch
        BY <1>1, <3>1 DEF Calls
      <3> QED BY <1>2, <2>1, <3>2, <3>3 DEF Plain
    <2> QED BY <2>3, <2>4
  <1> QED BY <1>4, <1>5, <1>6, <1>7, <1>8 DEF Syncing

(* Nothing but files and events changes: a file that changed is due.        *)
LEMMA OutsideFollows ==
  ASSUME DataTyped, Followed, UNCHANGED <<row, seen, astray, call, failed>>, events \subseteq events',
         \A f \in Files : f \in events' \/ file'[f] = file[f]
  PROVE  Followed'
  <1>1. SeenFits' /\ RowsSingle'
    BY SingleKept DEF Followed, SeenFits, ReadsFit
  <1>2. ASSUME NEW f \in Files, Safe(f) PROVE Safe(f)'
    <2>1. CASE f \in events'
      <3>1. Due(f)'
        BY <2>1 DEF Due
      <3> QED BY <3>1 DEF Safe
    <2>2. CASE file'[f] = file[f]
      <3>1. Due(f) => Due(f)'
        BY <2>2 DEF Due, Remade
      <3> QED BY <1>2, <2>2, <3>1, SafeKept
    <2> QED BY <2>1, <2>2
  <1> QED BY <1>1, <1>2 DEF Followed, Covered

LEMMA FollowedStep ==
  ASSUME PatchInv, [Next]_vars
  PROVE  Followed'
  <1>1. DataTyped /\ Tracked /\ Followed
    BY DEF PatchInv, Followed
  <1>2. CASE UNCHANGED vars \/ MergePreflight \/ MergeEnds \/ SweepSidecars
    <2>1. UNCHANGED <<file, row, seen, astray, events, call, failed>>
      BY <1>2 DEF vars, disk, work, MergePreflight, MergeEnds, SweepSidecars
    <2> QED BY <1>1, <2>1, OutsideFollows
  <1>3. ASSUME NEW f \in Files, NEW content, Edit(f, content) PROVE Followed'
    <2>1. Put(f, content) /\ UNCHANGED <<row, seen, astray, call, failed>>
      BY <1>3 DEF Edit, work
    <2>2. events \subseteq events' /\ \A g \in Files : g \in events' \/ file'[g] = file[g]
      BY <1>1, <2>1 DEF Put, DataTyped
    <2> QED BY <1>1, <2>1, <2>2, OutsideFollows
  <1>4. CASE Crash
    <2>1. failed' /\ UNCHANGED <<row, astray>>
      BY <1>4 DEF Crash, Fault, disk
    <2>2. SeenFits'
      BY <1>4, Constants DEF Crash, SeenFits, ReadsFit, Idle
    <2> QED BY <1>1, <2>1, <2>2, SingleKept DEF Followed, Covered
  <1> QED BY <1>1, <1>2, <1>3, <1>4, SessionFollows, EndingFollows, SyncingFollows DEF Next

---------------------------------------------------------------------------
(* The inductive invariant                                                  *)

(* Files, rows and readings keep their types; every path is registered once *)
(* for each open patch and each patch whose lease is being ended, and leased*)
(* for one of them; a thread that ingests has read what it is going to      *)
(* commit; and, until something fails, the rows of a file show what it      *)
(* holds unless an event, a batch, a revert or a reading is going to change *)
(* that or they are known to be astray, and a reading that is out of date   *)
(* is known to be.                                                          *)
THEOREM PatchInvariance == Spec => []PatchInv
  <1>1. Init => PatchInv
    <2> SUFFICES ASSUME Init PROVE PatchInv
      OBVIOUS
    <2>1. \A f \in Files : file[f] \in {0, Absent}
      BY DEF Init
    <2> DEFINE fr(f) == [s \in Slots |-> IF s = Stable /\ file[f] = 0 THEN ActiveRow(0) ELSE None]
    <2>2. row = [f \in Files |-> fr(f)]
      BY DEF Init, ActiveRow
    <2>3. ActiveRow(0) \in Row /\ ActiveRow(0) # None
          /\ ActiveRow(0).content = 0 /\ ActiveRow(0).status = "Active"
      BY ActiveRowIsLive, Constants
    <2>4. \A f \in Files : row[f] \in FileRows
      BY <2>2, <2>3 DEF FileRows
    <2>5. DataTyped
      <3>1. file \in [Files -> Readings] /\ snap \in [Ids -> Snapshots \cup {None}]
            /\ seen \in [Threads -> Seen]
        BY Constants DEF Init
      <3> QED BY <2>2, <2>4, <3>1 DEF Init, DataTyped
    <2>6. Tracked
      BY EmptyTracks DEF Init, Empty
    <2>7. SeenFits
      BY Constants DEF Init, SeenFits, ReadsFit, Idle
    <2>8. ASSUME NEW f \in Files PROVE /\ Single(row[f])
                                       /\ file[f] # Absent => Show(row[f], file[f])
      <3>1. \A s \in Slots : row[f][s] = IF s = Stable /\ file[f] = 0 THEN ActiveRow(0) ELSE None
        BY <2>2
      <3>2. \A s : s \in Live(row[f]) <=> s = Stable /\ file[f] = 0
        BY <2>3, <3>1, LiveRows, Constants
      <3>3. file[f] = 0 => Live(row[f]) = {Stable} /\ row[f][Stable].content = 0
        BY <2>3, <3>1, <3>2, Constants
      <3>4. file[f] # Absent => Show(row[f], file[f])
        BY <2>1, <3>3, Constants DEF Show
      <3> QED BY <3>2, <3>4 DEF Single
    <2>9. \A f \in Files, t \in Threads : ~Stale(f, seen[t], file[f])
      BY Constants DEF Init, Stale
    <2> QED BY <2>5, <2>6, <2>7, <2>8, <2>9 DEF PatchInv, RowsSingle, Covered, Safe
  <1>2. PatchInv /\ [Next]_vars => PatchInv'
    BY DataStep, TrackedStep, FollowedStep DEF PatchInv, Followed
  <1> QED BY <1>1, <1>2, PTL DEF Spec

(* The types of files, rows, readings, patches, leases and calls.           *)
THEOREM PatchTypeCorrect == Spec => []TypeOK
  <1>1. PatchInv => TypeOK
    <2> SUFFICES ASSUME PatchInv PROVE TypeOK
      OBVIOUS
    <2>1. DataTyped /\ MemoryTyped
      BY DEF PatchInv, Tracked
    <2>2. \A t \in Threads :
            seen[t] \in [todo : SUBSET Files, read : [Files -> Contents \cup {Absent}],
                         at : Files \cup {None}, beaten : SUBSET Files, rids : SUBSET Slots]
      BY <2>1 DEF DataTyped, Seen, Readings
    <2>3. /\ file \in [Files -> Contents \cup {Absent}] /\ row \in [Files -> [Slots -> Row \cup {None}]]
          /\ \A i \in Ids : snap[i] # None => snap[i] \in [f : Files, content : Contents \cup {Absent}]
      BY <2>1 DEF DataTyped, FileRows, Snapshots, Readings
    <2>4. \A t \in Threads :
       /\ call[t].op \in {"none", "write", "confirm", "revert", "reindex", "flush", "sweep"}
       /\ call[t].pc \in {"idle", "next", "promote", "promoted", "clear", "wal_promote",
                          "set_active", "check", "restore", "remove", "removed", "clear_reverted", "wal_revert",
                          "set_tombstone", "reindex_reverted", "open", "capture", "token", "write",
                          "ingest", "files", "commit", "mark", "set_speculative", "probe"}
       /\ call[t].ids \subseteq Ids /\ call[t].files \cup call[t].batch \subseteq Files
      BY <2>1 DEF MemoryTyped, Calls, Ops, Pcs
    <2>5. \A i \in Ids : patch[i] # None => patch[i] \in Record
      BY <2>1 DEF MemoryTyped, Patches
    <2> QED BY <2>1, <2>2, <2>3, <2>4, <2>5 DEF DataTyped, MemoryTyped, TypeOK
  <1> QED BY <1>1, PatchInvariance, PTL

(* When nothing runs, the tracker counts the open patches of each path and  *)
(* every lease belongs to an open patch, however many sessions write,       *)
(* confirm, revert and are swept, and wherever writes fail.                 *)
THEOREM TrackerAlwaysAgrees == Spec => []TrackerAgrees
  <1>1. PatchInv => TrackerAgrees
    <2> SUFFICES ASSUME PatchInv, AtRest, NEW p \in PathForms
                 PROVE  /\ refs[p] = Cardinality({i \in Open : patch[i].path = p})
                        /\ lease[p] # None => \E i \in Open : patch[i] = [session |-> lease[p], path |-> p]
      BY DEF TrackerAgrees
    <2>1. EndingOn(p) = {}
      BY DEF AtRest, At, EndingOn, AtEnd
    <2>2. refs[p] = Cardinality(OpenOn(p))
      <3>1. refs[p] = Cardinality(OpenOn(p)) + Cardinality(EndingOn(p))
        BY DEF PatchInv, Tracked, Counted
      <3>2. Cardinality(EndingOn(p)) = 0
        BY <2>1, FS_EmptySet
      <3> QED BY <3>1, <3>2, CountsAreNatural
    <2>3. ASSUME lease[p] # None PROVE \E i \in Open : patch[i] = [session |-> lease[p], path |-> p]
      <3>1. PICK i \in OpenOn(p) : patch[i].session = lease[p]
        BY <2>1, <2>3 DEF PatchInv, Tracked, Leased
      <3>2. i \in Open /\ patch[i].path = p /\ patch[i] \in Record
        BY OpenIdsAreGiven DEF OpenOn, PatchInv, Patches
      <3>3. patch[i] = [session |-> lease[p], path |-> p]
        BY <3>1, <3>2 DEF Record
      <3> QED BY <3>2, <3>3
    <2> QED BY <2>2, <2>3 DEF OpenOn
  <1> QED BY <1>1, PatchInvariance, PTL

(* When nothing runs, no event is due and nothing has failed, the one live  *)
(* row of a file shows what the file holds, unless the file's rows are      *)
(* astray in one of the three ways the code leaves open: an older reading   *)
(* committed last, a retired row revived, a turn skipped during a merge.    *)
THEOREM GraphAlwaysFollows == Spec => []GraphFollowsFile
  <1>1. PatchInv => GraphFollowsFile
    <2> SUFFICES ASSUME PatchInv, AtRest, events = {}, ~failed, NEW f \in Files,
                        file[f] # Absent, astray[f] = {}
                 PROVE  Show(row[f], file[f])
      BY DEF GraphFollowsFile
    <2>1. ASSUME NEW t \in Threads PROVE ~Remade(f, call[t], seen[t], file[f])
      <3>1. call[t] = Idle /\ seen[t].todo = {}
        BY CallIsKnown DEF PatchInv, AtRest, At, Fits, SeenFits, ReadsFit
      <3> QED BY <3>1 DEF Idle, Remade
    <2> QED BY <2>1 DEF PatchInv, Covered, Safe, Due
  <1> QED BY <1>1, PatchInvariance, PTL
=============================================================================
