------------------------- MODULE LogBackends_proofs -------------------------
(* What a call returned Ok for is saved, what is saved never goes back, and *)
(* between calls memory and disk agree: for any threads and ids, any        *)
(* crashes, failed writes, compactions and migrations, on either backend    *)
(* (CIS_WAL_FLUSH_EVERY at its default, one).                               *)
EXTENDS LogBackends, FiniteSetTheorems, WellFoundedInduction, TLAPS

---------------------------------------------------------------------------
(* The inductive invariant                                                  *)

FilePcs == {"lock", "copy", "rename", "clear"}
SqlPcs == {"persist", "meta", "delete"}
Pcs == {"idle", "insert", "changed", "compact", "compacted"} \cup FilePcs \cup SqlPcs

Typed == TypeOK /\ pc \in [Threads -> Pcs]

(* The calls and the memory, on either backend.  An id about to be inserted *)
(* is nobody else's, and a compaction deletes only what is gone for good.   *)
(* A record is what its only call asked for.                                *)
Fits(t) ==
  /\ pc[t] \in {"idle", "compact", "compacted", "delete"} => target[t] = 0
  /\ pc[t] \in {"insert", "changed", "persist", "meta"} => target[t] # 0
  /\ target[t] = 0 <=> asked[t] = "absent"
  /\ target[t] < nextId /\ \A i \in before[t] : i < nextId
  /\ pc[t] = "insert" => /\ asked[t] = "Pending" /\ records[target[t]] = "absent"
                         /\ \A u \in Threads \ {t} : target[u] # target[t]
                         /\ \A u \in Threads : target[t] \notin before[u]
  /\ pc[t] = "compact" => before[t] \subseteq Held(records) \cup compacted
  /\ pc[t] \in {"compacted", "delete"} => before[t] \subseteq compacted \ Held(records)
  /\ pc[t] = "changed" => target[t] \in raced \/ records[target[t]] = asked[t]
  /\ pc[t] \notin {"idle", "insert"} => Held(records) # {}
Meeting == \A t, u \in Threads : t # u /\ target[t] # 0 /\ target[t] = target[u] => target[t] \in raced
Memory == (\A t \in Threads : Fits(t)) /\ Meeting /\ \A i \in Held(records) : i < nextId

Untouched == rows = EmptyLog /\ metaNext = 0 /\ read = NothingRead /\ broken = {} /\ ~torn

(* i has not come further in the first than in the second.                  *)
Upto(p, q, i) == i \in compacted \/ Rank(p) <= Rank(q)

(* The file: what a thread in flush has copied lies between the file and    *)
(* the memory, and has what the thread was asked for.                       *)
InFlush(t) ==
  /\ pc[t] \notin SqlPcs
  /\ pc[t] \in {"copy", "rename"} =>
       flushLock = t /\ fileNext <= snapNext[t] /\ snapNext[t] <= nextId /\ target[t] < snapNext[t]
  /\ pc[t] = "rename" =>
       /\ Held(snapRecs[t]) # {}
       /\ \A i \in LogIds : Upto(fileRecs[i], snapRecs[t][i], i) /\ Upto(snapRecs[t][i], records[i], i)
  /\ target[t] # 0 =>
       /\ pc[t] \in {"changed", "lock", "copy"} => Upto(asked[t], records[target[t]], target[t])
       /\ pc[t] = "rename" => Upto(asked[t], snapRecs[t][target[t]], target[t])
       /\ pc[t] = "clear" => Upto(asked[t], fileRecs[target[t]], target[t]) /\ target[t] < fileNext
  /\ pc[t] = "clear" => Held(fileRecs) # {}
  /\ pc[t] = "insert" => acked[target[t]] = "absent"

(* A thread that has yet to copy the memory.                                *)
Behind == \E t \in Threads : pc[t] \in {"changed", "lock", "copy", "compact", "compacted"}

Saves(i) ==
  /\ Upto(acked[i], fileRecs[i], i) /\ Upto(fileRecs[i], records[i], i)
  /\ acked[i] # "absent" => i < fileNext /\ Held(fileRecs) # {}

FileInv ==
  /\ Untouched /\ \A t \in Threads : InFlush(t)
  /\ fileNext <= nextId
  /\ Held(fileRecs) # {} => Held(records) # {}
  /\ \A i \in LogIds : Saves(i)
  /\ \A t \in Threads : pc[t] = "rename" => snapRecs[t] = records \/ Behind
  /\ fileRecs = records \/ behind \/ Behind \/ \E t \in Threads : pc[t] = "rename"

(* The table: a call that met no other has read, and then written, what the *)
(* memory holds.                                                            *)
InStore(t) ==
  /\ pc[t] \notin FilePcs
  /\ pc[t] = "persist" =>
       /\ read[t] # "absent"
       /\ target[t] \in raced \/ (read[t] = asked[t] /\ records[target[t]] = asked[t])
  /\ pc[t] = "meta" => target[t] \in raced \/ (rows[target[t]] = asked[t] /\ records[target[t]] = asked[t])

(* While no append was cut off, the stored counter is past every id that    *)
(* was used, and a log that has had records has rows.                       *)
Appending(i) == \E t \in Threads : target[t] = i /\ asked[t] = "Pending"
Unwritten(i) == \E t \in Threads : target[t] = i /\ asked[t] = "Pending" /\ pc[t] \in {"changed", "persist"}
Written(i) == records[i] # "absent" \/ rows[i] # "absent" \/ acked[i] # "absent"
Counter ==
  /\ metaNext <= nextId
  /\ Held(records) = {} => metaNext = 0 /\ \A i \in LogIds : acked[i] = "absent"
  /\ \A i \in Held(records) : rows[i] # "absent" \/ Unwritten(i)
  /\ \A i \in LogIds \ raced : Written(i) => i < metaNext \/ Appending(i)
  /\ \A t \in Threads : pc[t] = "insert" => acked[target[t]] = "absent" \/ target[t] \in raced

Saving(i) == \E t \in Threads : target[t] = i /\ pc[t] \in {"changed", "persist"}
Deleting(i) ==
  \E t \in Threads : pc[t] \in {"compact", "compacted", "delete"} /\ i \in before[t] /\ records[i] = "absent"

Ordered == \A i \in LogIds \ raced : Upto(acked[i], rows[i], i) /\ Upto(rows[i], records[i], i)
Current == \A i \in LogIds \ (raced \cup broken) : rows[i] = records[i] \/ Saving(i) \/ Deleting(i)

SqlInv == (\A t \in Threads : InStore(t)) /\ Ordered /\ Current /\ (~torn => Counter)

(* Of the calls alone, whatever they save and when.                         *)
CallsInv == Typed /\ (state = "open" => Memory) /\ (state = "refused" => \A t \in Threads : pc[t] = "idle")

LogInv ==
  /\ CallsInv /\ AckedSurvives
  /\ state = "open" => (backend = "json" => FileInv) /\ (backend = "sqlite" => SqlInv)

---------------------------------------------------------------------------
(* Phases                                                                   *)

LEMMA RankRange ==
  ASSUME NEW p \in MaybePhases
  PROVE  /\ Rank(p) \in 0..4 /\ Rank("absent") = 0 /\ Rank("Pending") = 1
         /\ p # "absent" => Rank(p) >= 1
         /\ Rank(p) <= 0 => p = "absent"
  BY DEF Rank, MaybePhases, Phases, InFlight, Terminal

(* A phase that another may follow is an earlier one.                       *)
LEMMA TransitionGoesUp ==
  ASSUME NEW p \in Phases, NEW q \in Phases, CanTransitionTo(p, q), p # q
  PROVE  Rank(p) <= Rank(q) /\ q # "Pending" /\ q # "absent"
  BY DEF Rank, Phases, InFlight, Terminal, CanTransitionTo

LEMMA UptoTransitive ==
  ASSUME NEW p \in MaybePhases, NEW q \in MaybePhases, NEW r \in MaybePhases, NEW i,
         Upto(p, q, i), Upto(q, r, i)
  PROVE  Upto(p, r, i)
  <1>1. Rank(p) \in Int /\ Rank(q) \in Int /\ Rank(r) \in Int
    BY RankRange
  <1> QED BY <1>1 DEF Upto

LEMMA UptoReflexive ==
  ASSUME NEW p \in MaybePhases, NEW i
  PROVE  Upto(p, p, i) /\ Upto("absent", p, i)
  BY RankRange DEF Upto

LEMMA OpenOrRefused == ASSUME Typed PROVE state = "open" \/ state = "refused"
  BY DEF Typed, TypeOK, LogTypeOK

(* Who returns has acknowledged no more than it was asked for.              *)
LEMMA AckStep ==
  ASSUME Typed, NEW t \in Threads, ReturnOk(t)
  PROVE  /\ \A i \in LogIds : acked'[i] = acked[i] \/ (i = target[t] /\ acked'[i] = asked[t])
         /\ acked' \in Logs
  BY DEF ReturnOk, Typed, TypeOK, LogTypeOK, Logs

---------------------------------------------------------------------------
(* What a restart reads                                                     *)

LEMMA LastOf ==
  ASSUME NEW T, T \subseteq LogIds, T # {}
  PROVE  \E n \in T : \A m \in T : m <= n
  <1> DEFINE R == {ss \in Nat \X Nat : ss[1] < ss[2]}
             D == {MaxLogId - n : n \in T}
  <1>1. IsWellFoundedOn(R, Nat)
    BY NatLessThanWellFounded DEF R, OpToRel
  <1>2. MaxLogId \in Nat /\ T \subseteq Nat /\ \A n \in T : n <= MaxLogId
    BY LogAssumption DEF LogIds
  <1>3. D \subseteq Nat /\ D # {}
    <2>1. PICK n \in T : TRUE
      OBVIOUS
    <2>2. MaxLogId - n \in D
      BY <2>1
    <2>3. \A m \in T : MaxLogId - m \in Nat
      BY <1>2
    <2> QED BY <2>2, <2>3
  <1> HIDE DEF R
  <1>4. PICK d \in D : \A e \in D : ~(<<e, d>> \in R)
    BY <1>1, <1>3, WFMin
  <1>5. PICK n \in T : d = MaxLogId - n
    OBVIOUS
  <1>6. ASSUME NEW m \in T PROVE m <= n
    <2>1. MaxLogId - m \in D /\ MaxLogId - m \in Nat /\ d \in Nat
      BY <1>3
    <2>2. ~(MaxLogId - m < d)
      BY <1>4, <2>1 DEF R
    <2> QED BY <1>2, <1>5, <2>1, <2>2
  <1> QED BY <1>6

(* The table is loaded with a counter that is past its rows.                *)
LEMMA LoadedNextPast ==
  ASSUME NEW recs \in Logs, NEW next \in 0..(MaxLogId + 1)
  PROVE  /\ LoadedNext(next, recs) \in 1..(MaxLogId + 1)
         /\ \A i \in Held(recs) : i < LoadedNext(next, recs)
         /\ Held(recs) # {} => next <= LoadedNext(next, recs)
  <1>1. MaxLogId \in Nat
    BY LogAssumption
  <1>2. CASE Held(recs) = {}
    BY <1>1, <1>2 DEF LoadedNext
  <1>3. CASE Held(recs) # {}
    <2>1. Held(recs) \subseteq LogIds
      BY DEF Held
    <2>2. PICK n \in Held(recs) : \A m \in Held(recs) : m <= n
      BY <1>3, <2>1, LastOf
    <2>3. PICK k \in LogIds \cup {MaxLogId + 1} :
            /\ \A i \in Held(recs) : i < k
            /\ k > 1 => recs[k - 1] # "absent"
      <3>1. n \in 1..MaxLogId /\ n \in Held(recs)
        BY <2>1, <1>1 DEF LogIds
      <3>2. PICK k : k = n + 1
        OBVIOUS
      <3>3. k - 1 = n /\ k \in LogIds \cup {MaxLogId + 1}
        BY <1>1, <3>1, <3>2 DEF LogIds
      <3>4. \A i \in Held(recs) : i < k
        BY <2>1, <2>2, <3>1, <3>2 DEF LogIds
      <3>5. recs[k - 1] # "absent"
        BY <3>1, <3>3 DEF Held
      <3> QED BY <3>3, <3>4, <3>5
    <2>4. /\ PastRows(recs) \in LogIds \cup {MaxLogId + 1}
          /\ \A i \in Held(recs) : i < PastRows(recs)
      <3> DEFINE Last(m) == /\ \A i \in Held(recs) : i < m
                            /\ m > 1 => recs[m - 1] # "absent"
      <3>1. Last(k)
        BY <2>3
      <3>2. PastRows(recs) = CHOOSE m \in LogIds \cup {MaxLogId + 1} : Last(m)
        BY DEF PastRows
      <3> HIDE DEF Last
      <3>3. PastRows(recs) \in LogIds \cup {MaxLogId + 1} /\ Last(PastRows(recs))
        BY <2>3, <3>1, <3>2
      <3> QED BY <3>3 DEF Last
    <2>5. PastRows(recs) \in 1..(MaxLogId + 1)
      BY <1>1, <2>4 DEF LogIds
    <2>6. CASE next > PastRows(recs)
      <3>1. LoadedNext(next, recs) = next
        BY <1>3, <2>6 DEF LoadedNext
      <3>2. \A i \in Held(recs) : i < next
        BY <1>1, <2>1, <2>4, <2>5, <2>6 DEF LogIds
      <3> QED BY <1>1, <2>5, <2>6, <3>1, <3>2
    <2>7. CASE ~(next > PastRows(recs))
      <3>1. LoadedNext(next, recs) = PastRows(recs)
        BY <1>3, <2>7 DEF LoadedNext
      <3> QED BY <1>1, <2>4, <2>5, <2>7, <3>1
    <2> QED BY <2>6, <2>7
  <1> QED BY <1>2, <1>3

(* A restart leaves no call, and either opens or refuses.                   *)
LEMMA RestoreStep ==
  ASSUME NEW recs \in Logs, NEW next \in 1..(MaxLogId + 1), Restore(next, recs)
  PROVE  /\ \A t \in Threads : pc'[t] = "idle" /\ target'[t] = 0 /\ asked'[t] = "absent" /\ before'[t] = {}
         /\ pc' \in [Threads -> {"idle"}] /\ target' \in [Threads -> {0}]
         /\ asked' \in [Threads -> {"absent"}] /\ before' \in [Threads -> {{}}]
         /\ UNCHANGED history
         /\ \/ /\ state' = "open" /\ nextId' = next /\ records' = recs
               /\ \A i \in Held(recs) : i < next
            \/ /\ state' = "refused" /\ nextId' = 1 /\ records' = EmptyLog
               /\ \E i \in Held(recs) : ~(i < next)
  BY DEF Restore, NewProcess

(* The table is opened with its own rows, or with the records of the file   *)
(* when it has none; only a file can be refused.                            *)
LEMMA OpenTableStep ==
  ASSUME rows \in Logs, metaNext \in 0..(MaxLogId + 1),
         NEW recs \in Logs, NEW next \in 1..(MaxLogId + 1), OpenTable(next, recs)
  PROVE  /\ \A t \in Threads : pc'[t] = "idle" /\ target'[t] = 0 /\ asked'[t] = "absent" /\ before'[t] = {}
         /\ pc' \in [Threads -> {"idle"}] /\ target' \in [Threads -> {0}]
         /\ asked' \in [Threads -> {"absent"}] /\ before' \in [Threads -> {{}}]
         /\ UNCHANGED history
         /\ \/ /\ ~Imports(recs) /\ state' = "open" /\ nextId' = LoadedNext(metaNext, rows)
               /\ records' = rows /\ UNCHANGED table
            \/ /\ Imports(recs) /\ state' = "open" /\ nextId' = next /\ metaNext' = next
               /\ records' = recs /\ rows' = recs /\ \A i \in Held(recs) : i < next
            \/ /\ Imports(recs) /\ state' = "refused" /\ nextId' = 1 /\ records' = EmptyLog /\ UNCHANGED table
  <1>1. CASE ~Imports(recs)
    <2>1. Restore(LoadedNext(metaNext, rows), rows) /\ UNCHANGED table
      BY <1>1 DEF OpenTable
    <2>2. LoadedNext(metaNext, rows) \in 1..(MaxLogId + 1) /\ \A i \in Held(rows) : i < LoadedNext(metaNext, rows)
      BY LoadedNextPast
    <2>3. PICK m \in 1..(MaxLogId + 1) : m = LoadedNext(metaNext, rows)
      BY <2>2
    <2> QED BY <1>1, <2>1, <2>2, <2>3, RestoreStep
  <1>2. CASE Imports(recs)
    <2>1. /\ Restore(next, recs)
          /\ rows' = (IF state' = "open" THEN recs ELSE rows)
          /\ metaNext' = (IF state' = "open" THEN next ELSE metaNext)
      BY <1>2 DEF OpenTable
    <2> QED BY <1>2, <2>1, RestoreStep DEF table
  <1> QED BY <1>1, <1>2

---------------------------------------------------------------------------
(* Types                                                                    *)

LEMMA CallTyped ==
  ASSUME Typed, NEW t \in Threads, Call(t)
  PROVE  Typed'
  <1> USE LogAssumption DEF Typed, TypeOK, LogTypeOK, FileTypeOK, SqlTypeOK, fileVars, sqlVars, snap, file, table, Pcs
  <1>0. UNCHANGED <<fileVars, sqlVars, backend>>
    BY DEF Call
  <1>1. CASE Allocate(t)
    BY <1>0, <1>1 DEF Allocate, Ready, Go, history, LogIds, MaybePhases, Phases, InFlight
  <1>2. CASE Insert(t)
    BY <1>0, <1>2 DEF Insert, Go, history, Logs, MaybePhases, Phases, InFlight
  <1>3. CASE UpdatePhase(t)
    <2>1. PICK i \in LogIds, p \in Phases :
            /\ records' = [records EXCEPT ![i] = p] /\ target' = [target EXCEPT ![t] = i]
            /\ asked' = [asked EXCEPT ![t] = p] /\ raced' = Raced(i)
      BY <1>3 DEF UpdatePhase, Held
    <2>2. raced' \subseteq LogIds
      BY <2>1 DEF Raced
    <2>3. /\ records' \in Logs /\ target' \in [Threads -> 0..MaxLogId] /\ asked' \in [Threads -> MaybePhases]
      BY <2>1 DEF Logs, LogIds, MaybePhases
    <2> QED BY <1>0, <1>3, <2>2, <2>3 DEF UpdatePhase, Go
  <1>4. CASE StartCompaction(t)
    BY <1>0, <1>4 DEF StartCompaction, Go, history, Held
  <1>5. CASE DropRecord(t)
    <2>1. PICK i \in LogIds :
            /\ records' = [records EXCEPT ![i] = "absent"] /\ compacted' = compacted \cup {i}
            /\ raced' = IF i \in before[t] THEN Raced(i) ELSE raced \cup {i}
      BY <1>5 DEF DropRecord, Compactable
    <2>2. raced' \subseteq LogIds /\ records' \in Logs
      BY <2>1 DEF Raced, Logs, MaybePhases
    <2> QED BY <1>0, <1>5, <2>1, <2>2 DEF DropRecord, calls
  <1>6. CASE EndCompaction(t)
    BY <1>0, <1>6 DEF EndCompaction, Go, history
  <1> QED BY <1>1, <1>2, <1>3, <1>4, <1>5, <1>6 DEF Call, LogCall

(* What a call that returns leaves behind.                                  *)
LEMMA ReturnTyped ==
  ASSUME Typed, NEW t \in Threads, Return(t)
  PROVE  /\ pc' \in [Threads -> Pcs] /\ target' \in [Threads -> 0..MaxLogId]
         /\ asked' \in [Threads -> MaybePhases] /\ before' \in [Threads -> SUBSET LogIds]
  BY LogAssumption DEF Return, Go, Typed, TypeOK, LogTypeOK, MaybePhases, Pcs

LEMMA FileTyped ==
  ASSUME Typed, NEW t \in Threads, OnFile(t)
  PROVE  Typed'
  <1> USE LogAssumption DEF Typed, TypeOK, LogTypeOK, FileTypeOK, SqlTypeOK, logVars, sqlVars, snap, file, table, history
  <1>0. UNCHANGED <<sqlVars, backend>> /\ EmptyLog \in Logs
    BY DEF OnFile, EmptyLog, Logs, MaybePhases
  <1>1. CASE NoteDirty(t)
    <2>1. /\ pc' \in [Threads -> Pcs] /\ target' \in [Threads -> 0..MaxLogId]
          /\ asked' \in [Threads -> MaybePhases] /\ before' \in [Threads -> SUBSET LogIds] /\ acked' \in Logs
      BY <1>1, ReturnTyped, AckStep DEF NoteDirty, ReturnOk, Go, Pcs, FilePcs
    <2> QED BY <1>0, <1>1, <2>1 DEF NoteDirty
  <1>2. CASE LockFlush(t)
    BY <1>0, <1>2 DEF LockFlush, Go, Pcs, FilePcs
  <1>3. CASE CopyRecords(t)
    BY <1>0, <1>3 DEF CopyRecords, Go, Pcs, FilePcs
  <1>4. CASE Rename(t)
    <2>1. /\ snapRecs' \in [Threads -> Logs] /\ snapNext' \in [Threads -> 1..(MaxLogId + 1)]
          /\ fileRecs' \in Logs /\ fileNext' \in 1..(MaxLogId + 1)
      BY <1>0, <1>4 DEF Rename
    <2>2. pc' \in [Threads -> Pcs]
      BY <1>4 DEF Rename, Go, Pcs, FilePcs
    <2> QED BY <1>0, <1>4, <2>1, <2>2 DEF Rename
  <1>5. CASE FlushFails(t)
    <2>1. snapRecs' \in [Threads -> Logs] /\ snapNext' \in [Threads -> 1..(MaxLogId + 1)] /\ stops' \in 0..MaxStops
      BY <1>0, <1>5 DEF FlushFails, Stop
    <2> QED BY <1>0, <1>5, <2>1, ReturnTyped DEF FlushFails
  <1>6. CASE ClearDirty(t)
    BY <1>0, <1>6, ReturnTyped, AckStep DEF ClearDirty, ReturnOk
  <1> QED BY <1>1, <1>2, <1>3, <1>4, <1>5, <1>6 DEF OnFile, FileStep

LEMMA TableTyped ==
  ASSUME Typed, NEW t \in Threads, Fits(t), OnTable(t)
  PROVE  Typed'
  <1> USE LogAssumption DEF Typed, TypeOK, LogTypeOK, FileTypeOK, SqlTypeOK, memoryVars, fileVars, sqlVars, snap, file, table, history
  <1>0. UNCHANGED <<fileVars, backend>>
    BY DEF OnTable
  <1>1. CASE ReadBack(t)
    <2>1. /\ pc' \in [Threads -> Pcs] /\ target' \in [Threads -> 0..MaxLogId]
          /\ asked' \in [Threads -> MaybePhases] /\ before' \in [Threads -> SUBSET LogIds] /\ acked' \in Logs
      BY <1>1, ReturnTyped, AckStep DEF ReadBack, ReturnOk, Go, Pcs, SqlPcs
    <2>2. records[target[t]] \in MaybePhases
      BY <1>1 DEF Fits, ReadBack, Logs, LogIds
    <2>3. read' \in [Threads -> MaybePhases]
      BY <1>1, <2>2 DEF ReadBack
    <2> QED BY <1>0, <1>1, <2>1, <2>3 DEF ReadBack
  <1>2. CASE PersistRow(t)
    <2>1. /\ pc' \in [Threads -> Pcs] /\ target' \in [Threads -> 0..MaxLogId]
          /\ asked' \in [Threads -> MaybePhases] /\ before' \in [Threads -> SUBSET LogIds] /\ acked' \in Logs
      BY <1>2, ReturnTyped, AckStep DEF PersistRow, ReturnOk, Go, Pcs, SqlPcs
    <2>2. rows' \in Logs /\ read' \in [Threads -> MaybePhases]
      BY <1>2 DEF PersistRow, Unread, Logs, MaybePhases
    <2> QED BY <1>0, <1>2, <2>1, <2>2 DEF PersistRow
  <1>3. CASE PersistCounter(t)
    BY <1>0, <1>3, ReturnTyped, AckStep DEF PersistCounter, ReturnOk
  <1>4. CASE PersistFails(t)
    <2>1. read' \in [Threads -> MaybePhases] /\ stops' \in 0..MaxStops /\ broken' \subseteq LogIds /\ torn' \in BOOLEAN
      <3>1. target[t] \in LogIds
        BY <1>4 DEF PersistFails, Fits, LogIds
      <3> QED BY <1>4, <3>1 DEF PersistFails, Unread, Stop, MaybePhases
    <2> QED BY <1>0, <1>4, <2>1, ReturnTyped DEF PersistFails
  <1>5. CASE LockDelete(t)
    BY <1>0, <1>5 DEF LockDelete, Go, Pcs, SqlPcs
  <1>6. CASE DeleteRow(t)
    <2>1. rows' \in Logs /\ before' \in [Threads -> SUBSET LogIds]
      BY <1>6 DEF DeleteRow, Logs, MaybePhases
    <2> QED BY <1>0, <1>6, <2>1 DEF DeleteRow
  <1>7. CASE DeleteFails(t)
    BY <1>0, <1>7, ReturnTyped DEF DeleteFails, Stop
  <1>8. CASE EndDelete(t)
    BY <1>0, <1>8, ReturnTyped, AckStep DEF EndDelete, ReturnOk
  <1> QED BY <1>1, <1>2, <1>3, <1>4, <1>5, <1>6, <1>7, <1>8 DEF OnTable, SqlStep

(* What a restart leaves alone or sets anew.                                *)
LEMMA RestartTyped ==
  ASSUME Typed, Crash \/ Shutdown \/ Migrate
  PROVE  Typed'
  <1> USE LogAssumption DEF Typed, TypeOK, LogTypeOK, FileTypeOK, SqlTypeOK
  <1>0. /\ 1 \in 1..(MaxLogId + 1) /\ MaxLogId \in Nat /\ EmptyLog \in Logs /\ "idle" \in Pcs /\ "absent" \in MaybePhases
        /\ NothingRead \in [Threads -> MaybePhases] /\ NoCounter \in [Threads -> 1..(MaxLogId + 1)]
        /\ NoRecords \in [Threads -> Logs]
    BY LogAssumption DEF EmptyLog, Logs, MaybePhases, Pcs, NothingRead, NoCounter, NoRecords
  <1>1. ASSUME NEW recs \in Logs, NEW next \in 1..(MaxLogId + 1), Restore(next, recs)
        PROVE  /\ nextId' \in 1..(MaxLogId + 1) /\ records' \in Logs /\ state' \in {"open", "refused"}
               /\ pc' \in [Threads -> Pcs] /\ target' \in [Threads -> 0..MaxLogId]
               /\ asked' \in [Threads -> MaybePhases] /\ before' \in [Threads -> SUBSET LogIds]
               /\ UNCHANGED history
    BY <1>0, <1>1, RestoreStep
  <1>2. ASSUME SqlRestart(fileNext, fileRecs)
        PROVE  /\ nextId' \in 1..(MaxLogId + 1) /\ records' \in Logs /\ state' \in {"open", "refused"}
               /\ pc' \in [Threads -> Pcs] /\ target' \in [Threads -> 0..MaxLogId]
               /\ asked' \in [Threads -> MaybePhases] /\ before' \in [Threads -> SUBSET LogIds]
               /\ UNCHANGED history /\ stops' \in 0..MaxStops /\ SqlTypeOK'
    <2>1. OpenTable(fileNext, fileRecs) /\ stops' \in 0..MaxStops /\ read' = NothingRead /\ broken' = {} /\ torn' \in BOOLEAN
      BY <1>2 DEF SqlRestart, Stop, SqlReset
    <2>2. LoadedNext(metaNext, rows) \in 1..(MaxLogId + 1)
      BY LoadedNextPast
    <2>3. nextId' \in 1..(MaxLogId + 1) /\ records' \in Logs /\ state' \in {"open", "refused"} /\ rows' \in Logs
          /\ metaNext' \in 0..(MaxLogId + 1)
      BY <1>0, <2>1, <2>2, OpenTableStep DEF table
    <2>4. /\ pc' \in [Threads -> Pcs] /\ target' \in [Threads -> 0..MaxLogId]
          /\ asked' \in [Threads -> MaybePhases] /\ before' \in [Threads -> SUBSET LogIds]
          /\ UNCHANGED history
      BY <1>0, <2>1, OpenTableStep
    <2> QED BY <1>0, <2>1, <2>3, <2>4
  <1>3. CASE Crash /\ backend = "json"
    <2>1. Restore(fileNext, fileRecs) /\ FileReset /\ UNCHANGED <<file, sqlVars, backend>> /\ stops' \in 0..MaxStops
      BY <1>3 DEF Crash, FileCrash, Stop
    <2> QED BY <1>0, <1>1, <2>1 DEF FileReset, file, sqlVars, table, history
  <1>4. CASE Crash /\ backend # "json"
    BY <1>2, <1>4 DEF Crash, fileVars, snap, file, history
  <1>5. CASE Shutdown
    <2>1. /\ Restore(fileNext', fileRecs') /\ FileReset /\ UNCHANGED <<sqlVars, backend>> /\ stops' \in 0..MaxStops
          /\ fileNext' \in {nextId, fileNext} /\ fileRecs' \in {records, fileRecs}
      BY <1>5 DEF Shutdown, FileShutdown, Stop
    <2>2. fileNext' \in 1..(MaxLogId + 1) /\ fileRecs' \in Logs
      BY <2>1
    <2>3. PICK next \in 1..(MaxLogId + 1), recs \in Logs : next = fileNext' /\ recs = fileRecs'
      BY <2>2
    <2> QED BY <1>0, <1>1, <2>1, <2>2, <2>3 DEF FileReset, sqlVars, table, history
  <1>6. CASE Migrate
    BY <1>0, <1>2, <1>6 DEF Migrate, FileReset, file, history
  <1> QED BY <1>3, <1>4, <1>5, <1>6

LEMMA TypedStep ==
  ASSUME CallsInv, [Next]_vars
  PROVE  Typed'
  <1>0. Typed
    BY DEF CallsInv
  <1>1. CASE UNCHANGED vars
    BY <1>0, <1>1 DEF vars, logVars, calls, history, fileVars, sqlVars, snap, file, table, Typed, TypeOK, LogTypeOK,
                      FileTypeOK, SqlTypeOK
  <1>2. ASSUME NEW t \in Threads, OnTable(t) PROVE Typed'
    <2>1. pc[t] # "idle"
      BY <1>2 DEF OnTable, SqlStep, ReadBack, PersistRow, PersistCounter, PersistFails, LockDelete, DeleteRow, DeleteFails, EndDelete
    <2>2. Fits(t)
      BY <1>0, <2>1, OpenOrRefused DEF CallsInv, Memory
    <2> QED BY <1>0, <1>2, <2>2, TableTyped
  <1> QED BY <1>0, <1>1, <1>2, CallTyped, FileTyped, RestartTyped DEF Next

---------------------------------------------------------------------------
(* The calls and the memory                                                 *)

(* Another thread's call is as it was.                                      *)
Apart(t) ==
  \A u \in Threads \ {t} :
    pc'[u] = pc[u] /\ target'[u] = target[u] /\ asked'[u] = asked[u] /\ before'[u] = before[u]

LEMMA MemoryFrame ==
  ASSUME Memory, NEW t \in Threads, Apart(t), UNCHANGED <<nextId, records, compacted, raced>>,
         target'[t] \in {0, target[t]}, before'[t] \subseteq before[t], Fits(t)'
  PROVE  Memory'
  <1>1. ASSUME NEW u \in Threads \ {t} PROVE Fits(u)'
    <2>1. Fits(u) /\ pc'[u] = pc[u] /\ target'[u] = target[u] /\ asked'[u] = asked[u] /\ before'[u] = before[u]
      BY DEF Memory, Apart
    <2>2. \A v \in Threads : target'[v] \in {0, target[v]} /\ before'[v] \subseteq before[v]
      BY DEF Apart
    <2> QED BY <2>1, <2>2 DEF Fits, Held
  <1>2. Meeting'
    BY DEF Memory, Meeting, Apart
  <1> QED BY <1>1, <1>2 DEF Memory, Held

LEMMA GoesApart ==
  ASSUME Typed, NEW t \in Threads, NEW l, Go(t, l), UNCHANGED <<target, asked, before>>
  PROVE  Apart(t) /\ pc'[t] = l
  BY DEF Go, Typed, Apart

LEMMA ReturnApart ==
  ASSUME Typed, NEW t \in Threads, Return(t)
  PROVE  Apart(t) /\ pc'[t] = "idle" /\ target'[t] = 0 /\ asked'[t] = "absent" /\ before'[t] = {}
  BY DEF Return, Go, Typed, TypeOK, LogTypeOK, Apart

LEMMA MemoryGoes ==
  ASSUME Typed, Memory, NEW t \in Threads, NEW l, Go(t, l), UNCHANGED <<target, asked, before>>,
         UNCHANGED <<nextId, records, compacted, raced>>,
         l \in FilePcs \cup SqlPcs, pc[t] \notin {"idle", "insert"},
         l \in {"persist", "meta"} => pc[t] \in {"changed", "persist"},
         l = "delete" => pc[t] = "compacted"
  PROVE  Memory'
  <1>1. Apart(t) /\ pc'[t] = l
    BY GoesApart
  <1>2. Fits(t)
    BY DEF Memory
  <1>3. Fits(t)'
    BY <1>1, <1>2 DEF Fits, Held, FilePcs, SqlPcs
  <1> QED BY <1>1, <1>3, MemoryFrame

LEMMA MemoryReturns ==
  ASSUME Typed, Memory, NEW t \in Threads, Return(t), UNCHANGED <<nextId, records, compacted, raced>>
  PROVE  Memory'
  <1>1. /\ Apart(t) /\ pc'[t] = "idle" /\ target'[t] = 0 /\ asked'[t] = "absent" /\ before'[t] = {}
        /\ nextId \in 1..(MaxLogId + 1)
    BY ReturnApart DEF Typed, TypeOK, LogTypeOK
  <1>2. Fits(t)'
    BY <1>1, LogAssumption DEF Fits
  <1> QED BY <1>1, <1>2, MemoryFrame

(* The last record is never dropped.                                        *)
LEMMA DropLeavesOne ==
  ASSUME Typed, NEW i \in LogIds, Cardinality(Held(records)) > Retained, records[i] # "absent"
  PROVE  \E j \in Held(records) : j # i
  <1>1. Cardinality({i}) = 1
    BY FS_Singleton
  <1>2. SUFFICES ASSUME \A j \in Held(records) : j = i PROVE FALSE
    OBVIOUS
  <1>3. Held(records) = {i}
    BY <1>2 DEF Held
  <1> QED BY <1>1, <1>3, LogAssumption

LEMMA MemoryCall ==
  ASSUME Typed, Memory, NEW t \in Threads, LogCall(t)
  PROVE  Memory'
  <1>0. /\ \A u \in Threads : Fits(u)
        /\ nextId \in 1..(MaxLogId + 1) /\ MaxLogId \in Nat /\ LogIds \subseteq Nat /\ LogIds = 1..MaxLogId
        /\ \A u \in Threads : target[u] \in 0..MaxLogId /\ before[u] \subseteq LogIds /\ asked[u] \in MaybePhases
        /\ records \in [LogIds -> MaybePhases]
    BY LogAssumption DEF Memory, Typed, TypeOK, LogTypeOK, Logs, LogIds
  <1>1. CASE Allocate(t)
    <2>1. /\ Apart(t) /\ pc[t] = "idle" /\ pc'[t] = "insert" /\ target'[t] = nextId /\ asked'[t] = "Pending" /\ before' = before
          /\ nextId \in LogIds /\ nextId' = nextId + 1 /\ UNCHANGED <<records, compacted, raced>>
      BY <1>0, <1>1 DEF Allocate, Ready, Go, Apart, Typed, TypeOK, LogTypeOK, history
    <2>2. records[nextId] = "absent" /\ \A u \in Threads : target[u] # nextId /\ nextId \notin before[u]
      BY <1>0, <2>1 DEF Fits, Memory, Held
    <2>3. ASSUME NEW u \in Threads \ {t} PROVE Fits(u)'
      <3>1. Fits(u) /\ pc'[u] = pc[u] /\ target'[u] = target[u] /\ asked'[u] = asked[u] /\ before'[u] = before[u]
        BY <1>0, <2>1 DEF Apart
      <3>2. \A v \in Threads \ {t} : target'[v] = target[v]
        BY <2>1 DEF Apart
      <3> QED BY <1>0, <2>1, <2>2, <3>1, <3>2 DEF Fits, Held
    <2>4. Fits(t)'
      <3>1. Fits(t) /\ before'[t] = before[t]
        BY <1>0, <2>1
      <3>2. \A v \in Threads \ {t} : target'[v] = target[v]
        BY <2>1 DEF Apart
      <3> QED BY <1>0, <2>1, <2>2, <3>1, <3>2 DEF Fits, Held
    <2>5. Meeting'
      BY <1>0, <2>1, <2>2 DEF Meeting, Memory, Apart
    <2>6. \A i \in Held(records') : i < nextId'
      BY <1>0, <2>1 DEF Memory, Held
    <2> QED BY <2>3, <2>4, <2>5, <2>6 DEF Memory, Held
  <1>2. CASE Insert(t)
    <2> DEFINE i == target[t]
    <2>1. /\ Apart(t) /\ pc[t] = "insert" /\ pc'[t] = "changed" /\ UNCHANGED <<target, asked, before, nextId, compacted, raced>>
          /\ records' = [records EXCEPT ![i] = "Pending"]
      BY <1>0, <1>2, GoesApart DEF Insert, history
    <2>2. /\ i \in LogIds /\ i < nextId /\ asked[t] = "Pending" /\ records[i] = "absent"
          /\ \A u \in Threads \ {t} : target[u] # i
          /\ \A u \in Threads : i \notin before[u]
      BY <1>0, <2>1 DEF Fits
    <2>3. Held(records)' = Held(records) \cup {i} /\ records'[i] = "Pending" /\ \A j \in LogIds \ {i} : records'[j] = records[j]
      BY <1>0, <2>1, <2>2 DEF Held
    <2>4. ASSUME NEW u \in Threads \ {t} PROVE Fits(u)'
      <3>1. Fits(u) /\ pc'[u] = pc[u] /\ target[u] # i /\ i \notin before[u]
        BY <1>0, <2>1, <2>2 DEF Apart
      <3>2. pc[u] \in {"insert", "changed"} => target[u] \in LogIds \ {i}
        BY <1>0, <3>1 DEF Fits
      <3>3. pc[u] \in {"insert", "changed"} => records'[target[u]] = records[target[u]]
        BY <2>3, <3>2
      <3>4. CASE pc[u] = "insert"
        BY <2>1, <2>3, <3>1, <3>3, <3>4 DEF Fits
      <3>5. CASE pc[u] = "changed"
        BY <2>1, <2>3, <3>1, <3>3, <3>5 DEF Fits
      <3>6. CASE pc[u] \notin {"insert", "changed"}
        BY <2>1, <2>3, <3>1, <3>6 DEF Fits
      <3> QED BY <3>4, <3>5, <3>6
    <2>5. Fits(t)'
      BY <1>0, <2>1, <2>2, <2>3 DEF Fits
    <2> QED BY <1>0, <2>1, <2>2, <2>3, <2>4, <2>5 DEF Memory, Meeting
  <1>3. CASE UpdatePhase(t)
    <2>1. PICK i \in Held(records), p \in Asked :
            /\ records[i] # p /\ CanTransitionTo(records[i], p)
            /\ records' = [records EXCEPT ![i] = p]
            /\ target' = [target EXCEPT ![t] = i] /\ asked' = [asked EXCEPT ![t] = p]
            /\ raced' = Raced(i)
      BY <1>3 DEF UpdatePhase
    <2>2. /\ Apart(t) /\ pc[t] = "idle" /\ pc'[t] = "changed" /\ target'[t] = i /\ asked'[t] = p
          /\ UNCHANGED <<before, nextId, compacted>>
      BY <1>0, <1>3, <2>1 DEF UpdatePhase, Ready, Go, Apart, Typed, TypeOK, LogTypeOK
    <2>3. i \in LogIds /\ i < nextId /\ p # "absent" /\ records[i] # "absent"
      BY <2>1, LogAssumption DEF Held, Memory, Phases, InFlight, Terminal
    <2>4. Held(records)' = Held(records) /\ records'[i] = p /\ \A j \in LogIds \ {i} : records'[j] = records[j]
      BY <1>0, <2>1, <2>3 DEF Held
    <2>5. raced \subseteq raced' /\ \A u \in Threads : target[u] = i => i \in raced'
      BY <2>1 DEF Raced, InCall
    <2>6. ASSUME NEW u \in Threads \ {t} PROVE Fits(u)'
      <3>1. Fits(u) /\ pc'[u] = pc[u] /\ target'[u] = target[u] /\ asked'[u] = asked[u] /\ before'[u] = before[u]
        BY <1>0, <2>2 DEF Apart
      <3>2. \A v \in Threads \ {t} : target'[v] = target[v]
        BY <2>2 DEF Apart
      <3>3. CASE pc[u] = "insert"
        BY <1>0, <2>2, <2>3, <2>4, <2>5, <3>1, <3>2, <3>3 DEF Fits
      <3>4. CASE pc[u] # "insert"
        BY <1>0, <2>2, <2>3, <2>4, <2>5, <3>1, <3>4 DEF Fits
      <3> QED BY <3>3, <3>4
    <2>7. Fits(t)'
      <3>1. Fits(t) /\ before'[t] = before[t] /\ i # 0 /\ Held(records) # {}
        BY <1>0, <2>2, <2>3
      <3> QED BY <1>0, <2>2, <2>3, <2>4, <2>5, <3>1 DEF Fits
    <2>8. Meeting'
      BY <2>2, <2>5 DEF Meeting, Memory, Apart
    <2>9. \A j \in Held(records)' : j < nextId'
      BY <2>2, <2>4 DEF Memory
    <2> QED BY <2>6, <2>7, <2>8, <2>9 DEF Memory
  <1>4. CASE StartCompaction(t)
    <2>1. /\ Apart(t) /\ pc[t] = "idle" /\ pc'[t] = "compact" /\ before'[t] = Held(records)
          /\ UNCHANGED <<target, asked, nextId, records, compacted, raced>>
      BY <1>4 DEF StartCompaction, Ready, Go, Apart, Typed, TypeOK, LogTypeOK, history
    <2>2. ASSUME NEW u \in Threads \ {t} PROVE Fits(u)'
      <3>1. Fits(u) /\ pc'[u] = pc[u] /\ before'[u] = before[u]
        BY <1>0, <2>1 DEF Apart
      <3>2. \A v \in Threads : before'[v] = before[v] \/ before'[v] = Held(records)
        BY <2>1 DEF Apart
      <3> QED BY <1>0, <2>1, <3>1, <3>2 DEF Fits, Held
    <2>3. Held(records) # {}
      BY <1>4, FS_EmptySet, LogAssumption DEF StartCompaction
    <2>4. Fits(t)'
      BY <1>0, <2>1, <2>3 DEF Fits, Held, Memory
    <2> QED BY <2>1, <2>2, <2>4 DEF Memory, Meeting, Held
  <1>5. CASE DropRecord(t)
    <2>1. PICK i \in LogIds :
            /\ records[i] \in Terminal /\ records' = [records EXCEPT ![i] = "absent"] /\ compacted' = compacted \cup {i}
            /\ raced' = IF i \in before[t] THEN Raced(i) ELSE raced \cup {i}
      BY <1>5 DEF DropRecord, Compactable
    <2>2. UNCHANGED <<nextId, pc, target, asked, before>> /\ records[i] # "absent"
      BY <1>5, <2>1 DEF DropRecord, calls, Terminal
    <2>3. raced \subseteq raced' /\ \A u \in Threads : target[u] = i => i \in raced'
      BY <2>1 DEF Raced, InCall
    <2>4. Held(records)' = Held(records) \ {i} /\ \A j \in LogIds \ {i} : records'[j] = records[j]
      BY <1>0, <2>1 DEF Held
    <2>5. Held(records)' # {}
      <3>1. Cardinality(Held(records)) > Retained
        BY <1>5 DEF DropRecord
      <3> QED BY <2>2, <2>4, <3>1, DropLeavesOne
    <2>6. ASSUME NEW u \in Threads PROVE Fits(u)'
      <3>1. Fits(u)
        BY <1>0
      <3>2. target[u] = i => pc[u] # "insert"
        BY <2>2, <3>1 DEF Fits
      <3>3. pc[u] \in {"insert", "changed"} => target[u] \in LogIds
        BY <1>0, <3>1 DEF Fits
      <3>4. CASE pc[u] = "insert"
        <4>1. records'[target[u]] = records[target[u]]
          BY <2>4, <3>2, <3>3, <3>4
        <4> QED BY <2>2, <3>1, <3>4, <4>1 DEF Fits
      <3>5. CASE pc[u] = "changed"
        <4>1. target[u] \in raced' \/ records'[target[u]] = asked[u]
          BY <2>3, <2>4, <3>1, <3>3, <3>5 DEF Fits
        <4> QED BY <2>2, <2>5, <3>1, <3>5, <4>1 DEF Fits
      <3>6. CASE pc[u] \notin {"insert", "changed"}
        <4>1. before[u] \subseteq Held(records) \cup compacted => before[u] \subseteq Held(records)' \cup compacted'
          BY <2>1, <2>4
        <4>2. before[u] \subseteq compacted \ Held(records) => before[u] \subseteq compacted' \ Held(records)'
          BY <2>1, <2>4
        <4> QED BY <2>2, <2>5, <3>1, <3>6, <4>1, <4>2 DEF Fits
      <3> QED BY <3>4, <3>5, <3>6
    <2> QED BY <2>2, <2>3, <2>4, <2>6 DEF Memory, Meeting
  <1>6. CASE EndCompaction(t)
    <2>1. /\ Apart(t) /\ pc[t] = "compact" /\ pc'[t] = "compacted" /\ before'[t] = before[t] \ Held(records)
          /\ UNCHANGED <<target, asked, nextId, records, compacted, raced>>
      BY <1>6 DEF EndCompaction, Go, Apart, Typed, TypeOK, LogTypeOK, history
    <2>2. Fits(t)'
      BY <1>0, <2>1 DEF Fits, Held
    <2> QED BY <2>1, <2>2, MemoryFrame
  <1> QED BY <1>1, <1>2, <1>3, <1>4, <1>5, <1>6 DEF LogCall

LEMMA MemoryFile ==
  ASSUME Typed, Memory, NEW t \in Threads, FileStep(t)
  PROVE  Memory'
  <1> USE DEF logVars, history, FilePcs, SqlPcs
  <1>1. CASE NoteDirty(t)
    <2>1. UNCHANGED <<nextId, records, compacted, raced>> /\ pc[t] = "changed"
      BY <1>1 DEF NoteDirty
    <2>2. Return(t) \/ (Go(t, "lock") /\ UNCHANGED <<target, asked, before>>)
      BY <1>1 DEF NoteDirty, ReturnOk
    <2> QED BY <2>1, <2>2, MemoryReturns, MemoryGoes
  <1>2. CASE LockFlush(t)
    BY <1>2, MemoryGoes DEF LockFlush
  <1>3. CASE CopyRecords(t)
    BY <1>3, MemoryGoes DEF CopyRecords
  <1>4. CASE Rename(t)
    BY <1>4, MemoryGoes DEF Rename
  <1>5. CASE FlushFails(t)
    BY <1>5, MemoryReturns DEF FlushFails
  <1>6. CASE ClearDirty(t)
    BY <1>6, MemoryReturns DEF ClearDirty, ReturnOk
  <1> QED BY <1>1, <1>2, <1>3, <1>4, <1>5, <1>6 DEF FileStep

LEMMA MemoryTable ==
  ASSUME Typed, Memory, NEW t \in Threads, SqlStep(t)
  PROVE  Memory'
  <1> USE DEF memoryVars, history, FilePcs, SqlPcs
  <1>1. CASE ReadBack(t)
    <2>1. UNCHANGED <<nextId, records, compacted, raced>> /\ pc[t] = "changed"
      BY <1>1 DEF ReadBack
    <2>2. Return(t) \/ (Go(t, "persist") /\ UNCHANGED <<target, asked, before>>)
      BY <1>1 DEF ReadBack, ReturnOk
    <2> QED BY <2>1, <2>2, MemoryReturns, MemoryGoes
  <1>2. CASE PersistRow(t)
    <2>1. UNCHANGED <<nextId, records, compacted, raced>> /\ pc[t] = "persist"
      BY <1>2 DEF PersistRow
    <2>2. Return(t) \/ (Go(t, "meta") /\ UNCHANGED <<target, asked, before>>)
      BY <1>2 DEF PersistRow, ReturnOk
    <2> QED BY <2>1, <2>2, MemoryReturns, MemoryGoes
  <1>3. CASE PersistCounter(t)
    BY <1>3, MemoryReturns DEF PersistCounter, ReturnOk
  <1>4. CASE PersistFails(t)
    BY <1>4, MemoryReturns DEF PersistFails
  <1>5. CASE LockDelete(t)
    BY <1>5, MemoryGoes DEF LockDelete
  <1>6. CASE DeleteRow(t)
    <2>1. /\ Apart(t) /\ before'[t] \subseteq before[t]
          /\ UNCHANGED <<nextId, records, compacted, raced, pc, target, asked>>
      BY <1>6 DEF DeleteRow, Apart, Typed, TypeOK, LogTypeOK
    <2>2. Fits(t)
      BY DEF Memory
    <2>3. Fits(t)'
      <3>1. pc[t] = "delete"
        BY <1>6 DEF DeleteRow
      <3> QED BY <2>1, <2>2, <3>1 DEF Fits, Held
    <2> QED BY <2>1, <2>3, MemoryFrame
  <1>7. CASE DeleteFails(t)
    BY <1>7, MemoryReturns DEF DeleteFails
  <1>8. CASE EndDelete(t)
    BY <1>8, MemoryReturns DEF EndDelete, ReturnOk
  <1> QED BY <1>1, <1>2, <1>3, <1>4, <1>5, <1>6, <1>7, <1>8 DEF SqlStep

---------------------------------------------------------------------------
(* The file                                                                 *)

(* The memory never goes back, and never becomes empty.                     *)
Grows ==
  /\ \A i \in LogIds : i \in compacted' \/ Rank(records[i]) <= Rank(records'[i])
  /\ compacted \subseteq compacted' /\ raced \subseteq raced' /\ nextId <= nextId'
  /\ Held(records) # {} => Held(records') # {}
  /\ acked' = acked

(* Where a call is after a step in memory.                                  *)
Called(t) ==
  /\ Apart(t) /\ pc'[t] \in {"insert", "changed", "compact", "compacted"}
  /\ pc'[t] = "insert" =>
       pc[t] = "idle" /\ records' = records /\ raced' = raced /\ target'[t] = nextId /\ nextId' = nextId + 1
  /\ pc'[t] = "changed" =>
       /\ pc[t] \in {"idle", "insert"} /\ target'[t] \in LogIds /\ records'[target'[t]] = asked'[t] /\ asked'[t] # "absent"
       /\ \A i \in LogIds \ {target'[t]} : records'[i] = records[i]
       /\ pc[t] = "idle" => target'[t] \in Held(records) /\ asked'[t] # "Pending"
       /\ pc[t] = "insert" => target'[t] = target[t] /\ asked'[t] = asked[t]
  /\ pc'[t] = "compact" => pc[t] \in {"idle", "compact"}
  /\ pc'[t] = "compacted" => pc[t] = "compact"
  /\ pc'[t] \in {"compact", "compacted"} =>
       /\ target'[t] = 0 /\ asked'[t] = asked[t] /\ target'[t] = target[t]
       /\ \A i \in LogIds : records'[i] = records[i] \/ records'[i] = "absent"

LEMMA CallGrows ==
  ASSUME Typed, Memory, NEW t \in Threads, LogCall(t)
  PROVE  Grows /\ Called(t)
  <1>0. /\ \A u \in Threads : Fits(u)
        /\ records \in [LogIds -> MaybePhases]
        /\ pc \in [Threads -> Pcs] /\ target \in [Threads -> 0..MaxLogId] /\ asked \in [Threads -> MaybePhases]
        /\ before \in [Threads -> SUBSET LogIds] /\ LogIds = 1..MaxLogId /\ MaxLogId \in Nat
    BY LogAssumption DEF Memory, Typed, TypeOK, LogTypeOK, Logs, LogIds
  <1>b. nextId \in Nat /\ nextId <= nextId /\ nextId <= nextId + 1
    BY <1>0 DEF Typed, TypeOK, LogTypeOK
  <1>a. \A i \in LogIds : Rank(records[i]) \in Int /\ Rank(records[i]) <= Rank(records[i])
    <2> SUFFICES ASSUME NEW i \in LogIds PROVE Rank(records[i]) \in 0..4
      OBVIOUS
    <2>1. records[i] \in MaybePhases
      BY <1>0
    <2> QED BY <2>1, RankRange
  <1>1. CASE Allocate(t)
    <2>1. UNCHANGED <<records, compacted, raced, acked>> /\ nextId' = nextId + 1
      BY <1>1 DEF Allocate, history
    <2>2. Grows
      BY <1>b, <1>a, <2>1 DEF Grows
    <2>3. Called(t)
      BY <1>0, <1>1, <2>1 DEF Allocate, Ready, Go, Called, Apart
    <2> QED BY <2>2, <2>3
  <1>2. CASE Insert(t)
    <2> DEFINE i == target[t]
    <2>1. /\ Apart(t) /\ pc[t] = "insert" /\ pc'[t] = "changed" /\ UNCHANGED <<target, asked, before, nextId, compacted, raced, acked>>
          /\ records' = [records EXCEPT ![i] = "Pending"]
      BY <1>2, GoesApart DEF Insert, history
    <2>2. i \in LogIds /\ asked[t] = "Pending" /\ records[i] = "absent"
      BY <1>0, <2>1 DEF Fits
    <2>3. records'[i] = "Pending" /\ \A j \in LogIds \ {i} : records'[j] = records[j]
      BY <1>0, <2>1, <2>2
    <2>4. \A j \in LogIds : Rank(records[j]) <= Rank(records'[j])
      <3>1. Rank("absent") = 0 /\ Rank("Pending") = 1
        BY RankRange DEF MaybePhases
      <3> QED BY <1>a, <2>2, <2>3, <3>1
    <2>5. Held(records') # {}
      BY <2>2, <2>3 DEF Held
    <2>6. Grows
      BY <1>b, <2>1, <2>4, <2>5 DEF Grows
    <2>7. Called(t)
      BY <2>1, <2>2, <2>3 DEF Called
    <2> QED BY <2>6, <2>7
  <1>3. CASE UpdatePhase(t)
    <2>1. PICK i \in Held(records), p \in Asked :
            /\ records[i] # p /\ CanTransitionTo(records[i], p)
            /\ records' = [records EXCEPT ![i] = p]
            /\ target' = [target EXCEPT ![t] = i] /\ asked' = [asked EXCEPT ![t] = p]
            /\ raced' = Raced(i)
      BY <1>3 DEF UpdatePhase
    <2>2. /\ Apart(t) /\ pc[t] = "idle" /\ pc'[t] = "changed" /\ target'[t] = i /\ asked'[t] = p
          /\ UNCHANGED <<before, nextId, compacted, acked>>
      BY <1>0, <1>3, <2>1 DEF UpdatePhase, Ready, Go, Apart
    <2>3. i \in LogIds /\ records[i] \in Phases /\ p \in Phases
      BY <1>0, <2>1, LogAssumption DEF Held, MaybePhases
    <2>4. records'[i] = p /\ \A j \in LogIds \ {i} : records'[j] = records[j]
      BY <1>0, <2>1, <2>3
    <2>5. Rank(records[i]) <= Rank(p) /\ p # "Pending" /\ p # "absent"
      BY <2>1, <2>3, TransitionGoesUp
    <2>6. \A j \in LogIds : Rank(records[j]) <= Rank(records'[j])
      BY <1>a, <2>4, <2>5
    <2>7. Held(records') # {}
      BY <2>3, <2>4, <2>5 DEF Held
    <2>8. Grows
      BY <1>b, <2>1, <2>2, <2>6, <2>7 DEF Grows, Raced
    <2>9. Called(t)
      BY <2>1, <2>2, <2>3, <2>4, <2>5 DEF Called
    <2> QED BY <2>8, <2>9
  <1>4. CASE StartCompaction(t)
    <2>1. UNCHANGED <<records, compacted, raced, acked, nextId, target, asked>>
      BY <1>4 DEF StartCompaction, history
    <2>2. Grows
      BY <1>b, <1>a, <2>1 DEF Grows
    <2>3. Called(t)
      BY <1>0, <1>4, <2>1 DEF StartCompaction, Ready, Go, Called, Apart, Fits
    <2> QED BY <2>2, <2>3
  <1>5. CASE DropRecord(t)
    <2>1. PICK i \in LogIds :
            /\ records[i] \in Terminal /\ records' = [records EXCEPT ![i] = "absent"] /\ compacted' = compacted \cup {i}
            /\ raced' = IF i \in before[t] THEN Raced(i) ELSE raced \cup {i}
      BY <1>5 DEF DropRecord, Compactable
    <2>2. /\ UNCHANGED <<nextId, pc, target, asked, before, acked>> /\ records[i] # "absent" /\ pc[t] = "compact"
          /\ Cardinality(Held(records)) > Retained
      BY <1>5, <2>1 DEF DropRecord, calls, Terminal
    <2>3. raced \subseteq raced'
      BY <2>1 DEF Raced
    <2>4. records'[i] = "absent" /\ \A j \in LogIds \ {i} : records'[j] = records[j]
      BY <1>0, <2>1
    <2>5. Held(records') # {}
      <3>1. PICK j \in Held(records) : j # i
        BY <2>2, DropLeavesOne
      <3> QED BY <2>4, <3>1 DEF Held
    <2>6. \A j \in LogIds : j \in compacted' \/ Rank(records[j]) <= Rank(records'[j])
      BY <1>a, <2>1, <2>4
    <2>7. Grows
      BY <1>b, <2>1, <2>2, <2>3, <2>5, <2>6 DEF Grows
    <2>8. Called(t)
      BY <1>0, <2>2, <2>4 DEF Called, Apart, Fits
    <2> QED BY <2>7, <2>8
  <1>6. CASE EndCompaction(t)
    <2>1. UNCHANGED <<records, compacted, raced, acked, nextId, target, asked>>
      BY <1>6 DEF EndCompaction, history
    <2>2. Grows
      BY <1>b, <1>a, <2>1 DEF Grows
    <2>3. Called(t)
      BY <1>0, <1>6, <2>1 DEF EndCompaction, Go, Called, Apart, Fits
    <2> QED BY <2>2, <2>3
  <1> QED BY <1>1, <1>2, <1>3, <1>4, <1>5, <1>6 DEF LogCall

(* What had come no further than the memory, still has not.                 *)
LEMMA UptoMemory ==
  ASSUME Typed, Typed', Grows, NEW i \in LogIds, NEW p \in MaybePhases, Upto(p, records[i], i)
  PROVE  i \in compacted' \/ Rank(p) <= Rank(records'[i])
  <1>1. records[i] \in MaybePhases /\ records'[i] \in MaybePhases
    BY DEF Typed, TypeOK, LogTypeOK, Logs
  <1>2. Rank(p) \in Int /\ Rank(records[i]) \in Int /\ Rank(records'[i]) \in Int
    BY <1>1, RankRange
  <1> QED BY <1>2 DEF Grows, Upto

LEMMA TypesOf ==
  ASSUME Typed
  PROVE  /\ nextId \in Nat /\ fileNext \in Nat /\ metaNext \in Nat /\ snapNext \in [Threads -> Nat]
         /\ records \in [LogIds -> MaybePhases] /\ fileRecs \in [LogIds -> MaybePhases]
         /\ rows \in [LogIds -> MaybePhases] /\ acked \in [LogIds -> MaybePhases]
         /\ snapRecs \in [Threads -> [LogIds -> MaybePhases]] /\ read \in [Threads -> MaybePhases]
         /\ target \in [Threads -> 0..MaxLogId] /\ asked \in [Threads -> MaybePhases]
         /\ pc \in [Threads -> Pcs] /\ before \in [Threads -> SUBSET LogIds]
         /\ LogIds = 1..MaxLogId /\ MaxLogId \in Nat
  <1>1. MaxLogId \in Nat /\ LogIds = 1..MaxLogId
    BY LogAssumption DEF LogIds
  <1> QED BY <1>1 DEF Typed, TypeOK, LogTypeOK, FileTypeOK, SqlTypeOK, Logs

LEMMA FileInvCall ==
  ASSUME Typed, Typed', Memory, FileInv, NEW t \in Threads, Call(t)
  PROVE  FileInv'
  <1>0. /\ Grows /\ Called(t) /\ UNCHANGED <<fileVars, sqlVars, backend>>
        /\ UNCHANGED <<flushLock, snapNext, snapRecs, fileNext, fileRecs, behind, acked>>
    BY CallGrows DEF Call, fileVars, snap, file, Grows
  <1>1. /\ nextId \in Nat /\ nextId' \in Nat /\ nextId <= nextId' /\ compacted \subseteq compacted'
        /\ fileNext \in Nat /\ snapNext \in [Threads -> Nat]
        /\ \A i \in LogIds : fileRecs[i] \in MaybePhases /\ \A u \in Threads : snapRecs[u][i] \in MaybePhases
        /\ \A u \in Threads : asked[u] \in MaybePhases /\ target[u] \in 0..MaxLogId
        /\ LogIds = 1..MaxLogId /\ MaxLogId \in Nat
        /\ asked' \in [Threads -> MaybePhases] /\ records' \in [LogIds -> MaybePhases]
    <2>1. Grows
      BY <1>0
    <2>2. nextId' \in Nat /\ asked' \in [Threads -> MaybePhases] /\ records' \in [LogIds -> MaybePhases]
      BY DEF Typed, TypeOK, LogTypeOK, Logs
    <2> QED BY <2>1, <2>2, TypesOf DEF Grows
  <1>2. ASSUME NEW i \in LogIds, NEW p \in MaybePhases, Upto(p, records[i], i)
        PROVE  i \in compacted' \/ Rank(p) <= Rank(records'[i])
    BY <1>0, <1>2, UptoMemory
  <1>3. Untouched'
    BY <1>0 DEF FileInv, Untouched, sqlVars, table
  <1>4. ASSUME NEW u \in Threads \ {t} PROVE InFlush(u)'
    <2>1. /\ InFlush(u) /\ pc'[u] = pc[u] /\ target'[u] = target[u] /\ asked'[u] = asked[u]
      BY <1>0 DEF FileInv, Called, Apart
    <2>2. pc[u] \in {"copy", "rename"} => nextId <= nextId' /\ snapNext[u] <= nextId'
      BY <1>1, <2>1 DEF InFlush
    <2>3. ASSUME pc[u] = "rename", NEW i \in LogIds
          PROVE  Upto(fileRecs[i], snapRecs[u][i], i)' /\ Upto(snapRecs[u][i], records[i], i)'
      BY <1>0, <1>1, <1>2, <2>1, <2>3 DEF InFlush, Upto
    <2>4. target[u] # 0 /\ pc[u] \in {"changed", "lock", "copy"} => Upto(asked[u], records[target[u]], target[u])'
      BY <1>1, <1>2, <2>1 DEF InFlush, Upto
    <2>5. target[u] # 0 =>
            /\ pc[u] = "rename" => Upto(asked[u], snapRecs[u][target[u]], target[u])'
            /\ pc[u] = "clear" => Upto(asked[u], fileRecs[target[u]], target[u])'
      BY <1>0, <1>1, <2>1 DEF InFlush, Upto
    <2> QED BY <1>0, <2>1, <2>2, <2>3, <2>4, <2>5 DEF InFlush, Held
  <1>5. InFlush(t)'
    <2>1. pc'[t] = "insert" => acked'[target'[t]] = "absent"
      <3>1. pc'[t] = "insert" => target'[t] = nextId /\ nextId' = nextId + 1
        BY <1>0 DEF Called
      <3>2. pc'[t] = "insert" => target'[t] \in LogIds
        <4>1. target' \in [Threads -> 0..MaxLogId]
          BY DEF Typed, TypeOK, LogTypeOK
        <4>2. nextId # 0
          BY DEF Typed, TypeOK, LogTypeOK
        <4> QED BY <1>1, <3>1, <4>1, <4>2
      <3>3. acked[nextId] # "absent" /\ nextId \in LogIds => nextId < fileNext
        BY DEF FileInv, Saves
      <3> QED BY <1>0, <1>1, <3>1, <3>2, <3>3 DEF FileInv
    <2>2. pc'[t] = "changed" => Upto(asked[t], records[target[t]], target[t])'
      <3>1. \A p \in MaybePhases : Rank(p) \in Int
        BY RankRange
      <3>2. pc'[t] = "changed" => records'[target'[t]] = asked'[t]
        BY <1>0 DEF Called
      <3> QED BY <1>1, <3>1, <3>2 DEF Upto
    <2>3. pc'[t] \in {"compact", "compacted"} => target'[t] = 0
      BY <1>0 DEF Called
    <2> QED BY <1>0, <2>1, <2>2, <2>3 DEF InFlush, Called, SqlPcs
  <1>6. fileNext' <= nextId' /\ (Held(fileRecs)' # {} => Held(records)' # {})
    BY <1>0, <1>1 DEF FileInv, Grows, Held
  <1>7. ASSUME NEW i \in LogIds PROVE Saves(i)'
    <2>1. Saves(i)
      BY DEF FileInv
    <2>2. i \in compacted' \/ Rank(fileRecs[i]) <= Rank(records'[i])
      BY <1>1, <1>2, <2>1 DEF Saves
    <2> QED BY <1>0, <1>1, <2>1, <2>2 DEF Saves, Upto, Held
  <1>8. Behind' \/ records' = records
    BY <1>0 DEF Behind, Called
  <1>9. Behind => Behind'
    <2>1. SUFFICES ASSUME NEW u \in Threads, pc[u] \in {"changed", "lock", "copy", "compact", "compacted"}
                   PROVE  Behind'
      BY DEF Behind
    <2>2. CASE u = t
      BY <1>0, <2>1, <2>2 DEF Called, Behind
    <2>3. CASE u # t
      BY <1>0, <2>1, <2>3 DEF Called, Apart, Behind
    <2> QED BY <2>2, <2>3
  <1>10. \A u \in Threads : pc'[u] = "rename" <=> pc[u] = "rename"
    BY <1>0 DEF Called, Apart
  <1>11. \A u \in Threads : (pc[u] = "rename" => snapRecs[u] = records \/ Behind)'
    BY <1>0, <1>8, <1>9, <1>10 DEF FileInv
  <1>12. (fileRecs = records \/ behind \/ Behind \/ \E u \in Threads : pc[u] = "rename")'
    BY <1>0, <1>8, <1>9, <1>10 DEF FileInv
  <1> QED BY <1>3, <1>4, <1>5, <1>6, <1>7, <1>11, <1>12 DEF FileInv

(* One thread at a time is past flush_lock.                                 *)
LEMMA OneFlush ==
  ASSUME Typed, FileInv, NEW t \in Threads, flushLock \in {t, None}, NEW u \in Threads \ {t}
  PROVE  pc[u] \notin {"copy", "rename"}
  BY LogAssumption DEF FileInv, InFlush

LEMMA FileInvStep ==
  ASSUME FlushEvery = 1, Typed, Typed', Memory, FileInv, NEW t \in Threads, OnFile(t)
  PROVE  FileInv'
  <1>0. /\ FileStep(t) /\ UNCHANGED <<sqlVars, backend, nextId, records, compacted, raced>>
        /\ \A u \in Threads : Fits(u) /\ InFlush(u)
        /\ \A i \in LogIds : Saves(i)
    BY DEF OnFile, FileStep, NoteDirty, LockFlush, CopyRecords, Rename, FlushFails, ClearDirty, logVars, history, Memory, FileInv
  <1>1. /\ nextId \in Nat /\ fileNext \in Nat /\ snapNext \in [Threads -> Nat] /\ dirty \in Nat
        /\ \A i \in LogIds : /\ fileRecs[i] \in MaybePhases /\ records[i] \in MaybePhases /\ acked[i] \in MaybePhases
                             /\ \A u \in Threads : snapRecs[u][i] \in MaybePhases
        /\ \A u \in Threads : asked[u] \in MaybePhases /\ target[u] \in 0..MaxLogId
        /\ LogIds = 1..MaxLogId /\ MaxLogId \in Nat
        /\ snapRecs \in [Threads -> [LogIds -> MaybePhases]]
    <2>1. dirty \in Nat
      BY DEF Typed, TypeOK, FileTypeOK
    <2> QED BY <2>1, TypesOf
  <1>2. Untouched'
    BY <1>0 DEF FileInv, Untouched, sqlVars, table
  <1>3. ASSUME UNCHANGED <<fileNext, fileRecs, acked>>
        PROVE  /\ fileNext' <= nextId' /\ (Held(fileRecs)' # {} => Held(records)' # {})
               /\ \A i \in LogIds : Saves(i)'
    BY <1>0, <1>3 DEF FileInv, Saves, Upto, Held
  <1>4. ASSUME Apart(t), UNCHANGED <<fileNext, fileRecs, acked>>, NEW u \in Threads \ {t},
               pc[u] \notin {"copy", "rename"} \/ UNCHANGED <<flushLock, snapNext, snapRecs>>
        PROVE  InFlush(u)'
    <2>1. pc'[u] = pc[u] /\ target'[u] = target[u] /\ asked'[u] = asked[u]
      BY <1>4 DEF Apart
    <2>2. CASE pc[u] \notin {"copy", "rename"}
      BY <1>0, <1>4, <2>1, <2>2 DEF InFlush, Upto, Held
    <2>3. CASE UNCHANGED <<flushLock, snapNext, snapRecs>>
      BY <1>0, <1>4, <2>1, <2>3 DEF InFlush, Upto, Held
    <2> QED BY <1>4, <2>2, <2>3
  <1>5. CASE NoteDirty(t)
    <2>1. /\ Go(t, "lock") /\ UNCHANGED <<target, asked, before, acked>>
          /\ pc[t] = "changed" /\ UNCHANGED <<flushLock, snapNext, snapRecs, fileNext, fileRecs, behind>>
      BY <1>1, <1>5 DEF NoteDirty, snap, file
    <2>2. Apart(t) /\ pc'[t] = "lock"
      BY <2>1, GoesApart
    <2>3. InFlush(t)'
      BY <1>0, <2>1, <2>2 DEF InFlush, Upto, SqlPcs
    <2>4. Behind'
      BY <2>2 DEF Behind
    <2> QED BY <1>2, <1>3, <1>4, <2>1, <2>2, <2>3, <2>4 DEF FileInv
  <1>6. CASE LockFlush(t)
    <2>1. /\ Go(t, "copy") /\ UNCHANGED <<target, asked, before, acked>>
          /\ pc[t] \in {"lock", "compacted"} /\ UNCHANGED <<snapRecs, fileNext, fileRecs, behind>>
          /\ flushLock = None /\ flushLock' = t /\ snapNext'[t] = nextId
      BY <1>1, <1>6 DEF LockFlush, file, history
    <2>2. Apart(t) /\ pc'[t] = "copy"
      BY <2>1, GoesApart
    <2>3. InFlush(t)'
      <3>1. target[t] # 0 => pc[t] = "lock"
        BY <1>0, <2>1 DEF Fits
      <3>2. fileNext <= nextId /\ target[t] < nextId
        BY <1>0 DEF FileInv, Fits
      <3> QED BY <1>0, <1>1, <2>1, <2>2, <3>1, <3>2 DEF InFlush, Upto, SqlPcs
    <2>4. Behind'
      BY <2>2 DEF Behind
    <2>5. \A u \in Threads \ {t} : pc[u] \notin {"copy", "rename"}
      BY <2>1, OneFlush
    <2> QED BY <1>2, <1>3, <1>4, <2>1, <2>2, <2>3, <2>4, <2>5 DEF FileInv
  <1>7. CASE CopyRecords(t)
    <2>1. /\ Go(t, "rename") /\ UNCHANGED <<target, asked, before, acked>>
          /\ pc[t] = "copy" /\ UNCHANGED <<flushLock, snapNext, fileNext, fileRecs, behind>>
          /\ snapRecs'[t] = records
      BY <1>1, <1>7 DEF CopyRecords, file, history
    <2>2. Apart(t) /\ pc'[t] = "rename"
      BY <2>1, GoesApart
    <2>3. InFlush(t)'
      <3>1. Held(records) # {}
        BY <1>0, <2>1 DEF Fits
      <3>2. \A i \in LogIds : Upto(fileRecs[i], records[i], i) /\ Upto(records[i], records[i], i)
        BY <1>0, <1>1, UptoReflexive DEF Saves
      <3>3. flushLock = t /\ fileNext <= snapNext[t] /\ snapNext[t] <= nextId /\ target[t] < snapNext[t]
        BY <1>0, <2>1 DEF InFlush
      <3>4. target[t] # 0 => Upto(asked[t], records[target[t]], target[t])
        BY <1>0, <2>1 DEF InFlush
      <3>5. Upto(asked[t], records[target[t]], target[t]) => Upto(asked[t], snapRecs[t][target[t]], target[t])'
        BY <1>0, <2>1 DEF Upto
      <3>6. \A i \in LogIds : Upto(fileRecs[i], snapRecs[t][i], i)' /\ Upto(snapRecs[t][i], records[i], i)'
        BY <1>0, <2>1, <3>2 DEF Upto
      <3>7. Held(snapRecs[t])' # {}
        BY <2>1, <3>1 DEF Held
      <3> QED BY <1>0, <2>1, <2>2, <3>3, <3>4, <3>5, <3>6, <3>7 DEF InFlush, SqlPcs
    <2>4. \A u \in Threads \ {t} : pc[u] \notin {"copy", "rename"}
      <3>1. flushLock = t
        BY <1>0, <2>1 DEF InFlush
      <3> QED BY <3>1, OneFlush
    <2>5. \A u \in Threads : (pc[u] = "rename" => snapRecs[u] = records \/ Behind)'
      BY <1>0, <2>1, <2>2, <2>4 DEF Apart
    <2> QED BY <1>2, <1>3, <1>4, <2>1, <2>2, <2>3, <2>4, <2>5 DEF FileInv
  <1>8. CASE Rename(t)
    <2>1. /\ Go(t, "clear") /\ UNCHANGED <<target, asked, before, acked>>
          /\ pc[t] = "rename" /\ fileNext' = snapNext[t] /\ fileRecs' = snapRecs[t]
      BY <1>8 DEF Rename, history
    <2>2. Apart(t) /\ pc'[t] = "clear"
      BY <2>1, GoesApart
    <2>3. /\ flushLock = t /\ fileNext <= fileNext' /\ fileNext' <= nextId /\ target[t] < fileNext' /\ fileNext' \in Nat
          /\ Held(fileRecs') # {}
          /\ \A i \in LogIds : Upto(fileRecs[i], fileRecs'[i], i) /\ Upto(fileRecs'[i], records[i], i)
          /\ target[t] # 0 => Upto(asked[t], fileRecs'[target[t]], target[t])
      BY <1>0, <1>1, <2>1 DEF InFlush
    <2>4. \A u \in Threads \ {t} : pc[u] \notin {"copy", "rename"}
      BY <2>3, OneFlush
    <2>5. ASSUME NEW i \in LogIds, NEW p \in MaybePhases, Upto(p, fileRecs[i], i)
          PROVE  Upto(p, fileRecs'[i], i)
      BY <1>1, <2>1, <2>3, <2>5, UptoTransitive
    <2>6. ASSUME NEW u \in Threads \ {t} PROVE InFlush(u)'
      <3>1. InFlush(u) /\ pc'[u] = pc[u] /\ target'[u] = target[u] /\ asked'[u] = asked[u]
        BY <1>0, <2>2 DEF Apart
      <3>2. target[u] # 0 /\ pc[u] = "clear" => Upto(asked[u], fileRecs'[target[u]], target[u]) /\ target[u] < fileNext'
        <4>1. SUFFICES ASSUME target[u] # 0, pc[u] = "clear"
                       PROVE  Upto(asked[u], fileRecs'[target[u]], target[u]) /\ target[u] < fileNext'
          OBVIOUS
        <4>2. Upto(asked[u], fileRecs[target[u]], target[u]) /\ target[u] < fileNext
          BY <3>1, <4>1 DEF InFlush
        <4>3. target[u] \in LogIds /\ asked[u] \in MaybePhases /\ target[u] \in Nat
          BY <1>1, <4>1
        <4>4. Upto(asked[u], fileRecs'[target[u]], target[u])
          BY <2>5, <4>2, <4>3
        <4> QED BY <1>1, <2>3, <4>2, <4>3, <4>4
      <3>3. target[u] # 0 /\ pc[u] \in {"changed", "lock"} => Upto(asked[u], records[target[u]], target[u])
        BY <3>1 DEF InFlush
      <3> QED BY <1>0, <2>1, <2>3, <2>4, <3>1, <3>2, <3>3 DEF InFlush, Upto, Held
    <2>7. InFlush(t)'
      BY <1>0, <2>1, <2>2, <2>3 DEF InFlush, Upto, Held, SqlPcs
    <2>8. ASSUME NEW i \in LogIds PROVE Saves(i)'
      <3>1. Upto(acked[i], fileRecs'[i], i)
        BY <1>0, <1>1, <2>5 DEF Saves
      <3>2. acked[i] # "absent" => i < fileNext'
        BY <1>0, <1>1, <2>3 DEF Saves
      <3> QED BY <1>0, <2>1, <2>3, <3>1, <3>2 DEF Saves, Upto, Held
    <2>9. Held(records) # {}
      BY <1>0, <2>1 DEF Fits
    <2>10. Behind => Behind'
      BY <2>1, <2>2 DEF Behind, Apart
    <2>11. fileRecs' = records \/ Behind
      BY <2>1 DEF FileInv
    <2>12. \A u \in Threads : pc'[u] # "rename"
      BY <2>2, <2>4 DEF Apart
    <2> QED BY <1>0, <1>2, <2>3, <2>6, <2>7, <2>8, <2>9, <2>10, <2>11, <2>12 DEF FileInv, Held
  <1>9. CASE FlushFails(t)
    <2>1. /\ Return(t) /\ UNCHANGED <<fileNext, fileRecs, acked>> /\ pc[t] = "rename" /\ behind' = TRUE
      BY <1>9 DEF FlushFails, file, history
    <2>2. Apart(t) /\ pc'[t] = "idle" /\ target'[t] = 0
      BY <2>1, ReturnApart
    <2>3. InFlush(t)'
      BY <2>2 DEF InFlush, SqlPcs
    <2>4. \A u \in Threads \ {t} : pc[u] \notin {"copy", "rename"}
      BY <1>0, <2>1, OneFlush DEF InFlush
    <2>5. \A u \in Threads : pc'[u] # "rename"
      BY <2>2, <2>4 DEF Apart
    <2> QED BY <1>2, <1>3, <1>4, <2>1, <2>2, <2>3, <2>4, <2>5 DEF FileInv
  <1>10. CASE ClearDirty(t)
    <2>1. /\ ReturnOk(t) /\ UNCHANGED <<flushLock, snapNext, snapRecs, fileNext, fileRecs, behind>> /\ pc[t] = "clear"
      BY <1>10 DEF ClearDirty, snap, file
    <2>2. /\ Apart(t) /\ pc'[t] = "idle" /\ target'[t] = 0
          /\ \A i \in LogIds : acked'[i] = acked[i] \/ (i = target[t] /\ acked'[i] = asked[t])
      BY <2>1, ReturnApart, AckStep DEF ReturnOk
    <2>3. ASSUME NEW u \in Threads \ {t} PROVE InFlush(u)'
      <3>1. InFlush(u) /\ Fits(u) /\ pc'[u] = pc[u] /\ target'[u] = target[u] /\ asked'[u] = asked[u]
        BY <1>0, <2>2 DEF Apart
      <3>2. pc[u] = "insert" => acked'[target[u]] = "absent"
        BY <1>1, <2>2, <3>1 DEF Fits, InFlush
      <3> QED BY <1>0, <2>1, <3>1, <3>2 DEF InFlush, Upto, Held
    <2>4. InFlush(t)'
      BY <2>2 DEF InFlush, SqlPcs
    <2>5. ASSUME NEW i \in LogIds PROVE Saves(i)'
      <3>1. i = target[t] => Upto(asked[t], fileRecs[i], i) /\ i < fileNext
        BY <1>0, <1>1, <2>1 DEF InFlush
      <3>2. Held(fileRecs) # {}
        BY <1>0, <2>1 DEF InFlush
      <3> QED BY <1>0, <2>1, <2>2, <3>1, <3>2 DEF Saves, Upto, Held
    <2>6. Behind => Behind'
      BY <2>1, <2>2 DEF Behind, Apart
    <2>7. \A u \in Threads : pc'[u] = "rename" <=> pc[u] = "rename"
      BY <2>1, <2>2 DEF Apart
    <2>8. \A u \in Threads : (pc[u] = "rename" => snapRecs[u] = records \/ Behind)'
      BY <1>0, <2>1, <2>6, <2>7 DEF FileInv
    <2>9. (fileRecs = records \/ behind \/ Behind \/ \E u \in Threads : pc[u] = "rename")'
      BY <1>0, <2>1, <2>6, <2>7 DEF FileInv
    <2> QED BY <1>0, <1>2, <2>1, <2>3, <2>4, <2>5, <2>8, <2>9 DEF FileInv, Held
  <1> QED BY <1>0, <1>5, <1>6, <1>7, <1>8, <1>9, <1>10 DEF FileStep

---------------------------------------------------------------------------
(* The table                                                                *)

(* A record changes under a call on it only if that is recorded as a race,  *)
(* and a compaction drops what it had found or that is one too.             *)
Undisturbed(t) ==
  /\ \A u \in Threads \ {t} : target[u] \in LogIds \ raced' => records'[target[u]] = records[target[u]]
  /\ pc'[t] \in {"compact", "compacted"} =>
       /\ \A i \in LogIds : i \in before[t] /\ records'[i] = "absent" => i \in before'[t] \/ pc[t] = "idle"
       /\ \A i \in LogIds \ raced' : records'[i] # records[i] => i \in before'[t] /\ records'[i] = "absent"

LEMMA CallDisturbs ==
  ASSUME Typed, Memory, NEW t \in Threads, LogCall(t)
  PROVE  Undisturbed(t)
  <1>0. /\ \A u \in Threads : Fits(u)
        /\ records \in [LogIds -> MaybePhases] /\ target \in [Threads -> 0..MaxLogId]
        /\ before \in [Threads -> SUBSET LogIds] /\ pc \in [Threads -> Pcs]
    BY TypesOf DEF Memory
  <1>1. CASE Allocate(t)
    BY <1>0, <1>1 DEF Allocate, Ready, Go, Undisturbed
  <1>2. CASE Insert(t)
    <2>1. /\ pc[t] = "insert" /\ pc'[t] = "changed" /\ records' = [records EXCEPT ![target[t]] = "Pending"]
      BY <1>0, <1>2 DEF Insert, Go
    <2>2. \A u \in Threads \ {t} : target[u] # target[t]
      BY <1>0, <2>1 DEF Fits
    <2> QED BY <1>0, <2>1, <2>2 DEF Undisturbed
  <1>3. CASE UpdatePhase(t)
    <2>1. PICK i \in Held(records), p \in Asked : records' = [records EXCEPT ![i] = p] /\ raced' = Raced(i)
      BY <1>3 DEF UpdatePhase
    <2>2. pc'[t] = "changed"
      BY <1>0, <1>3 DEF UpdatePhase, Go
    <2>3. \A u \in Threads : target[u] = i => i \in raced'
      BY <2>1 DEF Raced, InCall
    <2> QED BY <1>0, <2>1, <2>2, <2>3 DEF Undisturbed, Held
  <1>4. CASE StartCompaction(t)
    BY <1>0, <1>4 DEF StartCompaction, Ready, Go, Undisturbed
  <1>5. CASE DropRecord(t)
    <2>1. PICK i \in LogIds :
            /\ records' = [records EXCEPT ![i] = "absent"]
            /\ raced' = IF i \in before[t] THEN Raced(i) ELSE raced \cup {i}
      BY <1>5 DEF DropRecord, Compactable
    <2>2. before' = before
      BY <1>5 DEF DropRecord, calls
    <2>3. \A u \in Threads : target[u] = i => i \in raced'
      BY <2>1 DEF Raced, InCall
    <2>4. \A j \in LogIds : records'[j] # records[j] => j = i /\ records'[j] = "absent"
      BY <1>0, <2>1
    <2> QED BY <2>1, <2>2, <2>3, <2>4 DEF Undisturbed
  <1>6. CASE EndCompaction(t)
    <2>1. before'[t] = before[t] \ Held(records) /\ records' = records
      BY <1>0, <1>6 DEF EndCompaction
    <2> QED BY <2>1 DEF Undisturbed, Held
  <1> QED BY <1>1, <1>2, <1>3, <1>4, <1>5, <1>6 DEF LogCall

LEMMA SqlInvCall ==
  ASSUME Typed, Typed', Memory, SqlInv, NEW t \in Threads, Call(t)
  PROVE  SqlInv'
  <1>0. /\ Grows /\ Called(t) /\ Undisturbed(t) /\ UNCHANGED <<rows, metaNext, read, broken, torn, acked>>
    BY CallGrows, CallDisturbs DEF Call, sqlVars, table, Grows
  <1>1. /\ nextId \in Nat /\ nextId' \in Nat /\ nextId <= nextId' /\ compacted \subseteq compacted' /\ raced \subseteq raced'
        /\ metaNext \in Nat /\ LogIds = 1..MaxLogId /\ MaxLogId \in Nat
        /\ \A i \in LogIds : rows[i] \in MaybePhases
        /\ \A u \in Threads : Fits(u) /\ InStore(u) /\ target[u] \in 0..MaxLogId
    <2>1. nextId' \in Nat
      BY DEF Typed, TypeOK, LogTypeOK
    <2> QED BY <1>0, <2>1, TypesOf DEF Grows, Memory, SqlInv
  <1>2. \A u \in Threads \ {t} :
          pc'[u] = pc[u] /\ target'[u] = target[u] /\ asked'[u] = asked[u] /\ before'[u] = before[u]
    BY <1>0 DEF Called, Apart
  <1>3. ASSUME NEW u \in Threads PROVE InStore(u)'
    <2>1. CASE u = t
      BY <1>0, <2>1 DEF InStore, Called, FilePcs
    <2>2. CASE u # t
      <3>1. pc[u] \in {"persist", "meta"} => target[u] \in LogIds
        BY <1>1 DEF Fits
      <3>2. target[u] \in LogIds \ raced' => records'[target[u]] = records[target[u]]
        BY <1>0, <2>2 DEF Undisturbed
      <3> QED BY <1>0, <1>1, <1>2, <2>2, <3>1, <3>2 DEF InStore
    <2> QED BY <2>1, <2>2
  <1>4. Ordered'
    <2>1. SUFFICES ASSUME NEW i \in LogIds \ raced' PROVE Upto(acked[i], rows[i], i)' /\ Upto(rows[i], records[i], i)'
      BY DEF Ordered
    <2>2. Upto(acked[i], rows[i], i) /\ Upto(rows[i], records[i], i)
      BY <1>1, <2>1 DEF SqlInv, Ordered
    <2>3. i \in compacted' \/ Rank(rows[i]) <= Rank(records'[i])
      BY <1>0, <1>1, <2>2, UptoMemory
    <2> QED BY <1>0, <1>1, <2>2, <2>3 DEF Upto
  <1>5. \A i \in LogIds : Saving(i) => Saving(i)'
    BY <1>0, <1>2 DEF Saving, Called
  <1>6. Current'
    <2>1. SUFFICES ASSUME NEW i \in LogIds \ (raced' \cup broken') PROVE (rows[i] = records[i] \/ Saving(i) \/ Deleting(i))'
      BY DEF Current
    <2>2. rows[i] = records[i] \/ Saving(i) \/ Deleting(i)
      BY <1>0, <1>1, <2>1 DEF SqlInv, Current
    <2>3. CASE records'[i] # records[i]
      <3>1. CASE pc'[t] = "changed"
        BY <1>0, <2>3, <3>1 DEF Called, Saving
      <3>2. CASE pc'[t] \in {"compact", "compacted"}
        BY <1>0, <2>1, <2>3, <3>2 DEF Undisturbed, Deleting
      <3> QED BY <1>0, <2>3, <3>1, <3>2 DEF Called
    <2>4. CASE records'[i] = records[i] /\ Deleting(i)
      <3>1. PICK u \in Threads : pc[u] \in {"compact", "compacted", "delete"} /\ i \in before[u] /\ records[i] = "absent"
        BY <2>4 DEF Deleting
      <3>2. CASE u = t
        <4>1. pc'[t] \in {"compact", "compacted"}
          BY <1>0, <3>1, <3>2 DEF Called
        <4>2. i \in before'[t]
          BY <1>0, <2>1, <2>4, <3>1, <3>2, <4>1 DEF Undisturbed
        <4> QED BY <2>4, <3>1, <4>1, <4>2 DEF Deleting
      <3>3. CASE u # t
        BY <1>2, <2>4, <3>1, <3>3 DEF Deleting
      <3> QED BY <3>2, <3>3
    <2> QED BY <1>0, <1>5, <2>1, <2>2, <2>3, <2>4
  <1>7. ASSUME ~torn' PROVE Counter'
    <2>0. Counter
      BY <1>0, <1>7 DEF SqlInv
    <2>1. metaNext' <= nextId'
      BY <1>0, <1>1, <2>0 DEF Counter
    <2>2. Held(records)' = {} => metaNext' = 0 /\ \A i \in LogIds : acked'[i] = "absent"
      BY <1>0, <2>0 DEF Counter, Grows, Held
    <2>3. \A i \in LogIds : Unwritten(i) => Unwritten(i)'
      BY <1>0, <1>2 DEF Unwritten, Called
    <2>4. \A i \in LogIds : Appending(i) => Appending(i)'
      <3>1. pc'[t] \in {"insert", "changed"} /\ pc[t] = "idle" => target[t] = 0
        BY <1>1 DEF Fits
      <3>2. pc'[t] \in {"compact", "compacted"} => target'[t] = target[t] /\ asked'[t] = asked[t]
        BY <1>0 DEF Called
      <3> QED BY <1>0, <1>1, <1>2, <3>1, <3>2 DEF Appending, Called
    <2>5. ASSUME NEW i \in LogIds, records[i] = "absent", records'[i] # "absent"
          PROVE  Unwritten(i)' /\ Appending(i)'
      <3>1. pc'[t] = "changed" /\ target'[t] = i /\ pc[t] = "insert" /\ asked'[t] = asked[t]
        BY <1>0, <2>5 DEF Called, Held
      <3>2. asked[t] = "Pending"
        BY <1>1, <3>1 DEF Fits
      <3> QED BY <3>1, <3>2 DEF Unwritten, Appending
    <2>6. \A i \in LogIds : records'[i] # "absent" => rows'[i] # "absent" \/ Unwritten(i)'
      BY <1>0, <2>0, <2>3, <2>5 DEF Counter, Held
    <2>7. ASSUME NEW i \in LogIds \ raced', Written(i)' PROVE i < metaNext' \/ Appending(i)'
      BY <1>0, <1>1, <2>0, <2>4, <2>5, <2>7 DEF Counter, Written
    <2>8. ASSUME NEW u \in Threads, pc'[u] = "insert" PROVE acked'[target'[u]] = "absent" \/ target'[u] \in raced'
      <3>1. CASE u = t
        <4>1. target'[t] = nextId /\ nextId' = nextId + 1
          BY <1>0, <2>8, <3>1 DEF Called
        <4>2. nextId \in LogIds
          <5>1. target'[t] \in 0..MaxLogId /\ nextId # 0
            BY DEF Typed, TypeOK, LogTypeOK
          <5> QED BY <1>1, <4>1, <5>1
        <4>3. ~(nextId < metaNext)
          BY <1>1, <2>0 DEF Counter
        <4>4. ~Appending(nextId)
          BY <1>1 DEF Appending, Fits
        <4>5. nextId \in raced \/ ~Written(nextId)
          BY <2>0, <4>2, <4>3, <4>4 DEF Counter
        <4> QED BY <1>0, <1>1, <3>1, <4>1, <4>5 DEF Written
      <3>2. CASE u # t
        BY <1>0, <1>1, <1>2, <2>0, <2>8, <3>2 DEF Counter
      <3> QED BY <3>1, <3>2
    <2> QED BY <2>1, <2>2, <2>6, <2>7, <2>8 DEF Counter, Held
  <1> QED BY <1>3, <1>4, <1>6, <1>7 DEF SqlInv

LEMMA SqlInvStep ==
  ASSUME Typed, Typed', Memory, SqlInv, NEW t \in Threads, OnTable(t)
  PROVE  SqlInv'
  <1> DEFINE i == target[t]
  <1>0. /\ SqlStep(t) /\ UNCHANGED <<nextId, records, compacted, raced>>
        /\ \A u \in Threads : Fits(u) /\ InStore(u)
        /\ Ordered /\ Current /\ (~torn => Counter)
    BY DEF OnTable, SqlStep, ReadBack, PersistRow, PersistCounter, PersistFails, LockDelete, DeleteRow, DeleteFails,
           EndDelete, memoryVars, history, Memory, SqlInv
  <1>1. /\ nextId \in Nat /\ metaNext \in Nat /\ LogIds = 1..MaxLogId /\ MaxLogId \in Nat
        /\ \A j \in LogIds : rows[j] \in MaybePhases /\ records[j] \in MaybePhases /\ acked[j] \in MaybePhases
        /\ \A u \in Threads : asked[u] \in MaybePhases /\ target[u] \in 0..MaxLogId /\ read[u] \in MaybePhases
        /\ rows \in [LogIds -> MaybePhases] /\ read \in [Threads -> MaybePhases]
    BY TypesOf
  <1>2. ASSUME Apart(t), NEW u \in Threads \ {t}, read'[u] = read[u],
               pc[u] = "meta" => target[u] \in raced \/ rows'[target[u]] = rows[target[u]]
        PROVE  InStore(u)'
    BY <1>0, <1>2 DEF Apart, InStore
  <1>3. pc[t] \in {"changed", "persist", "meta"} => i \in LogIds /\ asked[t] # "absent" /\ Held(records) # {}
    BY <1>0, <1>1 DEF Fits
  <1>4. ASSUME ReturnOk(t)
        PROVE  /\ Apart(t) /\ pc'[t] = "idle" /\ target'[t] = 0 /\ asked'[t] = "absent" /\ before'[t] = {}
               /\ \A j \in LogIds : acked'[j] = acked[j] \/ (j = i /\ acked'[j] = asked[t])
    BY <1>4, ReturnApart, AckStep DEF ReturnOk
  <1>5. CASE ReadBack(t) /\ records[i] = "absent"
    <2>1. ReturnOk(t) /\ pc[t] = "changed" /\ UNCHANGED <<read, rows, metaNext, broken, torn>>
      BY <1>5 DEF ReadBack, table
    <2>2. i \in raced
      BY <1>0, <1>3, <1>5, <2>1 DEF Fits
    <2>3. \A u \in Threads : InStore(u)'
      BY <1>2, <1>4, <2>1 DEF InStore, FilePcs
    <2>4. Ordered'
      BY <1>0, <1>4, <2>1, <2>2 DEF Ordered, Upto
    <2>5. \A j \in LogIds \ raced : /\ Saving(j) => Saving(j)'
                                    /\ Deleting(j) => Deleting(j)'
      BY <1>0, <1>4, <2>1, <2>2 DEF Saving, Deleting, Apart
    <2>6. Current'
      BY <1>0, <2>1, <2>5 DEF Current
    <2>7. ASSUME ~torn' PROVE Counter'
      <3>1. Counter
        BY <1>0, <2>1, <2>7
      <3>2. \A j \in LogIds : j # i => (Unwritten(j) => Unwritten(j)') /\ (Appending(j) => Appending(j)')
        BY <1>4, <2>1 DEF Unwritten, Appending, Apart
      <3>3. i \notin Held(records)
        BY <1>5 DEF Held
      <3>4. \A j \in Held(records) : rows[j] # "absent" \/ Unwritten(j)'
        BY <3>1, <3>2, <3>3 DEF Counter, Held
      <3>5. \A j \in LogIds \ raced : Written(j)' => j < metaNext \/ Appending(j)'
        BY <1>0, <1>4, <2>1, <2>2, <3>1, <3>2 DEF Counter, Written
      <3>6. \A u \in Threads : pc'[u] = "insert" => acked'[target'[u]] = "absent" \/ target'[u] \in raced
        <4>1. SUFFICES ASSUME NEW u \in Threads \ {t}, pc[u] = "insert"
                       PROVE  acked'[target[u]] = "absent" \/ target[u] \in raced
          BY <1>4, <2>1 DEF Apart
        <4>2. target[u] \in LogIds
          BY <1>0, <1>1, <4>1 DEF Fits
        <4> QED BY <1>4, <2>1, <2>2, <3>1, <4>1, <4>2 DEF Counter
      <3> QED BY <1>0, <1>3, <2>1, <3>1, <3>4, <3>5, <3>6 DEF Counter, Held
    <2> QED BY <2>3, <2>4, <2>6, <2>7 DEF SqlInv
  <1>6. CASE ReadBack(t) /\ records[i] # "absent"
    <2>1. /\ Go(t, "persist") /\ pc[t] = "changed" /\ read' = [read EXCEPT ![t] = records[i]]
          /\ UNCHANGED <<target, asked, before, acked, rows, metaNext, broken, torn>>
      BY <1>6 DEF ReadBack, table
    <2>2. Apart(t) /\ pc'[t] = "persist"
      BY <2>1, GoesApart
    <2>3. InStore(t)'
      BY <1>0, <1>1, <1>6, <2>1, <2>2 DEF InStore, Fits, FilePcs
    <2>4. \A u \in Threads \ {t} : InStore(u)'
      BY <1>1, <1>2, <2>1, <2>2
    <2>5. Ordered'
      BY <1>0, <2>1 DEF Ordered, Upto
    <2>6. \A j \in LogIds : /\ Saving(j) => Saving(j)'
                            /\ Deleting(j) => Deleting(j)'
                            /\ Unwritten(j) => Unwritten(j)'
                            /\ Appending(j) => Appending(j)'
      BY <1>0, <2>1, <2>2 DEF Saving, Deleting, Unwritten, Appending, Apart
    <2>7. Current'
      BY <1>0, <2>1, <2>6 DEF Current
    <2>8. ~torn' => Counter'
      BY <1>0, <2>1, <2>2, <2>6 DEF Counter, Held, Written, Apart
    <2> QED BY <2>3, <2>4, <2>5, <2>7, <2>8 DEF SqlInv
  <1>7. CASE PersistRow(t)
    <2>1. /\ pc[t] = "persist" /\ rows' = [rows EXCEPT ![i] = read[t]] /\ read' = [read EXCEPT ![t] = "absent"]
          /\ broken' = broken \ {i} /\ UNCHANGED <<metaNext, torn>>
      BY <1>7 DEF PersistRow, Unread
    <2>2. \/ /\ asked[t] = "Pending" /\ Apart(t) /\ pc'[t] = "meta" /\ UNCHANGED <<target, asked, before, acked>>
          \/ asked[t] # "Pending" /\ ReturnOk(t)
      BY <1>7, GoesApart DEF PersistRow
    <2>3. /\ Apart(t) /\ pc'[t] \in {"meta", "idle"}
          /\ pc'[t] = "meta" => asked[t] = "Pending" /\ target'[t] = i /\ asked'[t] = asked[t]
          /\ asked[t] = "Pending" => pc'[t] = "meta"
          /\ \A j \in LogIds : acked'[j] = acked[j] \/ (j = i /\ acked'[j] = asked[t])
      BY <1>4, <2>2
    <2>4. /\ i \in LogIds /\ asked[t] # "absent" /\ Held(records) # {} /\ read[t] # "absent"
          /\ i \in raced \/ (read[t] = asked[t] /\ records[i] = asked[t])
          /\ rows'[i] = read[t] /\ \A j \in LogIds \ {i} : rows'[j] = rows[j]
      BY <1>0, <1>1, <1>3, <2>1 DEF InStore
    <2>5. ASSUME NEW u \in Threads \ {t} PROVE InStore(u)'
      <3>1. target[u] = i => i \in raced
        BY <1>1, <2>4 DEF Memory, Meeting
      <3>2. pc[u] = "meta" => target[u] \in LogIds
        BY <1>0, <1>1 DEF Fits
      <3> QED BY <1>1, <1>2, <2>1, <2>3, <2>4, <3>1, <3>2
    <2>6. InStore(t)'
      BY <1>0, <2>3, <2>4 DEF InStore, FilePcs
    <2>7. Ordered'
      <3>1. SUFFICES ASSUME NEW j \in LogIds \ raced PROVE Upto(acked'[j], rows'[j], j) /\ Upto(rows'[j], records[j], j)
        BY <1>0 DEF Ordered, Upto
      <3>2. Upto(acked[j], rows[j], j) /\ Upto(rows[j], records[j], j)
        BY <1>0 DEF Ordered
      <3>3. CASE j # i
        BY <2>3, <2>4, <3>2, <3>3
      <3>4. CASE j = i
        <4>1. rows'[j] = records[j] /\ records[j] = asked[t]
          BY <2>4, <3>4
        <4>2. Upto(acked[j], records[j], j) /\ Upto(records[j], records[j], j)
          BY <1>1, <3>2, UptoTransitive, UptoReflexive
        <4> QED BY <2>3, <4>1, <4>2
      <3> QED BY <3>3, <3>4
    <2>8. Current'
      <3>1. SUFFICES ASSUME NEW j \in LogIds \ (raced \cup broken'), j # i
                     PROVE  rows[j] = records[j] \/ Saving(j)' \/ Deleting(j)'
        BY <1>0, <2>4 DEF Current
      <3>2. (Saving(j) => Saving(j)') /\ (Deleting(j) => Deleting(j)')
        BY <1>0, <2>1, <2>3, <3>1 DEF Saving, Deleting, Apart
      <3> QED BY <1>0, <2>1, <3>1, <3>2 DEF Current
    <2>9. ASSUME ~torn' PROVE Counter'
      <3>1. Counter
        BY <1>0, <2>1, <2>9
      <3>2. \A j \in LogIds : j # i => (Unwritten(j) => Unwritten(j)')
        BY <2>3 DEF Unwritten, Apart
      <3>3. \A j \in LogIds : Appending(j) => Appending(j)'
        BY <2>3 DEF Appending, Apart
      <3>4. \A j \in Held(records) : rows'[j] # "absent" \/ Unwritten(j)'
        BY <2>4, <3>1, <3>2 DEF Counter, Held
      <3>5. \A j \in LogIds \ raced : Written(j)' => j < metaNext \/ Appending(j)'
        <4>1. \A j \in LogIds \ raced : Written(j)' => Written(j)
          BY <1>0, <2>3, <2>4 DEF Written
        <4> QED BY <3>1, <3>3, <4>1 DEF Counter
      <3>6. \A u \in Threads : pc'[u] = "insert" => acked'[target'[u]] = "absent" \/ target'[u] \in raced
        <4>1. SUFFICES ASSUME NEW u \in Threads \ {t}, pc[u] = "insert"
                       PROVE  acked'[target[u]] = "absent" \/ target[u] \in raced
          BY <2>3 DEF Apart
        <4>2. target[u] \in LogIds /\ target[u] # i
          BY <1>0, <1>1, <4>1 DEF Fits
        <4> QED BY <2>3, <3>1, <4>1, <4>2 DEF Counter
      <3> QED BY <1>0, <2>1, <2>4, <3>1, <3>4, <3>5, <3>6 DEF Counter, Held
    <2> QED BY <2>5, <2>6, <2>7, <2>8, <2>9 DEF SqlInv
  <1>8. CASE PersistCounter(t)
    <2>1. ReturnOk(t) /\ pc[t] = "meta" /\ metaNext' = nextId /\ UNCHANGED <<read, rows, broken, torn>>
      BY <1>8 DEF PersistCounter
    <2>2. /\ i \in LogIds /\ Held(records) # {} /\ i < nextId
          /\ i \in raced \/ (rows[i] = asked[t] /\ records[i] = asked[t])
      BY <1>0, <1>3, <2>1 DEF InStore, Fits
    <2>3. \A u \in Threads : InStore(u)'
      BY <1>2, <1>4, <2>1 DEF InStore, FilePcs
    <2>4. Ordered'
      BY <1>0, <1>1, <1>4, <2>1, <2>2, UptoReflexive DEF Ordered, Upto
    <2>5. \A j \in LogIds : /\ Saving(j) => Saving(j)'
                            /\ Deleting(j) => Deleting(j)'
                            /\ Unwritten(j) => Unwritten(j)'
      BY <1>0, <1>4, <2>1 DEF Saving, Deleting, Unwritten, Apart
    <2>6. Current'
      BY <1>0, <2>1, <2>5 DEF Current
    <2>7. ASSUME ~torn' PROVE Counter'
      <3>1. Counter
        BY <1>0, <2>1, <2>7
      <3>2. ASSUME NEW j \in LogIds \ raced, Written(j)' PROVE j < nextId
        <4>1. Appending(j) => j < nextId
          BY <1>0 DEF Appending, Fits
        <4>2. j # i => Written(j)
          BY <1>0, <1>4, <2>1, <3>2 DEF Written
        <4> QED BY <1>1, <2>2, <3>1, <4>1, <4>2 DEF Counter
      <3>3. \A u \in Threads : pc'[u] = "insert" => acked'[target'[u]] = "absent" \/ target'[u] \in raced
        <4>1. SUFFICES ASSUME NEW u \in Threads \ {t}, pc[u] = "insert"
                       PROVE  acked'[target[u]] = "absent" \/ target[u] \in raced
          BY <1>4, <2>1 DEF Apart
        <4>2. target[u] \in LogIds /\ target[u] # i
          BY <1>0, <1>1, <4>1 DEF Fits
        <4> QED BY <1>4, <2>1, <3>1, <4>1, <4>2 DEF Counter
      <3>4. \A j \in Held(records) : rows[j] # "absent" \/ Unwritten(j)'
        BY <2>5, <3>1 DEF Counter, Held
      <3> QED BY <1>0, <1>1, <2>1, <2>2, <3>2, <3>3, <3>4 DEF Counter, Held
    <2> QED BY <2>3, <2>4, <2>6, <2>7 DEF SqlInv
  <1>9. CASE PersistFails(t)
    <2>1. /\ Return(t) /\ pc[t] \in {"persist", "meta"} /\ read' = [read EXCEPT ![t] = "absent"]
          /\ broken' = IF pc[t] = "persist" THEN broken \cup {i} ELSE broken
          /\ torn' = (torn \/ asked[t] = "Pending") /\ UNCHANGED <<rows, metaNext, acked>>
      BY <1>9 DEF PersistFails, Unread, table, history
    <2>2. Apart(t) /\ pc'[t] = "idle"
      BY <2>1, ReturnApart
    <2>3. \A u \in Threads : InStore(u)'
      BY <1>1, <1>2, <2>1, <2>2 DEF InStore, FilePcs
    <2>4. Ordered'
      BY <1>0, <2>1 DEF Ordered, Upto
    <2>5. \A j \in LogIds \ broken' : /\ Saving(j) => Saving(j)'
                                      /\ Deleting(j) => Deleting(j)'
      BY <1>0, <2>1, <2>2 DEF Saving, Deleting, Apart
    <2>6. Current'
      BY <1>0, <2>1, <2>5 DEF Current
    <2>7. ASSUME ~torn' PROVE Counter'
      <3>1. \A j \in LogIds : (Unwritten(j) => Unwritten(j)') /\ (Appending(j) => Appending(j)')
        BY <2>1, <2>2, <2>7 DEF Unwritten, Appending, Apart
      <3> QED BY <1>0, <2>1, <2>2, <2>7, <3>1 DEF Counter, Held, Written, Apart
    <2> QED BY <2>3, <2>4, <2>6, <2>7 DEF SqlInv
  <1>10. CASE LockDelete(t)
    <2>1. /\ Go(t, "delete") /\ pc[t] = "compacted"
          /\ UNCHANGED <<target, asked, before, acked, read, rows, metaNext, broken, torn>>
      BY <1>10 DEF LockDelete, sqlVars, table, history
    <2>2. Apart(t) /\ pc'[t] = "delete"
      BY <2>1, GoesApart
    <2>3. \A u \in Threads : InStore(u)'
      BY <1>2, <2>1, <2>2 DEF InStore, FilePcs
    <2>4. Ordered'
      BY <1>0, <2>1 DEF Ordered, Upto
    <2>5. \A j \in LogIds : /\ Saving(j) => Saving(j)'
                            /\ Deleting(j) => Deleting(j)'
                            /\ Unwritten(j) => Unwritten(j)'
                            /\ Appending(j) => Appending(j)'
      BY <1>0, <2>1, <2>2 DEF Saving, Deleting, Unwritten, Appending, Apart
    <2>6. Current'
      BY <1>0, <2>1, <2>5 DEF Current
    <2>7. ~torn' => Counter'
      BY <1>0, <2>1, <2>2, <2>5 DEF Counter, Held, Written, Apart
    <2> QED BY <2>3, <2>4, <2>6, <2>7 DEF SqlInv
  <1>11. CASE DeleteRow(t)
    <2>1. PICK d \in before[t] : /\ rows' = [rows EXCEPT ![d] = "absent"]
                                 /\ before' = [before EXCEPT ![t] = @ \ {d}]
      BY <1>11 DEF DeleteRow
    <2>2. /\ pc[t] = "delete" /\ UNCHANGED <<pc, target, asked, acked, read, metaNext, broken, torn>>
          /\ before \in [Threads -> SUBSET LogIds]
      BY <1>11, TypesOf DEF DeleteRow, history
    <2>3. d \in LogIds /\ d \in compacted /\ records[d] = "absent" /\ Held(records) # {}
      BY <1>0, <2>1, <2>2 DEF Fits, Held
    <2>4. rows'[d] = "absent" /\ \A j \in LogIds \ {d} : rows'[j] = rows[j]
      BY <1>1, <2>1, <2>3
    <2>5. Apart(t) /\ before'[t] = before[t] \ {d}
      BY <2>1, <2>2 DEF Apart
    <2>6. ASSUME NEW u \in Threads PROVE InStore(u)'
      <3>1. pc[u] = "meta" /\ target[u] = d => d \in raced
        BY <1>0, <2>3 DEF InStore, Fits
      <3>2. pc[u] = "meta" => target[u] \in LogIds
        BY <1>0, <1>1 DEF Fits
      <3> QED BY <1>0, <2>2, <2>4, <3>1, <3>2 DEF InStore
    <2>7. Ordered'
      BY <1>0, <2>2, <2>3, <2>4 DEF Ordered, Upto
    <2>8. ASSUME NEW j \in LogIds, j # d PROVE (Saving(j) => Saving(j)') /\ (Deleting(j) => Deleting(j)')
      BY <1>0, <2>2, <2>5, <2>8 DEF Saving, Deleting, Apart
    <2>9. Current'
      BY <1>0, <2>2, <2>3, <2>4, <2>8 DEF Current
    <2>10. ~torn' => Counter'
      <3>1. \A j \in LogIds : (Unwritten(j) <=> Unwritten(j)') /\ (Appending(j) <=> Appending(j)') /\ (Written(j)' => Written(j))
        BY <1>0, <2>2, <2>4 DEF Unwritten, Appending, Written
      <3>2. \A j \in Held(records) : rows'[j] = rows[j]
        BY <2>3, <2>4 DEF Held
      <3> QED BY <1>0, <2>2, <2>3, <3>1, <3>2 DEF Counter, Held
    <2> QED BY <2>6, <2>7, <2>9, <2>10 DEF SqlInv
  <1>12. CASE DeleteFails(t)
    <2>1. /\ Return(t) /\ pc[t] = "delete" /\ broken' = broken \cup before[t]
          /\ UNCHANGED <<read, rows, metaNext, torn, acked>>
      BY <1>12 DEF DeleteFails, table, history
    <2>2. Apart(t) /\ pc'[t] = "idle"
      BY <2>1, ReturnApart
    <2>3. \A u \in Threads : InStore(u)'
      BY <1>2, <2>1, <2>2 DEF InStore, FilePcs
    <2>4. Ordered'
      BY <1>0, <2>1 DEF Ordered, Upto
    <2>5. \A j \in LogIds \ broken' : /\ Saving(j) => Saving(j)'
                                      /\ Deleting(j) => Deleting(j)'
      BY <1>0, <2>1, <2>2 DEF Saving, Deleting, Apart
    <2>6. Current'
      BY <1>0, <2>1, <2>5 DEF Current
    <2>7. \A j \in LogIds : (Unwritten(j) => Unwritten(j)') /\ (Appending(j) => Appending(j)')
      <3>1. target[t] = 0
        BY <1>0, <2>1 DEF Fits
      <3> QED BY <1>1, <2>2, <3>1 DEF Unwritten, Appending, Apart
    <2>8. ~torn' => Counter'
      BY <1>0, <2>1, <2>2, <2>7 DEF Counter, Held, Written, Apart
    <2> QED BY <2>3, <2>4, <2>6, <2>8 DEF SqlInv
  <1>13. CASE EndDelete(t)
    <2>1. ReturnOk(t) /\ pc[t] = "delete" /\ before[t] = {} /\ UNCHANGED <<read, rows, metaNext, broken, torn>>
      BY <1>13 DEF EndDelete, sqlVars, table
    <2>2. target[t] = 0 /\ 0 \notin LogIds
      BY <1>0, <1>1, <2>1 DEF Fits
    <2>3. Apart(t) /\ pc'[t] = "idle" /\ \A j \in LogIds : acked'[j] = acked[j]
      BY <1>4, <2>1, <2>2
    <2>4. \A u \in Threads : InStore(u)'
      BY <1>2, <2>1, <2>3 DEF InStore, FilePcs
    <2>5. Ordered'
      BY <1>0, <2>1, <2>3 DEF Ordered, Upto
    <2>6. \A j \in LogIds : /\ Saving(j) => Saving(j)'
                            /\ Deleting(j) => Deleting(j)'
                            /\ Unwritten(j) => Unwritten(j)'
                            /\ Appending(j) => Appending(j)'
      BY <1>0, <2>1, <2>2, <2>3 DEF Saving, Deleting, Unwritten, Appending, Apart
    <2>7. Current'
      BY <1>0, <2>1, <2>6 DEF Current
    <2>8. ASSUME ~torn' PROVE Counter'
      <3>1. \A u \in Threads \ {t} : pc[u] = "insert" => target[u] \in LogIds
        BY <1>0, <1>1 DEF Fits
      <3> QED BY <1>0, <2>1, <2>3, <2>6, <2>8, <3>1 DEF Counter, Held, Written, Apart
    <2> QED BY <2>4, <2>5, <2>7, <2>8 DEF SqlInv
  <1> QED BY <1>0, <1>5, <1>6, <1>7, <1>8, <1>9, <1>10, <1>11, <1>12, <1>13 DEF SqlStep

---------------------------------------------------------------------------
(* A restart                                                                *)

LEMMA AckedFromDisk ==
  ASSUME Typed', state' = "open", (backend = "json" => FileInv)', (backend = "sqlite" => SqlInv)'
  PROVE  AckedSurvives'
  <1>1. /\ backend' \in {"json", "sqlite"} /\ fileRecs' \in [LogIds -> MaybePhases]
        /\ rows' \in [LogIds -> MaybePhases] /\ acked' \in [LogIds -> MaybePhases]
    BY DEF Typed, TypeOK, LogTypeOK, FileTypeOK, SqlTypeOK, Logs
  <1>2. \A i \in LogIds : Rank(fileRecs'[i]) \in 0..4 /\ Rank(rows'[i]) \in 0..4 /\ Rank(acked'[i]) \in 0..4
    BY <1>1, RankRange
  <1>3. CASE backend' = "json"
    <2>1. \A i \in LogIds : i \in compacted' \/ Rank(acked'[i]) <= Rank(fileRecs'[i])
      BY <1>3 DEF FileInv, Saves, Upto
    <2> QED BY <1>2, <1>3, <2>1 DEF AckedSurvives, Saved
  <1>4. CASE backend' = "sqlite"
    <2>1. \A i \in LogIds \ raced' : i \in compacted' \/ Rank(acked'[i]) <= Rank(rows'[i])
      BY <1>4 DEF SqlInv, Ordered, Upto
    <2> QED BY <1>2, <1>4, <2>1 DEF AckedSurvives, Saved
  <1> QED BY <1>1, <1>3, <1>4

(* A new process starts with no call.                                       *)
NoCalls == \A t \in Threads : pc[t] = "idle" /\ target[t] = 0 /\ asked[t] = "absent" /\ before[t] = {}

LEMMA MemoryRestarts ==
  ASSUME NoCalls', nextId' \in Nat \ {0}, \A i \in Held(records') : i < nextId'
  PROVE  Memory'
  BY DEF NoCalls, Memory, Meeting, Fits, Held

(* The file: what is acknowledged is in what is opened.                     *)
LEMMA FileRestarts ==
  ASSUME Typed, Typed', Untouched, UNCHANGED <<sqlVars, backend>>, backend = "json",
         NEW recs \in Logs, NEW next \in 1..(MaxLogId + 1),
         Restore(next, recs), FileReset, fileNext' = next, fileRecs' = recs,
         \A i \in LogIds : Upto(acked[i], recs[i], i) /\ (acked[i] # "absent" => i < next /\ Held(recs) # {})
  PROVE  LogInv'
  <1>1. NoCalls' /\ UNCHANGED <<acked, compacted, raced>> /\ next \in Nat \ {0}
    BY RestoreStep, LogAssumption DEF NoCalls, history
  <1>2. CASE state' = "open"
    <2>1. nextId' = next /\ records' = recs /\ \A i \in Held(recs) : i < next
      BY <1>2, RestoreStep
    <2>2. Memory'
      BY <1>1, <2>1, MemoryRestarts
    <2>3. \A i \in LogIds : Saves(i)'
      <3>1. \A i \in LogIds : recs[i] \in MaybePhases
        BY DEF Logs
      <3>2. \A i \in LogIds : Upto(recs[i], recs[i], i)
        BY <3>1, UptoReflexive
      <3> QED BY <1>1, <2>1, <3>2 DEF Saves, Upto, Held
    <2>4. \A t \in Threads : InFlush(t)'
      BY <1>1 DEF NoCalls, InFlush, SqlPcs
    <2>5. FileInv'
      BY <1>1, <2>1, <2>3, <2>4 DEF FileInv, NoCalls, Untouched, sqlVars, table, Held
    <2> QED BY <1>2, <2>2, <2>5, AckedFromDisk DEF LogInv, CallsInv
  <1>3. CASE state' = "refused"
    <2>1. AckedSurvives'
      <3>1. \A i \in LogIds : Rank(recs[i]) \in 0..4 /\ Rank(acked[i]) \in 0..4
        BY RankRange, TypesOf DEF Logs
      <3> QED BY <1>1, <3>1 DEF AckedSurvives, Saved, Upto
    <2> QED BY <1>1, <1>3, <2>1 DEF LogInv, CallsInv, NoCalls
  <1> QED BY <1>2, <1>3, RestoreStep

(* The table, opened with its rows or with the records of the file.         *)
Opened == IF Imports(fileRecs) THEN fileRecs ELSE rows

LEMMA TableRestarts ==
  ASSUME Typed, Typed', SqlRestart(fileNext, fileRecs), UNCHANGED file, backend' = "sqlite",
         \A i \in LogIds \ raced : Upto(acked[i], Opened[i], i),
         ~torn' =>
           /\ Held(Opened) = {} => metaNext = 0 /\ \A i \in LogIds : acked[i] = "absent"
           /\ \A i \in LogIds \ raced : acked[i] # "absent" \/ (~Imports(fileRecs) /\ rows[i] # "absent") =>
                i < IF Imports(fileRecs) THEN fileNext ELSE metaNext
  PROVE  LogInv'
  <1>0. /\ OpenTable(fileNext, fileRecs) /\ read' = NothingRead /\ broken' = {}
        /\ fileRecs' = fileRecs /\ fileNext' = fileNext
        /\ rows \in Logs /\ metaNext \in 0..(MaxLogId + 1) /\ fileRecs \in Logs /\ fileNext \in 1..(MaxLogId + 1)
        /\ MaxLogId \in Nat
    BY LogAssumption DEF SqlRestart, SqlReset, file, Typed, TypeOK, FileTypeOK, SqlTypeOK
  <1>1. NoCalls' /\ UNCHANGED <<acked, compacted, raced>>
    BY <1>0, OpenTableStep DEF NoCalls, history
  <1>2. \A i \in LogIds : Opened[i] \in MaybePhases /\ acked[i] \in MaybePhases
    BY <1>0, TypesOf DEF Opened, Logs
  <1>3. CASE state' = "open"
    <2>1. /\ records' = Opened /\ rows' = Opened /\ nextId' \in Nat \ {0} /\ metaNext' \in Nat
          /\ \A i \in Held(Opened) : i < nextId'
          /\ metaNext' = IF Imports(fileRecs) THEN fileNext ELSE metaNext
          /\ Imports(fileRecs) => nextId' = fileNext /\ Held(Opened) # {}
          /\ ~Imports(fileRecs) => nextId' = LoadedNext(metaNext, Opened)
      <3>1. CASE Imports(fileRecs)
        BY <1>0, <1>3, <3>1, OpenTableStep DEF Opened, Imports
      <3>2. CASE ~Imports(fileRecs)
        <4>1. records' = rows /\ rows' = rows /\ metaNext' = metaNext /\ nextId' = LoadedNext(metaNext, rows)
          BY <1>0, <1>3, <3>2, OpenTableStep DEF table
        <4>2. nextId' \in 1..(MaxLogId + 1) /\ \A i \in Held(rows) : i < nextId'
          BY <1>0, <4>1, LoadedNextPast
        <4> QED BY <1>0, <3>2, <4>1, <4>2 DEF Opened
      <3> QED BY <3>1, <3>2
    <2>2. Memory'
      BY <1>1, <2>1, MemoryRestarts
    <2>3. \A t \in Threads : InStore(t)'
      BY <1>1 DEF NoCalls, InStore, FilePcs
    <2>4. Ordered'
      <3>1. \A i \in LogIds : Upto(Opened[i], Opened[i], i)
        BY <1>2, UptoReflexive
      <3> QED BY <1>1, <2>1, <3>1 DEF Ordered, Upto
    <2>5. Current'
      BY <2>1 DEF Current
    <2>6. ASSUME ~torn' PROVE Counter'
      <3>1. metaNext' <= nextId'
        <4>1. CASE Imports(fileRecs)
          BY <1>0, <2>1, <4>1
        <4>2. CASE ~Imports(fileRecs) /\ Held(Opened) # {}
          BY <1>0, <2>1, <4>2, LoadedNextPast DEF Opened
        <4>3. CASE Held(Opened) = {}
          BY <1>0, <2>1, <2>6, <4>3
        <4> QED BY <4>1, <4>2, <4>3
      <3>2. Held(records') = {} => metaNext' = 0 /\ \A i \in LogIds : acked'[i] = "absent"
        BY <1>1, <2>1, <2>6
      <3>3. \A i \in Held(records') : rows'[i] # "absent"
        BY <2>1 DEF Held
      <3>4. \A i \in LogIds \ raced' : Written(i)' => i < metaNext'
        <4>1. CASE Imports(fileRecs)
          BY <1>1, <2>1, <2>6, <4>1 DEF Written, Held
        <4>2. CASE ~Imports(fileRecs)
          BY <1>1, <2>1, <2>6, <4>2 DEF Written, Opened
        <4> QED BY <4>1, <4>2
      <3>5. \A t \in Threads : pc'[t] # "insert"
        BY <1>1 DEF NoCalls
      <3> QED BY <3>1, <3>2, <3>3, <3>4, <3>5 DEF Counter, Held
    <2>7. SqlInv'
      BY <2>3, <2>4, <2>5, <2>6 DEF SqlInv
    <2> QED BY <1>3, <2>2, <2>7, AckedFromDisk DEF LogInv, CallsInv
  <1>4. CASE state' = "refused"
    <2>1. Imports(fileRecs)
      BY <1>0, <1>4, OpenTableStep
    <2>2. AckedSurvives'
      <3>1. \A i \in LogIds : Rank(Opened[i]) \in 0..4 /\ Rank(acked[i]) \in 0..4
        BY <1>2, RankRange
      <3>2. Saved' = Opened
        BY <1>0, <1>4, <2>1 DEF Saved, Opened
      <3> QED BY <1>1, <3>1, <3>2 DEF AckedSurvives, Upto
    <2> QED BY <1>1, <1>4, <2>2 DEF LogInv, CallsInv, NoCalls
  <1> QED BY <1>0, <1>3, <1>4, OpenTableStep

(* While no append was cut off, a table without rows has had none.          *)
LEMMA Restarts ==
  ASSUME LogInv, Typed', Crash \/ Shutdown \/ Migrate
  PROVE  LogInv'
  <1>0. /\ Typed /\ Memory /\ (backend = "json" => FileInv) /\ (backend = "sqlite" => SqlInv)
        /\ fileRecs \in Logs /\ fileNext \in 1..(MaxLogId + 1) /\ records \in Logs /\ nextId \in 1..(MaxLogId + 1)
        /\ MaxLogId \in Nat /\ backend \in {"json", "sqlite"}
    BY LogAssumption DEF LogInv, CallsInv, Crash, Shutdown, Migrate, Typed, TypeOK, LogTypeOK, FileTypeOK
  <1>1. ASSUME backend = "json"
        PROVE  /\ Untouched
               /\ \A i \in LogIds : Upto(acked[i], fileRecs[i], i) /\ (acked[i] # "absent" => i < fileNext /\ Held(fileRecs) # {})
               /\ \A i \in LogIds : Upto(acked[i], records[i], i) /\ (acked[i] # "absent" => i < nextId /\ Held(records) # {})
    <2>1. /\ Untouched /\ \A i \in LogIds : Saves(i)
          /\ fileNext <= nextId /\ (Held(fileRecs) # {} => Held(records) # {})
      BY <1>0, <1>1 DEF FileInv
    <2>2. \A i \in LogIds : Upto(acked[i], records[i], i)
      BY <1>0, <2>1, UptoTransitive, TypesOf DEF Saves
    <2>3. LogIds \subseteq Nat
      BY <1>0 DEF LogIds
    <2> QED BY <1>0, <2>1, <2>2, <2>3 DEF Saves
  <1>2. CASE Crash /\ backend = "json"
    <2>1. Restore(fileNext, fileRecs) /\ FileReset /\ UNCHANGED <<sqlVars, backend, fileNext, fileRecs>>
      BY <1>2 DEF Crash, FileCrash, file
    <2> QED BY <1>0, <1>1, <1>2, <2>1, FileRestarts
  <1>3. CASE Shutdown
    <2>1. /\ Restore(fileNext', fileRecs') /\ FileReset /\ UNCHANGED <<sqlVars, backend>> /\ backend = "json"
          /\ \/ fileNext' = nextId /\ fileRecs' = records
             \/ fileNext' = fileNext /\ fileRecs' = fileRecs
      BY <1>3 DEF Shutdown, FileShutdown
    <2>2. CASE fileNext' = nextId /\ fileRecs' = records
      BY <1>0, <1>1, <2>1, <2>2, FileRestarts
    <2>3. CASE fileNext' = fileNext /\ fileRecs' = fileRecs
      BY <1>0, <1>1, <2>1, <2>3, FileRestarts
    <2> QED BY <2>1, <2>2, <2>3
  <1>4. CASE Migrate
    <2>1. SqlRestart(fileNext, fileRecs) /\ UNCHANGED file /\ backend' = "sqlite" /\ backend = "json"
      BY <1>4 DEF Migrate
    <2>2. rows = EmptyLog /\ metaNext = 0 /\ \A i \in LogIds : rows[i] = "absent"
      BY <1>1, <2>1 DEF Untouched, EmptyLog
    <2>3. Held(rows) = {}
      BY <2>2 DEF Held
    <2>4. CASE Imports(fileRecs)
      <3>1. Opened = fileRecs /\ Held(Opened) # {}
        BY <2>4 DEF Opened, Imports
      <3> QED BY <1>0, <1>1, <2>1, <2>4, <3>1, TableRestarts
    <2>5. CASE ~Imports(fileRecs)
      <3>1. Opened = rows /\ Held(fileRecs) = {}
        BY <2>3, <2>5 DEF Opened, Imports
      <3>2. \A i \in LogIds : acked[i] = "absent"
        BY <1>1, <2>1, <3>1
      <3>3. \A i \in LogIds : Upto(acked[i], rows[i], i)
        BY <2>2, <3>2, UptoReflexive DEF MaybePhases
      <3> QED BY <1>0, <2>1, <2>2, <3>1, <3>2, <3>3, TableRestarts
    <2> QED BY <2>4, <2>5
  <1>5. CASE Crash /\ backend = "sqlite"
    <2>1. /\ SqlRestart(fileNext, fileRecs) /\ UNCHANGED file /\ backend' = "sqlite"
          /\ Ordered /\ (~torn => Counter)
      BY <1>0, <1>5 DEF Crash, SqlInv, fileVars
    <2>2. torn' = (torn \/ \E t \in Threads : asked[t] = "Pending")
      BY <2>1 DEF SqlRestart
    <2>3. \A i \in LogIds : /\ rows[i] \in MaybePhases /\ fileRecs[i] \in MaybePhases /\ acked[i] \in MaybePhases
                            /\ i \in Nat
      BY <1>0, TypesOf DEF LogIds
    <2>4. ASSUME ~torn'
          PROVE  /\ Held(rows) = {} => metaNext = 0 /\ \A i \in LogIds : acked[i] = "absent"
                 /\ \A i \in LogIds \ raced : acked[i] # "absent" \/ rows[i] # "absent" => i < metaNext
      <3>1. Counter /\ \A i \in LogIds : ~Unwritten(i) /\ ~Appending(i)
        BY <2>1, <2>2, <2>4 DEF Unwritten, Appending
      <3> QED BY <3>1 DEF Counter, Held, Written
    <2>5. CASE Imports(fileRecs)
      <3>1. Opened = fileRecs /\ Held(Opened) # {} /\ Held(rows) = {}
        BY <2>5 DEF Opened, Imports
      <3>2. ASSUME NEW i \in LogIds \ raced PROVE Upto(acked[i], fileRecs[i], i)
        <4>1. rows[i] = "absent" /\ Upto(acked[i], rows[i], i) /\ Upto("absent", fileRecs[i], i)
          BY <2>1, <2>3, <3>1, UptoReflexive DEF Ordered, Held
        <4> QED BY <2>3, <4>1, UptoTransitive
      <3> QED BY <1>0, <2>1, <2>4, <2>5, <3>1, <3>2, TableRestarts
    <2>6. CASE ~Imports(fileRecs)
      <3>1. Opened = rows
        BY <2>6 DEF Opened
      <3> QED BY <1>0, <2>1, <2>4, <2>6, <3>1, TableRestarts DEF Ordered
    <2> QED BY <2>5, <2>6
  <1> QED BY <1>0, <1>2, <1>3, <1>4, <1>5

---------------------------------------------------------------------------
(* The inductive invariant holds                                            *)

LEMMA InitInv == Init => LogInv
  <1> SUFFICES ASSUME Init PROVE LogInv
    OBVIOUS
  <1> USE DEF Init, LogInit, FileInit, SqlInit
  <1>0. MaxLogId \in Nat /\ MaxStops \in Nat /\ LogIds = 1..MaxLogId
    BY LogAssumption DEF LogIds
  <1>1. Typed
    <2>1. /\ EmptyLog \in Logs /\ NoCounter \in [Threads -> 1..(MaxLogId + 1)] /\ NothingRead \in [Threads -> MaybePhases]
          /\ NoRecords \in [Threads -> Logs]
      BY <1>0 DEF EmptyLog, Logs, NoCounter, NoRecords, NothingRead, MaybePhases
    <2>2. LogTypeOK
      BY <1>0, <2>1 DEF LogTypeOK, MaybePhases
    <2>b. behind \in BOOLEAN /\ torn \in BOOLEAN
      OBVIOUS
    <2>n. dirty \in Nat /\ fileNext \in 1..(MaxLogId + 1) /\ metaNext \in 0..(MaxLogId + 1)
      BY <1>0
    <2>3. FileTypeOK
      BY <2>1, <2>b, <2>n DEF FileTypeOK
    <2>4. SqlTypeOK
      BY <2>1, <2>b, <2>n DEF SqlTypeOK
    <2> QED BY <2>2, <2>3, <2>4 DEF Typed, TypeOK, Pcs
  <1>2. \A i \in LogIds : /\ records[i] = "absent" /\ fileRecs[i] = "absent" /\ rows[i] = "absent" /\ acked[i] = "absent"
                          /\ Upto("absent", "absent", i)
    BY UptoReflexive DEF EmptyLog, MaybePhases
  <1>3. Held(records) = {} /\ Held(fileRecs) = {}
    BY <1>2 DEF Held
  <1>4. Memory
    BY <1>3 DEF Memory, Meeting, Fits
  <1>5. FileInv
    <2>1. \A t \in Threads : InFlush(t)
      BY DEF InFlush, SqlPcs
    <2> QED BY <1>2, <1>3, <2>1 DEF FileInv, Untouched, Saves
  <1>6. SqlInv
    <2>1. \A t \in Threads : InStore(t)
      BY DEF InStore, FilePcs
    <2>2. Counter
      BY <1>2, <1>3 DEF Counter, Written
    <2> QED BY <1>2, <2>1, <2>2 DEF SqlInv, Ordered, Current
  <1>7. AckedSurvives
    <2>1. Rank("absent") = 0
      BY RankRange DEF MaybePhases
    <2> QED BY <1>2, <2>1 DEF AckedSurvives, Saved
  <1> QED BY <1>1, <1>4, <1>5, <1>6, <1>7 DEF LogInv, CallsInv

(* Whatever a thread does, the log is open and stays so.                    *)
LEMMA StepsWhileOpen ==
  ASSUME CallsInv, NEW t \in Threads, Call(t) \/ OnFile(t) \/ OnTable(t)
  PROVE  Typed /\ Memory /\ state = "open" /\ UNCHANGED <<state, backend>>
  <1>1. pc[t] # "idle" \/ state = "open"
    BY DEF Call, LogCall, Allocate, Insert, UpdatePhase, StartCompaction, DropRecord, EndCompaction, Ready, OnFile, FileStep,
           NoteDirty, LockFlush, CopyRecords, Rename, FlushFails, ClearDirty, OnTable, SqlStep, ReadBack, PersistRow,
           PersistCounter, PersistFails, LockDelete, DeleteRow, DeleteFails, EndDelete
  <1>2. UNCHANGED <<state, backend>>
    BY DEF Call, LogCall, Allocate, Insert, UpdatePhase, StartCompaction, DropRecord, EndCompaction, OnFile, FileStep,
           NoteDirty, LockFlush, CopyRecords, Rename, FlushFails, ClearDirty, OnTable, SqlStep, ReadBack, PersistRow,
           PersistCounter, PersistFails, LockDelete, DeleteRow, DeleteFails, EndDelete, logVars, memoryVars
  <1> QED BY <1>1, <1>2, OpenOrRefused DEF CallsInv

LEMMA CallsInvNext == ASSUME CallsInv, [Next]_vars PROVE CallsInv'
  <1>0. Typed /\ Typed'
    BY TypedStep DEF CallsInv
  <1>1. CASE UNCHANGED vars
    <2>1. Memory => Memory'
      BY <1>1 DEF vars, logVars, calls, history, Memory, Meeting, Fits, Held
    <2> QED BY <1>0, <1>1, <2>1 DEF CallsInv, vars, logVars, calls
  <1>2. ASSUME NEW t \in Threads, Call(t) \/ OnFile(t) \/ OnTable(t) PROVE CallsInv'
    <2>1. Memory /\ state = "open" /\ state' = "open"
      BY <1>2, StepsWhileOpen
    <2>2. Memory'
      BY <1>0, <1>2, <2>1, MemoryCall, MemoryFile, MemoryTable DEF Call, OnFile, OnTable
    <2> QED BY <1>0, <2>1, <2>2 DEF CallsInv
  <1>3. CASE Crash \/ Shutdown \/ Migrate
    <2>0. /\ fileRecs \in Logs /\ fileNext \in 1..(MaxLogId + 1) /\ rows \in Logs /\ metaNext \in 0..(MaxLogId + 1)
          /\ records \in Logs /\ nextId \in 1..(MaxLogId + 1) /\ nextId' \in Nat \ {0}
      BY <1>0, LogAssumption DEF Typed, TypeOK, LogTypeOK, FileTypeOK, SqlTypeOK
    <2>1. ASSUME NEW recs \in Logs, NEW next \in 1..(MaxLogId + 1), Restore(next, recs)
          PROVE  NoCalls' /\ (state' = "open" => \A i \in Held(records') : i < nextId')
      BY <2>1, RestoreStep DEF NoCalls
    <2>2. ASSUME SqlRestart(fileNext, fileRecs)
          PROVE  NoCalls' /\ (state' = "open" => \A i \in Held(records') : i < nextId')
      BY <2>0, <2>2, OpenTableStep, LoadedNextPast DEF NoCalls, SqlRestart
    <2>3. \/ \E recs \in Logs, next \in 1..(MaxLogId + 1) : Restore(next, recs)
          \/ SqlRestart(fileNext, fileRecs)
      <3>1. CASE Crash \/ Migrate
        BY <2>0, <3>1 DEF Crash, FileCrash, Migrate
      <3>2. CASE Shutdown
        <4>1. /\ Restore(fileNext', fileRecs')
              /\ \/ fileNext' = nextId /\ fileRecs' = records
                 \/ fileNext' = fileNext /\ fileRecs' = fileRecs
          BY <3>2 DEF Shutdown, FileShutdown
        <4> QED BY <2>0, <4>1
      <3> QED BY <1>3, <3>1, <3>2
    <2>4. NoCalls' /\ (state' = "open" => \A i \in Held(records') : i < nextId')
      BY <2>1, <2>2, <2>3
    <2> QED BY <1>0, <2>0, <2>4, MemoryRestarts DEF CallsInv, NoCalls
  <1> QED BY <1>1, <1>2, <1>3 DEF Next

LEMMA NextInv == ASSUME FlushEvery = 1, LogInv, [Next]_vars PROVE LogInv'
  <1>0. Typed /\ Typed' /\ CallsInv'
    BY CallsInvNext DEF LogInv, CallsInv
  <1>1. CASE UNCHANGED vars
    <2> USE DEF LogInv, CallsInv, vars, logVars, calls, history, fileVars, sqlVars, snap, file, table
    <2>1. AckedSurvives'
      BY <1>1 DEF AckedSurvives, Saved
    <2>3. FileInv => FileInv'
      <3>1. \A t \in Threads : InFlush(t) => InFlush(t)'
        BY <1>1 DEF InFlush, Upto, Held
      <3>2. \A i \in LogIds : Saves(i) => Saves(i)'
        BY <1>1 DEF Saves, Upto, Held
      <3> QED BY <1>1, <3>1, <3>2 DEF FileInv, Untouched, Held, Behind
    <2>4. SqlInv => SqlInv'
      <3>1. \A t \in Threads : InStore(t) => InStore(t)'
        BY <1>1 DEF InStore
      <3>2. (Ordered => Ordered') /\ (Current => Current')
        BY <1>1 DEF Ordered, Upto, Current, Saving, Deleting
      <3>3. Counter => Counter'
        BY <1>1 DEF Counter, Written, Unwritten, Appending, Held
      <3> QED BY <1>1, <3>1, <3>2, <3>3 DEF SqlInv
    <2> QED BY <1>0, <1>1, <2>1, <2>3, <2>4
  <1>2. ASSUME NEW t \in Threads, Call(t) \/ OnFile(t) \/ OnTable(t) PROVE LogInv'
    <2>1. /\ Memory /\ (backend = "json" => FileInv) /\ (backend = "sqlite" => SqlInv)
          /\ state = "open" /\ UNCHANGED <<state, backend>> /\ backend \in {"json", "sqlite"}
      BY <1>2, StepsWhileOpen DEF LogInv, Typed, TypeOK
    <2>3. backend = "json" => FileInv'
      BY <1>0, <1>2, <2>1, FileInvCall, FileInvStep DEF OnTable
    <2>4. backend = "sqlite" => SqlInv'
      BY <1>0, <1>2, <2>1, SqlInvCall, SqlInvStep DEF OnFile
    <2>5. AckedSurvives'
      BY <1>0, <2>1, <2>3, <2>4, AckedFromDisk
    <2> QED BY <1>0, <2>1, <2>3, <2>4, <2>5 DEF LogInv
  <1>3. CASE Crash \/ Shutdown \/ Migrate
    BY <1>0, <1>3, Restarts
  <1> QED BY <1>1, <1>2, <1>3 DEF Next

(* The inductive invariant, on either backend: while a flush is under way   *)
(* its copy lies between the file and the memory and holds what the call was*)
(* asked for; a row is what its only call wrote, and the stored counter is  *)
(* past every id that was used while no append was cut off (flush,          *)
(* persist_record, persist_phase, truncate_committed, load_records).        *)
THEOREM LogInvariance == FlushEvery = 1 => (Spec => []LogInv)
  <1> SUFFICES ASSUME FlushEvery = 1 PROVE Spec => []LogInv
    OBVIOUS
  <1>1. LogInv /\ [Next]_vars => LogInv'
    BY NextInv
  <1> QED BY <1>1, InitInv, PTL DEF Spec

(* Every variable keeps its type, however rarely the file is flushed: no id *)
(* past the bound is used, and a log is loaded with a counter in range      *)
(* (next_id, load_records, restore).                                        *)
THEOREM LogTypeCorrect == Spec => []TypeOK
  <1>1. CallsInv /\ [Next]_vars => CallsInv'
    BY CallsInvNext
  <1>2. Init => CallsInv
    BY InitInv DEF LogInv
  <1>3. CallsInv => TypeOK
    BY DEF CallsInv, Typed
  <1> QED BY <1>1, <1>2, <1>3, PTL DEF Spec

(* A call that returned Ok is saved, whatever crashes, failed writes, other *)
(* calls, compactions and migration from the file to the table follow       *)
(* (append, update_phase, flush, persist_record, persist_phase, open).      *)
THEOREM AckedAlwaysSurvives == FlushEvery = 1 => (Spec => []AckedSurvives)
  <1> SUFFICES ASSUME FlushEvery = 1 PROVE Spec => []AckedSurvives
    OBVIOUS
  <1>1. LogInv => AckedSurvives
    BY DEF LogInv, CallsInv
  <1> QED BY <1>1, LogInvariance, PTL

(* Between calls, memory and disk agree on every record whose last write did*)
(* not fail: a thread that has yet to save makes the disk wait (flush,      *)
(* persist_record, truncate_committed).                                     *)
THEOREM SavedIsAlwaysCurrent == FlushEvery = 1 => (Spec => []SavedIsCurrent)
  <1> SUFFICES ASSUME FlushEvery = 1 PROVE Spec => []SavedIsCurrent
    OBVIOUS
  <1>1. LogInv => SavedIsCurrent
    <2> SUFFICES ASSUME LogInv, state = "open", \A t \in Threads : pc[t] = "idle", ~(backend = "json" /\ behind)
                 PROVE  \A i \in LogIds \ (IF backend = "json" THEN {} ELSE raced \cup broken) : Saved[i] = records[i]
      BY DEF SavedIsCurrent
    <2>1. CASE backend = "json"
      <3>1. FileInv /\ ~behind
        BY <2>1 DEF LogInv, CallsInv
      <3> QED BY <2>1, <3>1 DEF FileInv, Behind, Saved
    <2>2. CASE backend = "sqlite"
      <3>1. Current
        BY <2>2 DEF LogInv, CallsInv, SqlInv
      <3> QED BY <2>2, <3>1 DEF Current, Saving, Deleting, Saved
    <2> QED BY <2>1, <2>2 DEF LogInv, CallsInv, Typed, TypeOK
  <1> QED BY <1>1, LogInvariance, PTL

---------------------------------------------------------------------------
(* What is saved never goes back                                            *)

LEMMA RowsMoveForward ==
  ASSUME Typed, Memory, SqlInv, NEW t \in Threads, OnTable(t), NEW i \in LogIds
  PROVE  Rank(rows'[i]) >= Rank(rows[i]) \/ i \in compacted \/ i \in raced
  <1>0. /\ rows \in [LogIds -> MaybePhases] /\ SqlStep(t) /\ InStore(t) /\ Fits(t)
        /\ Rank(rows[i]) \in 0..4 /\ Rank(records[i]) \in 0..4
    BY RankRange, TypesOf DEF OnTable, SqlInv, Memory
  <1>1. CASE PersistRow(t)
    <2>1. rows' = [rows EXCEPT ![target[t]] = read[t]] /\ pc[t] = "persist"
      BY <1>1 DEF PersistRow
    <2>2. CASE i = target[t] /\ i \notin raced
      <3>1. rows'[i] = records[i]
        BY <1>0, <2>1, <2>2 DEF InStore
      <3>2. i \in compacted \/ Rank(rows[i]) <= Rank(records[i])
        BY <2>2 DEF SqlInv, Ordered, Upto
      <3> QED BY <1>0, <3>1, <3>2
    <2>3. CASE i # target[t]
      BY <1>0, <2>1, <2>3
    <2> QED BY <2>2, <2>3
  <1>2. CASE DeleteRow(t)
    <2>1. PICK d \in before[t] : rows' = [rows EXCEPT ![d] = "absent"]
      BY <1>2 DEF DeleteRow
    <2>2. d \in compacted
      BY <1>0, <1>2, <2>1 DEF DeleteRow, Fits
    <2> QED BY <1>0, <2>1, <2>2
  <1>3. CASE ~PersistRow(t) /\ ~DeleteRow(t)
    <2>1. rows' = rows
      BY <1>0, <1>3 DEF SqlStep, ReadBack, PersistCounter, PersistFails, LockDelete, DeleteFails, EndDelete, table, sqlVars
    <2> QED BY <1>0, <2>1
  <1> QED BY <1>1, <1>2, <1>3

LEMMA FileMovesForward ==
  ASSUME Typed, FileInv, NEW t \in Threads, OnFile(t), NEW i \in LogIds
  PROVE  Rank(fileRecs'[i]) >= Rank(fileRecs[i]) \/ i \in compacted
  <1>0. FileStep(t) /\ InFlush(t) /\ Rank(fileRecs[i]) \in 0..4 /\ Rank(snapRecs[t][i]) \in 0..4
    BY RankRange, TypesOf DEF OnFile, FileInv
  <1>1. CASE Rename(t)
    BY <1>0, <1>1 DEF Rename, InFlush, Upto
  <1>2. CASE ~Rename(t)
    <2>1. fileRecs' = fileRecs
      BY <1>0, <1>2 DEF FileStep, NoteDirty, LockFlush, CopyRecords, FlushFails, ClearDirty, file
    <2> QED BY <1>0, <2>1
  <1> QED BY <1>1, <1>2

LEMMA RestartMovesForward ==
  ASSUME LogInv, Crash \/ Shutdown \/ Migrate, NEW i \in LogIds
  PROVE  Rank(Saved'[i]) >= Rank(Saved[i]) \/ i \in compacted
  <1>0. /\ Typed /\ state = "open" /\ (backend = "json" => FileInv)
        /\ fileRecs \in Logs /\ fileNext \in 1..(MaxLogId + 1) /\ rows \in Logs /\ metaNext \in 0..(MaxLogId + 1)
    BY DEF LogInv, CallsInv, Crash, Shutdown, Migrate, Typed, TypeOK, FileTypeOK, SqlTypeOK
  <1>1. /\ Rank(fileRecs[i]) \in 0..4 /\ Rank(records[i]) \in 0..4 /\ Rank(rows[i]) \in 0..4 /\ Rank("absent") = 0
    BY <1>0, RankRange, TypesOf
  <1>2. ASSUME SqlRestart(fileNext, fileRecs), UNCHANGED file, backend' = "sqlite"
        PROVE  Saved' = IF Imports(fileRecs) THEN fileRecs ELSE rows
    <2>1. OpenTable(fileNext, fileRecs) /\ fileRecs' = fileRecs
      BY <1>2 DEF SqlRestart, file
    <2> QED BY <1>0, <1>2, <2>1, OpenTableStep DEF Saved, table
  <1>3. CASE Crash /\ backend = "json"
    BY <1>0, <1>1, <1>3 DEF Crash, FileCrash, file, Saved
  <1>4. CASE Crash /\ backend = "sqlite"
    <2>1. Saved' = (IF Imports(fileRecs) THEN fileRecs ELSE rows) /\ Saved = rows
      BY <1>0, <1>2, <1>4 DEF Crash, fileVars, Saved
    <2>2. Imports(fileRecs) => rows[i] = "absent"
      BY DEF Imports, Held
    <2> QED BY <1>1, <2>1, <2>2
  <1>5. CASE Shutdown
    <2>1. backend = "json" /\ backend' = "json" /\ fileRecs' \in {records, fileRecs} /\ Saves(i)
      BY <1>0, <1>5 DEF Shutdown, FileShutdown, FileInv
    <2> QED BY <1>1, <2>1 DEF Saved, Saves, Upto
  <1>6. CASE Migrate
    <2>1. Saved' = (IF Imports(fileRecs) THEN fileRecs ELSE rows) /\ Saved = fileRecs /\ rows = EmptyLog
      BY <1>0, <1>2, <1>6 DEF Migrate, Saved, FileInv, Untouched
    <2>2. ~Imports(fileRecs) => fileRecs[i] = "absent"
      BY <2>1 DEF Imports, Held, EmptyLog
    <2> QED BY <1>1, <2>1, <2>2
  <1>7. backend \in {"json", "sqlite"}
    BY <1>0 DEF Typed, TypeOK
  <1> QED BY <1>3, <1>4, <1>5, <1>6, <1>7

(* What is saved never goes back: a snapshot that is renamed over wal.json  *)
(* is not behind it, a row is replaced by a later phase or deleted by a     *)
(* compaction, and a restart or a migration finds no less (flush,           *)
(* upsert_record, truncate_committed, Drop, open).                          *)
THEOREM SavedAlwaysMovesForward == FlushEvery = 1 => (Spec => SavedMovesForward)
  <1> SUFFICES ASSUME FlushEvery = 1 PROVE Spec => SavedMovesForward
    OBVIOUS
  <1>1. LogInv /\ [Next]_vars =>
          [\A i \in LogIds : \/ Rank(Saved'[i]) >= Rank(Saved[i]) \/ i \in compacted
                             \/ backend = "sqlite" /\ i \in raced]_vars
    <2> SUFFICES ASSUME LogInv, Next, NEW i \in LogIds
                 PROVE  \/ Rank(Saved'[i]) >= Rank(Saved[i]) \/ i \in compacted
                        \/ backend = "sqlite" /\ i \in raced
      OBVIOUS
    <2>1. ASSUME NEW t \in Threads, Call(t) \/ OnFile(t) \/ OnTable(t)
          PROVE  \/ Rank(Saved'[i]) >= Rank(Saved[i]) \/ i \in compacted
                 \/ backend = "sqlite" /\ i \in raced
      <3>1. /\ Typed /\ Memory /\ (backend = "json" => FileInv) /\ (backend = "sqlite" => SqlInv)
            /\ state = "open" /\ state' = "open" /\ backend' = backend /\ backend \in {"json", "sqlite"}
            /\ Rank(fileRecs[i]) \in 0..4 /\ Rank(rows[i]) \in 0..4
        BY <2>1, StepsWhileOpen, RankRange, TypesOf DEF LogInv, Typed, TypeOK
      <3>2. CASE Call(t)
        BY <3>1, <3>2 DEF Call, fileVars, file, sqlVars, table, Saved
      <3>3. CASE OnFile(t)
        BY <3>1, <3>3, FileMovesForward DEF OnFile, Saved
      <3>4. CASE OnTable(t)
        BY <3>1, <3>4, RowsMoveForward DEF OnTable, Saved
      <3> QED BY <2>1, <3>2, <3>3, <3>4
    <2> QED BY <2>1, RestartMovesForward DEF Next
  <1> QED BY <1>1, LogInvariance, PTL DEF Spec, SavedMovesForward

(* An id that an earlier Ok call used is never given out again, across      *)
(* restarts and a migration too; with the table, while no append was cut off*)
(* (append, restore, load_records).                                         *)
THEOREM AppendsAreAlwaysFresh == FlushEvery = 1 => (Spec => AppendIsFresh)
  <1> SUFFICES ASSUME FlushEvery = 1 PROVE Spec => AppendIsFresh
    OBVIOUS
  <1>1. LogInv /\ [Next]_vars =>
          [\A t \in Threads : pc[t] = "insert" /\ pc'[t] = "changed" =>
              \/ acked[target[t]] = "absent"
              \/ backend = "sqlite" /\ (torn \/ target[t] \in raced)]_vars
    <2> SUFFICES ASSUME LogInv, NEW t \in Threads, pc[t] = "insert"
                 PROVE  \/ acked[target[t]] = "absent"
                        \/ backend = "sqlite" /\ (torn \/ target[t] \in raced)
      OBVIOUS
    <2>1. state = "open" /\ Typed /\ backend \in {"json", "sqlite"}
      BY OpenOrRefused DEF LogInv, CallsInv, Typed, TypeOK
    <2>2. CASE backend = "json"
      BY <2>1, <2>2 DEF LogInv, CallsInv, FileInv, InFlush
    <2>3. CASE backend = "sqlite"
      BY <2>1, <2>3 DEF LogInv, CallsInv, SqlInv, Counter
    <2> QED BY <2>1, <2>2, <2>3
  <1> QED BY <1>1, LogInvariance, PTL DEF Spec, AppendIsFresh
=============================================================================
