----------------------------- MODULE MutationLog -----------------------------
(* The mutation log in memory (cis-wal/src/log.rs), and the calls of its    *)
(* threads as far as the two durable logs around it are alike: a call first *)
(* changes the memory, and then whatever the backend does to save it.       *)
EXTENDS Naturals, FiniteSets, MutationPhase

CONSTANTS
  Threads,
  None,        \* no holder of a lock
  Asked,       \* bound: the phases update_phase is called with
  MaxLogId,    \* bound: ids allocated in a behaviour
  Retained,    \* records wal_max_bytes leaves room for
  MaxStops     \* bound: crashes, shutdowns and failed writes in a behaviour

ASSUME LogAssumption ==
  /\ None \notin Threads /\ Asked \subseteq Phases
  /\ {MaxLogId, MaxStops} \subseteq Nat /\ Retained \in Nat \ {0}

LogIds == 1..MaxLogId
Logs == [LogIds -> MaybePhases]
EmptyLog == [i \in LogIds |-> "absent"]
Held(l) == {i \in LogIds : l[i] # "absent"}

VARIABLES
  nextId,     \* next_id
  records,    \* the records in memory
  pc,         \* where each thread is in its call
  target,     \* the log id its call is about, 0 for none
  asked,      \* the phase its call gives that record
  before,     \* the ids a compaction found, then those it is to delete
  state,      \* "open", or "refused" when the log did not open
  stops,      \* crashes, shutdowns and failed writes so far
  acked,      \* history: the latest phase of each record that a call returned Ok for
  compacted,  \* history: ids compaction removed
  raced       \* history: ids with two calls, or a call and a compaction, at once

calls == <<pc, target, asked, before>>
history == <<acked, compacted, raced>>

LogTypeOK ==
  /\ nextId \in 1..(MaxLogId + 1) /\ records \in Logs
  /\ target \in [Threads -> 0..MaxLogId] /\ asked \in [Threads -> MaybePhases]
  /\ before \in [Threads -> SUBSET LogIds]
  /\ state \in {"open", "refused"} /\ stops \in 0..MaxStops
  /\ acked \in Logs /\ compacted \subseteq LogIds /\ raced \subseteq LogIds

LogInit ==
  /\ nextId = 1 /\ records = EmptyLog
  /\ pc = [t \in Threads |-> "idle"] /\ target = [t \in Threads |-> 0]
  /\ asked = [t \in Threads |-> "absent"] /\ before = [t \in Threads |-> {}]
  /\ state = "open" /\ stops = 0
  /\ acked = EmptyLog /\ compacted = {} /\ raced = {}

-----------------------------------------------------------------------------
Go(t, l) == pc' = [pc EXCEPT ![t] = l]
Ready(t) == state = "open" /\ pc[t] = "idle"
Stop == stops < MaxStops /\ stops' = stops + 1

\* How far a record has come; every legal transition goes up.
Rank(p) == CASE p = "absent" -> 0 [] p = "Pending" -> 1 [] p = "GraphDone" -> 2
             [] p = "VectorDone" -> 3 [] OTHER -> 4

Return(t) ==
  /\ Go(t, "idle") /\ before' = [before EXCEPT ![t] = {}]
  /\ target' = [target EXCEPT ![t] = 0] /\ asked' = [asked EXCEPT ![t] = "absent"]

\* Ok: the caller may rely on the phase it asked for.
ReturnOk(t) ==
  /\ Return(t)
  /\ acked' = [i \in LogIds |-> IF i = target[t] /\ Rank(asked[t]) > Rank(acked[i])
                                THEN asked[t] ELSE acked[i]]

InCall(i) == \E t \in Threads : target[t] = i
Raced(i) == IF InCall(i) THEN raced \cup {i} ELSE raced

(* append takes its id from the counter, then inserts.                      *)
Allocate(t) ==
  /\ Ready(t) /\ nextId <= MaxLogId
  /\ target' = [target EXCEPT ![t] = nextId] /\ nextId' = nextId + 1
  /\ asked' = [asked EXCEPT ![t] = "Pending"]
  /\ Go(t, "insert")
  /\ UNCHANGED <<records, before, state, stops, history>>

Insert(t) ==
  /\ pc[t] = "insert"
  /\ records' = [records EXCEPT ![target[t]] = "Pending"]
  /\ Go(t, "changed")
  /\ UNCHANGED <<nextId, target, asked, before, state, stops, history>>

(* update_phase, to any phase the record's own allows; staying in place     *)
(* changes nothing and is left out.                                         *)
UpdatePhase(t) ==
  /\ Ready(t)
  /\ \E i \in Held(records), p \in Asked :
       /\ records[i] # p /\ CanTransitionTo(records[i], p)
       /\ records' = [records EXCEPT ![i] = p]
       /\ target' = [target EXCEPT ![t] = i] /\ asked' = [asked EXCEPT ![t] = p]
       /\ raced' = Raced(i)
  /\ Go(t, "changed")
  /\ UNCHANGED <<nextId, before, state, stops, acked, compacted>>

(* truncate_committed drops the oldest settled record while the log is over *)
(* its size.  A record that was appended and settled since it listed what it*)
(* has to delete is dropped with the others.                                *)
StartCompaction(t) ==
  /\ Ready(t) /\ Cardinality(Held(records)) > Retained
  /\ Go(t, "compact") /\ before' = [before EXCEPT ![t] = Held(records)]
  /\ UNCHANGED <<nextId, records, target, asked, state, stops, history>>

Compactable == {i \in LogIds : records[i] \in Terminal}

DropRecord(t) ==
  /\ pc[t] = "compact" /\ Cardinality(Held(records)) > Retained
  /\ \E i \in Compactable :
       /\ \A j \in Compactable : i <= j
       /\ records' = [records EXCEPT ![i] = "absent"]
       /\ compacted' = compacted \cup {i}
       /\ raced' = IF i \in before[t] THEN Raced(i) ELSE raced \cup {i}
  /\ UNCHANGED <<nextId, calls, state, stops, acked>>

EndCompaction(t) ==
  /\ pc[t] = "compact" /\ (Cardinality(Held(records)) <= Retained \/ Compactable = {})
  /\ Go(t, "compacted") /\ before' = [before EXCEPT ![t] = @ \ Held(records)]
  /\ UNCHANGED <<nextId, records, target, asked, state, stops, history>>

(* A new process; whatever the log is restored from is durable.             *)
NewProcess ==
  /\ pc' = [t \in Threads |-> "idle"] /\ target' = [t \in Threads |-> 0]
  /\ asked' = [t \in Threads |-> "absent"] /\ before' = [t \in Threads |-> {}]
  /\ UNCHANGED history

\* Mutant: the counter is taken from the number of records.
RestoreCounts(next, recs) ==
  /\ state' = "open" /\ nextId' = 1 + Cardinality(Held(recs)) /\ records' = recs
  /\ NewProcess

(* restore refuses a counter that is not past every record.                 *)
Restore(next, recs) ==
  /\ IF \A i \in Held(recs) : i < next
     THEN state' = "open" /\ nextId' = next /\ records' = recs
     ELSE state' = "refused" /\ nextId' = 1 /\ records' = EmptyLog
  /\ NewProcess

LogCall(t) == \/ Allocate(t) \/ Insert(t) \/ UpdatePhase(t)
              \/ StartCompaction(t) \/ DropRecord(t) \/ EndCompaction(t)
=============================================================================
