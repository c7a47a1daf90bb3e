------------------------- MODULE MutationLifecycle -------------------------
(* What the write path promises of each mutation, without stores, locks,    *)
(* threads or replay: a mutation is opened, its closure runs at most once   *)
(* in all lives of the process and never after it is committed, it is       *)
(* committed only after its closure ran, a settled outcome is final, it is  *)
(* embedded at most once in a life of the process and only between its      *)
(* closure and its commit, and only mutations whose closure ran are         *)
(* answered Ok.                                                             *)
EXTENDS Naturals

CONSTANT Ids

VARIABLES
  outcome,   \* "absent", "open", "committed" or "failed"
  ran,       \* mutations whose closure has run
  embedded,  \* how often each was embedded in this life of the process
  acked      \* mutations answered Ok

avars == <<outcome, ran, embedded, acked>>

AInit ==
  /\ outcome = [i \in Ids |-> "absent"] /\ ran = {}
  /\ embedded = [i \in Ids |-> 0] /\ acked = {}

ABegin(i) ==
  /\ outcome[i] = "absent"
  /\ outcome' = [outcome EXCEPT ![i] = "open"]
  /\ UNCHANGED <<ran, embedded, acked>>

(* The reconciler may give up on a mutation whose thread is about to run    *)
(* the closure, so a failed mutation may still run and be embedded.         *)
ARun(i) ==
  /\ outcome[i] \in {"open", "failed"} /\ i \notin ran
  /\ ran' = ran \cup {i}
  /\ UNCHANGED <<outcome, embedded, acked>>

AEmbed(i) ==
  /\ i \in ran /\ outcome[i] # "committed" /\ embedded[i] = 0
  /\ embedded' = [embedded EXCEPT ![i] = 1]
  /\ UNCHANGED <<outcome, ran, acked>>

ACommit(i) ==
  /\ outcome[i] = "open" /\ i \in ran
  /\ outcome' = [outcome EXCEPT ![i] = "committed"]
  /\ UNCHANGED <<ran, embedded, acked>>

AFail(i) ==
  /\ outcome[i] = "open"
  /\ outcome' = [outcome EXCEPT ![i] = "failed"]
  /\ UNCHANGED <<ran, embedded, acked>>

AAck(S) ==
  /\ S \subseteq ran
  /\ acked' = acked \cup S
  /\ UNCHANGED <<outcome, ran, embedded>>

ANewLife ==
  /\ embedded' = [i \in Ids |-> 0]
  /\ UNCHANGED <<outcome, ran, acked>>

ANext ==
  \/ \E i \in Ids : ABegin(i) \/ ARun(i) \/ AEmbed(i) \/ ACommit(i) \/ AFail(i)
  \/ \E S \in SUBSET Ids : AAck(S)
  \/ ANewLife

ASpec == AInit /\ [][ANext]_avars
=============================================================================
