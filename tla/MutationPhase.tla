--------------------------- MODULE MutationPhase ---------------------------
(* The life cycle of one mutation record of the write-ahead log             *)
(* (cis-wal/src/phase.rs) and of the kinds of records the log holds         *)
(* (cis-wal/src/record.rs).  "absent" is not a phase of the program: it     *)
(* stands for a log id without a record.                                    *)

InFlight == {"Pending", "GraphDone", "VectorDone"}
Terminal == {"Committed", "Failed"}
Phases == InFlight \cup Terminal
MaybePhases == Phases \cup {"absent"}

\* The steps update_phase accepts; staying in place is accepted too, so that
\* replay may repeat a transition.
CanTransitionTo(p, q) ==
  \/ p = q
  \/ <<p, q>> \in {<<"Pending", "GraphDone">>, <<"GraphDone", "VectorDone">>,
                   <<"GraphDone", "Committed">>, <<"VectorDone", "Committed">>}
  \/ p \in InFlight /\ q = "Failed"

\* Promote and revert of speculative rows never reach the vector phase.
GraphOnlyKinds == {"Promote", "Revert"}
SingleKinds == {"Index", "Delete"}
MutationKinds == GraphOnlyKinds \cup SingleKinds
=============================================================================
