------------------------- MODULE MCWriteCoordinator -------------------------
(* Instances of WriteCoordinator for TLC.                                   *)
EXTENDS WriteCoordinator, TLC

CONSTANTS t1, t2, f1, f2

AnyFile == [t \in Threads |-> Files]
OwnFile == [t \in Threads |-> IF t = t1 THEN {f1} ELSE {f2}]

AnyKind == [t \in Threads |-> MutationKinds]
OnlyIndex == [t \in Threads |-> {"Index"}]
(* Every thread ingests what it wrote and confirms it.                      *)
IndexAndPromote == [t \in Threads |-> {"Index", "Promote"}]

(* Threads with the same work are interchangeable.                          *)
SameThreads == Permutations(Threads)

(* A bound: a second fault is followed only until the daemon serves again,  *)
(* which is where a crash followed by an error of the replay leads.         *)
SecondFaultInReplay == faults <= 1 \/ proc # "ready"
=============================================================================
