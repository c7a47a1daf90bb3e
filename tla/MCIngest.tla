------------------------------ MODULE MCIngest ------------------------------
(* Instances of Ingest for TLC.                                             *)
EXTENDS Ingest

CONSTANTS f1, f2, n1, n2, a1, a2, b1, s1

(* a1 and a2 are versions of one function, b1 is another one, s1 is a stub. *)
Families == [b \in Bodies |-> IF b \in {a1, a2} THEN "A" ELSE IF b = b1 THEN "B" ELSE Stub]
=============================================================================
