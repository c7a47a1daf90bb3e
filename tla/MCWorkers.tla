------------------------------ MODULE MCWorkers ------------------------------
(* Small instances of Workers.                                              *)
EXTENDS Workers
=============================================================================
