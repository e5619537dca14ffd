---------------------------- MODULE MCCopySpool ----------------------------
(* TLC instances of CopySpool. *)
EXTENDS CopySpool

CONSTANTS a1, a2, b1

\* a1 and a2 execute one task, b1 another.
Tasks == [r \in Runs |-> IF r = b1 THEN "b" ELSE "a"]

OneDatabase  == [r \in Runs |-> "prod"]
TwoDatabases == [r \in Runs |-> IF r = a1 THEN "prod" ELSE "test"]
=============================================================================
