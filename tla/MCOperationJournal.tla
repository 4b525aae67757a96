-------------------------- MODULE MCOperationJournal --------------------------
(***************************************************************************)
(* OperationJournal for TLC: attempts r1 to r4 carry key k1, r4 with another *)
(* payload; r5 carries k2.                                                  *)
(***************************************************************************)
EXTENDS OperationJournal

MCKeyOf == [r \in Request |-> IF r = "r5" THEN "k2" ELSE "k1"]
MCFingerprint == [r \in Request |-> IF r = "r4" THEN "f2" ELSE "f1"]
==============================================================================
