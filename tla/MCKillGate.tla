------------------------------ MODULE MCKillGate ------------------------------
(***************************************************************************)
(* TLC instance of KillGate: three node ids, two or three threads.          *)
(***************************************************************************)
EXTENDS KillGate, TLC

Symmetry == Permutations(Thread) \union Permutations(Node)
===============================================================================
