------------------------ MODULE MCConvergenceMonitor ------------------------
(* ConvergenceMonitor for TLC: one agent with two sessions, each of which     *)
(* closes the other when it starts and may end late, or end again.           *)
EXTENDS ConvergenceMonitor, TLC

CONSTANTS a1, s1, s2

MonitorSymmetry == Permutations(Actor) \cup Permutations(Session)
OneOwner == (s1 :> a1) @@ (s2 :> a1)
=============================================================================
