------------------------ MODULE MCAutonomyScheduler ------------------------
(* Instances of AutonomyScheduler for TLC: a workflow job that needs       *)
(* approval, and a heartbeat with the notification job it may enqueue.     *)
EXTENDS AutonomyScheduler, TLC

CONSTANTS a1, a2, wf, hb, nt

JobAgents == (wf :> a1) @@ (hb :> a2) @@ (nt :> a2)
JobKinds == (wf :> "workflow") @@ (hb :> "heartbeat") @@ (nt :> "notification")
JobDues == (wf :> 2) @@ (hb :> 1) @@ (nt :> 1)
SharedAgent == (wf :> a1) @@ (hb :> a1)
SharedKinds == (wf :> "workflow") @@ (hb :> "heartbeat")
SharedDues == (wf :> 2) @@ (hb :> 1)
=============================================================================
