------------------------- MODULE MCWorkflowExecution -------------------------
(***************************************************************************)
(* WorkflowExecution for TLC: a workflow of an LLM call (1) and a transform   *)
(* (2) that a second LLM call (3) waits for; a request with a retry, and a    *)
(* resume; an earlier version's attempt at the request, or none.             *)
(***************************************************************************)
EXTENDS WorkflowExecution, TLC

CONSTANTS x0, x1, x2, r1, run, resume

Attempts == {x0, x1, x2, r1}
Keys == {run, resume}
Keyed == (x0 :> run) @@ (x1 :> run) @@ (x2 :> run) @@ (r1 :> resume)
Predecessors == (1 :> {}) @@ (2 :> {}) @@ (3 :> {1, 2})
==============================================================================
