--------------------------- MODULE WorkflowExecution ---------------------------
(***************************************************************************)
(* Durable workflow executions (ghost-gateway/src/api/workflows.rs over        *)
(* cortex-storage's workflow_executions table): a request to execute or to   *)
(* resume a workflow leases its operation-journal row, binds an execution     *)
(* row to itself, and drives the workflow's steps in topological order,      *)
(* writing the execution state before and after every step.                  *)
(*                                                                         *)
(* Any number of requests may drive one execution: retries after a crash or a *)
(* dropped connection, resumes while another driver still runs.  The last one *)
(* to bind the row owns it and the writes of the others are refused.          *)
(*                                                                         *)
(* An attempt is one HTTP request; it stands for its owner token, and for the *)
(* id of the execution it inserts.  The journal row is kept as far as these   *)
(* handlers see it (OperationJournal has the leases and the clock): the lease *)
(* of an attempt that is in progress may have expired or not.                *)
(***************************************************************************)
EXTENDS Naturals, FiniteSets

CONSTANTS Attempt, Key, None,
          KeyOf,       \* the idempotency key of each attempt
          ResumeKey,   \* the keys of requests to resume; the others execute
          Steps,       \* the number of nodes, in their topological order
          RetrySafe,   \* the nodes of a retry-safe type
          Pred,        \* the predecessors of each node
          Legacy,      \* attempts of an earlier version of the gateway, whose rows this
                       \* one cannot read: another state_version, or no valid state
          MaxDbErrors  \* bound: database calls that fail

Node == 1..Steps

ASSUME AttemptAssumption == None \notin Attempt /\ KeyOf \in [Attempt -> Key]
ASSUME ResumeKeyAssumption == ResumeKey \subseteq Key
ASSUME GraphAssumption ==
    /\ Steps \in Nat \ {0} /\ RetrySafe \subseteq Node
    /\ Pred \in [Node -> SUBSET Node] /\ \A n \in Node : \A p \in Pred[n] : p < n
ASSUME LegacyAssumption == Legacy \subseteq Attempt
ASSUME MaxDbErrorsAssumption == MaxDbErrors \in Nat

VARIABLES journal,   \* operation_journal: the row of each key
          row,       \* workflow_executions, by the attempt that inserted it
          target,    \* the execution that the requests of a resume key name
          pc,
          exec,      \* the execution an attempt is bound to
          mem,       \* its copy of the execution state
          ran,       \* history: how often a node of an execution has run
          dbErrors

vars == <<journal, row, target, pc, exec, mem, ran, dbErrors>>

Final == {"none", "completed", "failed", "recovery_required"}
NodeStatus == {"none", "completed", "failed", "skipped"}

\* WorkflowExecutionState; active_step is 0 when there is none.
State == [next_step_index : 1..(Steps + 1), active_step : 0..Steps,
          node_states : [Node -> NodeStatus], final_status : Final]
NewState == [next_step_index |-> 1, active_step |-> 0,
             node_states |-> [n \in Node |-> "none"], final_status |-> "none"]

JournalRow == [status : {"absent", "in_progress", "committed", "aborted"},
               owner_token : Attempt \union {None},
               execution : Attempt \union {None}, response : Final]
NoJournalRow == [status |-> "absent", owner_token |-> None,
                 execution |-> None, response |-> "none"]

Row == [journal_id : Key \union {None}, owner_token : Attempt \union {None}, state : State]
NoRow == [journal_id |-> None, owner_token |-> None, state |-> NewState]

TypeOK ==
    /\ journal \in [Key -> JournalRow]
    /\ row \in [Attempt -> Row]
    /\ target \in [Key -> Attempt \union {None}]
    /\ pc \in [Attempt -> {"new", "bind", "drive", "step", "record", "respond", "error",
                           "over"}]
    /\ exec \in [Attempt -> Attempt \union {None}]
    /\ mem \in [Attempt -> State]
    /\ ran \in [Attempt -> [Node -> Nat]]
    /\ dbErrors \in 0..MaxDbErrors

\* The earlier version may have left executions behind, each with its journal row
\* and no response.  What their state says is nothing to this version.
Left(e) == [journal_id |-> KeyOf[e], owner_token |-> e, state |-> NewState]

Init ==
    /\ \E left \in SUBSET Legacy :
          /\ row = [e \in Attempt |-> IF e \in left THEN Left(e) ELSE NoRow]
          /\ journal = [k \in Key |-> IF \E e \in left : KeyOf[e] = k
                                      THEN [NoJournalRow EXCEPT !.status = "in_progress"]
                                      ELSE NoJournalRow]
    /\ target = [k \in Key |-> None]
    /\ pc = [r \in Attempt |-> IF r \in Legacy THEN "over" ELSE "new"]
    /\ exec = [r \in Attempt |-> None]
    /\ mem = [r \in Attempt |-> NewState]
    /\ ran = [e \in Attempt |-> [n \in Node |-> 0]]
    /\ dbErrors = 0

Execution == {e \in Attempt : row[e].owner_token # None}
Goto(r, label) == pc' = [pc EXCEPT ![r] = label]

\* The handler has answered, or is gone.
Leave(r) ==
    /\ Goto(r, "over")
    /\ exec' = [exec EXCEPT ![r] = None]
    /\ mem' = [mem EXCEPT ![r] = NewState]

------------------------------------------------------------------------------
(***************************************************************************)
(* The handlers' dealings with the journal.                                 *)
(***************************************************************************)

\* PreparedOperation::Replay and InProgress.
Replay(r) ==
    /\ pc[r] = "new" /\ journal[KeyOf[r]].status = "committed"
    /\ Leave(r)
    /\ UNCHANGED <<journal, row, target, ran, dbErrors>>

Refuse(r) ==
    /\ pc[r] = "new" /\ journal[KeyOf[r]].status = "in_progress"
    /\ Leave(r)
    /\ UNCHANGED <<journal, row, target, ran, dbErrors>>

\* PreparedOperation::Acquired.  A request to resume names an execution; its
\* retries name the same one, or the fingerprint differs.
Acquire(r) == LET k == KeyOf[r] IN
    /\ pc[r] = "new" /\ journal[k].status # "committed"
    /\ journal' = [journal EXCEPT ![k].status = "in_progress", ![k].owner_token = r]
    /\ IF k \in ResumeKey /\ target[k] = None
       THEN \E e \in Execution : target' = [target EXCEPT ![k] = e]
       ELSE UNCHANGED target
    /\ Goto(r, "bind")
    /\ UNCHANGED <<row, exec, mem, ran, dbErrors>>

OwnsJournal(r) ==
    journal[KeyOf[r]].status = "in_progress" /\ journal[KeyOf[r]].owner_token = r

\* heartbeat.stop and commit_prepared_json_operation.
Commit(r) == LET k == KeyOf[r] IN
    /\ pc[r] = "respond"
    /\ journal' = IF OwnsJournal(r)
                  THEN [journal EXCEPT ![k].status = "committed", ![k].execution = exec[r],
                                       ![k].response = mem[r].final_status]
                  ELSE journal
    /\ Leave(r)
    /\ UNCHANGED <<row, target, ran, dbErrors>>

\* heartbeat.stop and abort_prepared_json_operation.
Abort(r) ==
    /\ pc[r] = "error"
    /\ journal' = IF OwnsJournal(r) THEN [journal EXCEPT ![KeyOf[r]].status = "aborted"]
                  ELSE journal
    /\ Leave(r)
    /\ UNCHANGED <<row, target, ran, dbErrors>>

------------------------------------------------------------------------------
(***************************************************************************)
(* bootstrap_workflow_execution_for_execute and _for_resume, each under the  *)
(* writer.                                                                  *)
(***************************************************************************)

\* rebind_owner: the row now belongs to the attempt and to its journal row.
Rebound(e, r) == [row EXCEPT ![e].journal_id = KeyOf[r], ![e].owner_token = r]

\* parse_workflow_execution_state, after the test of state_version; for a row that
\* this version cannot read, workflow_recovery_body, which is written nowhere.
Loaded(e) == IF e \in Legacy THEN [NewState EXCEPT !.final_status = "recovery_required"]
             ELSE row[e].state

\* An execution that has ended, or that this version cannot read, is answered at
\* once, any other is driven on.
Bind(r, e) ==
    /\ row' = Rebound(e, r)
    /\ exec' = [exec EXCEPT ![r] = e]
    /\ mem' = [mem EXCEPT ![r] = Loaded(e)]
    /\ Goto(r, IF Loaded(e).final_status # "none" THEN "respond" ELSE "drive")

\* get_by_journal_id
Bound(k) == {e \in Execution : row[e].journal_id = k}

BindExecute(r) == LET k == KeyOf[r] IN
    /\ pc[r] = "bind" /\ k \notin ResumeKey
    /\ \/ \E e \in Bound(k) : Bind(r, e)
       \/ /\ Bound(k) = {}
          /\ row' = [row EXCEPT ![r] = [journal_id |-> k, owner_token |-> r, state |-> NewState]]
          /\ exec' = [exec EXCEPT ![r] = r]
          /\ mem' = [mem EXCEPT ![r] = NewState]
          /\ Goto(r, "drive")
    /\ UNCHANGED <<journal, target, ran, dbErrors>>

BindResume(r) ==
    /\ pc[r] = "bind" /\ KeyOf[r] \in ResumeKey
    /\ Bind(r, target[KeyOf[r]])
    /\ UNCHANGED <<journal, target, ran, dbErrors>>

------------------------------------------------------------------------------
(***************************************************************************)
(* drive_workflow_execution.                                                *)
(***************************************************************************)
OwnedByAnyone(r) == TRUE

\* The WHERE clause of update_owned_state.
Owned(r) == row[exec[r]].journal_id = KeyOf[r] /\ row[exec[r]].owner_token = r

\* persist_workflow_execution_state; OPERATION_OWNERSHIP_LOST ends the driver.
Persist(r, state, label) ==
    /\ IF Owned(r)
       THEN /\ row' = [row EXCEPT ![exec[r]].state = state]
            /\ mem' = [mem EXCEPT ![r] = state]
            /\ Goto(r, label)
       ELSE UNCHANGED <<row, mem>> /\ Goto(r, "error")
    /\ UNCHANGED <<journal, target, exec, ran, dbErrors>>

MayRerunAny(n) == n > 0

\* workflow_step_retry_safe
MayRerun(n) == n \in RetrySafe

\* A driver that finds a step in progress takes it up again or, through
\* finalize_workflow_execution_failure, leaves the execution to an operator.
Rewind(r) == LET s == mem[r] IN
    /\ pc[r] = "drive" /\ s.active_step # 0 /\ MayRerun(s.active_step)
    /\ Persist(r, [s EXCEPT !.next_step_index = s.active_step, !.active_step = 0], "drive")

GiveUp(r) == LET s == mem[r] IN
    /\ pc[r] = "drive" /\ s.active_step # 0 /\ ~MayRerun(s.active_step)
    /\ Persist(r, [s EXCEPT !.final_status = "recovery_required"], "respond")

Ready(r) == pc[r] = "drive" /\ mem[r].active_step = 0 /\ mem[r].next_step_index <= Steps

PredecessorsIgnored(s) == TRUE

\* all_preds_completed, of the node that is next
PredecessorsCompleted(s) ==
    \A p \in Pred[s.next_step_index] : s.node_states[p] = "completed"

\* The next node is done with.
Advanced(s, status) ==
    [s EXCEPT !.node_states[s.next_step_index] = status, !.next_step_index = @ + 1,
              !.active_step = 0]

Skip(r) ==
    /\ Ready(r) /\ ~PredecessorsCompleted(mem[r])
    /\ Persist(r, Advanced(mem[r], "skipped"), "drive")

ActivatedInMemory(s) == s

Activated(s) == [s EXCEPT !.active_step = s.next_step_index]

\* The active step is written before the step runs ...
StartStep(r) ==
    /\ Ready(r) /\ PredecessorsCompleted(mem[r])
    /\ Persist(r, Activated(mem[r]), "step")

\* ... execute_workflow_step runs it ...
RunStep(r) ==
    /\ pc[r] = "step"
    /\ ran' = [ran EXCEPT ![exec[r]][mem[r].next_step_index] = @ + 1]
    /\ Goto(r, "record")
    /\ UNCHANGED <<journal, row, target, exec, mem, dbErrors>>

\* ... and its outcome is written after it.
RecordStep(r, status) ==
    /\ pc[r] = "record"
    /\ Persist(r, Advanced(mem[r], status), "drive")

EndExecution(r) == LET s == mem[r] IN
    /\ pc[r] = "drive" /\ s.active_step = 0 /\ s.next_step_index > Steps
    /\ Persist(r, [s EXCEPT !.final_status = IF \E n \in Node : s.node_states[n] \in {"failed", "skipped"}
                                             THEN "failed" ELSE "completed"], "respond")

------------------------------------------------------------------------------
\* A database call fails: the handler aborts, unless it was about to answer.
DatabaseFails(r) ==
    /\ pc[r] \in {"bind", "drive", "record", "respond", "error"}
    /\ dbErrors < MaxDbErrors /\ dbErrors' = dbErrors + 1
    /\ IF pc[r] \in {"respond", "error"} THEN Leave(r)
       ELSE Goto(r, "error") /\ UNCHANGED <<exec, mem>>
    /\ UNCHANGED <<journal, row, target, ran>>

\* The gateway crashes or the client goes away, and the handler with it.
Die(r) ==
    /\ pc[r] \in {"bind", "drive", "step", "record", "respond", "error"}
    /\ Leave(r)
    /\ UNCHANGED <<journal, row, target, ran, dbErrors>>

Drive(r) ==
    \/ Rewind(r) \/ GiveUp(r) \/ Skip(r) \/ StartStep(r) \/ RunStep(r) \/ EndExecution(r)
    \/ \E status \in {"completed", "failed"} : RecordStep(r, status)

Next ==
    \E r \in Attempt :
        \/ Replay(r) \/ Refuse(r) \/ Acquire(r) \/ Commit(r) \/ Abort(r)
        \/ BindExecute(r) \/ BindResume(r) \/ Drive(r)
        \/ DatabaseFails(r) \/ Die(r)

Spec == Init /\ [][Next]_vars

------------------------------------------------------------------------------
\* A node that is not retry-safe (an LLM call, a tool) runs at most once in an
\* execution, however often the execution is retried, resumed or taken over
\* while an earlier driver is still in the step.
UnsafeStepOnce == \A e \in Attempt, n \in Node \ RetrySafe : ran[e][n] <= 1

\* What ran is in the row: a node that is not retry-safe and has run is either
\* recorded or the row's active step, so that no later driver takes it for one
\* that has not run.
NoSilentRun ==
    \A e \in Attempt, n \in Node \ RetrySafe :
        ran[e][n] > 0 =>
            \/ row[e].state.active_step = n
            \/ row[e].state.node_states[n] \in {"completed", "failed"}

\* What the row says happened: a node recorded with an outcome has run, one that
\* completed did so after its predecessors had completed, and an execution that
\* is reported completed completed every node.
RecordIsTrue ==
    \A e \in Attempt : LET s == row[e].state IN
        /\ \A n \in Node :
              /\ s.node_states[n] \in {"completed", "failed"} =>
                    ran[e][n] > 0 /\ \A p \in Pred[n] : s.node_states[p] = "completed"
              /\ s.final_status = "completed" => s.node_states[n] = "completed"

\* The response that the journal replays is the outcome in the execution row: no
\* driver that lost the row changes an execution after it was answered.  Of a row
\* that this version cannot read the answer is recovery_required, always, and the
\* row stays without an outcome: it is never driven, completed or failed.
AnswerIsOutcome ==
    \A k \in Key : journal[k].status = "committed" =>
        LET e == journal[k].execution
            outcome == row[e].state.final_status
        IN IF e \in Legacy THEN journal[k].response = "recovery_required" /\ outcome = "none"
                           ELSE journal[k].response = outcome /\ outcome # "none"

================================================================================
