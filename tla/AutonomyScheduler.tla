------------------------- MODULE AutonomyScheduler -------------------------
(***************************************************************************)
(* The gateway's autonomy runtime (ghost-gateway/src/autonomy.rs with      *)
(* cortex-storage/src/queries/autonomy_queries.rs): one scheduler task     *)
(* that selects due jobs, reserves a slot, leases the job, creates its run *)
(* and sends it to a pool of workers; workers that check the operator's    *)
(* controls, perform the run's side effect and write its outcome; and      *)
(* operators who change the controls and approve runs meanwhile.           *)
(*                                                                         *)
(* An action ends where the code awaits a lock or another task.  Due times *)
(* are numbered per job: every rescheduling takes the next number, and     *)
(* BecomeDue is the clock reaching it.  A run is keyed by its job and due  *)
(* number, as its correlation key is.  The owner token is unique, so it    *)
(* stands for the pair of token and lease epoch.                           *)
(***************************************************************************)
EXTENDS Integers, FiniteSets, Sequences

CONSTANTS
    Agent, Worker, Job,
    AgentOf,           \* the agent of each job
    Kind,              \* of each job: "workflow", "heartbeat", "notification"
    ApprovalJob,       \* jobs with an approval_policy other than "none"
    Control,           \* what the pre-dispatch controls may find
    GlobalConcurrency, PerAgentConcurrency,
    Attempts,          \* of the retry policy
    MaxDue,            \* due times of each job
    MaxFaults          \* crashes and failed calls, together

ASSUME SchedulerAssumption ==
    /\ AgentOf \in [Job -> Agent]
    /\ Kind \in [Job -> {"workflow", "heartbeat", "notification"}]
    /\ ApprovalJob \subseteq Job
    /\ Control \subseteq {"clear", "approval", "pause", "quarantine", "quiet", "suppress"}
    /\ GlobalConcurrency \in Nat \ {0} /\ PerAgentConcurrency \in Nat \ {0}
    /\ Attempts \in Nat /\ MaxDue \in [Job -> Nat \ {0}]
    /\ MaxFaults \in Nat

VARIABLES
    job, lease, run,   \* the tables autonomy_jobs, _leases and _runs
    prepared,          \* owner tokens handed out, per job
    sched,             \* "running" or "stopped"
    picks, held,       \* the scheduler's selection, and the one it reserved for
    reserved,          \* slots per agent
    total,             \* queued_slots
    channel, worker,
    killed,            \* PLATFORM_KILLED
    faults,
    effects,           \* history: side effects performed, per run
    approvedRuns,      \* history: runs an operator approved
    orphaned           \* history: jobs whose dispatch a crash or error ended

tables == <<job, lease, run, prepared>>
dispatcher == <<sched, picks, held, reserved, total, channel, worker>>
history == <<effects, approvedRuns, orphaned>>
vars == <<tables, dispatcher, killed, faults, history>>

Due(j) == 1..MaxDue[j]
Key == UNION {{j} \X Due(j) : j \in Job}

NoLease == [token |-> 0, expired |-> TRUE]
NoRun == [state |-> "none", attempt |-> 0, approval |-> "none", owner |-> 0]
NoItem == [step |-> "idle"]
NoPick == <<>>

JobState == {"absent", "queued", "leased", "running", "waiting", "succeeded",
             "failed", "paused", "quarantined"}
RunState == {"leased", "running", "waiting", "succeeded", "failed", "paused", "quarantined"}
Step == {"held", "pause", "quarantine", "quiet", "suppress", "pending", "expired",
         "mark", "effect", "ok", "error", "blocked"}
Item == [key: Key, token: Nat]

TypeOK ==
    /\ job \in [Job -> [state: JobState, due: Nat \ {0}, ready: BOOLEAN, review: BOOLEAN]]
    /\ lease \in [Job -> [token: Nat, expired: BOOLEAN]]
    /\ run \in [Key -> [state: RunState, attempt: Nat, owner: Nat,
                        approval: {"not_required", "pending", "approved", "lapsed", "expired"}]
                       \cup {NoRun}]
    /\ prepared \in [Job -> Nat]
    /\ sched \in {"running", "stopped"}
    /\ picks \subseteq Key /\ held \in Key \cup {NoPick}
    /\ reserved \in [Agent -> 0..PerAgentConcurrency] /\ total \in 0..GlobalConcurrency
    /\ channel \in Seq(Item) /\ Len(channel) <= GlobalConcurrency
    /\ worker \in [Worker -> [step: Step, item: Item] \cup {NoItem}]
    /\ killed \in BOOLEAN
    /\ faults \in 0..MaxFaults
    /\ effects \in [Key -> Nat] /\ approvedRuns \subseteq Key /\ orphaned \subseteq Job

\* Notification jobs do not exist until a heartbeat enqueues them.
Init ==
    /\ job = [j \in Job |-> [state |-> IF Kind[j] = "notification" THEN "absent" ELSE "queued",
                             due |-> 1, ready |-> FALSE, review |-> FALSE]]
    /\ lease = [j \in Job |-> NoLease]
    /\ run = [k \in Key |-> NoRun]
    /\ prepared = [j \in Job |-> 0]
    /\ sched = "running" /\ picks = {} /\ held = NoPick
    /\ reserved = [a \in Agent |-> 0] /\ total = 0
    /\ channel = <<>> /\ worker = [w \in Worker |-> NoItem]
    /\ killed = FALSE /\ faults = 0
    /\ effects = [k \in Key |-> 0] /\ approvedRuns = {} /\ orphaned = {}

(***************************************************************************)
(* Slots.                                                                  *)
(***************************************************************************)
FreeSlotIgnoringAgent(a) == total < GlobalConcurrency

\* The tests of reserve_slot.
FreeSlot(a) == total < GlobalConcurrency /\ reserved[a] < PerAgentConcurrency

ReleaseSlotOfNobody(a) == total' = total - 1 /\ reserved' = reserved

\* release_slot.  Its two updates, and those of reserve_slot, are one step: only the
\* scheduler reserves, it tests the counts in the order in which they are given back,
\* so between the two it finds at worst no slot and takes the job in the next round.
ReleaseSlot(a) == total' = total - 1 /\ reserved' = [reserved EXCEPT ![a] = @ - 1]

(***************************************************************************)
(* The scheduler task.                                                     *)
(***************************************************************************)

\* The clock reaches a job's next_run_at or retry_after.
BecomeDue(j) ==
    /\ job[j].due <= MaxDue[j] /\ ~job[j].ready
    /\ job' = [job EXCEPT ![j].ready = TRUE]
    /\ UNCHANGED <<lease, run, prepared, dispatcher, killed, faults, history>>

SelectableInAnyState(j) == job[j].state # "absent" /\ ~job[j].review /\ job[j].ready

\* select_due_jobs
Selectable(j) ==
    /\ job[j].state \in {"queued", "waiting", "failed"}
    /\ ~job[j].review
    /\ job[j].ready

\* One round of scheduler_loop selects; what follows uses this selection.
Poll ==
    /\ sched = "running" /\ picks = {} /\ held = NoPick
    /\ \E j \in Job : Selectable(j)
    /\ picks' = {<<j, job[j].due>> : j \in {i \in Job : Selectable(i)}}
    /\ UNCHANGED <<tables, sched, held, reserved, total, channel, worker, killed,
                   faults, history>>

\* The kill is seen only between two rounds, and ends the task for good.
StopScheduler ==
    /\ sched = "running" /\ killed /\ picks = {} /\ held = NoPick
    /\ sched' = "stopped"
    /\ UNCHANGED <<tables, picks, held, reserved, total, channel, worker, killed,
                   faults, history>>

\* reserve_slot for the next selected job; without a slot it waits for the
\* next round.
Reserve(p) == LET a == AgentOf[p[1]] IN
    /\ held = NoPick /\ p \in picks
    /\ picks' = picks \ {p}
    /\ IF FreeSlot(a)
       THEN held' = p /\ total' = total + 1 /\ reserved' = [reserved EXCEPT ![a] = @ + 1]
       ELSE UNCHANGED <<held, total, reserved>>
    /\ UNCHANGED <<tables, sched, channel, worker, killed, faults, history>>

\* acquire_lease, without its writes.
LeaseFree(j) == lease[j].expired /\ job[j].state \in {"queued", "waiting", "failed", "leased"}

Leased(j) ==
    /\ lease' = [lease EXCEPT ![j] = [token |-> prepared[j] + 1, expired |-> FALSE]]
    /\ prepared' = [prepared EXCEPT ![j] = @ + 1]
    /\ job' = [job EXCEPT ![j].state = "leased"]

\* The run for a due time: an earlier one is rebound to the new owner
\* (rebind_run_owner), otherwise one is inserted.  attempt counts all runs.
RunFor(p, token) ==
    IF run[p] # NoRun
    THEN IF run[p].state \in {"leased", "running", "waiting", "failed", "paused"}
         THEN [run[p] EXCEPT !.state = "leased", !.owner = token]
         ELSE run[p]
    ELSE [state    |-> "leased",
          attempt  |-> Cardinality({d \in Due(p[1]) : run[<<p[1], d>>] # NoRun}),
          approval |-> IF p[1] \in ApprovalJob THEN "pending" ELSE "not_required",
          owner    |-> token]

CapacityOneLess == Len(channel) < GlobalConcurrency - 1

\* The dispatch channel holds global_concurrency items.
ChannelHasRoom == Len(channel) < GlobalConcurrency

\* prepare_dispatch under the write lock, and try_send.
Prepare == LET p == held  j == p[1] IN
    /\ held # NoPick
    /\ held' = NoPick
    /\ IF LeaseFree(j)
       THEN /\ Leased(j)
            /\ run' = [run EXCEPT ![p] = RunFor(p, prepared[j] + 1)]
            /\ IF ChannelHasRoom
               THEN /\ channel' = Append(channel, [key |-> p, token |-> prepared[j] + 1])
                    /\ UNCHANGED <<total, reserved>>
               ELSE ReleaseSlot(AgentOf[j]) /\ UNCHANGED channel
       ELSE ReleaseSlot(AgentOf[j]) /\ UNCHANGED <<tables, channel>>
    /\ UNCHANGED <<sched, picks, worker, killed, faults, history>>

\* prepare_dispatch when the run cannot be written: the lease is committed.
PrepareFails == LET j == held[1] IN
    /\ held # NoPick /\ LeaseFree(j)
    /\ faults < MaxFaults /\ faults' = faults + 1
    /\ held' = NoPick
    /\ Leased(j)
    /\ ReleaseSlot(AgentOf[j])
    /\ orphaned' = orphaned \cup {j}
    /\ UNCHANGED <<run, sched, picks, channel, worker, killed, effects, approvedRuns>>

(***************************************************************************)
(* The workers.                                                            *)
(***************************************************************************)
Receive(w) ==
    /\ worker[w] = NoItem /\ channel # <<>>
    /\ worker' = [worker EXCEPT ![w] = [step |-> "held", item |-> Head(channel)]]
    /\ channel' = Tail(channel)
    /\ UNCHANGED <<tables, sched, picks, held, reserved, total, killed, faults, history>>

Go(w, step) == worker' = [worker EXCEPT ![w].step = step]

ApprovalRequiredByPolicyOnly(j, c) == c = "approval"

\* approval_required, by the policy or by the job
ApprovalRequired(j, c) == c = "approval" \/ j \in ApprovalJob

(***************************************************************************)
(* The reads of dispatch_item and enforce_pre_dispatch_controls.  Policy   *)
(* documents, quarantine, pullback, quiet hours and suppressions change at *)
(* any time and are read here only: what they say is an input, c.  The     *)
(* first control that applies decides ("pause" is the policy's or an       *)
(* access pullback's), then the approval of this run; "approval" is a      *)
(* policy that demands one.                                                *)
(***************************************************************************)
Check(w, c) == LET k == worker[w].item.key IN
    /\ worker[w] # NoItem /\ worker[w].step = "held"
    /\ CASE c \notin {"clear", "approval"} -> Go(w, c)
         [] c \in {"clear", "approval"} /\ ApprovalRequired(k[1], c)
                /\ run[k].approval # "approved" ->
              Go(w, IF run[k].approval = "lapsed" THEN "expired" ELSE "pending")
         [] OTHER -> Go(w, "mark")
    /\ UNCHANGED <<tables, sched, picks, held, reserved, total, channel, killed,
                   faults, history>>

\* valid_run_transition, as far as the workers use it.
ValidRunTransition(from, to) ==
    \/ from = "leased" /\ to \in {"running", "waiting", "succeeded", "failed", "paused", "quarantined"}
    \/ from = "running" /\ to \in {"waiting", "succeeded", "failed", "paused", "quarantined"}
    \/ from = "failed" /\ to \in {"waiting", "paused", "quarantined"}
    \/ from = "waiting" /\ to \in {"paused", "quarantined"}

\* The WHERE clause of every write of a worker.
Fenced(it) == run[it.key].owner = it.token

\* mark_run_running; that it changed no row is not noticed, an invalid
\* transition ends the dispatch.
MarkRunning(w) == LET it == worker[w].item  k == it.key IN
    /\ worker[w].step = "mark"
    /\ IF ValidRunTransition(run[k].state, "running")
       THEN /\ run' = IF Fenced(it) THEN [run EXCEPT ![k].state = "running"] ELSE run
            /\ job' = IF Fenced(it) THEN [job EXCEPT ![k[1]].state = "running"] ELSE job
            /\ Go(w, "effect")
            /\ UNCHANGED <<total, reserved, orphaned>>
       ELSE /\ worker' = [worker EXCEPT ![w] = NoItem]
            /\ ReleaseSlot(AgentOf[k[1]])
            /\ orphaned' = orphaned \cup {k[1]}
            /\ UNCHANGED <<run, job>>
    /\ UNCHANGED <<lease, prepared, sched, picks, held, channel, killed, faults,
                   effects, approvedRuns>>

\* A heartbeat may enqueue a notification job of its agent, due at once.
Enqueued(n) == [job EXCEPT ![n] = [@ EXCEPT !.state = "queued", !.ready = TRUE]]
Enqueueable(a) == {n \in Job : job[n].state = "absent" /\ AgentOf[n] = a}

\* dispatch_heartbeat, dispatch_workflow, dispatch_notification: a workflow
\* may be blocked by the policy or the budget, and it may fail.  The gateway inserts
\* jobs of these three types only; a row of another type would be blocked too.
Effect(w) == LET k == worker[w].item.key  j == k[1] IN
    /\ worker[w].step = "effect"
    /\ \/ Kind[j] = "workflow" /\ Go(w, "blocked") /\ UNCHANGED <<effects, job>>
       \/ /\ Kind[j] = "workflow"
          /\ Go(w, "error") \/ Go(w, "ok")
          /\ effects' = [effects EXCEPT ![k] = @ + 1]
          /\ UNCHANGED job
       \/ /\ Kind[j] # "workflow"
          /\ Go(w, "ok")
          /\ effects' = [effects EXCEPT ![k] = @ + 1]
          /\ \/ UNCHANGED job
             \/ Kind[j] = "heartbeat" /\ \E n \in Enqueueable(AgentOf[j]) : job' = Enqueued(n)
    /\ UNCHANGED <<lease, run, prepared, sched, picks, held, reserved, total, channel,
                   killed, faults, approvedRuns, orphaned>>

\* finish_run, complete_run_and_requeue, reschedule_job, defer_run: the run and
\* the job are written and the lease is deleted, if the run is still owned.
Conclude(w, runState, approval, newJob) == LET it == worker[w].item  j == it.key[1] IN
    /\ IF ValidRunTransition(run[it.key].state, runState) /\ Fenced(it)
       THEN /\ run' = [run EXCEPT ![it.key].state = runState, ![it.key].approval = approval]
            /\ job' = [job EXCEPT ![j] = newJob]
            /\ lease' = [lease EXCEPT ![j] = IF @.token = it.token THEN NoLease ELSE @]
            /\ UNCHANGED orphaned
       ELSE orphaned' = orphaned \cup {j} /\ UNCHANGED <<run, job, lease>>
    /\ worker' = [worker EXCEPT ![w] = NoItem]
    /\ ReleaseSlot(AgentOf[j])
    /\ UNCHANGED <<prepared, sched, picks, held, channel, killed, faults,
                   effects, approvedRuns>>

\* Past MaxDue the job is not due any more.
NextDue(j) == IF job[j].due > MaxDue[j] THEN job[j].due ELSE job[j].due + 1

\* The job of a finished run, without and with a new due time.
Ended(j, state, review) == [job[j] EXCEPT !.state = state, !.review = review]
Rescheduled(j, state, review) ==
    [state |-> state, due |-> NextDue(j), ready |-> FALSE, review |-> review]

\* retry_or_manual_review compares the number of the run, not of the failures.
MayRetry(k) == run[k].attempt < Attempts

\* The controls' outcomes: pause_run, quarantine_run, defer_run for quiet hours
\* or a missing approval, complete_suppressed.
EndUndispatched(w) == LET k == worker[w].item.key  j == k[1]  appr == run[k].approval IN
    \/ worker[w].step = "pause" /\ Conclude(w, "paused", appr, Ended(j, "paused", FALSE))
    \/ worker[w].step = "quarantine"
         /\ Conclude(w, "quarantined", appr, Ended(j, "quarantined", FALSE))
    \/ worker[w].step = "quiet"
         /\ Conclude(w, "waiting", appr, Rescheduled(j, "waiting", job[j].review))
    \/ worker[w].step \in {"pending", "expired"}
         /\ Conclude(w, "waiting", worker[w].step, Rescheduled(j, "waiting", job[j].review))
    \/ worker[w].step = "suppress"
         /\ Conclude(w, "succeeded", appr, Rescheduled(j, "queued", FALSE))

\* complete_success, retry_or_manual_review, fail_to_manual_review.
EndDispatched(w) == LET k == worker[w].item.key  j == k[1]  appr == run[k].approval IN
    \/ /\ worker[w].step = "ok"
       /\ Conclude(w, "succeeded", appr,
             IF Kind[j] = "notification" THEN Ended(j, "succeeded", FALSE)
             ELSE Rescheduled(j, "queued", FALSE))
    \/ /\ worker[w].step = "error" /\ MayRetry(k)
       /\ Conclude(w, "waiting", appr, Rescheduled(j, "waiting", job[j].review))
    \/ /\ worker[w].step = "blocked" \/ (worker[w].step = "error" /\ ~MayRetry(k))
       /\ Conclude(w, "failed", appr, Ended(j, "failed", TRUE))

\* dispatch_item returns an error where it has written nothing more: a read or a
\* write failed, or the payload does not parse.  The worker gives the slot back and
\* leaves run, job and lease as they are.
DispatchFails(w) == LET j == worker[w].item.key[1] IN
    /\ worker[w] # NoItem
    /\ faults < MaxFaults /\ faults' = faults + 1
    /\ worker' = [worker EXCEPT ![w] = NoItem]
    /\ ReleaseSlot(AgentOf[j])
    /\ orphaned' = orphaned \cup {j}
    /\ UNCHANGED <<tables, sched, picks, held, channel, killed, effects, approvedRuns>>

(***************************************************************************)
(* Operators, time and crashes.                                            *)
(***************************************************************************)

\* approve_run: the job is made due now, which is a new due time.
Approve(k) == LET j == k[1] IN
    /\ run[k].approval \in {"pending", "expired"}
    /\ job[j].due < MaxDue[j]
    /\ run' = [run EXCEPT ![k].approval = "approved"]
    /\ job' = [job EXCEPT ![j] = [state |-> "queued", due |-> @.due + 1, ready |-> TRUE,
                                  review |-> FALSE]]
    /\ approvedRuns' = approvedRuns \cup {k}
    /\ UNCHANGED <<lease, prepared, dispatcher, killed, faults, effects, orphaned>>

ApprovalLapses(k) ==
    /\ run[k].approval = "approved"
    /\ run' = [run EXCEPT ![k].approval = "lapsed"]
    /\ UNCHANGED <<job, lease, prepared, dispatcher, killed, faults, history>>

\* lease_ttl has passed; renew_lease has no caller.
LeaseExpires(j) ==
    /\ ~lease[j].expired
    /\ lease' = [lease EXCEPT ![j].expired = TRUE]
    /\ UNCHANGED <<job, run, prepared, dispatcher, killed, faults, history>>

KillPlatform ==
    /\ ~killed
    /\ killed' = TRUE
    /\ UNCHANGED <<tables, dispatcher, faults, history>>

InFlightItems == {channel[i] : i \in 1..Len(channel)}
                     \cup {worker[w].item : w \in {v \in Worker : worker[v] # NoItem}}
InFlight(j) == \E it \in InFlightItems : it.key[1] = j

\* The process dies and starts again; reconcile_bootstrap_jobs leaves jobs that
\* exist as they are.
CrashRestart ==
    /\ faults < MaxFaults /\ faults' = faults + 1
    /\ orphaned' = orphaned \cup {j \in Job : InFlight(j)}
    /\ sched' = "running" /\ picks' = {} /\ held' = NoPick
    /\ reserved' = [a \in Agent |-> 0] /\ total' = 0
    /\ channel' = <<>> /\ worker' = [w \in Worker |-> NoItem]
    /\ UNCHANGED <<tables, killed, effects, approvedRuns>>

SchedulerStep == Poll \/ StopScheduler \/ (\E p \in Key : Reserve(p)) \/ Prepare
WorkerStep(w) == Receive(w) \/ (\E c \in Control : Check(w, c)) \/ MarkRunning(w) \/ Effect(w)
                    \/ EndUndispatched(w) \/ EndDispatched(w)

TimePasses == \E j \in Job : BecomeDue(j) \/ LeaseExpires(j)

Next ==
    \/ SchedulerStep
    \/ PrepareFails
    \/ \E w \in Worker : WorkerStep(w) \/ DispatchFails(w)
    \/ TimePasses
    \/ \E k \in Key : Approve(k) \/ ApprovalLapses(k)
    \/ KillPlatform
    \/ CrashRestart

Spec == Init /\ [][Next]_vars

\* The scheduler's interval and the workers' tasks are polled by the runtime,
\* every side effect ends (workflow steps and turns have timeouts), and time
\* passes.
Fairness ==
    /\ WF_vars(SchedulerStep)
    /\ \A w \in Worker : WF_vars(WorkerStep(w))
    /\ WF_vars(TimePasses)

FairSpec == Spec /\ Fairness

-----------------------------------------------------------------------------
(***************************************************************************)
(* Properties.                                                             *)
(***************************************************************************)
Holders(a) == Cardinality({it \in InFlightItems : AgentOf[it.key[1]] = a})
                 + (IF held # NoPick /\ AgentOf[held[1]] = a THEN 1 ELSE 0)

(* Slots are neither leaked nor given back twice, over every way a dispatch *)
(* ends: an agent's count is the number of its dispatches in the channel,   *)
(* at a worker, or being prepared, and queued_slots that of all agents.     *)
SlotsAccounted ==
    /\ \A a \in Agent : reserved[a] = Holders(a)
    /\ total = Cardinality(InFlightItems) + (IF held # NoPick THEN 1 ELSE 0)

(* A lease stands for a dispatch: unless a crash or a failed call ended     *)
(* its dispatch, a leased job has an item in the channel or at a worker     *)
(* that holds the lease's token, so a prepared item is never refused by the *)
(* channel (try_send in scheduler_loop) and left leased with nobody to run  *)
(* it.                                                                      *)
LeasesAreDispatched ==
    \A j \in Job \ orphaned :
        lease[j] # NoLease =>
            \E it \in InFlightItems : it.key[1] = j /\ it.token = lease[j].token

(* A job never has two dispatches in flight ("forbid" and "queue_one" of    *)
(* overlap_policy), although a lease may expire under a long run and an     *)
(* approval may queue the job meanwhile.                                    *)
NoOverlap ==
    \A x, y \in InFlightItems : x.key[1] = y.key[1] => x = y

(* The side effect of a run happens at most once, over crashes, retries and *)
(* approvals.                                                               *)
EffectOncePerRun == \A k \in Key : effects[k] <= 1

(* "approval gating is enforced before side effects": a job that demands an *)
(* approval has no side effect on a run that no operator approved.          *)
ApprovalBeforeEffect ==
    \A k \in Key : (k[1] \in ApprovalJob /\ effects[k] > 0) => k \in approvedRuns

(* A due job is dispatched and its dispatch ends, whatever the operators do *)
(* and however the run ends: no slot, lease, selection or control blocks it *)
(* for good, and what is in flight ends even after a kill.                  *)
DueJobsSettle ==
    \A j \in Job : (Selectable(j) \/ InFlight(j)) ~>
                        (~InFlight(j) /\ (killed \/ ~Selectable(j)))

(* "Lease recovery window: bounded by lease TTL plus scheduler poll         *)
(* interval": a job that is leased or running is so only for a time.        *)
LeaseRecovered ==
    \A j \in Job : (job[j].state \in {"leased", "running"}) ~>
                        (killed \/ job[j].state \notin {"leased", "running"})

=============================================================================
