# A TLA+ development for agent-ghost

agent-ghost (GHOST) is a platform for autonomous agents: a Rust gateway that runs
agents, a convergence monitor that watches them, a memory store (cortex), and a
mesh that connects gateways. This directory models the parts whose errors are hard
to test: what **stops** agents (the kill switch with its persistence, the
distributed kill gate), what **watches** them (the convergence monitor and the
gateway's link to it), and what **runs** them durably (the operation journal,
workflow executions, live executions, the autonomy scheduler). The models are
checked with TLC; the safety properties that the passing runs check are also proved
with TLAPS, for every value of the constants.

## 1. Inventory

| Component | State it keeps | Operations | Hard behaviour | Correct when |
|---|---|---|---|---|
| Kill gate, one node (`ghost-kill-gates`: gate, quorum, config) | atomic state, closure record, acks, vote tracker | `close`, `begin_propagation`, `record_ack`, `cast_resume_vote`, `restore_persisted_state` | lock-free load/store pairs next to a lock; late acks; votes across closures; a rollback of the whole gate | only a quorum, or the rollback of a failed request, opens it; a recorded closure is in force |
| Kill gate relay (`relay`, `kill_gate_bridge`) | peers, the gate | `process_message`, `close_and_propagate` | lost, duplicated, reordered messages | Confirmed speaks for the cluster; acks and repeated votes open nothing |
| Kill switch (`safety/kill_switch.rs`) | platform level, level per agent, a global flag | activate, resume, check, restore | a check made before the lock is taken | levels fall only by an explicit resume |
| Safety API (`api/safety.rs`) | `kill_state.json` and its temporary file | kill_all, pause, resume, quarantine; persist; load | two writers of one temporary path; rollback of a whole-state copy; crash between any two calls | what was reported is in force and durable |
| Auto-trigger task (`safety/auto_triggers.rs`) | dedup map | one handler for twelve trigger variants, T6 cascade | runs in parallel with the API | the cascade is complete; broadcasts are kept |
| Access pullback (`agents/registry.rs`, `state.rs`), restart (`bootstrap.rs`) | per-agent access | sync, restore, safe mode | stale copies | access follows the level |
| Operation journal (`api/idempotency.rs`, `operation_journal_queries.rs`) | one row per actor and key: status, owner, epoch, expiry, response | prepare, commit, abort, renew, take over | lease expiry, takeover, late commit, crash | one result per key |
| Convergence monitor (`convergence-monitor`: `monitor.rs`, `intervention/`) | per agent: level, hysteresis, cooldown, acknowledgement, credits; sessions; a threshold and a pending change; SQLite rows | session events, acknowledge, propose and confirm a threshold, tick, restart | order of cycles, session ends and ticks; failing writes and reads; restarts | decisions survive restarts; one level at a time, when due; two actors to lower the threshold |
| Autonomy scheduler (`autonomy.rs`, `autonomy_queries.rs`) | jobs, runs, leases, slots, a bounded channel | poll, reserve, lease, dispatch, check, perform, retry, defer, approve | leases against workers, approvals in flight, kill, crash | no leaked slot, no doubled effect, no starved job |
| Gateway state and monitor link (`gateway.rs`, `health.rs`, `itp_*`, `runtime.rs`) | one atomic state, an event buffer | check, degrade, recover, route, replay, shut down | load/store races, two recoveries at once, a send failing in mid-replay, two limits of the buffer | no event lost but at the limits, recovery always ends |
| Workflow execution (`api/workflows.rs`) | one row per execution, owned by a journal lease | execute, resume, drive, recover | takeover while a step with effects runs; rows of an earlier version | no such step runs twice |
| Live execution (`api/studio_sessions.rs`, `agent_chat.rs`, `live_executions.rs`) | a record per execution, cancellation tokens, a journal row | send a message, stream, cancel | lost leases, cancel against begin, two writes that must agree | one turn, one answer, final outcomes final |
| Session lanes, cost tracker, messaging, agent loop | queues, totals, nonces, breaker | enqueue/dequeue, pre/post check, verify, gate order | limits, concurrent checks, replays | bounded, serialized, checked before use |
| Mesh, LLM providers, policy, OAuth, channels, skills, cortex, user interfaces | – | – | mostly I/O, cryptography or floating point | not modelled, see section 8 |

**How they interact.** A trigger (soul drift, spending cap, sandbox escape, ...)
travels through a channel to the auto-trigger task, an operator's request through
HTTP to a handler of the safety API. Both change the kill switch, strip or restore
the agents' access, and persist the kill state. `kill_all` also closes the
distributed gate, whose relay notifies the peers. Every handler runs inside the
operation journal and holds the database's only writer connection while it does.
On restart the bootstrap rebuilds kill switch and gate from the file.

Chat messages, streams and workflows are journal clients too, with durable records
of their own. The autonomy scheduler runs workflows and agent turns by itself when
jobs are due. Every session sends ITP events through the gateway's link to the
convergence monitor, which scores the agent and intervenes; while the monitor is
unreachable the gateway is Degraded and buffers.

`PROJECT.json` lists all components, and under `hazards` the places where the code
is hard to test, with the property that would catch it going wrong.

## 2. Modules

```
KillGateOps ── KillGate ───────── MCKillGate         KillSwitchOps ── SafetyControl ── MCSafetyControl
     │             ├── KillGateProofs                                     └── SafetyControlProofs
     └──────── KillGateCluster ── MCKillGateCluster  IdempotentKey <── OperationJournal ── MCOperationJournal
                                                     (refined by)           └── OperationJournalProofs

InterventionOps ── ConvergenceMonitor ── MCConvergenceMonitor      MonitorLink ── MCMonitorLink
                        └── ConvergenceMonitorProofs                    └── MonitorLinkProofs
AutonomyScheduler ── MCAutonomyScheduler      WorkflowExecution ── MCWorkflowExecution
     └── AutonomySchedulerProofs                   └── WorkflowExecutionProofs
LiveExecution ── MCLiveExecution
     └── LiveExecutionProofs
```

**KillGateOps** is the gate as a value and its operations as functions: what
`KillGate` does under its write lock. `closedAt` stands for the three fields that
are always assigned together, `required = 0` for "no tracker".

**KillGate** interleaves threads on one gate. `close`, `record_ack` and the locked
part of `cast_resume_vote` are atomic. `begin_propagation` is two steps
(`LoadPropagation`, `StorePropagation`) and so is a vote (`LoadVote`, `CountVote`),
because the code tests the state before it takes the lock or without taking it.
`Capture`, `Succeed` and `Restore` are a safety request of the gateway: it copies the
gate at its start (`persisted_state`) and, when it fails, puts the whole copy back
(`restore_persisted_state`), over whatever closes, acks and votes came between. Both
run under the bridge's lock, which nobody inside the gate then holds, so that each is
one step. A history records who voted since the gate last opened.

**KillGateCluster** connects one gate per node. A message is handled in one step
(`process_message` takes `&mut self`). The repository has no sender, so the
transport is external: anything in flight may be delivered late, never, or, with
`Duplicates`, again. A message carries nothing that says which closure it is for,
because the relay reads nothing of the kind. Each node has its own configuration:
`Resumable` are those with `authenticated_cluster_membership`, none by default;
`RollsBack` are those where a safety request may fail and restore its copy. Its
specification is `ClusterSpec`, its gates are `gates`: KillGateProofs extends it and
KillGate together.

**KillSwitchOps** is the kill switch as a value: levels by discriminant, activation,
the T6 test, trigger classification, and whose access a state withdraws.

**SafetyControl** is the control plane around it: the API handlers (one at a time,
as they hold the writer), the auto-trigger task, and a file system. Each lock
acquisition and each system call is a step: copy the state, mutate, sync (copy,
then apply), copy for persisting, create the temporary file, write, rename; and on
failure clean up, restore the copy, restore the gate, sync again. A file is absent,
empty, garbled or whole, and `fd` says which name a thread's open file has now, so
that the two threads meet in the temporary file as they do in the code.
`CrashRestart` kills the process between any two steps and rebuilds memory from
the file as the bootstrap does. `acked` is the history that matters: per agent,
the level that some response or broadcast reported and no resume has lifted. Handler
and task run in parallel, as in the code; `overlaps` counts how often one has begun in
the middle of the other (`Begin`), and `undone` says whether, after the first overlap
(`~Alone`), a rollback or a restart has replaced the state.

**IdempotentKey** is the promise to clients: the attempts that share a key have one
result between them. **OperationJournal** is the table with leases, owner tokens
and epochs. *Inline* requests hold the writer from lease to commit and their effect
is part of the committing transaction; *detached* ones (webhook test, agent chat,
A2A, workflows) release it, act on the outside world, and keep the lease by a
heartbeat. The refinement maps `result` to the rows' responses.

**InterventionOps** is the intervention state of one agent as a value, with `evaluate`,
`try_deescalate`, `acknowledge` and the expiry of cooldowns as functions.
**ConvergenceMonitor** is the event loop around it. The loop runs one handler at a time,
so an action is a whole handler; its parameter `f` is the set of its writes that fail.
Memory (`st`, `cache`, `threshold`, ...) and the database (`row`, `score`,
`thresholdRow`, ...) are separate variables, and a restart rebuilds the first from the
second; `missed` says which of the rows it cannot open, query or parse, for which
`reconstruct_state` starts afresh. Scores are levels that the environment chooses.
`hist` remembers what a property needs from the past: when the next escalation is due,
whether an acknowledgement is owed, whether the last write failed.

**AutonomyScheduler** has the three tables, the scheduler, the channel and the
workers, with an action for each stretch between two awaits. A due time is a number
per job and a run is keyed by job and due time, as the code's correlation key is.
The verdict of the pre-dispatch controls (pause, quarantine, quiet hours,
suppression, approval) is one choice per dispatch. `DispatchFails` stands for all exits
of a worker with an error: the slot is given back, run, job and lease stay.
`release_slot` is one step; the code decrements the total and then takes the lock of the
per-agent map, and `reserve_slot` in between still finds the agent's slot taken. Of job
types, the three that the gateway inserts are modelled.

**MonitorLink** composes the gateway state, the health checker, the recovery
coordinators (spawned tasks that nobody tracks, so that two may run), the router
with its buffer, two tasks that route, and the shutdown to the end of the process.
`transition_to` is a load and a store. Events have sizes, and `push` evicts the oldest
while there is no room by count or by bytes. What a failed replay puts back is pushed
event by event (`Requeue`), which is finer than the code: it keeps the buffer's lock.

**WorkflowExecution** has the attempts (HTTP handlers) on an execution: journal lease,
binding, then the driver, whose every write is conditional on owning the row. The rows
of `Legacy` were left by an earlier version: this one cannot read their state and
answers `recovery_required`. An attempt may take over a lease at any time, which stands
for an expired one: the holder may be dead or merely slow. `ran` counts how often a node
has really run.

**LiveExecution** has the attempts with one idempotency key on one of two routes,
the durable record, the journal row, the writer connection where a handler keeps it
between two steps, the cancellation tokens and the cancel handler. Losing a lease
while alive counts against `MaxStalls`.

The definitions that start with an original's name (`RollbackNothing`,
`CastVoteKeepingTracker`, ...) and are used by no action are mutants: each is a
plausible bug, and replacing the original by it makes a property fail
(`PROJECT.json`, `mutants`).

## 3. What the runs show

Passing runs:

| Run | Instance | Shows |
|---|---|---|
| `gate` | 3 nodes, 3 threads, quorum 2, a safety request that may roll back | closures stay in force, a quorum is spent by the opening it causes, only a quorum or the rollback of a request begun on an open gate opens |
| `cluster` | 3 nodes, one of them resumable and rolling back, 2 closes each, messages lost, reordered and duplicated | Confirmed means that every gate that can neither be resumed nor rolled back is closed; those never reopen; the other opens only by a quorum or its own rollback |
| `safety_serial` | 2 agents, gate, 2 requests and 2 triggers in turn, 2 I/O errors, 1 crash | what was reported is in force and would survive a crash; a reported kill_all keeps the gate closed; access follows the level; the cascade is complete |
| `safety_both` | 1 agent, 2 requests and 1 trigger in parallel, 1 I/O error, 1 crash | what was reported stays in force until a rollback or a restart after an overlap; a quarantine is lifted only by a reviewed resume, a rollback to a copy from before it, or a restart |
| `journal` | 5 attempts, 2 keys, clock to 3 | one answer per key, fencing by epoch, inline atomicity, refinement of IdempotentKey |
| `monitor` | 1 agent with 2 sessions, 2 actors, 2 thresholds, 1 failing write or read, restarts at any time | decisions are durable unless a write or the read at start fails, escalation is due and by one level, two actors lower the threshold, the lock follows the sessions |
| `autonomy` | 3 jobs of 2 agents, one that needs approval, 1 worker, 1 crash, failing write or failing dispatch, fair | slots and leases add up, no overlap, an effect once per run and after its approval, due jobs settle |
| `link` | 2 tasks, 2 coordinators, 3 events, a buffer of 2 events and 2 bytes, 1 outage, 1 rejection, fair | events are conserved, Recovering has a coordinator, a stable monitor ends in Healthy |
| `workflow` | 3 nodes, 2 attempts to execute and 1 to resume, a row of an earlier version or none, failing statements and deaths anywhere | a step with effects runs once, is never unrecorded, the row is true and the answer is its outcome, or `recovery_required` for the unreadable row |
| `live` | 3 attempts on either route, 2 cancels, 1 lost lease, 1 failing insert, deaths anywhere, fair | one turn, answer and record agree, cancel holds, terminal records are final, every handler answers |

`TypeOK` (`ClusterTypeOK` of KillGateCluster) states the domains of a module's
variables. It is proved for every module with variables but the abstract
IdempotentKey; the runs are spent on the properties that relate states.

Runs that TLC refutes. Each states what a document or comment of the repository
says of the program, and its counterexample is what the code does:

| Run | What the code does instead |
|---|---|
| `safety_rollback` | two persists race for the temporary file; the loser's rename fails and its rollback removes a quarantine already broadcast |
| `autonomy_recovery` | a job that a crash left leased or running is selected by no query, so its expired lease is never recovered (`AUTONOMY_SLO_AND_ROLLBACK.md:9` bounds the recovery) |

The specification of SafetyControl lets handler and task overlap as they do in the
code. `ReportedDurable`, `ReportedKillHoldsGate`, `AccessFollowsLevel` and
`CascadeComplete` say what holds up to the first overlap, with failures and crashes;
`safety_serial` (`MaxOverlaps = 0`) checks them there. `ReportedInForce` goes on after
an overlap, in every interleaving, until a thread rolls back or the gateway restarts.
`LevelsNeverDrop` is what the code's comment says without such a limit, and
`safety_rollback` refutes it. The limits are where the model shows the promise broken:

* after an overlap, a rollback or an older copy renamed last undoes what the other
  thread reported (`safety_rollback`), and an older copy may be the last one applied to
  the agents' access (`state.rs:244`);
* quarantines through the API are never counted, so `CascadeComplete` speaks of the
  auto-trigger task only (`requirements.md:277` asks for it of every quarantine);
* `kill_all` through the API does not call `sync_agent_access_pullbacks`, so
  `AccessFollowsLevel` speaks of levels below it.

### Disagreements without a run

Met while modelling; each is visible in the definitions named.

*Kill gate and safety.*
`close` is documented as a no-op on a closed gate (`gate.rs:176`) and is not
(`Close`); it keeps the vote tracker, so that votes for an earlier closure count
and a single new one may lift the new closure, which `quorum.rs:4` calls impossible.
The quorum is n/2 + 1 where `quorum.rs:3` says ceil(n/2) + 1 (`EffectiveQuorum`).
`record_ack` and the unlocked store of `begin_propagation` can take a gate that a
quorum has just reopened out of Normal with no closure recorded (`RecordAck`,
`StorePropagation`); acks of an earlier closure confirm a later one (`ReceiveAck`),
which is why `ConfirmedMeansAllClosed` speaks of closed gates and not of this closure.
A `kill_all` that fails after it has closed the gate restores the copy (`safety.rs:200`,
`:213`), which opens the gate with no vote, and discards a closure that a peer's
notification has made meanwhile (`Restore`, `RestoreGate`);
`DISTRIBUTED_KILL_GATES.md:109` (INV-KG-01, and `:29`) has severity decrease only by a
quorum. `OpensOnlyByQuorum` names this second way explicitly.
A resume that the guard of `kill_switch.rs:187` rejects because the agent was
escalated goes through the rollback (`safety.rs:212`), which undoes the escalation
(`ApiResume`, `Rollback`): a quarantine is lifted by the very resume that was refused,
against `kill_switch.rs:5` and `requirements.md:639`. `QuarantineLiftedByReview` names
this way too. `kill_all` awaits the writer connection at `safety.rs:570`
while it holds it, and never answers (`Report`, state `relock`).

*Journal.* A detached effect is repeated after a takeover, a late abort or a crash,
where `REQUEST_IDENTITY_AND_IDEMPOTENCY_DESIGN.md:491` says that idempotency alone
prevents duplicate execution (`Execute`).

*Monitor.* A start that cannot open the database, query a table or parse a row begins
that agent at level 0 (`Restored`), where `monitor.rs:148` says "never fall to L0"; a
threshold that cannot be read falls back to the configured one. Scoring cycles add to
the credits that session ends count (`trigger.rs:135`, `:166`), so that an agent
de-escalates after fewer normal sessions than `trigger.rs:147` and
`wiki/convergence-monitor.md:171` say; de-escalation ignores the cooldown and clears an
owed acknowledgement (`TryDeescalate`). A lowering is accepted while sessions are
active, which `cooldown.rs:5` says is rejected (`ProposeThreshold`). A change whose row
could not be written is reported as rejected and stays in force until a restart
(`ApplyThreshold`); it also empties the score cache, so that a session ending next
counts as normal. The end of an unknown session, or a second end, counts like the first
(`SessionEnd`), and a repeated start is stored and counted on the next restart
(`SessionStart`).

*Autonomy.* An approval given between the check and the deferral that follows it is
overwritten, and `approve_run` requeues a job that is in flight (`Approve`,
`EndUndispatched`). Paused and quarantined jobs are never resumed; an approved run is
not taken up when its due time has moved on, where `AUTONOMY_JOB_SCHEMA.md:52` has it
held until a valid approval exists. Items in the channel still run after a kill_all.
`rebind_run_owner` cannot be reached (`RunFor`). `attempt` counts deferrals and
successes too.

*Link.* A store in `transition_to` may overwrite `ShuttingDown`, which `gateway.rs:60`
calls terminal (`CoordinatorStores`). An event buffered while Healthy waits for the
next degradation, and newer events overtake it (`Route`). The buffer is in memory, where
`itp_buffer.rs:1` calls it disk-backed: what it holds is lost when the process ends
(`ProcessExits`).
A send that timed out may have arrived, and is sent again. An event that the monitor
always rejects returns to the head of the buffer and recovery never completes; the
run bounds rejections.

*Workflow.* An execution whose row this version cannot read is answered with
`recovery_required`, committed, while its row stays `running` for good (`Loaded`,
`Bind`); `operation_journal_tests.rs:2709-2751` has it so for a legacy row. A resume
gives the row another journal id, so that a retry of the original key starts a second
execution (`Rebound`, `Bound`). Resuming a failed execution answers its outcome and
resumes nothing; resuming one whose driver lives takes it over.

*Live.* A handler that loses its lease while it lives may run a second turn beside the
one that took over, because `begin_execution_attempt` accepts a running record
(`studio_sessions.rs:1385`, `Begin`): `OneTurn` allows one more turn for each lost
lease, where `01-reliability-charter.md:23` has no side effect replayed twice without an
operator-visible recovery state. A retry that finds a completed or cancelled record is
refused with `LIVE_EXECUTION_STATE_CONFLICT` for good, where
`03-target-system-spec.md:230` has it replay the terminal response (`LoadMessage`,
`Finalize`). A cancellation of a stream between its begin and the registration of its
token is lost (`TaskRegister`; `01-reliability-charter.md:52`). A message blocked by
inspection whose handler died after accepting it is executed by the retry
(`LoadMessage`). A failing insert of the assistant's message waits for the writer that
its handler holds (`studio_sessions.rs:1149`, `StoreMessage`). A stream whose client has
gone stays `running`.

## 4. Bounds, and why they are enough

* Three nodes are the smallest cluster with a majority that is neither one node nor all;
  two closures per node make acks of an earlier closure meet a later one; one resumable
  node among two that are not, which also rolls back, makes votes and restored copies
  take effect beside gates that must not reopen. (The theorems of section 6 drop all of
  these bounds.)
* Three threads on one gate allow a closer between load and store while two others
  complete a quorum.
* Two agents with `CascadeThreshold = 2` reach the cascade as three with 3 do; the
  count is compared, never otherwise used. Two requests and two triggers allow an
  activation, its escalation by the other side and its resume; two I/O errors allow a
  failing persist whose clean-up fails too; a crash happens between any two steps.
* `MaxTime = 3` with `LeaseTime = 1` allows two takeovers of one row. Four attempts
  share a key (one of them with another payload), the fifth has its own, so that
  inline and detached requests compete for the writer.
* The monitor's clock goes to 2 with pauses of 1, so that every level is reached, and
  the end of the cooldowns before the last; two sessions of one agent close each other and
  end late; base levels 0 and 4 with a signal above the threshold
  give targets 0, 2 and 4. Two proposals let the token of one meet the other. One
  failing write leaves memory ahead of the rows over a restart, one failing read loses any
  part of what a start reads.
* One worker and a global concurrency of 2 keep an item in the channel while another runs;
  the run that loses leases has two workers. Two due times of the workflow job let an
  approval of the first meet the second.
* Two coordinators are a recovery overtaken by the next; a buffer of 2 events for 3
  evicts, and a first event as large as the whole buffer leaves room for no other; one
  rejection ends a replay in its middle.
* In the workflow an LLM call and a transform precede a second LLM call: one step that
  may be rerun and two that may not. Three attempts are a driver, its retry and a
  resume that takes over from either; a fourth belongs to an earlier version and may have
  left its row.
* Three attempts on one live execution are a holder, one that takes its lease over and
  one that finds what both left.
* Symmetry is used in runs without temporal properties other than action properties,
  for nodes, threads, actors and sessions.

Deadlock is checked in `gate` and `journal`. The other runs bound requests,
triggers, closes and votes, after which their systems rightly stop.

## 5. Fairness

`AutonomyScheduler!FairSpec`: the scheduler's interval and the workers are polled,
effects end (steps and turns have timeouts) and time passes; operators need not
approve, and nothing is assumed of failures.
`MonitorLink!FairSpec`: checker, coordinators, tasks with an event in hand and a
begun shutdown go on; the monitor need not come back, which is why recovery is
promised only when it stays up.
`LiveExecution!FairSpec`: handlers and stream tasks go on, the turn included; clients
need not retry and cancellations need not come.
The other specifications have no fairness and their runs no liveness. In particular
nothing is claimed of a kill reaching the peers: no transport is in the repository,
`close_and_propagate` drops the message that it has built (`kill_gate_bridge.rs:56`) and
nothing retries. Nor is a `kill_all` said to end: it waits for the writer that it holds.

## 6. What is proved

**KillGateProofs** has the theorems of one gate and of the cluster. *One gate*, for
every set of nodes and threads, cluster size and quorum configuration: type correctness,
`ClosureInForce`, `QuorumSpentByOpening` (with its parts `OpenGateHasNoVotes` and
`VoteShortOfQuorum`) and `OpensOnlyByQuorum`. None of these is inductive alone: that an
open gate has no votes rests on a running tracker being short of its quorum, and that
only a quorum opens rests on the tracker's votes being among the voters of the history.
`GateInv` conjoins them with two facts: a gate without a tracker has no votes, and
`votes` are exactly the voters of the history. The copy of a safety request satisfies
the same (`SoundCopy`), so that restoring it does too. `CastVoteEffect` says what the
one operation with a case distinction does; the rest is one step per action.
Assumptions: nodes are finite, `QuorumSize` and `ClusterSize` are natural numbers.

*The cluster*, for every finite set of nodes, every choice of resumable nodes and of
nodes that roll back, every quorum configuration and any number of closes, with or
without duplicates: type correctness, `ConfirmedMeansAllClosed`,
`OpensOnlyByClusterQuorum`, and `KillHolds`: a node that can neither be resumed nor roll
back, and has closed its gate, stays closed for good, which needs nothing of the
transport. A Confirmed gate says nothing by itself about other nodes, so the invariant
follows the acks: one in flight comes from another node, and from a closed gate unless
that node may reopen it (`AcksTruthful`); so do the recorded ones, also in the copy of a
safety request (`CopiesComplete`), and a Confirmed gate has recorded all peers
(`AcksComplete`, by `AllPeersAcked`: cluster_size - 1 distinct acks are the acks of all
peers). Votes in flight and votes counted are votes broadcast (`VotesGenuine`).
`OpeningStep` then says which step can open a gate. Assumptions: nodes are finite,
`QuorumSize` and `MaxCloses` are natural numbers, `Resumable` and `RollsBack` are sets
of nodes.

**OperationJournalProofs**, for every set of requests and keys: type correctness,
`SameAnswer`, `NewestLeaseCommits`, `InlineKeepsLease`, `InlineEffectIffCommitted`,
`CommittedIsFinal`, and the refinement of `IdempotentKey`. The inductive invariant
`JournalInv` says:
  * `OwnerLeased`: the owner of a row leased it at the row's epoch, under its own
    key and fingerprint;
  * `LeasesOrdered`: every other request leased that row at a smaller epoch. This is
    the fencing argument: a request that was taken over can no longer satisfy `Owns`;
  * `ResponseOfOwner`: a response is there exactly when the row is committed, and is
    its owner's;
  * `AnswersCommitted`: an answer is the committed response of its key, to the same
    payload;
  * `Progress` and `WriterOwns`: where a request is in its life, and that the holder
    of the writer is an inline request that owns its row.

The refinement then follows action by action: a commit by the owner is `Decide`, a
replay is `Replay`, and every other step leaves responses and answers alone.

**WorkflowExecutionProofs**, for every workflow graph, every choice of retry-safe
nodes, any number of attempts, keys and failing statements: type correctness,
`UnsafeStepOnce`, `NoSilentRun`, `RecordIsTrue` and `AnswerIsOutcome`. The argument is
about a driver that has lost the row and is still in a step. `WorkflowInv` says:
  * `Copies`: the owner of a row has its state in hand, and nobody drives an execution
    that had ended when he read it, so that only owners write and what they write
    follows from the row;
  * `Rows`: a state has a status for the nodes before the next one and for no other,
    and says what ran;
  * `Stepping`: a driver before an unsafe step, owner or not, finds that step unrun and
    active in the row, and is alone before it. A later owner can only give up on it, so
    it stays active until that driver has run it. This is the fact that makes
    `UnsafeStepOnce` inductive;
  * `Bindings` and `Answers`: what attempts, resumes and committed responses name is
    there, and an execution that has ended does not change;
  * `Unread`: nobody drives a row that this version cannot read, so that it keeps having
    no outcome and is answered `recovery_required` (`Outcome`) by everyone.

`PersistStep` does the work once for the six actions that write the row: it says what
the new state must satisfy, and each action shows that its state does. Assumptions:
every predecessor comes before its node, and `Steps` and `MaxDbErrors` are natural
numbers.

**SafetyControlProofs**, for every set of agents, handlers and triggers, with or without
a gate, and any number of requests, failing calls, overlaps and crashes; no theorem
assumes that requests and triggers take turns. In every interleaving: type correctness,
`QuarantineLiftedByReview`, which rests on the comparison under the lock (`ApiResume`) and
on `RequestsFit` (a resume that expects a quarantine has been reviewed), and
`ReportedInForce`, until a rollback or a restart follows an overlap. Up to the first
overlap: `ReportedDurable`, `ReportedKillHoldsGate`, `AccessFollowsLevel` and
`CascadeComplete`. `SafetyAlone` is the invariant `CommonInv /\ (Alone => TurnInv)`: an
overlap is never taken back (`OverlapStays`), so that a step from a state with an overlap
owes nothing to `TurnInv`. For `ReportedInForce` this is not enough, and `InMemory` goes
on where `TurnInv` stops: what was reported, and what is about to be, is in force in
memory, but for a trigger's level that a resume has lifted since; every step but a
rollback and a restart keeps it whatever the other thread does.
`TurnInv` says where a thread's earlier state is:
  * `OneAtATime`: at most one thread has something to do;
  * `DiskKeeps`: from the mutation to the rename the disk has the state from before it,
    which is also the thread's `prev`; at any other time it has what memory has. So a
    rollback returns to what is on disk, and a crash goes where a rollback would;
  * `CopiesFresh`: the copy to be written is that of the current state, and the temporary
    file is the thread's own;
  * `MutationRaises` and `Applied`: a mutation lowers nobody but the agent of a resume,
    and what is about to be reported has been applied;
  * `DiskDurable`: the disk has what was reported, but for the agent of a resume that has
    been written and not answered. This is stronger than `ReportedDurable`, which
    excuses a resume from its mutation on, and is what a failing resume needs;
  * `GateHeld`: since a kill_all was reported, memory, disk and the copy of every later
    request have the gate closed, so that no rollback opens it;
  * `AccessKept`, `CascadeDone`: the properties, with the steps between which each is
    suspended.

`DiskUpdated`, `DiskKept` and `RestartLoads` say what the file protocol does to the disk;
the rest is one step per action. Assumptions: agents are finite and there is one.

**ConvergenceMonitorProofs**, for every finite set of agents, every set of sessions and
actors, every length of the pauses and any number of failing writes and reads: type
correctness, `DecisionsDurable`, `TwoKeysToLower`, `LockFollowsSessions` and
`EscalatesWhenDue`. `MonitorInv` relates memory, row and history agent by agent
(`Tracks`): a row that is not dirty has the level, the owed acknowledgement and the
running cooldown (`RowKeeps`), and a state whose history lost nothing remembers the hot
cycle, the owed acknowledgement and the time before which it must not escalate
(`StateRemembers`). A restart replaces the state by the row (`RestoredFacts`), or by a
fresh state, which marks the agent as dirty and its history as lost, so the second
follows from the first; an escalation is due because `evaluate` looks at what the second
remembers. For the threshold, the pending change is the proposal of its token
(`PendingIsProposed`). `EvaluateFacts` and its neighbours say what each operation does
to one agent's state. Assumptions: agents are finite (the code keeps them in maps), the
clock's bound is at least 1.

**AutonomySchedulerProofs**, for every set of jobs, agents and workers, every capacity,
and any number of due times, crashes, failing writes and failing dispatches: type
correctness, `SlotsAccounted`, `LeasesAreDispatched`, `EffectOncePerRun`,
`ApprovalBeforeEffect`, and `NoOverlap` for a concurrency of one per agent.
`SchedulerInv` says:
  * `OneItemPerRun`: a run is dispatched by one item, in the channel or at a worker;
  * `SelectionIsFresh`: what is selected, or could be, has no run yet, because a job that
    is dispatched leaves its due time or its state behind. This is what makes
    `EffectOncePerRun` hold over leases that expire: the job may be selected again, but
    for another due time;
  * `EffectsFollow`, `ApprovalsFollow`: where a worker is in its dispatch says whether
    the effect has happened and whether the run was approved.

It follows that the channel has room after every reservation, so that `try_send` never
fails, and that a selected key has no run, so that `rebind_run_owner` is never reached.
`NoOverlap` assumes `PerAgentConcurrency = 1`, the code's default (`autonomy.rs:41`): with
2, TLC finds a lease that expires under a running dispatch, an approval that queues
its job, and a second dispatch beside the first. With 1 the slot of the first
prevents it. `SlotsAccounted` counts dispatches by the cardinality of the set of items, per
agent and in total, rather than by a sum over agents. Assumption: every job has at
least one due time (`MaxDue`).

**LiveExecutionProofs**, for every set of attempts, finite or not, on either route, and
any number of cancel requests, lost leases, failing inserts and deaths: type
correctness, `OneTurn`, `AnswerIsRecorded`, `CancelHolds` and `TerminalIsFinal`.
`LiveInv` says:
  * `LeasesCounted`: the living attempts that do not own the lease are at most as many
    as the leases lost in stalls, so that there are finitely many of them;
  * `MessageTurns`: the turns so far and the attempts that may still start one are
    together at most one more than the stalls, once the record has been begun;
  * `StreamTurns`: the acceptance of a stream is committed once, and only who committed
    it can start the turn;
  * `CancelsReach`: the token of every attempt that may begin is registered or
    cancelled, so that a cancel request finds it;
  * `RecordBegins`, `OutcomesFit`: a record that has begun does not return, and every
    pair of status and response on its way to record and journal is one that fits.

**MonitorLinkProofs**, for every set of tasks and of coordinators, finite or not, every
limit and every size of events and every threshold, and any number of events, outages and
rejections: type correctness (the buffer's bound in events included), `EventsConserved`,
`RecoveringHasCoordinator`, and `LossAtLimits` of every step: an event is given up only
by a push that would have no room, by count or by bytes, had it evicted one less, by the
router while ShuttingDown, by the cancellation of the task that sends it, or by the end
of the process, so that the `dropped` of `EventsConserved`
excuses nothing that could have been kept. `EventsConserved` counts copies and is not
inductive; `LinkInv` says where an event can be:
  * `HandsKnown`, `BufferKnown`, `ReplaysKnown`: tasks, buffer and recoveries hold
    emitted events, a sequence holds none twice, a task has one exactly while it routes,
    a recovery only while it replays or puts back;
  * `HandsApart`, `ReplaysApart`, `HandsOffBuffer`, `HandsOffReplays`,
    `BufferOffReplays`: no event is in two places;
  * `NothingLost`: an event that is nowhere was received or given up.

The steps that move events are two kinds: what leaves hands and recoveries is pushed
(`PushKeepsPlaced`: failed sends, failed replays and what they put back, routing while
Degraded, the shutdown's own events) or settled (`SettleKeepsPlaced`: received, dropped,
cancelled). `push` evicts a least number of events (`EvictionEnds`, from the least
element of a set of numbers, `LeastNumber`, by the well-foundedness of < in the
library), so that what it keeps is a suffix of the buffer (`KeptIsSuffix`).
`PlacesCounted` turns places into the cardinalities of `Copies`; a replay has at most
`MaxEvents` events by the pigeonhole principle. That Recovering has a coordinator is
inductive once a coordinator about to store knows what it stores: from Recovering its
transition is always allowed, so it does not end before its store, and what it stores is
not Recovering. Assumptions: there is a coordinator, thresholds and the buffer's size in
events are positive, sizes are natural numbers.

**Only model-checked**: `DueJobsSettle`, `RecoversWhenMonitorStable` and `Answered`,
which are liveness (fairness and ENABLED are beyond the prover), and what TLC refutes.
Nothing is stated about what a recursion over data computes: of the sum of sizes
(`Bytes`) the proofs use only whether there is room, and the lemmas about sequences need
no induction.

## 7. Plan

1. *Done*: KillGate, KillGateCluster, SafetyControl, OperationJournal with refinement,
   ConvergenceMonitor, AutonomyScheduler, MonitorLink, WorkflowExecution and
   LiveExecution, each with proofs of its safety properties.
2. *Next, proving*: which rollbacks after an overlap SafetyControl survives; an abstract
   specification of the link (an event is pending, received or given up) as a refinement.
3. *Next, modelling*: the inter-agent dispatcher's replay window and offline queue;
   session lanes at their depth limit; the provider fallback's circuit breaker.

## 8. What is not modelled, and why

* The gate's hash chain, audit logs, metrics and broadcasts: nothing decides on them.
* Lock poisoning: a panic inside a critical section; the code fails closed or
  recovers in place.
* Power loss: a crash is the death of the process, completed system calls survive it.
* The per-actor safety cooldown and authentication: they only refuse requests.
* Relay heartbeats and peer removal: no decision of the gate reads `is_alive`, and
  no caller removes peers.
* The mesh, LLM, OAuth, channel, skill and marketplace crates, cortex's scoring and
  retrieval, and the user interfaces: I/O, cryptography, floating point or display.
* Failing SQL statements in SafetyControl and OperationJournal, other than the
  heartbeat's and the safety handlers' final commit. One in `mark_committed`
  (`idempotency.rs:377`) would leave the transaction open on the only writer.
* A stored final response of a workflow execution that does not parse: only a failing call
  before the rebind stands for it. A stored state of a live execution that does not parse
  refuses the request (`Reject`).
* The rest of the cases that no property covers: a trigger whose persist failed is
  rolled back, and its repetition is suppressed for sixty seconds (`AutoSuppress`,
  `auto_triggers.rs:67`); neither is contradicted by any document.
* What an agent's turn does: prompts, providers and tools. Its gates are checked in a
  fixed order by one task, and its state is its own. The daily spend it compares with
  the cap is copied when it is built (`runtime_safety.rs:343`).
* The monitor's signals and weights, which are floating point, its event validation and
  rate limits, which only drop events, and its hash chain, which is not restored.
* The policy documents, quiet hours and budgets of the autonomy runtime, which become
  one verdict, and the catalogue routes of workflows and studio sessions, which are
  plain reads and writes.
* The rest of the shutdown (lanes, cost tracker, channel adapters): it changes nothing
  of the link.
