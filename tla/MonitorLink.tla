---------------------------- MODULE MonitorLink ----------------------------
(***************************************************************************)
(* The gateway's link to the convergence monitor: the gateway state        *)
(* machine (ghost-gateway/src/gateway.rs), the health checker and the      *)
(* recovery coordinators that move it (health.rs, bootstrap.rs), the       *)
(* router and the buffer of ITP events that follow it (itp_router.rs,      *)
(* itp_buffer.rs, called by the tasks of itp_bridge.rs), and the shutdown  *)
(* (runtime.rs).                                                           *)
(*                                                                         *)
(* transition_to loads the state, tests the transition and stores, without *)
(* a lock: it is two steps here.  Events are numbered; the bridge and the  *)
(* reaper of idle sessions route one event at a time.  The checks' pauses  *)
(* and timeouts are left out; checks succeed while the monitor is up.      *)
(***************************************************************************)
EXTENDS Integers, FiniteSets, Sequences

CONSTANTS
    Task,              \* callers of ITPEventRouter::route
    Coordinator,       \* recovery coordinators that may run at once
    FailureThreshold,  \* failed checks before Degraded
    StabilityChecks,   \* of a recovery
    BufferSize,        \* MAX_BUFFER_EVENTS
    BufferBytes,       \* MAX_BUFFER_BYTES
    Size,              \* the bytes of each event
    MaxEvents, MaxOutages,
    MaxRejections      \* bound: events that the monitor answers with an error

ASSUME LinkAssumption ==
    /\ Coordinator # {}
    /\ FailureThreshold \in Nat \ {0} /\ StabilityChecks \in Nat \ {0}
    /\ BufferSize \in Nat \ {0} /\ BufferBytes \in Nat /\ Size \in [1..MaxEvents -> Nat]
    /\ MaxEvents \in Nat /\ MaxOutages \in Nat /\ MaxRejections \in Nat

VARIABLES
    state,             \* GatewaySharedState
    checker, failures, \* MonitorHealthChecker: where it is, consecutive failures
    coord,             \* per coordinator: where it is, checks passed, events to replay
    task,              \* per task: where it is, and the event in hand
    buffer,            \* ITPBuffer
    shutdown,          \* where GatewayRuntime::shutdown is
    up, outages,       \* whether the monitor answers, and outages so far
    rejections,        \* events it has rejected so far
    emitted,           \* events so far
    delivered, dropped \* history: events the monitor received; given up on purpose

link == <<state, checker, failures, coord, task, buffer, shutdown>>
monitor == <<up, outages, rejections>>
ledger == <<emitted, delivered, dropped>>
vars == <<link, monitor, ledger>>

GatewayState == {"Initializing", "Healthy", "Degraded", "Recovering", "ShuttingDown"}
NoEvent == 0
Event == 1..MaxEvents
Idle == [pc |-> "idle", to |-> "none", passed |-> 0, replay |-> <<>>]
Requesting(to) == [pc |-> "load", to |-> to, passed |-> 0, replay |-> <<>>]

TypeOK ==
    /\ state \in GatewayState
    /\ checker \in {"wait", "store Degraded", "store Recovering", "cancelled"}
    /\ failures \in 0..FailureThreshold
    /\ coord \in [Coordinator -> [pc: {"idle", "check", "replay", "requeue", "load", "store"},
                                  to: {"none", "Degraded", "Healthy"},
                                  passed: 0..StabilityChecks, replay: Seq(Event)]]
    /\ task \in [Task -> [pc: {"idle", "send", "push", "cancelled"}, event: Event \cup {NoEvent}]]
    /\ buffer \in Seq(Event) /\ Len(buffer) <= BufferSize
    /\ shutdown \in {"no", "store", "cancel", "close", "done"}
    /\ up \in BOOLEAN /\ outages \in 0..MaxOutages /\ rejections \in 0..MaxRejections
    /\ emitted \in 0..MaxEvents
    /\ delivered \subseteq Event /\ dropped \subseteq Event

\* The end of the bootstrap: the first check decides the first state.
Init ==
    /\ up \in BOOLEAN
    /\ state = IF up THEN "Healthy" ELSE "Degraded"
    /\ checker = "wait" /\ failures = 0
    /\ coord = [c \in Coordinator |-> Idle]
    /\ task = [t \in Task |-> [pc |-> "idle", event |-> NoEvent]]
    /\ buffer = <<>> /\ shutdown = "no"
    /\ outages = 0 /\ rejections = 0 /\ emitted = 0 /\ delivered = {} /\ dropped = {}

\* GatewayState::can_transition_to, for the targets requested after bootstrap.
CanTransition(from, to) ==
    \/ from = "Healthy" /\ to \in {"Degraded", "ShuttingDown"}
    \/ from = "Degraded" /\ to \in {"Recovering", "ShuttingDown"}
    \/ from = "Recovering" /\ to \in {"Healthy", "Degraded", "ShuttingDown"}

Running == shutdown # "done"

(***************************************************************************)
(* The buffer.                                                             *)
(***************************************************************************)
Elements(s) == {s[i] : i \in 1..Len(s)}

\* total_bytes of the buffered events.
Bytes(s) ==
    LET sum[i \in 0..Len(s)] == IF i = 0 THEN 0 ELSE sum[i - 1] + Size[s[i]]
    IN  sum[Len(s)]

\* Both limits hold with e at the end of s.
HasRoom(s, e) == Len(s) < BufferSize /\ Bytes(s) + Size[e] <= BufferBytes

WithoutOldest(b, n) == SubSeq(b, n + 1, Len(b))

\* push evicts the oldest events one by one until there is room or none is left,
\* so that an event larger than the limit is kept alone.
KeptWhenPushing(b, e) ==
    LET evicted == CHOOSE n \in 0..Len(b) :
                      /\ n = Len(b) \/ HasRoom(WithoutOldest(b, n), e)
                      /\ \A k \in 0..(n - 1) : ~HasRoom(WithoutOldest(b, k), e)
    IN  WithoutOldest(b, evicted)

Push(e) == LET kept == KeptWhenPushing(buffer, e) IN
    /\ buffer' = Append(kept, e)
    /\ dropped' = dropped \cup (Elements(buffer) \ Elements(kept))

(***************************************************************************)
(* The health checker.                                                     *)
(***************************************************************************)
MayRecoverFromRecovering == state = "Recovering"

\* Only a degraded gateway starts a recovery.
MayRecover == state = "Degraded"

\* check_once answered: the failures are forgotten, and a degraded gateway
\* starts to recover.
CheckSucceeds ==
    /\ Running /\ checker = "wait" /\ up
    /\ failures' = 0
    /\ checker' = IF MayRecover THEN "store Recovering" ELSE "wait"
    /\ UNCHANGED <<state, coord, task, buffer, shutdown, monitor, ledger>>

\* maybe_transition_to_degraded; beyond the threshold failures are not counted.
CheckFails ==
    /\ Running /\ checker = "wait" /\ ~up
    /\ failures' = IF failures < FailureThreshold THEN failures + 1 ELSE failures
    /\ checker' = IF failures' >= FailureThreshold /\ state \in {"Healthy", "Recovering"}
                  THEN "store Degraded" ELSE "wait"
    /\ UNCHANGED <<state, coord, task, buffer, shutdown, monitor, ledger>>

CheckerStoresDegraded ==
    /\ Running /\ checker = "store Degraded"
    /\ state' = "Degraded"
    /\ checker' = "wait"
    /\ UNCHANGED <<failures, coord, task, buffer, shutdown, monitor, ledger>>

\* The store, and the spawn of a coordinator, which is not tracked.
CheckerStoresRecovering(c) ==
    /\ Running /\ checker = "store Recovering"
    /\ coord[c] = Idle
    /\ state' = "Recovering"
    /\ coord' = [coord EXCEPT ![c].pc = "check"]
    /\ checker' = "wait"
    /\ UNCHANGED <<failures, task, buffer, shutdown, monitor, ledger>>

(***************************************************************************)
(* RecoveryCoordinator::attempt_recovery.                                  *)
(***************************************************************************)
GiveUpQuietly(c) == coord' = [coord EXCEPT ![c] = Idle]

\* A recovery that fails puts the gateway back to Degraded.
GiveUp(c) == coord' = [coord EXCEPT ![c] = Requesting("Degraded")]

\* One stability check; after the last, replay_buffered drains the buffer.
StabilityCheck(c) == LET n == coord[c].passed + 1 IN
    /\ Running /\ coord[c].pc = "check"
    /\ \/ ~up /\ GiveUp(c) /\ UNCHANGED buffer
       \/ /\ up /\ n < StabilityChecks
          /\ coord' = [coord EXCEPT ![c].passed = n]
          /\ UNCHANGED buffer
       \/ /\ up /\ n = StabilityChecks
          /\ coord' = [coord EXCEPT ![c] = [pc |-> "replay", to |-> @.to, passed |-> n,
                                             replay |-> buffer]]
          /\ buffer' = <<>>
    /\ UNCHANGED <<state, checker, failures, task, shutdown, monitor, ledger>>

RemainingFromIndex(replay) == replay

\* What replay_buffered has to push back after a failed send, which has pushed
\* its own event.
Remaining(replay) == Tail(replay)

\* send_to_monitor succeeds, or has pushed the event back: the monitor is down,
\* and may nevertheless have it, or it answers with an error.
Accepted(e) == up /\ delivered' = delivered \cup {e} /\ UNCHANGED rejections

Refused(e) ==
    \/ ~up /\ delivered' \in {delivered, delivered \cup {e}} /\ UNCHANGED rejections
    \/ /\ up /\ rejections < MaxRejections /\ rejections' = rejections + 1
       /\ UNCHANGED delivered

\* One event of replay_buffered.
Replay(c) == LET es == coord[c].replay IN
    /\ Running /\ coord[c].pc = "replay" /\ es # <<>>
    /\ \/ /\ Accepted(Head(es))
          /\ coord' = [coord EXCEPT ![c].replay = Tail(es)]
          /\ UNCHANGED <<buffer, dropped>>
       \/ /\ Refused(Head(es))
          /\ coord' = [coord EXCEPT ![c] = [pc |-> "requeue", to |-> @.to, passed |-> @.passed,
                                             replay |-> Remaining(es)]]
          /\ Push(Head(es))
    /\ UNCHANGED <<state, checker, failures, task, shutdown, up, outages, emitted>>

\* The rest goes back event by event; the lock that the code keeps over all of
\* them is left out, so that other pushes may come between.
Requeue(c) == LET es == coord[c].replay IN
    /\ Running /\ coord[c].pc = "requeue" /\ es # <<>>
    /\ Push(Head(es))
    /\ coord' = [coord EXCEPT ![c].replay = Tail(es)]
    /\ UNCHANGED <<state, checker, failures, task, shutdown, monitor, emitted, delivered>>

\* The recovery has succeeded only if nothing is in the buffer.
ReplayDone(c) ==
    /\ Running /\ coord[c].pc \in {"replay", "requeue"} /\ coord[c].replay = <<>>
    /\ IF buffer # <<>> THEN GiveUp(c)
       ELSE coord' = [coord EXCEPT ![c] = Requesting("Healthy")]
    /\ UNCHANGED <<state, checker, failures, task, buffer, shutdown, monitor, ledger>>

\* transition_to of a coordinator: an illegal transition ends it.
CoordinatorLoads(c) ==
    /\ Running /\ coord[c].pc = "load"
    /\ coord' = [coord EXCEPT ![c] = IF CanTransition(state, @.to) THEN [@ EXCEPT !.pc = "store"]
                                     ELSE Idle]
    /\ UNCHANGED <<state, checker, failures, task, buffer, shutdown, monitor, ledger>>

CoordinatorStores(c) ==
    /\ Running /\ coord[c].pc = "store"
    /\ state' = coord[c].to
    /\ coord' = [coord EXCEPT ![c] = Idle]
    /\ UNCHANGED <<checker, failures, task, buffer, shutdown, monitor, ledger>>

(***************************************************************************)
(* ITPEventRouter::route.                                                  *)
(***************************************************************************)

\* The state decides where the next event goes.
Route(t) == LET e == emitted + 1 IN
    /\ Running /\ task[t].pc = "idle" /\ emitted < MaxEvents
    /\ emitted' = e
    /\ \/ /\ state \in {"Healthy", "Recovering"}
          /\ task' = [task EXCEPT ![t] = [pc |-> "send", event |-> e]]
          /\ UNCHANGED dropped
       \/ /\ state = "Degraded"
          /\ task' = [task EXCEPT ![t] = [pc |-> "push", event |-> e]]
          /\ UNCHANGED dropped
       \/ /\ state = "ShuttingDown"
          /\ dropped' = dropped \cup {e}
          /\ UNCHANGED task
    /\ UNCHANGED <<state, checker, failures, coord, buffer, shutdown, monitor, delivered>>

Release(t) == task' = [task EXCEPT ![t] = [pc |-> "idle", event |-> NoEvent]]

\* send_to_monitor: a failed send puts the event into the buffer.
Send(t) == LET e == task[t].event IN
    /\ Running /\ task[t].pc = "send"
    /\ Release(t)
    /\ \/ Accepted(e) /\ UNCHANGED <<buffer, dropped>>
       \/ Refused(e) /\ Push(e)
    /\ UNCHANGED <<state, checker, failures, coord, shutdown, up, outages, emitted>>

PushRouted(t) ==
    /\ Running /\ task[t].pc = "push"
    /\ Release(t)
    /\ Push(task[t].event)
    /\ UNCHANGED <<state, checker, failures, coord, shutdown, monitor, emitted, delivered>>

(***************************************************************************)
(* GatewayRuntime::shutdown.                                               *)
(***************************************************************************)
ShutdownLoads ==
    /\ shutdown = "no"
    /\ shutdown' = IF CanTransition(state, "ShuttingDown") THEN "store" ELSE "cancel"
    /\ UNCHANGED <<state, checker, failures, coord, task, buffer, monitor, ledger>>

ShutdownStores ==
    /\ shutdown = "store"
    /\ shutdown' = "cancel"
    /\ state' = "ShuttingDown"
    /\ UNCHANGED <<checker, failures, coord, task, buffer, monitor, ledger>>

\* The tracked tasks end where they wait: the checker between checks, a task
\* between events or in a send, whose event is lost.
ShutdownCancels ==
    /\ shutdown = "cancel"
    /\ checker = "wait" /\ \A t \in Task : task[t].pc # "push"
    /\ checker' = "cancelled"
    /\ task' = [t \in Task |-> [pc |-> "cancelled", event |-> NoEvent]]
    /\ dropped' = dropped \cup ({task[t].event : t \in Task} \ {NoEvent})
    /\ shutdown' = "close"
    /\ UNCHANGED <<state, failures, coord, buffer, monitor, emitted, delivered>>

\* close_sessions sends the end of a session directly, whatever the state.
ShutdownCloses ==
    /\ shutdown = "close"
    /\ emitted < MaxEvents
    /\ emitted' = emitted + 1
    /\ \/ Accepted(emitted + 1) /\ UNCHANGED <<buffer, dropped>>
       \/ Refused(emitted + 1) /\ Push(emitted + 1)
    /\ UNCHANGED <<state, checker, failures, coord, task, shutdown, up, outages>>

\* The rest of the sequence, after which the process is gone, and with it what
\* the buffer and the coordinators, which nobody waits for, still have.
ProcessExits ==
    /\ shutdown = "close"
    /\ shutdown' = "done"
    /\ dropped' = dropped \cup Elements(buffer)
                     \cup UNION {Elements(coord[c].replay) : c \in Coordinator}
    /\ buffer' = <<>> /\ coord' = [c \in Coordinator |-> Idle]
    /\ UNCHANGED <<state, checker, failures, task, monitor, emitted, delivered>>

(***************************************************************************)
(* The monitor.                                                            *)
(***************************************************************************)
Outage ==
    /\ up /\ outages < MaxOutages
    /\ up' = FALSE /\ outages' = outages + 1
    /\ UNCHANGED <<link, rejections, ledger>>

MonitorRestarts ==
    /\ ~up /\ up' = TRUE
    /\ UNCHANGED <<link, outages, rejections, ledger>>

CheckerStep == CheckSucceeds \/ CheckFails \/ CheckerStoresDegraded
                  \/ (\E c \in Coordinator : CheckerStoresRecovering(c))
CoordinatorStep(c) == StabilityCheck(c) \/ Replay(c) \/ Requeue(c) \/ ReplayDone(c)
                        \/ CoordinatorLoads(c) \/ CoordinatorStores(c)
TaskStep(t) == Send(t) \/ PushRouted(t)
ShutdownStep == ShutdownStores \/ ShutdownCancels \/ ShutdownCloses \/ ProcessExits

Next ==
    \/ CheckerStep
    \/ \E c \in Coordinator : CoordinatorStep(c)
    \/ \E t \in Task : Route(t) \/ TaskStep(t)
    \/ ShutdownLoads \/ ShutdownStep
    \/ Outage \/ MonitorRestarts

Spec == Init /\ [][Next]_vars

\* Every task the runtime polls goes on, every request has a timeout; events,
\* outages and the signal to shut down need not come.
Fairness ==
    /\ WF_vars(CheckerStep) /\ WF_vars(ShutdownStep)
    /\ \A c \in Coordinator : WF_vars(CoordinatorStep(c))
    /\ \A t \in Task : WF_vars(TaskStep(t))

FairSpec == Spec /\ Fairness

-----------------------------------------------------------------------------
(***************************************************************************)
(* Properties.                                                             *)
(***************************************************************************)

\* The copies of an event the gateway has: in a task's hand, in the buffer, in
\* a recovery's list.
Copies(e) ==
    Cardinality({t \in Task : task[t].event = e})
      + Cardinality({i \in 1..Len(buffer) : buffer[i] = e})
      + Cardinality({x \in Coordinator \X (1..MaxEvents) :
                        /\ x[2] <= Len(coord[x[1]].replay)
                        /\ coord[x[1]].replay[x[2]] = e})

(* Routing, buffering and replay neither lose an event nor multiply it,     *)
(* over failed sends in the middle of a replay, two recoveries at once and  *)
(* routing decided on an old state: the gateway has at most one copy, and   *)
(* without one the monitor has the event, or the event was evicted from a   *)
(* buffer that had no room, by count or by bytes, or lost by the shutdown.  *)
EventsConserved ==
    \A e \in 1..emitted :
        /\ Copies(e) <= 1
        /\ Copies(e) = 0 => e \in delivered \cup dropped

(* Recovering has no timeout of its own, only a coordinator ends it: it is  *)
(* never in force without one, although old coordinators and the checker    *)
(* store over each other.                                                   *)
RecoveringHasCoordinator ==
    (Running /\ state = "Recovering") => \E c \in Coordinator : coord[c] # Idle

(* Once the monitor stays up and nobody shuts the gateway down, it becomes  *)
(* Healthy and stays so, whatever recoveries were under way and although    *)
(* some events are rejected in the middle of a replay.                      *)
RecoversWhenMonitorStable ==
    <>[](up /\ shutdown = "no") => <>[](state = "Healthy")

=============================================================================
