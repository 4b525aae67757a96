---------------------------- MODULE SafetyControl ----------------------------
(***************************************************************************)
(* The gateway's safety control plane: the kill switch, its persisted copy   *)
(* and the two threads of control that change them.                          *)
(*                                                                         *)
(*   "api"   the handlers of api/safety.rs.  Each holds the database's only  *)
(*           writer connection from its first line to its last, so they run  *)
(*           one at a time.                                                  *)
(*   "auto"  auto_trigger_task, which takes TriggerEvents from a channel and *)
(*           handles them one at a time.  It does not take the writer.       *)
(*                                                                         *)
(* Both mutate the kill switch, copy it, write the copy through one shared   *)
(* temporary file and, when that fails, put their earlier copy back.  Each   *)
(* lock acquisition and each file-system call is a step.  The two run in     *)
(* parallel (a multi-threaded tokio runtime) and the gateway may crash       *)
(* between any two steps and restart from the file.                          *)
(***************************************************************************)
EXTENDS KillSwitchOps

CONSTANTS ApiOps,        \* the handlers in use: subset of the four below
          Triggers,      \* the TriggerEvent variants in use, {} for no auto task
          GateEnabled,   \* is the distributed kill gate configured
          MaxOverlaps,   \* bound: requests and triggers that begin in the middle of the other
          MaxRequests,   \* bound: API requests
          MaxTriggers,   \* bound: trigger events
          MaxIoErrors,   \* bound: file-system and journal calls that fail
          MaxCrashes     \* bound: crashes

ASSUME ApiOpsAssumption == ApiOps \subseteq {"kill_all", "pause", "quarantine", "resume"}
ASSUME TriggersAssumption == \A kind \in Triggers : ClassifyTrigger(kind) \in KillLevel
ASSUME GateEnabledAssumption == GateEnabled \in BOOLEAN
ASSUME BoundsAssumption == /\ MaxRequests \in Nat /\ MaxTriggers \in Nat
                           /\ MaxIoErrors \in Nat /\ MaxCrashes \in Nat
                           /\ MaxOverlaps \in Nat

VARIABLES
    \* the process
    ks,        \* KillSwitch::state
    flag,      \* PLATFORM_KILLED
    gate,      \* the distributed gate's state, "None" when not configured
    pulled,    \* agents whose access_pullback_active is set
    dedup,     \* dedup_map: keys seen within the suppression window
    \* the file system
    path,      \* kill_state.json: its content, or "absent"
    tmp,       \* kill_state.json.tmp: likewise
    \* the threads of control
    pc, req, prev, copy,
    fd,        \* the name that a thread's open file now has
    \* history and bounds
    acked,     \* per agent, the level reported as applied and not since lifted
    lifted,    \* agents resumed since the auto task last activated a level
    killed,    \* a kill_all that closes the distributed gate has been reported
    overlaps,  \* requests and triggers that began in the middle of the other
    undone,    \* after an overlap, a thread rolled back or the gateway restarted
    budget

mem == <<ks, flag, gate, pulled, dedup>>
disk == <<path, tmp, fd>>
local == <<req, prev, copy>>
history == <<acked, lifted, killed, overlaps, undone>>
vars == <<mem, disk, pc, local, history, budget>>

Actor == {"api", "auto"}

Gates == {"None", "Normal", "Propagating"}
Snapshot == [ks : KillSwitchState, gate : Gates]
Unused == [ks |-> DefaultState, gate |-> "None"]

\* A file just created or truncated is empty; it is garbled when two writers'
\* bytes are mixed in it or a write was cut short.
File == [form : {"absent", "empty", "garbled", "whole"}, snapshot : Snapshot]
Absent == [form |-> "absent", snapshot |-> Unused]
Empty == [form |-> "empty", snapshot |-> Unused]
Garbled == [form |-> "garbled", snapshot |-> Unused]
Whole(s) == [form |-> "whole", snapshot |-> s]

\* level: what the request applies, or for resume the level it expects.
Request == [op : {"none", "kill_all", "pause", "quarantine", "resume", "trigger"},
            kind : Triggers \union {"none"}, agent : Agent,
            level : KillLevel, reviewed : BOOLEAN]
NoRequest == [op |-> "none", kind |-> "none", agent |-> CHOOSE a \in Agent : TRUE,
              level |-> Normal, reviewed |-> FALSE]

PC == {"idle", "snapshot", "mutate", "close_gate", "count", "escalate", "sync", "apply",
       "persist", "open", "write", "rename", "cleanup", "rollback", "restore_gate",
       "resync", "reapply", "done", "relock"}

TypeOK ==
    /\ ks \in KillSwitchState
    /\ flag \in BOOLEAN
    /\ gate \in Gates
    /\ pulled \subseteq Agent
    /\ dedup \subseteq Triggers \X Agent
    /\ path \in File /\ tmp \in File
    /\ fd \in [Actor -> {"closed", "tmp", "path", "gone"}]
    /\ pc \in [Actor -> PC]
    /\ req \in [Actor -> Request]
    /\ prev \in [Actor -> Snapshot]
    /\ copy \in [Actor -> Snapshot]
    /\ acked \in [Agent -> KillLevel]
    /\ lifted \subseteq Agent
    /\ killed \in BOOLEAN
    /\ overlaps \in 0..MaxOverlaps
    /\ undone \in BOOLEAN
    /\ budget \in [requests : 0..MaxRequests, triggers : 0..MaxTriggers,
                   ioErrors : 0..MaxIoErrors, crashes : 0..MaxCrashes]

Init ==
    /\ ks = DefaultState
    /\ flag = FALSE
    /\ gate = IF GateEnabled THEN "Normal" ELSE "None"
    /\ pulled = {}
    /\ dedup = {}
    /\ path = IF GateEnabled THEN Whole([ks |-> DefaultState, gate |-> "Normal"]) ELSE Absent
    /\ tmp = Absent
    /\ fd = [t \in Actor |-> "closed"]
    /\ pc = [t \in Actor |-> "idle"]
    /\ req = [t \in Actor |-> NoRequest]
    /\ prev = [t \in Actor |-> Unused]
    /\ copy = [t \in Actor |-> Unused]
    /\ acked = [a \in Agent |-> Normal]
    /\ lifted = {}
    /\ killed = FALSE
    /\ overlaps = 0
    /\ undone = FALSE
    /\ budget = [requests |-> MaxRequests, triggers |-> MaxTriggers,
                 ioErrors |-> MaxIoErrors, crashes |-> MaxCrashes]

Goto(t, label) == pc' = [pc EXCEPT ![t] = label]
Spend(what) == budget[what] > 0 /\ budget' = [budget EXCEPT ![what] = @ - 1]

\* Nothing to do, or a kill_all that waits for the writer it holds itself.
Waiting(t) == pc[t] \in {"idle", "relock"}

Quiet == \A t \in Actor : Waiting(t)

Alone == overlaps = 0

\* A thread takes up a request or an event, whatever the other is doing.
Begin(t) ==
    /\ pc[t] = "idle"
    /\ Quiet \/ overlaps < MaxOverlaps
    /\ overlaps' = IF Quiet THEN overlaps ELSE overlaps + 1

\* A thread is through with its request.
Return(t) ==
    /\ Goto(t, "idle")
    /\ req' = [req EXCEPT ![t] = NoRequest]
    /\ prev' = [prev EXCEPT ![t] = Unused]
    /\ copy' = [copy EXCEPT ![t] = Unused]

\* KillSwitch::check, as the level it enforces on an agent: the flag first, then
\* the platform, then the agent's own entry.
Check(s, platformKilled, agent) ==
    IF platformKilled \/ s.platform_level = KillAll THEN KillAll ELSE s.per_agent[agent]

------------------------------------------------------------------------------
(***************************************************************************)
(* The API handlers, up to the mutation.                                     *)
(***************************************************************************)
RequestedLevel(op, agent) ==
    CASE op = "kill_all" -> KillAll
      [] op = "pause" -> Pause
      [] op = "quarantine" -> Quarantine
      [] op = "resume" -> ks.per_agent[agent]

\* A handler takes the writer, passes the journal and the cooldown, and checks
\* its request.  resume_agent reads the agent's level here, demands review of a
\* quarantine, and remembers the level as the one it expects.
ApiBegin(op, agent, reviewed) ==
    LET level == RequestedLevel(op, agent)
    IN  /\ Begin("api")
        /\ Spend("requests")
        /\ op = "resume" => level # Normal /\ (level = Quarantine => reviewed)
        /\ reviewed => op = "resume"
        /\ req' = [req EXCEPT !["api"] = [op |-> op, kind |-> "none", agent |-> agent,
                                          level |-> level, reviewed |-> reviewed]]
        /\ Goto("api", "snapshot")
        /\ UNCHANGED <<mem, disk, prev, copy, acked, lifted, killed, undone>>

\* execute_persisted_safety_mutation copies the state it may have to put back.
ApiSnapshot ==
    /\ pc["api"] = "snapshot"
    /\ prev' = [prev EXCEPT !["api"] = [ks |-> ks, gate |-> gate]]
    /\ Goto("api", "mutate")
    /\ UNCHANGED <<mem, disk, req, copy, history, budget>>

ApiKillAll ==
    /\ pc["api"] = "mutate" /\ req["api"].op = "kill_all"
    /\ ks' = ActivateKillAll(ks)
    /\ flag' = TRUE
    /\ Goto("api", IF GateEnabled THEN "close_gate" ELSE "persist")
    /\ UNCHANGED <<gate, pulled, dedup, disk, local, history, budget>>

\* KillGateBridge::close_and_propagate.
ApiCloseGate ==
    /\ pc["api"] = "close_gate"
    /\ gate' = "Propagating"
    /\ Goto("api", "persist")
    /\ UNCHANGED <<ks, flag, pulled, dedup, disk, local, history, budget>>

ApiPause ==
    /\ pc["api"] = "mutate" /\ req["api"].op = "pause"
    /\ ks' = ActivateAgent(ks, req["api"].agent, Pause)
    /\ Goto("api", "persist")
    /\ UNCHANGED <<flag, gate, pulled, dedup, disk, local, history, budget>>

\* Unlike pause_agent, quarantine_agent syncs access before it persists.
ApiQuarantine ==
    /\ pc["api"] = "mutate" /\ req["api"].op = "quarantine"
    /\ ks' = ActivateAgent(ks, req["api"].agent, Quarantine)
    /\ Goto("api", "sync")
    /\ UNCHANGED <<flag, gate, pulled, dedup, disk, local, history, budget>>

ApiResumeUnchecked ==
    LET agent == req["api"].agent
    IN  /\ pc["api"] = "mutate" /\ req["api"].op = "resume"
        /\ ks' = [ks EXCEPT !.per_agent[agent] = Normal]
        /\ lifted' = lifted \union {agent}
        /\ Goto("api", "sync")
        /\ UNCHANGED <<flag, gate, pulled, dedup, disk, local, acked, killed, overlaps, undone,
                       budget>>

\* KillSwitch::resume_agent under its write lock: refused when the level is no
\* longer the expected one, and then the handler rolls back.
ApiResume ==
    LET agent == req["api"].agent
    IN  /\ pc["api"] = "mutate" /\ req["api"].op = "resume"
        /\ IF ks.per_agent[agent] = req["api"].level
           THEN /\ ks' = [ks EXCEPT !.per_agent[agent] = Normal]
                /\ lifted' = lifted \union {agent}
                /\ Goto("api", "sync")
           ELSE UNCHANGED <<ks, lifted>> /\ Goto("api", "rollback")
        /\ UNCHANGED <<flag, gate, pulled, dedup, disk, local, acked, killed, overlaps, undone,
                       budget>>

------------------------------------------------------------------------------
(***************************************************************************)
(* The auto-trigger task, up to the mutation.                                *)
(***************************************************************************)
\* compute_dedup_key: these variants name no agent.
PlatformKinds == {"MultiAgentQuarantine", "ManualKillAll", "DistributedKillGate"}

\* handle_trigger_event copies the kill state before it processes the event.
AutoReceive(kind, agent) ==
    /\ Begin("auto")
    /\ Spend("triggers")
    /\ kind \in PlatformKinds => agent = NoRequest.agent
    /\ req' = [req EXCEPT !["auto"] = [op |-> "trigger", kind |-> kind, agent |-> agent,
                                       level |-> ClassifyTrigger(kind), reviewed |-> FALSE]]
    /\ prev' = [prev EXCEPT !["auto"] = [ks |-> ks, gate |-> "None"]]
    /\ Goto("auto", "mutate")
    /\ UNCHANGED <<mem, disk, copy, acked, lifted, killed, undone>>

Key(r) == <<r.kind, r.agent>>

\* AutoTriggerEvaluator::process: a key seen within the window ends the handling;
\* otherwise the key is recorded before anything is activated.
AutoSuppress ==
    /\ pc["auto"] = "mutate"
    /\ Key(req["auto"]) \in dedup
    /\ Return("auto")
    /\ UNCHANGED <<mem, disk, history, budget>>

AutoProcessStale ==
    LET r == req["auto"]
    IN  /\ pc["auto"] = "mutate"
        /\ Key(r) \notin dedup
        /\ dedup' = dedup \union {Key(r)}
        /\ ks' = ActivateAgent(prev["auto"].ks, r.agent, r.level)
        /\ lifted' = {}
        /\ Goto("auto", IF r.level = Quarantine THEN "count" ELSE "sync")
        /\ UNCHANGED <<flag, gate, pulled, disk, local, acked, killed, overlaps, undone, budget>>

AutoProcess ==
    LET r == req["auto"]
    IN  /\ pc["auto"] = "mutate"
        /\ Key(r) \notin dedup
        /\ dedup' = dedup \union {Key(r)}
        /\ ks' = IF r.level = KillAll THEN ActivateKillAll(ks)
                 ELSE ActivateAgent(ks, r.agent, r.level)
        /\ flag' = (flag \/ r.level = KillAll)
        /\ lifted' = {}
        /\ Goto("auto", IF r.level = Quarantine THEN "count" ELSE "sync")
        /\ UNCHANGED <<gate, pulled, disk, local, acked, killed, overlaps, undone, budget>>

AutoNeverCascades ==
    /\ pc["auto"] = "count"
    /\ Goto("auto", "sync")
    /\ UNCHANGED <<mem, disk, local, history, budget>>

\* T6: the quarantined agents are counted under a lock of its own, after the
\* quarantine, and KILL_ALL is activated under another.
AutoCount ==
    /\ pc["auto"] = "count"
    /\ Goto("auto", IF CascadeDue(ks) THEN "escalate" ELSE "sync")
    /\ UNCHANGED <<mem, disk, local, history, budget>>

AutoEscalate ==
    /\ pc["auto"] = "escalate"
    /\ ks' = ActivateKillAll(ks)
    /\ flag' = TRUE
    /\ req' = [req EXCEPT !["auto"].level = KillAll]
    /\ Goto("auto", "sync")
    /\ UNCHANGED <<gate, pulled, dedup, disk, prev, copy, history, budget>>

\* The suppression window of a key runs out.
DedupExpire ==
    \E key \in dedup :
        /\ dedup' = dedup \ {key}
        /\ UNCHANGED <<ks, flag, gate, pulled, disk, pc, local, history, budget>>

------------------------------------------------------------------------------
(***************************************************************************)
(* What both do after the mutation: sync_agent_access_pullbacks (a copy of   *)
(* the kill state, then the registry's lock), persist_current_safety_state,  *)
(* and the way back.                                                        *)
(***************************************************************************)
SyncRead(t) ==
    /\ pc[t] \in {"sync", "resync"}
    /\ copy' = [copy EXCEPT ![t].ks = ks]
    /\ Goto(t, IF pc[t] = "sync" THEN "apply" ELSE "reapply")
    /\ UNCHANGED <<mem, disk, req, prev, history, budget>>

SyncApply(t) ==
    /\ pc[t] \in {"apply", "reapply"}
    /\ pulled' = PulledBack(copy[t].ks)
    /\ IF pc[t] = "apply" THEN Goto(t, "persist") /\ UNCHANGED local ELSE Return(t)
    /\ UNCHANGED <<ks, flag, gate, dedup, disk, history, budget>>

\* current_state, to be persisted.
PersistRead(t) ==
    /\ pc[t] = "persist"
    /\ copy' = [copy EXCEPT ![t].ks = ks]
    /\ Goto(t, "open")
    /\ UNCHANGED <<mem, disk, req, prev, history, budget>>

\* With no gate, a clear state is persisted by removing the file.
NothingToPersist(t) == IsClear(copy[t].ks) /\ ~GateEnabled

PersistClear(t) ==
    /\ pc[t] = "open"
    /\ NothingToPersist(t)
    /\ path' = Absent
    /\ fd' = [u \in Actor |-> IF fd[u] = "path" THEN "gone" ELSE fd[u]]
    /\ Goto(t, "done")
    /\ UNCHANGED <<mem, tmp, local, history, budget>>

PersistOpenNoGate(t) ==
    /\ pc[t] = "open"
    /\ ~NothingToPersist(t)
    /\ tmp' = Empty
    /\ fd' = [fd EXCEPT ![t] = "tmp"]
    /\ Goto(t, "write")
    /\ UNCHANGED <<mem, path, local, history, budget>>

\* The gate is copied and File::create opens the one temporary path: an existing
\* file is truncated and shared, otherwise a new one is made.
PersistOpen(t) ==
    /\ pc[t] = "open"
    /\ ~NothingToPersist(t)
    /\ copy' = [copy EXCEPT ![t].gate = gate]
    /\ tmp' = Empty
    /\ fd' = [fd EXCEPT ![t] = "tmp"]
    /\ Goto(t, "write")
    /\ UNCHANGED <<mem, path, req, prev, history, budget>>

\* What a thread's write leaves in the file it has open: its own bytes or, over
\* another writer's longer ones, a mixture.
Written(t, old) == IF old = Empty THEN {Whole(copy[t])} ELSE {Whole(copy[t]), Garbled}

PersistWriteOnly(t) ==
    /\ pc[t] = "write"
    /\ tmp' \in Written(t, tmp)
    /\ fd' = [fd EXCEPT ![t] = "closed"]
    /\ Goto(t, "done")
    /\ UNCHANGED <<mem, path, local, history, budget>>

\* write_all and sync_all, into a file that the other thread may have renamed or
\* removed since it was opened.
PersistWrite(t) ==
    /\ pc[t] = "write"
    /\ \/ fd[t] = "tmp" /\ tmp' \in Written(t, tmp) /\ UNCHANGED path
       \/ fd[t] = "path" /\ path' \in Written(t, path) /\ UNCHANGED tmp
       \/ fd[t] = "gone" /\ UNCHANGED <<path, tmp>>
    /\ Goto(t, "rename")
    /\ UNCHANGED <<mem, fd, local, history, budget>>

\* rename moves whatever has the temporary name, and fails when nothing has.
PersistRename(t) ==
    /\ pc[t] = "rename"
    /\ IF tmp = Absent
       THEN Goto(t, "cleanup") /\ UNCHANGED <<path, tmp>> /\ fd' = [fd EXCEPT ![t] = "closed"]
       ELSE /\ Goto(t, "done")
            /\ path' = tmp
            /\ tmp' = Absent
            /\ fd' = [u \in Actor |-> IF u = t THEN "closed"
                                      ELSE CASE fd[u] = "tmp" -> "path"
                                             [] fd[u] = "path" -> "gone"
                                             [] OTHER -> fd[u]]
    /\ UNCHANGED <<mem, local, history, budget>>

\* Any of the calls may fail.  A failing write leaves a cut-short file; failing to
\* remove the file or to make its directory leaves no temporary file to clean up.
PersistFail(t) ==
    /\ pc[t] \in {"open", "write", "rename"}
    /\ Spend("ioErrors")
    /\ tmp' = IF pc[t] = "write" /\ fd[t] = "tmp" THEN Garbled ELSE tmp
    /\ path' = IF pc[t] = "write" /\ fd[t] = "path" THEN Garbled ELSE path
    /\ fd' = [fd EXCEPT ![t] = "closed"]
    /\ \/ pc[t] = "open" /\ Goto(t, "rollback")
       \/ ~(pc[t] = "open" /\ NothingToPersist(t)) /\ Goto(t, "cleanup")
    /\ UNCHANGED <<mem, local, history>>

\* cleanup_persisted_safety_temp_path removes the temporary path, whoever made
\* it; its own failure is only logged.
Cleanup(t) ==
    /\ pc[t] = "cleanup"
    /\ \/ /\ tmp' = Absent
          /\ fd' = [u \in Actor |-> IF fd[u] = "tmp" THEN "gone" ELSE fd[u]]
          /\ UNCHANGED budget
       \/ Spend("ioErrors") /\ UNCHANGED <<tmp, fd>>
    /\ Goto(t, "rollback")
    /\ UNCHANGED <<mem, path, local, history>>

RollbackNothing(t) ==
    /\ pc[t] = "rollback"
    /\ Goto(t, "resync")
    /\ UNCHANGED <<mem, disk, local, history, budget>>

RollbackWithoutSync(t) ==
    /\ pc[t] = "rollback"
    /\ ks' = prev[t].ks
    /\ flag' = (prev[t].ks.platform_level = KillAll)
    /\ Return(t)
    /\ UNCHANGED <<gate, pulled, dedup, disk, history, budget>>

\* restore_state with the copy taken at the start, flag included; the API then
\* puts the gate back.
Rollback(t) ==
    /\ pc[t] = "rollback"
    /\ ks' = prev[t].ks
    /\ flag' = (prev[t].ks.platform_level = KillAll)
    /\ Goto(t, IF t = "api" /\ GateEnabled THEN "restore_gate" ELSE "resync")
    /\ undone' = (undone \/ ~Alone)
    /\ UNCHANGED <<gate, pulled, dedup, disk, local, acked, lifted, killed, overlaps, budget>>

RestoreGate ==
    /\ pc["api"] = "restore_gate"
    /\ gate' = prev["api"].gate
    /\ Goto("api", "resync")
    /\ UNCHANGED <<ks, flag, pulled, dedup, disk, local, history, budget>>

\* What stands reported of an agent once a request has reported: a higher level,
\* or Normal after a resume.  A trigger's level that a resume has lifted in the
\* meantime no longer counts.
Reported(r, agent) ==
    CASE r.op = "resume" /\ agent = r.agent -> Normal
      [] /\ r.op # "resume" /\ r.level > acked[agent]
         /\ \/ r.level = KillAll
            \/ agent = r.agent /\ ~(r.op = "trigger" /\ agent \in lifted) -> r.level
      [] OTHER -> acked[agent]

\* The outcome is reported: the committed journal entry and the broadcast of a
\* handler, the KillSwitchActivation broadcast of the task.  kill_all still holds
\* the writer and now asks for it again.
Report(t) ==
    /\ pc[t] = "done"
    /\ acked' = [a \in Agent |-> Reported(req[t], a)]
    /\ killed' = (killed \/ req[t].op = "kill_all")
    /\ UNCHANGED <<lifted, overlaps, undone>>
    /\ IF req[t].op = "kill_all" THEN Goto(t, "relock") /\ UNCHANGED local ELSE Return(t)
    /\ UNCHANGED <<mem, disk, budget>>

\* The journal entry cannot be committed: the handler answers with an error and
\* what it applied, or lifted, stays so.  (A transaction left open by this refuses
\* later requests at their BEGIN: requests that never begin here.)
JournalFail ==
    /\ pc["api"] = "done"
    /\ Spend("ioErrors")
    /\ acked' = IF req["api"].op = "resume" THEN [acked EXCEPT ![req["api"].agent] = Normal]
                ELSE acked
    /\ UNCHANGED <<lifted, killed, overlaps, undone>>
    /\ Return("api")
    /\ UNCHANGED <<mem, disk>>

\* The client of a kill_all that waits for itself closes the connection: the
\* handler's future is dropped, and the writer with it.
Disconnect ==
    /\ pc["api"] = "relock"
    /\ Return("api")
    /\ UNCHANGED <<mem, disk, history, budget>>

------------------------------------------------------------------------------
(***************************************************************************)
(* Crash and restart.                                                       *)
(***************************************************************************)
\* load_persisted_runtime_safety_state and the safe mode of the bootstrap: an
\* unreadable file means KILL_ALL with no per-agent entries.
Load(file) ==
    CASE file.form = "absent" -> Unused
      [] file.form = "whole" -> file.snapshot
      [] OTHER -> [ks |-> ActivateKillAll(DefaultState), gate |-> "None"]

\* A resume that has changed the kill switch and has not answered: the agent may
\* be found at its old level or at Normal.
Lifting(a) ==
    /\ req["api"].op = "resume" /\ req["api"].agent = a
    /\ pc["api"] \notin {"snapshot", "mutate"}

\* The process dies and comes back: memory is rebuilt from the file, access is
\* synced, and with a gate the state is persisted again before serving.
CrashRestart ==
    LET loaded == Load(path)
        booted == [ks |-> loaded.ks,
                   gate |-> IF ~GateEnabled THEN "None"
                            ELSE IF loaded.gate = "None" THEN "Normal" ELSE loaded.gate]
    IN  /\ Spend("crashes")
        /\ ks' = booted.ks
        /\ flag' = (booted.ks.platform_level = KillAll)
        /\ gate' = booted.gate
        /\ pulled' = PulledBack(booted.ks)
        /\ dedup' = {}
        /\ IF GateEnabled THEN path' = Whole(booted) /\ tmp' = Absent ELSE UNCHANGED <<path, tmp>>
        /\ fd' = [t \in Actor |-> "closed"]
        /\ pc' = [t \in Actor |-> "idle"]
        /\ req' = [t \in Actor |-> NoRequest]
        /\ prev' = [t \in Actor |-> Unused]
        /\ copy' = [t \in Actor |-> Unused]
        /\ lifted' = {}
        /\ undone' = (undone \/ ~Alone)
        /\ UNCHANGED <<killed, overlaps>>
        /\ acked' = [a \in Agent |-> IF Lifting(a) /\ Check(booted.ks, FALSE, a) < acked[a]
                                     THEN Check(booted.ks, FALSE, a) ELSE acked[a]]

------------------------------------------------------------------------------
Persist(t) ==
    \/ PersistRead(t) \/ PersistClear(t) \/ PersistOpen(t) \/ PersistWrite(t)
    \/ PersistRename(t) \/ PersistFail(t) \/ Cleanup(t)

Conclude(t) == SyncRead(t) \/ SyncApply(t) \/ Persist(t) \/ Rollback(t) \/ Report(t)

ApiStep ==
    \/ ApiSnapshot \/ ApiKillAll \/ ApiCloseGate \/ ApiPause \/ ApiQuarantine \/ ApiResume
    \/ RestoreGate \/ JournalFail \/ Conclude("api")

AutoStep == AutoSuppress \/ AutoProcess \/ AutoCount \/ AutoEscalate \/ Conclude("auto")

Next ==
    \/ \E op \in ApiOps, agent \in Agent, reviewed \in BOOLEAN : ApiBegin(op, agent, reviewed)
    \/ ApiStep
    \/ Disconnect
    \/ \E kind \in Triggers, agent \in Agent : AutoReceive(kind, agent)
    \/ AutoStep
    \/ DedupExpire
    \/ CrashRestart

Spec == Init /\ [][Next]_vars

------------------------------------------------------------------------------
(***************************************************************************)
(* Most of this holds as long as no request and no trigger has begun in the  *)
(* middle of the other.  Nothing in the code prevents the overlap: what can  *)
(* happen then is in LevelsNeverDrop, which does not hold.                   *)
(***************************************************************************)
\* kill_switch.rs: levels never decrease without an explicit resume.  For every
\* agent, check() enforces at least the level that a response or a broadcast has
\* reported.
LevelsNeverDrop == \A a \in Agent : Lifting(a) \/ Check(ks, flag, a) >= acked[a]

\* What was reported as applied is in force until an explicit resume lifts it:
\* through failing writes, rollbacks and restarts up to the first overlap, and from
\* then on in every interleaving until a thread puts back its copy of the state or
\* the gateway restarts.
ReportedInForce == ~undone => LevelsNeverDrop

\* What was reported as applied is durable: were the gateway to crash now, the
\* restart would enforce it, from kill_state.json or from safe mode, up to the
\* first overlap.
ReportedDurable ==
    Alone => \A a \in Agent : Lifting(a) \/ Check(Load(path).ks, FALSE, a) >= acked[a]

\* Up to the first overlap, between requests every quarantined agent has lost its
\* access, and no agent has that neither quarantine nor KILL_ALL concerns:
\* rollback and restart move access along with the level.  (The kill_all handler
\* leaves access as it is: check() refuses every agent.)
AccessFollowsLevel ==
    Alone /\ Quiet =>
        QuarantinedAgents(ks) \subseteq pulled /\ pulled \subseteq PulledBack(ks)

\* T6: up to the first overlap, a quarantine trigger that is handled to the end
\* leaves no CascadeThreshold quarantined agents on a platform that has not been
\* killed, whoever quarantined the others.
CascadeComplete ==
    [][Alone /\ pc["auto"] = "done" /\ pc'["auto"] # "done"
           /\ ClassifyTrigger(req["auto"].kind) = Quarantine /\ CascadeDue(ks)
        => ks.platform_level = KillAll]_vars

\* A kill_all that was reported has closed the distributed gate for good: no later
\* request that fails and restores its copy of the gate, and no restart from the
\* file, opens it, up to the first overlap.
ReportedKillHoldsGate ==
    Alone /\ killed /\ GateEnabled =>
        gate = "Propagating" /\ Load(path).gate = "Propagating"

------------------------------------------------------------------------------
(***************************************************************************)
(* What holds however requests and triggers overlap, and what does not.      *)
(***************************************************************************)
\* However the level moves between a resume's check and its mutation, a quarantine
\* is lifted only by a reviewed resume of that agent, by a rollback to a copy from
\* before it, or by a restart.  A refused resume is among those that roll back: it
\* lifts the quarantine that made it be refused.
QuarantineLiftedByReview ==
    [][\A a \in Agent : ks.per_agent[a] = Quarantine /\ ks'.per_agent[a] < Quarantine =>
        \/ /\ pc["api"] = "mutate" /\ req["api"].op = "resume"
           /\ req["api"].agent = a /\ req["api"].reviewed
        \/ \E t \in Actor : pc[t] = "rollback" /\ prev[t].ks.per_agent[a] < Quarantine
        \/ budget'.crashes < budget.crashes]_vars
==============================================================================
