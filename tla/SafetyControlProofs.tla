------------------------- MODULE SafetyControlProofs -------------------------
(***************************************************************************)
(* Proofs about the safety control plane, with requests and triggers in      *)
(* parallel, for any number of agents, requests, triggers, failing calls and *)
(* crashes, with or without a gate.  Type correctness and what lifts a        *)
(* quarantine hold in every behaviour; what TLC refutes once a request and a *)
(* trigger overlap (the run safety_rollback) is proved up to that overlap.   *)
(***************************************************************************)
EXTENDS SafetyControl, TLAPS

(***************************************************************************)
(* In every interleaving.                                                   *)
(***************************************************************************)

\* The flag is assigned with the level it caches.
FlagIsLevel == flag = (ks.platform_level = KillAll)

\* A resume that expects a quarantine has been reviewed, and so on: what a
\* request has in hand follows from what it is.
RequestsFit ==
    /\ req["api"].op # "trigger" /\ req["auto"].op \in {"none", "trigger"}
    /\ req["api"].op = "resume" /\ req["api"].level = Quarantine => req["api"].reviewed
    /\ req["api"].op = "kill_all" => req["api"].level = KillAll
    /\ req["api"].op = "pause" => req["api"].level = Pause
    /\ req["api"].op = "quarantine" => req["api"].level = Quarantine
    /\ pc["api"] = "idle" => req["api"].op = "none"
    /\ pc["api"] = "close_gate" => req["api"].op = "kill_all"
    /\ pc["auto"] # "idle" => req["auto"].op = "trigger"
    /\ pc["api"] \notin {"count", "escalate"}
    /\ pc["auto"] \notin {"snapshot", "close_gate", "restore_gate", "relock"}
    /\ pc["auto"] = "mutate" => /\ req["auto"].kind \in Triggers
                               /\ req["auto"].level = ClassifyTrigger(req["auto"].kind)

\* Without a gate there is nothing of one in memory or on disk.
NoGateNowhere ==
    ~GateEnabled => /\ gate = "None" /\ prev["api"].gate = "None"
                    /\ pc["api"] \notin {"close_gate", "restore_gate"}

(***************************************************************************)
(* Up to the first overlap.  A thread at work holds the state from before    *)
(* its mutation in prev and on disk until it has renamed its file; then the  *)
(* disk has what memory has.                                                *)
(***************************************************************************)
Current == [ks |-> ks, gate |-> gate]

\* From the mutation to the rename, or to the rollback.
Underway == {"close_gate", "count", "escalate", "sync", "apply", "persist", "open",
             "write", "rename", "cleanup", "rollback"}

\* The level that a kill state enforces on an agent.
LevelOf(s, a) == Check(s, FALSE, a)

\* At most one thread has something to do.
OneAtATime == Waiting("api") \/ Waiting("auto")

\* What was there before the mutation.
Before(t) == [ks |-> prev[t].ks, gate |-> IF t = "api" THEN prev[t].gate ELSE gate]

\* Which state is on disk.
DiskKeeps ==
    /\ (\A t \in Actor : pc[t] \notin Underway \cup {"restore_gate"}) => Load(path) = Current
    /\ \A t \in Actor : pc[t] \in Underway \cup {"restore_gate"} => Load(path) = Before(t)
    /\ pc["api"] = "restore_gate" => ks = prev["api"].ks
    /\ \A t \in Actor : pc[t] = "mutate" => Before(t) = Current

\* The copies to apply and to write are those of the current state, and the
\* temporary file is the thread's own.
CopiesFresh ==
    \A t \in Actor :
        /\ pc[t] \in {"apply", "reapply", "open", "write", "rename"} => copy[t].ks = ks
        /\ pc[t] \in {"write", "rename"} => copy[t].gate = gate
        /\ fd[t] = IF pc[t] \in {"write", "rename"} THEN "tmp" ELSE "closed"
        /\ pc[t] = "write" => tmp = Empty
        /\ pc[t] = "rename" => tmp = Whole(copy[t])

\* The agent whose level a resume under way may have lowered.
Resumes(t, a) == req[t].op = "resume" /\ req[t].agent = a

\* A mutation only raises levels, but for the agent of a resume.
MutationRaises ==
    \A t \in Actor : pc[t] \in Underway =>
        \A a \in Agent : Resumes(t, a) \/ LevelOf(ks, a) >= LevelOf(prev[t].ks, a)

\* What a request is about to report has been applied.
Applied ==
    \A t \in Actor :
        (/\ pc[t] \in {"close_gate", "count", "escalate", "sync", "apply", "persist", "open",
                       "write", "rename", "done"}
         /\ req[t].op # "resume") =>
            /\ req[t].level = KillAll => ks.platform_level = KillAll
            /\ LevelOf(ks, req[t].agent) >= req[t].level

\* The disk has what was reported, until a resume has been written.
DiskDurable ==
    \A a \in Agent : (pc["api"] = "done" /\ Resumes("api", a))
                        \/ LevelOf(Load(path).ks, a) >= acked[a]

\* A kill_all that is to report has closed the gate, and since one has reported
\* memory, disk and the copy of every later request have it closed.
GateHeld ==
    GateEnabled =>
        /\ (/\ pc["api"] \in {"sync", "apply", "persist", "open", "write", "rename", "done"}
            /\ req["api"].op = "kill_all") => gate = "Propagating"
        /\ killed => /\ gate = "Propagating" /\ Load(path).gate = "Propagating"
                     /\ pc["api"] \notin {"idle", "snapshot", "relock"} =>
                            prev["api"].gate = "Propagating"

\* Access follows the level, but for the way to a sync that is to come.
AccessKept ==
    (\A t \in Actor : pc[t] \notin {"count", "escalate", "sync", "apply", "cleanup", "rollback",
                                    "restore_gate", "resync", "reapply"})
        => QuarantinedAgents(ks) \subseteq pulled /\ pulled \subseteq PulledBack(ks)

\* A quarantine that has been counted leaves no cascade due.
CascadeDone ==
    (/\ pc["auto"] \in {"sync", "apply", "persist", "open", "write", "rename", "done"}
     /\ ClassifyTrigger(req["auto"].kind) = Quarantine /\ CascadeDue(ks))
        => ks.platform_level = KillAll

(***************************************************************************)
(* After an overlap, until a thread rolls back or the gateway restarts.      *)
(***************************************************************************)
\* The agent whose level a resume may have lowered and not yet answered for.
Lowering(a) == Resumes("api", a) /\ pc["api"] \in Underway \cup {"done"}

\* Between its mutation and its report.
Doing(t) == pc[t] \in {"close_gate", "count", "escalate", "sync", "apply", "persist", "open",
                       "write", "rename", "done"}

\* What was reported is in force, and so is what is about to be, but for a
\* trigger's level that a resume has lifted since.
InMemory ==
    /\ \A a \in Agent : Lowering(a) \/ LevelOf(ks, a) >= acked[a]
    /\ \A t \in Actor : Doing(t) /\ req[t].op # "resume" =>
          /\ req[t].level = KillAll => ks.platform_level = KillAll
          /\ (t = "auto" /\ req[t].agent \in lifted) \/ LevelOf(ks, req[t].agent) >= req[t].level

CommonInv == TypeOK /\ FlagIsLevel /\ RequestsFit /\ NoGateNowhere

TurnInv ==
    /\ OneAtATime /\ DiskKeeps /\ CopiesFresh /\ MutationRaises /\ Applied
    /\ DiskDurable /\ GateHeld /\ AccessKept /\ CascadeDone


(***************************************************************************)
(* The operators keep their types.                                          *)
(***************************************************************************)

\* The operations of the kill switch give kill switch states.
LEMMA SwitchTypes ==
    /\ DefaultState \in KillSwitchState
    /\ \A s \in KillSwitchState :
          /\ ActivateKillAll(s) \in KillSwitchState
          /\ \A a \in Agent :
                /\ \A level \in {Normal, Pause, Quarantine} :
                      ActivateAgent(s, a, level) \in KillSwitchState
                /\ [s EXCEPT !.per_agent[a] = Normal] \in KillSwitchState
PROOF
    BY DEF DefaultState, KillSwitchState, ActivateKillAll, ActivateAgent, Normal, Pause,
       Quarantine, KillAll

\* Files are made of snapshots, and loading one gives a snapshot.
LEMMA FileTypes ==
    /\ Unused \in Snapshot
    /\ Absent \in File /\ Empty \in File /\ Garbled \in File
    /\ \A s \in Snapshot : Whole(s) \in File
    /\ \A f \in File : Load(f) \in Snapshot
PROOF
<1>1. Unused \in Snapshot
    BY SwitchTypes DEF Unused, Snapshot, Gates
<1>2. /\ Absent \in File /\ Empty \in File /\ Garbled \in File
      /\ \A s \in Snapshot : Whole(s) \in File
    BY <1>1 DEF Absent, Empty, Garbled, Whole, File
<1>3. [ks |-> ActivateKillAll(DefaultState), gate |-> "None"] \in Snapshot
    BY SwitchTypes DEF Snapshot, Gates
<1>4. \A f \in File : Load(f) \in Snapshot
    BY <1>1, <1>3 DEF Load, File
<1> QED
    BY <1>1, <1>2, <1>4

\* Replacing a part of a snapshot gives a snapshot.
LEMMA SnapshotTypes ==
    ASSUME NEW s \in Snapshot, NEW k \in KillSwitchState, NEW g \in Gates
    PROVE  /\ [s EXCEPT !.ks = k] \in Snapshot /\ [s EXCEPT !.gate = g] \in Snapshot
           /\ [ks |-> k, gate |-> g] \in Snapshot
           /\ s.ks \in KillSwitchState /\ s.gate \in Gates
PROOF
    BY DEF Snapshot

\* The levels of the requests.
LEMMA RequestTypes ==
    /\ NoRequest \in Request
    /\ \A s \in KillSwitchState, a \in Agent : s.per_agent[a] \in KillLevel
    /\ \A op \in ApiOps : op \in {"kill_all", "pause", "quarantine", "resume"}
PROOF
<1>1. (CHOOSE a \in Agent : TRUE) \in Agent
    BY AgentAssumption
<1>2. NoRequest \in Request
    BY <1>1 DEF NoRequest, Request, KillLevel
<1>3. \A s \in KillSwitchState, a \in Agent : s.per_agent[a] \in KillLevel
    BY DEF KillSwitchState, KillLevel
<1> QED
    BY <1>2, <1>3, ApiOpsAssumption

\* The type of the budget.
Budget == [requests : 0..MaxRequests, triggers : 0..MaxTriggers,
           ioErrors : 0..MaxIoErrors, crashes : 0..MaxCrashes]

\* A bound that is spent stays a natural number.
LEMMA SpendTypes ==
    ASSUME budget \in Budget, NEW what \in {"requests", "triggers", "ioErrors", "crashes"},
           Spend(what)
    PROVE  budget' \in Budget
PROOF
    BY BoundsAssumption DEF Spend, Budget

\* A thread that begins counts the overlap, and up to the first one it begins only
\* while the other waits.
LEMMA BeginTypes ==
    ASSUME TypeOK, NEW t \in Actor, Begin(t)
    PROVE  overlaps' \in 0..MaxOverlaps /\ pc[t] = "idle" /\ (Alone' => Alone /\ Quiet)
PROOF
<1>1. overlaps \in 0..MaxOverlaps /\ MaxOverlaps \in Nat
    BY BoundsAssumption DEF TypeOK
<1> QED
    BY <1>1 DEF Begin, Alone


(***************************************************************************)
(* Type correctness.                                                        *)
(***************************************************************************)

\* What is reported is a level.
LEMMA ReportedTypes ==
    ASSUME TypeOK, NEW r \in Request, NEW a \in Agent
    PROVE  Reported(r, a) \in KillLevel
PROOF
    BY DEF TypeOK, Reported, Request, KillLevel

\* A step of either thread after the mutation keeps the types.
LEMMA ConcludeTypes ==
    ASSUME TypeOK, NEW t \in Actor, Conclude(t)
    PROVE  TypeOK'
PROOF
<1> USE DEF mem, disk, local, history
<1>0. budget \in Budget
    BY DEF TypeOK, Budget
<1>1. CASE SyncRead(t)
    BY <1>1, SwitchTypes, FileTypes, SnapshotTypes, RequestTypes
    DEF TypeOK, SyncRead, Goto, Return, PC, Actor, Written, PulledBack, QuarantinedAgents, Reported
<1>2. CASE SyncApply(t)
    BY <1>2, SwitchTypes, FileTypes, SnapshotTypes, RequestTypes
    DEF TypeOK, SyncApply, Goto, Return, PC, Actor, Written, PulledBack, QuarantinedAgents, Reported
<1>3. CASE PersistRead(t)
    BY <1>3, SwitchTypes, FileTypes, SnapshotTypes, RequestTypes
    DEF TypeOK, PersistRead, Goto, Return, PC, Actor, Written, PulledBack, QuarantinedAgents,
        Reported
<1>4. CASE PersistClear(t)
    BY <1>4, SwitchTypes, FileTypes, SnapshotTypes, RequestTypes
    DEF TypeOK, PersistClear, Goto, Return, PC, Actor, Written, PulledBack, QuarantinedAgents,
        Reported
<1>5. CASE PersistOpen(t)
    BY <1>5, SwitchTypes, FileTypes, SnapshotTypes, RequestTypes
    DEF TypeOK, PersistOpen, Goto, Return, PC, Actor, Written, PulledBack, QuarantinedAgents,
        Reported
<1>6. CASE PersistWrite(t)
    BY <1>6, SwitchTypes, FileTypes, SnapshotTypes, RequestTypes
    DEF TypeOK, PersistWrite, Goto, Return, PC, Actor, Written, PulledBack, QuarantinedAgents,
        Reported
<1>7. CASE PersistRename(t)
    BY <1>7, SwitchTypes, FileTypes, SnapshotTypes, RequestTypes
    DEF TypeOK, PersistRename, Goto, Return, PC, Actor, Written, PulledBack,
        QuarantinedAgents, Reported
<1>8. CASE PersistFail(t)
    <2>1. budget' \in Budget
        BY <1>0, <1>8, SpendTypes DEF PersistFail
    <2> QED
        BY <1>8, <2>1, FileTypes DEF TypeOK, PersistFail, Goto, PC, Actor, Budget
<1>9. CASE Cleanup(t)
    <2>1. budget' \in Budget
        BY <1>0, <1>9, SpendTypes DEF Cleanup
    <2> QED
        BY <1>9, <2>1, FileTypes DEF TypeOK, Cleanup, Goto, PC, Actor, Budget
<1>10. CASE Rollback(t)
    BY <1>10, SwitchTypes, FileTypes, SnapshotTypes, RequestTypes
    DEF TypeOK, Rollback, Goto, Return, PC, Actor, Written, PulledBack, QuarantinedAgents, Reported
<1>11. CASE Report(t)
    <2>1. acked' \in [Agent -> KillLevel]
        BY <1>11, ReportedTypes DEF Report, TypeOK
    <2> QED
        BY <1>11, <2>1, FileTypes, RequestTypes DEF TypeOK, Report, Goto, Return, PC, Actor
<1> QED
    BY <1>1, <1>2, <1>3, <1>4, <1>5, <1>6, <1>7, <1>8, <1>9, <1>10, <1>11 DEF Conclude, Persist

\* Every step keeps the types.
LEMMA TypeStep ==
    ASSUME TypeOK, RequestsFit, [Next]_vars
    PROVE  TypeOK'
PROOF
<1> USE DEF mem, disk, local, history
<1>0. budget \in Budget
    BY DEF TypeOK, Budget
<1>1. CASE \E op \in ApiOps, agent \in Agent, reviewed \in BOOLEAN : ApiBegin(op, agent, reviewed)
    <2>1. PICK op \in ApiOps, agent \in Agent, reviewed \in BOOLEAN : ApiBegin(op, agent, reviewed)
        BY <1>1
    <2>2. budget' \in Budget
        BY <1>0, <2>1, SpendTypes DEF ApiBegin
    <2>3. RequestedLevel(op, agent) \in KillLevel
        BY RequestTypes DEF RequestedLevel, TypeOK, KillLevel
    <2>4. [op |-> op, kind |-> "none", agent |-> agent, level |-> RequestedLevel(op, agent),
           reviewed |-> reviewed] \in Request
        BY <2>3, RequestTypes DEF Request
    <2>5. overlaps' \in 0..MaxOverlaps
        BY <2>1, BeginTypes DEF ApiBegin, Actor
    <2> QED
        BY <2>1, <2>2, <2>4, <2>5 DEF TypeOK, ApiBegin, Goto, PC, Actor, Budget
<1>2. CASE \E kind \in Triggers, agent \in Agent : AutoReceive(kind, agent)
    <2>1. PICK kind \in Triggers, agent \in Agent : AutoReceive(kind, agent)
        BY <1>2
    <2>2. budget' \in Budget
        BY <1>0, <2>1, SpendTypes DEF AutoReceive
    <2>3. [op |-> "trigger", kind |-> kind, agent |-> agent, level |-> ClassifyTrigger(kind),
           reviewed |-> FALSE] \in Request
        BY TriggersAssumption DEF Request
    <2>4. [ks |-> ks, gate |-> "None"] \in Snapshot
        BY DEF Snapshot, Gates, TypeOK
    <2>5. overlaps' \in 0..MaxOverlaps
        BY <2>1, BeginTypes DEF AutoReceive, Actor
    <2> QED
        BY <2>1, <2>2, <2>3, <2>4, <2>5 DEF TypeOK, AutoReceive, Goto, PC, Actor, Budget
<1>3. CASE ApiSnapshot
    BY <1>3, SwitchTypes, FileTypes, SnapshotTypes, RequestTypes
    DEF TypeOK, ApiSnapshot, Goto, Return, PC, Actor, Request, Gates
<1>4. CASE ApiKillAll
    BY <1>4, SwitchTypes, FileTypes, SnapshotTypes, RequestTypes
    DEF TypeOK, ApiKillAll, Goto, Return, PC, Actor, Request, Gates
<1>5. CASE ApiCloseGate
    BY <1>5, SwitchTypes, FileTypes, SnapshotTypes, RequestTypes
    DEF TypeOK, ApiCloseGate, Goto, Return, PC, Actor, Request, Gates
<1>6. CASE ApiPause
    BY <1>6, SwitchTypes, FileTypes, SnapshotTypes, RequestTypes
    DEF TypeOK, ApiPause, Goto, Return, PC, Actor, Request, Gates
<1>7. CASE ApiQuarantine
    BY <1>7, SwitchTypes, FileTypes, SnapshotTypes, RequestTypes
    DEF TypeOK, ApiQuarantine, Goto, Return, PC, Actor, Request, Gates
<1>8. CASE ApiResume
    <2>1. req["api"].agent \in Agent
        BY DEF TypeOK, Actor, Request
    <2>2. ks' \in KillSwitchState
        <3>1. [ks EXCEPT !.per_agent[req["api"].agent] = Normal] \in KillSwitchState
            BY <2>1 DEF TypeOK, KillSwitchState, Normal
        <3> QED
            BY <1>8, <3>1 DEF ApiResume, TypeOK
    <2> QED
        BY <1>8, <2>1, <2>2 DEF TypeOK, ApiResume, Goto, PC, Actor
<1>9. CASE RestoreGate
    BY <1>9, SwitchTypes, FileTypes, SnapshotTypes, RequestTypes
    DEF TypeOK, RestoreGate, Goto, Return, PC, Actor, Request, Gates
<1>10. CASE JournalFail
    <2>1. budget' \in Budget
        BY <1>0, <1>10, SpendTypes DEF JournalFail
    <2>2. acked' \in [Agent -> KillLevel]
        BY <1>10 DEF JournalFail, TypeOK, KillLevel
    <2> QED
        BY <1>10, <2>1, <2>2, FileTypes, RequestTypes
        DEF TypeOK, JournalFail, Goto, Return, PC, Actor, Budget
<1>11. CASE AutoSuppress
    BY <1>11, SwitchTypes, FileTypes, SnapshotTypes, RequestTypes
    DEF TypeOK, AutoSuppress, Goto, Return, PC, Actor, Request, Gates
<1>12. CASE AutoProcess
    <2>1. ks' \in KillSwitchState
        BY <1>12, SwitchTypes DEF AutoProcess, TypeOK, Request, KillLevel, Actor
    <2>2. dedup' \subseteq Triggers \X Agent
        BY <1>12 DEF AutoProcess, TypeOK, Request, Key, Actor, RequestsFit
    <2> QED
        BY <1>12, <2>1, <2>2 DEF TypeOK, AutoProcess, Goto, PC, Actor
<1>13. CASE AutoCount
    BY <1>13, SwitchTypes, FileTypes, SnapshotTypes, RequestTypes
    DEF TypeOK, AutoCount, Goto, Return, PC, Actor, Request, Gates
<1>14. CASE AutoEscalate
    <2>1. req' \in [Actor -> Request]
        <3>1. req["auto"] \in Request
            BY DEF TypeOK, Actor
        <3>2. [req["auto"] EXCEPT !.level = KillAll] \in Request
            BY <3>1 DEF Request, KillLevel
        <3> QED
            BY <1>14, <3>2 DEF AutoEscalate, TypeOK
    <2> QED
        BY <1>14, <2>1, SwitchTypes DEF TypeOK, AutoEscalate, Goto, PC, Actor
<1>15. CASE Disconnect
    BY <1>15, SwitchTypes, FileTypes, SnapshotTypes, RequestTypes
    DEF TypeOK, Disconnect, Goto, Return, PC, Actor, Request, Gates
<1>16. CASE DedupExpire
    BY <1>16, SwitchTypes, FileTypes, SnapshotTypes, RequestTypes
    DEF TypeOK, DedupExpire, Goto, Return, PC, Actor, Request, Gates
<1>17. CASE CrashRestart
    <2>1. budget' \in Budget
        BY <1>0, <1>17, SpendTypes DEF CrashRestart
    <2>2. Load(path) \in Snapshot
        BY FileTypes DEF TypeOK
    <2>3. /\ ks' \in KillSwitchState /\ gate' \in Gates /\ pulled' \subseteq Agent
          /\ flag' \in BOOLEAN /\ path' \in File /\ tmp' \in File
        <3>1. Load(path).ks \in KillSwitchState /\ Load(path).gate \in Gates
            BY <2>2 DEF Snapshot
        <3>2. ks' \in KillSwitchState /\ flag' \in BOOLEAN
            BY <1>17, <3>1 DEF CrashRestart
        <3>3. gate' \in Gates
            BY <1>17, <3>1 DEF CrashRestart, Gates
        <3>4. pulled' \subseteq Agent
            BY <1>17 DEF CrashRestart, PulledBack, QuarantinedAgents
        <3>5. \/ path' = Whole([ks |-> ks', gate |-> gate']) /\ tmp' = Absent
              \/ UNCHANGED <<path, tmp>>
            BY <1>17 DEF CrashRestart
        <3>6. [ks |-> ks', gate |-> gate'] \in Snapshot
            BY <3>2, <3>3 DEF Snapshot
        <3> QED
            BY <3>2, <3>3, <3>4, <3>5, <3>6, FileTypes DEF TypeOK
    <2>4. \A a \in Agent : Check(ks', FALSE, a) \in KillLevel
        BY <2>3, RequestTypes DEF Check, KillLevel
    <2>5. acked' \in [Agent -> KillLevel]
        BY <1>17, <2>4 DEF CrashRestart, TypeOK
    <2> QED
        BY <1>17, <2>1, <2>3, <2>5, FileTypes, RequestTypes DEF TypeOK, CrashRestart, PC, Budget
<1>18. CASE UNCHANGED vars
    BY <1>18 DEF TypeOK, vars
<1> QED
    BY ConcludeTypes, <1>1, <1>2, <1>3, <1>4, <1>5, <1>6, <1>7, <1>8, <1>9, <1>10, <1>11,
        <1>12, <1>13, <1>14, <1>15, <1>16, <1>17, <1>18
    DEF Next, ApiStep, AutoStep, Actor


(***************************************************************************)
(* What the operations of the kill switch do.                               *)
(***************************************************************************)
Resumed(s, a) == [s EXCEPT !.per_agent[a] = Normal]

\* Which levels an operation changes.
LEMMA SwitchEffects ==
    ASSUME NEW s \in KillSwitchState, NEW a \in Agent
    PROVE  /\ ActivateKillAll(s).platform_level = KillAll
           /\ ActivateKillAll(s).per_agent = s.per_agent
           /\ Resumed(s, a).platform_level = s.platform_level
           /\ \A b \in Agent :
                 Resumed(s, a).per_agent[b] = IF b = a THEN Normal ELSE s.per_agent[b]
           /\ \A level \in {Normal, Pause, Quarantine} :
                 /\ ActivateAgent(s, a, level).platform_level = s.platform_level
                 /\ \A b \in Agent : ActivateAgent(s, a, level).per_agent[b] =
                       IF b = a /\ level > s.per_agent[a] THEN level ELSE s.per_agent[b]
PROOF
    BY DEF KillSwitchState, ActivateKillAll, Resumed, ActivateAgent, Normal, Pause, Quarantine,
       KillAll

\* Kill states are equal when their levels are.
LEMMA SwitchEqual ==
    ASSUME NEW s \in KillSwitchState, NEW r \in KillSwitchState,
           s.platform_level = r.platform_level,
           \A b \in Agent : s.per_agent[b] = r.per_agent[b]
    PROVE  s = r
PROOF
    BY DEF KillSwitchState

\* The steps that change the kill state.
LEMMA SwitchSteps ==
    ASSUME TypeOK, RequestsFit, [Next]_vars
    PROVE  \/ UNCHANGED <<ks, flag>>
           \/ ks' = ActivateKillAll(ks) /\ flag' = TRUE
           \/ \E a \in Agent, level \in {Normal, Pause, Quarantine} :
                 ks' = ActivateAgent(ks, a, level) /\ UNCHANGED flag
           \/ \E a \in Agent : ks' = Resumed(ks, a) /\ UNCHANGED flag
           \/ flag' = (ks'.platform_level = KillAll)
PROOF
<1> USE DEF mem, disk, local, history
<1>1. CASE ApiKillAll \/ AutoEscalate
    BY <1>1 DEF ApiKillAll, AutoEscalate
<1>2. CASE ApiPause \/ ApiQuarantine
    BY <1>2 DEF ApiPause, ApiQuarantine, TypeOK, Request, Actor
<1>3. CASE ApiResume
    BY <1>3 DEF ApiResume, TypeOK, Request, Actor, Resumed
<1>4. CASE AutoProcess
    BY <1>4 DEF AutoProcess, TypeOK, Request, Actor, KillLevel
<1>5. CASE \E t \in Actor : Conclude(t)
    BY <1>5
    DEF Conclude, Persist, Rollback, SyncRead, SyncApply, PersistRead, PersistClear,
        PersistOpen,
       PersistWrite, PersistRename, PersistFail, Cleanup, Report
<1>6. CASE CrashRestart
    BY <1>6 DEF CrashRestart
<1>7. CASE \/ \E op \in ApiOps, agent \in Agent, reviewed \in BOOLEAN : ApiBegin(op, agent, reviewed)
           \/ \E kind \in Triggers, agent \in Agent : AutoReceive(kind, agent)
           \/ ApiSnapshot \/ ApiCloseGate \/ RestoreGate \/ JournalFail \/ AutoSuppress \/ AutoCount
           \/ Disconnect \/ DedupExpire
    BY <1>7
    DEF ApiBegin, AutoReceive, ApiSnapshot, ApiCloseGate, RestoreGate, JournalFail,
        AutoSuppress,
       AutoCount, Disconnect, DedupExpire
<1>8. CASE UNCHANGED vars
    BY <1>8 DEF vars
<1> QED
    BY <1>1, <1>2, <1>3, <1>4, <1>5, <1>6, <1>7, <1>8 DEF Next, ApiStep, AutoStep, Actor

\* The flag follows the level.
LEMMA FlagStep ==
    ASSUME TypeOK, RequestsFit, FlagIsLevel, [Next]_vars
    PROVE  FlagIsLevel'
PROOF
<1>1. ks \in KillSwitchState
    BY DEF TypeOK
<1>2. CASE UNCHANGED <<ks, flag>>
    BY <1>2 DEF FlagIsLevel
<1>3. CASE ks' = ActivateKillAll(ks) /\ flag' = TRUE
    BY <1>1, <1>3, SwitchEffects, AgentAssumption DEF FlagIsLevel
<1>4. ASSUME NEW a \in Agent, NEW level \in {Normal, Pause, Quarantine},
             ks' = ActivateAgent(ks, a, level), UNCHANGED flag
      PROVE  FlagIsLevel'
    BY <1>1, <1>4, SwitchEffects DEF FlagIsLevel
<1>5. ASSUME NEW a \in Agent, ks' = Resumed(ks, a), UNCHANGED flag
      PROVE  FlagIsLevel'
    BY <1>1, <1>5, SwitchEffects DEF FlagIsLevel
<1> QED
    BY <1>2, <1>3, <1>4, <1>5, SwitchSteps DEF FlagIsLevel

\* Requests stay what they are.
LEMMA RequestsStep ==
    ASSUME TypeOK, RequestsFit, [Next]_vars
    PROVE  RequestsFit'
PROOF
<1> USE DEF mem, disk, local, history, Goto, Return, Actor
<1>1. ASSUME NEW op \in ApiOps, NEW agent \in Agent, NEW reviewed \in BOOLEAN,
             ApiBegin(op, agent, reviewed)
      PROVE  RequestsFit'
    BY <1>1, ApiOpsAssumption DEF ApiBegin, RequestsFit, TypeOK, RequestedLevel
<1>2. ASSUME NEW kind \in Triggers, NEW agent \in Agent, AutoReceive(kind, agent)
      PROVE  RequestsFit'
    BY <1>2 DEF AutoReceive, RequestsFit, TypeOK
<1>3. CASE ApiSnapshot
    BY <1>3 DEF ApiSnapshot, RequestsFit
<1>4. CASE ApiKillAll
    BY <1>4 DEF ApiKillAll, RequestsFit
<1>5. CASE ApiCloseGate
    BY <1>5 DEF ApiCloseGate, RequestsFit
<1>6. CASE ApiPause
    BY <1>6 DEF ApiPause, RequestsFit
<1>7. CASE ApiQuarantine
    BY <1>7 DEF ApiQuarantine, RequestsFit
<1>8. CASE ApiResume
    BY <1>8 DEF ApiResume, RequestsFit, TypeOK
<1>9. CASE RestoreGate
    BY <1>9 DEF RestoreGate, RequestsFit
<1>10. CASE JournalFail
    BY <1>10 DEF JournalFail, RequestsFit, TypeOK, NoRequest
<1>11. CASE AutoSuppress
    BY <1>11 DEF AutoSuppress, RequestsFit, TypeOK, NoRequest
<1>12. CASE AutoProcess
    BY <1>12 DEF AutoProcess, RequestsFit
<1>13. CASE AutoCount
    BY <1>13 DEF AutoCount, RequestsFit
<1>14. CASE AutoEscalate
    BY <1>14 DEF AutoEscalate, RequestsFit
<1>15. CASE Disconnect
    BY <1>15 DEF Disconnect, RequestsFit, TypeOK, NoRequest
<1>16. CASE DedupExpire
    BY <1>16 DEF DedupExpire, RequestsFit
<1>17. CASE CrashRestart
    BY <1>17 DEF CrashRestart, RequestsFit, NoRequest
<1>18. ASSUME NEW t \in Actor, Conclude(t)
      PROVE  RequestsFit'
    <2>1. CASE SyncRead(t)
        BY <1>18, <2>1 DEF SyncRead, RequestsFit
    <2>2. CASE SyncApply(t)
        BY <1>18, <2>2 DEF SyncApply, RequestsFit, TypeOK, NoRequest
    <2>3. CASE PersistRead(t)
        BY <1>18, <2>3 DEF PersistRead, RequestsFit
    <2>4. CASE PersistClear(t)
        BY <1>18, <2>4 DEF PersistClear, RequestsFit
    <2>5. CASE PersistOpen(t)
        BY <1>18, <2>5 DEF PersistOpen, RequestsFit
    <2>6. CASE PersistWrite(t)
        BY <1>18, <2>6 DEF PersistWrite, RequestsFit
    <2>7. CASE PersistRename(t)
        BY <1>18, <2>7 DEF PersistRename, RequestsFit, TypeOK
    <2>8. CASE PersistFail(t)
        BY <1>18, <2>8 DEF PersistFail, RequestsFit, TypeOK
    <2>9. CASE Cleanup(t)
        BY <1>18, <2>9 DEF Cleanup, RequestsFit
    <2>10. CASE Rollback(t)
        BY <1>18, <2>10 DEF Rollback, RequestsFit
    <2>11. CASE Report(t)
        BY <1>18, <2>11 DEF Report, RequestsFit, TypeOK, NoRequest
    <2> QED
        BY <1>18, <2>1, <2>2, <2>3, <2>4, <2>5, <2>6, <2>7, <2>8, <2>9, <2>10, <2>11
        DEF Conclude, Persist
<1>19. CASE UNCHANGED vars
    BY <1>19 DEF vars, RequestsFit
<1> QED
    BY <1>1, <1>2, <1>3, <1>4, <1>5, <1>6, <1>7, <1>8, <1>9, <1>10, <1>11, <1>12, <1>13,
        <1>14, <1>15, <1>16, <1>17, <1>18, <1>19
    DEF Next, ApiStep, AutoStep


\* Without a gate there stays none.
LEMMA NoGateStep ==
    ASSUME TypeOK, RequestsFit, NoGateNowhere, [Next]_vars
    PROVE  NoGateNowhere'
PROOF
<1> USE DEF mem, disk, local, history, Goto, Return, Actor
<1>1. ASSUME NEW op \in ApiOps, NEW agent \in Agent, NEW reviewed \in BOOLEAN,
             ApiBegin(op, agent, reviewed)
      PROVE  NoGateNowhere'
    BY <1>1 DEF ApiBegin, NoGateNowhere
<1>2. ASSUME NEW kind \in Triggers, NEW agent \in Agent, AutoReceive(kind, agent)
      PROVE  NoGateNowhere'
    BY <1>2 DEF AutoReceive, NoGateNowhere
<1>3. CASE ApiSnapshot
    BY <1>3 DEF ApiSnapshot, NoGateNowhere
<1>4. CASE ApiKillAll
    BY <1>4 DEF ApiKillAll, NoGateNowhere
<1>5. CASE ApiCloseGate
    BY <1>5 DEF ApiCloseGate, NoGateNowhere
<1>6. CASE ApiPause
    BY <1>6 DEF ApiPause, NoGateNowhere
<1>7. CASE ApiQuarantine
    BY <1>7 DEF ApiQuarantine, NoGateNowhere
<1>8. CASE ApiResume
    BY <1>8 DEF ApiResume, NoGateNowhere, TypeOK
<1>9. CASE RestoreGate
    BY <1>9 DEF RestoreGate, NoGateNowhere
<1>10. CASE JournalFail
    BY <1>10 DEF JournalFail, NoGateNowhere, Unused
<1>11. CASE AutoSuppress
    BY <1>11 DEF AutoSuppress, NoGateNowhere
<1>12. CASE AutoProcess
    BY <1>12 DEF AutoProcess, NoGateNowhere
<1>13. CASE AutoCount
    BY <1>13 DEF AutoCount, NoGateNowhere
<1>14. CASE AutoEscalate
    BY <1>14 DEF AutoEscalate, NoGateNowhere
<1>15. CASE Disconnect
    BY <1>15 DEF Disconnect, NoGateNowhere, Unused
<1>16. CASE DedupExpire
    BY <1>16 DEF DedupExpire, NoGateNowhere
<1>17. CASE CrashRestart
    BY <1>17 DEF CrashRestart, NoGateNowhere, Unused
<1>18. ASSUME NEW t \in Actor, Conclude(t)
      PROVE  NoGateNowhere'
    <2>1. CASE SyncRead(t)
        BY <1>18, <2>1 DEF SyncRead, NoGateNowhere
    <2>2. CASE SyncApply(t)
        BY <1>18, <2>2 DEF SyncApply, NoGateNowhere, Unused, TypeOK
    <2>3. CASE PersistRead(t)
        BY <1>18, <2>3 DEF PersistRead, NoGateNowhere
    <2>4. CASE PersistClear(t)
        BY <1>18, <2>4 DEF PersistClear, NoGateNowhere
    <2>5. CASE PersistOpen(t)
        BY <1>18, <2>5 DEF PersistOpen, NoGateNowhere
    <2>6. CASE PersistWrite(t)
        BY <1>18, <2>6 DEF PersistWrite, NoGateNowhere
    <2>7. CASE PersistRename(t)
        BY <1>18, <2>7 DEF PersistRename, NoGateNowhere, TypeOK
    <2>8. CASE PersistFail(t)
        BY <1>18, <2>8 DEF PersistFail, NoGateNowhere, TypeOK
    <2>9. CASE Cleanup(t)
        BY <1>18, <2>9 DEF Cleanup, NoGateNowhere
    <2>10. CASE Rollback(t)
        BY <1>18, <2>10 DEF Rollback, NoGateNowhere
    <2>11. CASE Report(t)
        BY <1>18, <2>11 DEF Report, NoGateNowhere, Unused, TypeOK
    <2> QED
        BY <1>18, <2>1, <2>2, <2>3, <2>4, <2>5, <2>6, <2>7, <2>8, <2>9, <2>10, <2>11
        DEF Conclude, Persist
<1>19. CASE UNCHANGED vars
    BY <1>19 DEF vars, NoGateNowhere
<1> QED
    BY <1>1, <1>2, <1>3, <1>4, <1>5, <1>6, <1>7, <1>8, <1>9, <1>10, <1>11, <1>12, <1>13,
        <1>14, <1>15, <1>16, <1>17, <1>18, <1>19
    DEF Next, ApiStep, AutoStep

(***************************************************************************)
(* Up to the first overlap.                                                 *)
(***************************************************************************)

\* A thread begins only while the other waits.
LEMMA OneAtATimeStep ==
    ASSUME Alone', TypeOK, OneAtATime, [Next]_vars
    PROVE  OneAtATime'
PROOF
<1> USE DEF mem, disk, local, history, Goto, Return, Actor
<1>1. ASSUME NEW op \in ApiOps, NEW agent \in Agent, NEW reviewed \in BOOLEAN,
             ApiBegin(op, agent, reviewed)
      PROVE  OneAtATime'
    BY <1>1, BeginTypes DEF ApiBegin, OneAtATime, Quiet, Waiting
<1>2. ASSUME NEW kind \in Triggers, NEW agent \in Agent, AutoReceive(kind, agent)
      PROVE  OneAtATime'
    BY <1>2, BeginTypes DEF AutoReceive, OneAtATime, Quiet, Waiting
<1>3. CASE ApiSnapshot
    BY <1>3 DEF ApiSnapshot, OneAtATime, Waiting
<1>4. CASE ApiKillAll
    BY <1>4 DEF ApiKillAll, OneAtATime, Waiting
<1>5. CASE ApiCloseGate
    BY <1>5 DEF ApiCloseGate, OneAtATime, Waiting
<1>6. CASE ApiPause
    BY <1>6 DEF ApiPause, OneAtATime, Waiting
<1>7. CASE ApiQuarantine
    BY <1>7 DEF ApiQuarantine, OneAtATime, Waiting
<1>8. CASE ApiResume
    BY <1>8 DEF ApiResume, OneAtATime, Waiting, TypeOK
<1>9. CASE RestoreGate
    BY <1>9 DEF RestoreGate, OneAtATime, Waiting
<1>10. CASE JournalFail
    BY <1>10 DEF JournalFail, OneAtATime, Waiting
<1>11. CASE AutoSuppress
    BY <1>11 DEF AutoSuppress, OneAtATime, Waiting
<1>12. CASE AutoProcess
    BY <1>12 DEF AutoProcess, OneAtATime, Waiting
<1>13. CASE AutoCount
    BY <1>13 DEF AutoCount, OneAtATime, Waiting
<1>14. CASE AutoEscalate
    BY <1>14 DEF AutoEscalate, OneAtATime, Waiting
<1>15. CASE Disconnect
    BY <1>15 DEF Disconnect, OneAtATime, Waiting
<1>16. CASE DedupExpire
    BY <1>16 DEF DedupExpire, OneAtATime, Waiting
<1>17. CASE CrashRestart
    BY <1>17 DEF CrashRestart, OneAtATime, Waiting
<1>18. ASSUME NEW t \in Actor, Conclude(t)
      PROVE  OneAtATime'
    <2>1. CASE SyncRead(t)
        BY <1>18, <2>1 DEF SyncRead, OneAtATime, Waiting
    <2>2. CASE SyncApply(t)
        BY <1>18, <2>2 DEF SyncApply, OneAtATime, Waiting, TypeOK
    <2>3. CASE PersistRead(t)
        BY <1>18, <2>3 DEF PersistRead, OneAtATime, Waiting
    <2>4. CASE PersistClear(t)
        BY <1>18, <2>4 DEF PersistClear, OneAtATime, Waiting
    <2>5. CASE PersistOpen(t)
        BY <1>18, <2>5 DEF PersistOpen, OneAtATime, Waiting
    <2>6. CASE PersistWrite(t)
        BY <1>18, <2>6 DEF PersistWrite, OneAtATime, Waiting
    <2>7. CASE PersistRename(t)
        BY <1>18, <2>7 DEF PersistRename, OneAtATime, Waiting, TypeOK
    <2>8. CASE PersistFail(t)
        BY <1>18, <2>8 DEF PersistFail, OneAtATime, Waiting, TypeOK
    <2>9. CASE Cleanup(t)
        BY <1>18, <2>9 DEF Cleanup, OneAtATime, Waiting
    <2>10. CASE Rollback(t)
        BY <1>18, <2>10 DEF Rollback, OneAtATime, Waiting
    <2>11. CASE Report(t)
        BY <1>18, <2>11 DEF Report, OneAtATime, Waiting, TypeOK
    <2> QED
        BY <1>18, <2>1, <2>2, <2>3, <2>4, <2>5, <2>6, <2>7, <2>8, <2>9, <2>10, <2>11
        DEF Conclude, Persist
<1>19. CASE UNCHANGED vars
    BY <1>19 DEF vars, OneAtATime, Waiting
<1> QED
    BY <1>1, <1>2, <1>3, <1>4, <1>5, <1>6, <1>7, <1>8, <1>9, <1>10, <1>11, <1>12, <1>13,
        <1>14, <1>15, <1>16, <1>17, <1>18, <1>19
    DEF Next, ApiStep, AutoStep

\* Nobody else writes a thread's file or changes what it has copied.
LEMMA CopiesStep ==
    ASSUME TypeOK, RequestsFit, Alone', OneAtATime, CopiesFresh, [Next]_vars
    PROVE  CopiesFresh'
PROOF
<1> USE DEF mem, disk, local, history, Goto, Return, Actor
<1>1. ASSUME NEW op \in ApiOps, NEW agent \in Agent, NEW reviewed \in BOOLEAN,
             ApiBegin(op, agent, reviewed)
      PROVE  CopiesFresh'
    BY <1>1, BeginTypes DEF ApiBegin, CopiesFresh, Quiet, Waiting
<1>2. ASSUME NEW kind \in Triggers, NEW agent \in Agent, AutoReceive(kind, agent)
      PROVE  CopiesFresh'
    BY <1>2, BeginTypes DEF AutoReceive, CopiesFresh, Quiet, Waiting
<1>3. CASE ApiSnapshot
    BY <1>3 DEF ApiSnapshot, CopiesFresh
<1>4. CASE ApiKillAll
    BY <1>4 DEF ApiKillAll, CopiesFresh, OneAtATime, Waiting
<1>5. CASE ApiCloseGate
    BY <1>5 DEF ApiCloseGate, CopiesFresh, OneAtATime, Waiting
<1>6. CASE ApiPause
    BY <1>6 DEF ApiPause, CopiesFresh, OneAtATime, Waiting
<1>7. CASE ApiQuarantine
    BY <1>7 DEF ApiQuarantine, CopiesFresh, OneAtATime, Waiting
<1>8. CASE ApiResume
    BY <1>8 DEF ApiResume, CopiesFresh, OneAtATime, Waiting, TypeOK
<1>9. CASE RestoreGate
    BY <1>9 DEF RestoreGate, CopiesFresh, OneAtATime, Waiting
<1>10. CASE JournalFail
    BY <1>10 DEF JournalFail, CopiesFresh
<1>11. CASE AutoSuppress
    BY <1>11 DEF AutoSuppress, CopiesFresh
<1>12. CASE AutoProcess
    BY <1>12 DEF AutoProcess, CopiesFresh, OneAtATime, Waiting
<1>13. CASE AutoCount
    BY <1>13 DEF AutoCount, CopiesFresh
<1>14. CASE AutoEscalate
    BY <1>14 DEF AutoEscalate, CopiesFresh, OneAtATime, Waiting
<1>15. CASE Disconnect
    BY <1>15 DEF Disconnect, CopiesFresh
<1>16. CASE DedupExpire
    BY <1>16 DEF DedupExpire, CopiesFresh
<1>17. CASE CrashRestart
    BY <1>17 DEF CrashRestart, CopiesFresh
<1>18. ASSUME NEW t \in Actor, Conclude(t)
      PROVE  CopiesFresh'
    <2>1. CASE SyncRead(t)
        BY <1>18, <2>1 DEF SyncRead, CopiesFresh, TypeOK
    <2>2. CASE SyncApply(t)
        BY <1>18, <2>2 DEF SyncApply, CopiesFresh, TypeOK
    <2>3. CASE PersistRead(t)
        BY <1>18, <2>3 DEF PersistRead, CopiesFresh, TypeOK
    <2>4. CASE PersistClear(t)
        BY <1>18, <2>4 DEF PersistClear, CopiesFresh
    <2>5. CASE PersistOpen(t)
        BY <1>18, <2>5 DEF PersistOpen, CopiesFresh, OneAtATime, Waiting, TypeOK
    <2>6. CASE PersistWrite(t)
        BY <1>18, <2>6 DEF PersistWrite, CopiesFresh, OneAtATime, Waiting, Written, TypeOK
    <2>7. CASE PersistRename(t)
        BY <1>18, <2>7 DEF PersistRename, CopiesFresh, OneAtATime, Waiting, TypeOK
    <2>8. CASE PersistFail(t)
        BY <1>18, <2>8 DEF PersistFail, CopiesFresh, OneAtATime, Waiting, TypeOK
    <2>9. CASE Cleanup(t)
        BY <1>18, <2>9 DEF Cleanup, CopiesFresh, OneAtATime, Waiting
    <2>10. CASE Rollback(t)
        BY <1>18, <2>10 DEF Rollback, CopiesFresh, OneAtATime, Waiting
    <2>11. CASE Report(t)
        BY <1>18, <2>11 DEF Report, CopiesFresh, TypeOK
    <2> QED
        BY <1>18, <2>1, <2>2, <2>3, <2>4, <2>5, <2>6, <2>7, <2>8, <2>9, <2>10, <2>11
        DEF Conclude, Persist
<1>19. CASE UNCHANGED vars
    BY <1>19 DEF vars, CopiesFresh
<1> QED
    BY <1>1, <1>2, <1>3, <1>4, <1>5, <1>6, <1>7, <1>8, <1>9, <1>10, <1>11, <1>12, <1>13,
        <1>14, <1>15, <1>16, <1>17, <1>18, <1>19
    DEF Next, ApiStep, AutoStep


\* The level that an operation leaves in force.
LEMMA LevelEffects ==
    ASSUME NEW s \in KillSwitchState, NEW a \in Agent, NEW b \in Agent
    PROVE  /\ LevelOf(s, b) \in KillLevel
           /\ LevelOf(ActivateKillAll(s), b) = KillAll
           /\ b # a => LevelOf(Resumed(s, a), b) = LevelOf(s, b)
           /\ \A level \in {Normal, Pause, Quarantine} :
                 /\ LevelOf(ActivateAgent(s, a, level), b) >= LevelOf(s, b)
                 /\ LevelOf(ActivateAgent(s, a, level), a) >= level
PROOF
<1>1. \A c \in Agent : s.per_agent[c] \in {Normal, Pause, Quarantine}
    BY DEF KillSwitchState
<1>2. LevelOf(s, b) \in KillLevel
    BY <1>1 DEF LevelOf, Check, KillLevel
<1>3. LevelOf(ActivateKillAll(s), b) = KillAll
    BY SwitchEffects DEF LevelOf, Check
<1>4. b # a => LevelOf(Resumed(s, a), b) = LevelOf(s, b)
    BY SwitchEffects DEF LevelOf, Check
<1>5. ASSUME NEW level \in {Normal, Pause, Quarantine}
      PROVE  /\ LevelOf(ActivateAgent(s, a, level), b) >= LevelOf(s, b)
             /\ LevelOf(ActivateAgent(s, a, level), a) >= level
    BY <1>1, SwitchEffects DEF LevelOf, Check, Normal, Pause, Quarantine, KillAll
<1> QED
    BY <1>2, <1>3, <1>4, <1>5

\* Loading what was written.
LEMMA LoadForms ==
    Load(Absent) = Unused /\ \A s : Load(Whole(s)) = s
PROOF
    BY DEF Load, Absent, Whole

\* A thread that removes the file or renames its own brings the current state to
\* the disk.
LEMMA DiskUpdated ==
    ASSUME TypeOK, NoGateNowhere, CopiesFresh, NEW t \in Actor, PersistClear(t) \/ PersistRename(t)
    PROVE  /\ Load(path') = Current /\ Current' = Current
           /\ pc[t] \in {"open", "rename"} /\ pc' = [pc EXCEPT ![t] = "done"]
           /\ UNCHANGED <<mem, local, history, budget>>
PROOF
<1> USE DEF mem, disk, local, history, Goto
<1>1. CASE PersistClear(t)
    BY <1>1, LoadForms DEF PersistClear, NothingToPersist, IsClear, CopiesFresh, NoGateNowhere,
       Current, Unused
<1>2. CASE PersistRename(t)
    <2>1. pc[t] = "rename" /\ tmp = Whole(copy[t]) /\ copy[t].ks = ks /\ copy[t].gate = gate
        BY <1>2 DEF PersistRename, CopiesFresh
    <2>2. copy[t] = Current
        BY <2>1 DEF TypeOK, Snapshot, Current
    <2>3. tmp # Absent
        BY <2>1 DEF Whole, Absent
    <2> QED
        BY <1>2, <2>1, <2>2, <2>3, LoadForms DEF PersistRename, Current
<1> QED
    BY <1>1, <1>2

\* A thread that writes, or fails to, leaves the file alone: it has the temporary
\* one open.
LEMMA DiskKept ==
    ASSUME CopiesFresh, NEW t \in Actor, PersistWrite(t) \/ PersistFail(t)
    PROVE  UNCHANGED path
PROOF
    BY DEF CopiesFresh, PersistWrite, PersistFail

\* A restart goes on from the disk, and leaves there what it goes on from.
LEMMA RestartLoads ==
    ASSUME TypeOK, NoGateNowhere, OneAtATime, DiskKeeps, CrashRestart
    PROVE  /\ Load(path') = Current' /\ ks' = Load(path).ks
           /\ gate' = "Propagating" => Load(path).gate = "Propagating"
           /\ \A t \in Actor : pc'[t] = "idle"
PROOF
<1>1. Load(path) \in Snapshot
    BY FileTypes DEF TypeOK
<1>2. ks' = Load(path).ks /\ \A t \in Actor : pc'[t] = "idle"
    BY DEF CrashRestart
<1>3. gate' = IF ~GateEnabled THEN "None" ELSE IF Load(path).gate = "None" THEN "Normal" ELSE Load(path).gate
    BY DEF CrashRestart
<1>4. CASE GateEnabled
    BY <1>2, <1>3, <1>4, LoadForms DEF CrashRestart, Current
<1>5. CASE ~GateEnabled
    <2>1. Load(path).gate = "None"
        BY <1>5 DEF NoGateNowhere, DiskKeeps, Before, Current, Actor
    <2>2. path' = path /\ gate' = "None"
        BY <1>3, <1>5 DEF CrashRestart
    <2> QED
        BY <1>1, <1>2, <2>1, <2>2 DEF Snapshot, Current
<1> QED
    BY <1>2, <1>3, <1>4, <1>5

\* The disk has the state before the mutation until the rename, and then the current one.
LEMMA DiskStep ==
    ASSUME TypeOK, RequestsFit, NoGateNowhere, Alone', OneAtATime, CopiesFresh, DiskKeeps, [Next]_vars
    PROVE  DiskKeeps'
PROOF
<1> USE DEF mem, disk, local, history, Goto, Return, Actor
<1>1. ASSUME NEW op \in ApiOps, NEW agent \in Agent, NEW reviewed \in BOOLEAN,
             ApiBegin(op, agent, reviewed)
      PROVE  DiskKeeps'
    BY <1>1, BeginTypes DEF ApiBegin, DiskKeeps, Underway, Before, Current, Quiet, Waiting
<1>2. ASSUME NEW kind \in Triggers, NEW agent \in Agent, AutoReceive(kind, agent)
      PROVE  DiskKeeps'
    BY <1>2, BeginTypes DEF AutoReceive, DiskKeeps, Underway, Before, Current, Quiet, Waiting,
        TypeOK
<1>3. CASE ApiSnapshot
    BY <1>3 DEF ApiSnapshot, DiskKeeps, Underway, Before, Current, TypeOK
<1>4. CASE ApiKillAll
    BY <1>4 DEF ApiKillAll, DiskKeeps, Underway, Before, OneAtATime, Waiting, TypeOK
<1>5. CASE ApiCloseGate
    BY <1>5 DEF ApiCloseGate, DiskKeeps, Underway, Before, OneAtATime, Waiting
<1>6. CASE ApiPause
    BY <1>6 DEF ApiPause, DiskKeeps, Underway, Before, OneAtATime, Waiting, TypeOK
<1>7. CASE ApiQuarantine
    BY <1>7 DEF ApiQuarantine, DiskKeeps, Underway, Before, OneAtATime, Waiting, TypeOK
<1>8. CASE ApiResume
    BY <1>8 DEF ApiResume, DiskKeeps, Underway, Before, OneAtATime, Waiting, TypeOK
<1>9. CASE RestoreGate
    BY <1>9 DEF RestoreGate, DiskKeeps, Before, Current
<1>10. CASE JournalFail
    BY <1>10 DEF JournalFail, DiskKeeps, Underway, Before, Current
<1>11. CASE AutoSuppress
    BY <1>11 DEF AutoSuppress, DiskKeeps, Underway, Before, Current, TypeOK
<1>12. CASE AutoProcess
    BY <1>12 DEF AutoProcess, DiskKeeps, Underway, Before, OneAtATime, Waiting, TypeOK
<1>13. CASE AutoCount
    BY <1>13 DEF AutoCount, DiskKeeps, Underway, Before, Current
<1>14. CASE AutoEscalate
    BY <1>14 DEF AutoEscalate, DiskKeeps, Underway, Before, OneAtATime, Waiting
<1>15. CASE Disconnect
    BY <1>15 DEF Disconnect, DiskKeeps, Underway, Before, Current
<1>16. CASE DedupExpire
    BY <1>16 DEF DedupExpire, DiskKeeps, Before, Current
<1>17. CASE CrashRestart
    BY <1>17, RestartLoads DEF DiskKeeps, Underway
<1>18. ASSUME NEW t \in Actor, Conclude(t)
      PROVE  DiskKeeps'
    <2>1. CASE SyncRead(t)
        BY <1>18, <2>1 DEF SyncRead, DiskKeeps, Underway, Before, Current
    <2>2. CASE SyncApply(t)
        BY <1>18, <2>2 DEF SyncApply, DiskKeeps, Underway, Before, Current, TypeOK
    <2>3. CASE PersistRead(t)
        BY <1>18, <2>3 DEF PersistRead, DiskKeeps, Underway, Before, Current
    <2>4. CASE PersistClear(t)
        BY <1>18, <2>4, DiskUpdated
        DEF DiskKeeps, Underway, Before, Current, OneAtATime, Waiting, TypeOK
    <2>5. CASE PersistOpen(t)
        BY <1>18, <2>5 DEF PersistOpen, DiskKeeps, Underway, Before, Current
    <2>6. CASE PersistWrite(t)
        BY <1>18, <2>6, DiskKept
        DEF PersistWrite, DiskKeeps, Underway, Before, Current, OneAtATime, Waiting, TypeOK
    <2>7. CASE PersistRename(t)
        BY <1>18, <2>7, DiskUpdated
        DEF DiskKeeps, Underway, Before, Current, OneAtATime, Waiting, TypeOK
    <2>8. CASE PersistFail(t)
        BY <1>18, <2>8, DiskKept
        DEF PersistFail, DiskKeeps, Underway, Before, Current, OneAtATime, Waiting, TypeOK
    <2>9. CASE Cleanup(t)
        BY <1>18, <2>9 DEF Cleanup, DiskKeeps, Underway, Before, Current
    <2>10. CASE Rollback(t)
        <3>1. /\ pc[t] = "rollback" /\ Load(path) = Before(t)
              /\ \A u \in Actor : u # t => pc[u] \notin Underway \cup {"restore_gate", "mutate"}
            BY <1>18, <2>10 DEF Rollback, DiskKeeps, Underway, OneAtATime, Waiting
        <3>2. CASE t = "api" /\ GateEnabled
            BY <1>18, <2>10, <3>1, <3>2 DEF Rollback, DiskKeeps, Underway, Before, Current, TypeOK
        <3>3. CASE t = "api" /\ ~GateEnabled
            <4>1. gate = prev["api"].gate
                BY <3>3 DEF NoGateNowhere
            <4>2. Load(path) = Current'
                BY <2>10, <3>1, <3>3, <4>1 DEF Rollback, Before, Current
            <4> QED
                BY <1>18, <2>10, <3>1, <3>3, <4>2 DEF Rollback, DiskKeeps, Underway, TypeOK
        <3>4. CASE t = "auto"
            <4>1. Load(path) = Current'
                BY <2>10, <3>1, <3>4 DEF Rollback, Before, Current
            <4> QED
                BY <1>18, <2>10, <3>1, <3>4, <4>1 DEF Rollback, DiskKeeps, Underway, TypeOK
        <3> QED
            BY <3>2, <3>3, <3>4
    <2>11. CASE Report(t)
        BY <1>18, <2>11 DEF Report, DiskKeeps, Underway, Before, Current, TypeOK
    <2> QED
        BY <1>18, <2>1, <2>2, <2>3, <2>4, <2>5, <2>6, <2>7, <2>8, <2>9, <2>10, <2>11
        DEF Conclude, Persist
<1>19. CASE UNCHANGED vars
    BY <1>19 DEF vars, DiskKeeps, Before, Current
<1> QED
    BY <1>1, <1>2, <1>3, <1>4, <1>5, <1>6, <1>7, <1>8, <1>9, <1>10, <1>11, <1>12, <1>13,
        <1>14, <1>15, <1>16, <1>17, <1>18, <1>19
    DEF Next, ApiStep, AutoStep


\* Nothing is above KILL_ALL.
LEMMA KillAllIsTop ==
    ASSUME NEW s \in KillSwitchState, NEW a \in Agent
    PROVE  KillAll >= LevelOf(s, a)
PROOF
    BY LevelEffects DEF KillLevel, Normal, Pause, Quarantine, KillAll

\* Mutations raise levels.
LEMMA RaisesStep ==
    ASSUME TypeOK, RequestsFit, Alone', OneAtATime, DiskKeeps, MutationRaises, [Next]_vars
    PROVE  MutationRaises'
PROOF
<1> USE DEF mem, disk, local, history, Goto, Return, Actor
<1>1. ASSUME NEW op \in ApiOps, NEW agent \in Agent, NEW reviewed \in BOOLEAN,
             ApiBegin(op, agent, reviewed)
      PROVE  MutationRaises'
    BY <1>1 DEF ApiBegin, MutationRaises, Underway, Resumes, TypeOK
<1>2. ASSUME NEW kind \in Triggers, NEW agent \in Agent, AutoReceive(kind, agent)
      PROVE  MutationRaises'
    BY <1>2 DEF AutoReceive, MutationRaises, Underway, Resumes, TypeOK
<1>3. CASE ApiSnapshot
    BY <1>3 DEF ApiSnapshot, MutationRaises, Underway, Resumes
<1>4. CASE ApiKillAll
    <2>1. ks \in KillSwitchState /\ \A t \in Actor : prev[t].ks \in KillSwitchState
        BY DEF TypeOK, Snapshot
    <2>2. \A a \in Agent, t \in Actor : LevelOf(ks', a) >= LevelOf(prev[t].ks, a)
        BY <1>4, <2>1, LevelEffects, KillAllIsTop DEF ApiKillAll
    <2> QED
        BY <1>4, <2>2 DEF ApiKillAll, MutationRaises
<1>5. CASE ApiCloseGate
    BY <1>5 DEF ApiCloseGate, MutationRaises, Underway, Resumes
<1>6. CASE ApiPause
    <2>1. pc["api"] = "mutate" /\ prev["api"].ks = ks /\ ks \in KillSwitchState
        BY <1>6 DEF ApiPause, DiskKeeps, Before, Current, TypeOK
    <2>2. req["api"].agent \in Agent
        BY DEF TypeOK, Request
    <2>3. \A a \in Agent : LevelOf(ks', a) >= LevelOf(prev["api"].ks, a)
        BY <1>6, <2>1, <2>2, LevelEffects DEF ApiPause
    <2>4. pc["auto"] \notin Underway
        BY <2>1 DEF OneAtATime, Waiting, Underway
    <2> QED
        BY <1>6, <2>3, <2>4 DEF ApiPause, MutationRaises
<1>7. CASE ApiQuarantine
    <2>1. pc["api"] = "mutate" /\ prev["api"].ks = ks /\ ks \in KillSwitchState
        BY <1>7 DEF ApiQuarantine, DiskKeeps, Before, Current, TypeOK
    <2>2. req["api"].agent \in Agent
        BY DEF TypeOK, Request
    <2>3. \A a \in Agent : LevelOf(ks', a) >= LevelOf(prev["api"].ks, a)
        BY <1>7, <2>1, <2>2, LevelEffects DEF ApiQuarantine
    <2>4. pc["auto"] \notin Underway
        BY <2>1 DEF OneAtATime, Waiting, Underway
    <2> QED
        BY <1>7, <2>3, <2>4 DEF ApiQuarantine, MutationRaises
<1>8. CASE ApiResume
    <2>1. pc["api"] = "mutate" /\ prev["api"].ks = ks /\ ks \in KillSwitchState
        BY <1>8 DEF ApiResume, DiskKeeps, Before, Current, TypeOK
    <2>2. req["api"].agent \in Agent /\ req["api"].op = "resume"
        BY <1>8 DEF TypeOK, Request, ApiResume
    <2>3. ks' \in {ks, Resumed(ks, req["api"].agent)}
        BY <1>8 DEF ApiResume, Resumed
    <2>4. \A a \in Agent : a = req["api"].agent \/ LevelOf(ks', a) >= LevelOf(prev["api"].ks, a)
        BY <2>1, <2>2, <2>3, LevelEffects DEF KillLevel, Normal, Pause, Quarantine, KillAll
    <2>5. pc["auto"] \notin Underway
        BY <2>1 DEF OneAtATime, Waiting, Underway
    <2>6. UNCHANGED <<prev, req>> /\ pc'["auto"] = pc["auto"]
        BY <1>8 DEF ApiResume, TypeOK
    <2> QED
        BY <2>2, <2>4, <2>5, <2>6 DEF MutationRaises, Resumes
<1>9. CASE RestoreGate
    BY <1>9 DEF RestoreGate, MutationRaises, Underway, Resumes
<1>10. CASE JournalFail
    BY <1>10 DEF JournalFail, MutationRaises, Underway, Resumes
<1>11. CASE AutoSuppress
    BY <1>11 DEF AutoSuppress, MutationRaises, Underway, Resumes
<1>12. CASE AutoProcess
    <2>1. pc["auto"] = "mutate" /\ prev["auto"].ks = ks /\ ks \in KillSwitchState
        BY <1>12 DEF AutoProcess, DiskKeeps, Before, Current, TypeOK
    <2>2. req["auto"].agent \in Agent /\ req["auto"].level \in KillLevel
        BY DEF TypeOK, Request
    <2>3. \A a \in Agent : LevelOf(ks', a) >= LevelOf(prev["auto"].ks, a)
        BY <1>12, <2>1, <2>2, LevelEffects, KillAllIsTop DEF AutoProcess, KillLevel
    <2>4. pc["api"] \notin Underway
        BY <2>1 DEF OneAtATime, Waiting, Underway
    <2> QED
        BY <1>12, <2>3, <2>4 DEF AutoProcess, MutationRaises
<1>13. CASE AutoCount
    BY <1>13 DEF AutoCount, MutationRaises, Underway, Resumes
<1>14. CASE AutoEscalate
    <2>1. ks \in KillSwitchState /\ \A t \in Actor : prev[t].ks \in KillSwitchState
        BY DEF TypeOK, Snapshot
    <2>2. \A a \in Agent, t \in Actor : LevelOf(ks', a) >= LevelOf(prev[t].ks, a)
        BY <1>14, <2>1, LevelEffects, KillAllIsTop DEF AutoEscalate
    <2> QED
        BY <1>14, <2>2 DEF AutoEscalate, MutationRaises
<1>15. CASE Disconnect
    BY <1>15 DEF Disconnect, MutationRaises, Underway, Resumes
<1>16. CASE DedupExpire
    BY <1>16 DEF DedupExpire, MutationRaises, Resumes
<1>17. CASE CrashRestart
    BY <1>17 DEF CrashRestart, MutationRaises, Underway
<1>18. ASSUME NEW t \in Actor, Conclude(t)
      PROVE  MutationRaises'
    <2>1. CASE SyncRead(t)
        BY <1>18, <2>1 DEF SyncRead, MutationRaises, Underway, Resumes
    <2>2. CASE SyncApply(t)
        BY <1>18, <2>2 DEF SyncApply, MutationRaises, Underway, Resumes, TypeOK
    <2>3. CASE PersistRead(t)
        BY <1>18, <2>3 DEF PersistRead, MutationRaises, Underway, Resumes
    <2>4. CASE PersistClear(t)
        BY <1>18, <2>4 DEF PersistClear, MutationRaises, Underway, Resumes
    <2>5. CASE PersistOpen(t)
        BY <1>18, <2>5 DEF PersistOpen, MutationRaises, Underway, Resumes
    <2>6. CASE PersistWrite(t)
        BY <1>18, <2>6 DEF PersistWrite, MutationRaises, Underway, Resumes
    <2>7. CASE PersistRename(t)
        BY <1>18, <2>7 DEF PersistRename, MutationRaises, Underway, Resumes, TypeOK
    <2>8. CASE PersistFail(t)
        BY <1>18, <2>8 DEF PersistFail, MutationRaises, Underway, Resumes, TypeOK
    <2>9. CASE Cleanup(t)
        BY <1>18, <2>9 DEF Cleanup, MutationRaises, Underway, Resumes
    <2>10. CASE Rollback(t)
        BY <1>18, <2>10 DEF Rollback, MutationRaises, Underway, OneAtATime, Waiting, TypeOK
    <2>11. CASE Report(t)
        BY <1>18, <2>11 DEF Report, MutationRaises, Underway, Resumes, TypeOK
    <2> QED
        BY <1>18, <2>1, <2>2, <2>3, <2>4, <2>5, <2>6, <2>7, <2>8, <2>9, <2>10, <2>11
        DEF Conclude, Persist
<1>19. CASE UNCHANGED vars
    BY <1>19 DEF vars, MutationRaises, Resumes
<1> QED
    BY <1>1, <1>2, <1>3, <1>4, <1>5, <1>6, <1>7, <1>8, <1>9, <1>10, <1>11, <1>12, <1>13,
        <1>14, <1>15, <1>16, <1>17, <1>18, <1>19
    DEF Next, ApiStep, AutoStep

\* What is to be reported stays applied.
LEMMA AppliedStep ==
    ASSUME TypeOK, RequestsFit, Alone', OneAtATime, Applied, [Next]_vars
    PROVE  Applied'
PROOF
<1> USE DEF mem, disk, local, history, Goto, Return, Actor
<1>1. ASSUME NEW op \in ApiOps, NEW agent \in Agent, NEW reviewed \in BOOLEAN,
             ApiBegin(op, agent, reviewed)
      PROVE  Applied'
    BY <1>1 DEF ApiBegin, Applied, TypeOK
<1>2. ASSUME NEW kind \in Triggers, NEW agent \in Agent, AutoReceive(kind, agent)
      PROVE  Applied'
    BY <1>2 DEF AutoReceive, Applied, TypeOK
<1>3. CASE ApiSnapshot
    BY <1>3 DEF ApiSnapshot, Applied
<1>4. CASE ApiKillAll
    <2>1. req["api"].agent \in Agent /\ ks \in KillSwitchState
        BY DEF TypeOK, Request
    <2>2. LevelOf(ks', req["api"].agent) >= req["api"].level /\ ks'.platform_level = KillAll
        BY <1>4, <2>1, LevelEffects, SwitchEffects DEF ApiKillAll, RequestsFit, KillAll
    <2>3. pc["auto"] = "idle"
        BY <1>4 DEF ApiKillAll, OneAtATime, Waiting, RequestsFit
    <2> QED
        BY <1>4, <2>2, <2>3 DEF ApiKillAll, Applied
<1>5. CASE ApiCloseGate
    BY <1>5 DEF ApiCloseGate, Applied
<1>6. CASE ApiPause
    <2>1. req["api"].agent \in Agent /\ ks \in KillSwitchState
        BY DEF TypeOK, Request
    <2>2. LevelOf(ks', req["api"].agent) >= req["api"].level /\ req["api"].level # KillAll
        BY <1>6, <2>1, LevelEffects DEF ApiPause, RequestsFit, Pause, Quarantine, KillAll
    <2>3. pc["auto"] = "idle"
        BY <1>6 DEF ApiPause, OneAtATime, Waiting, RequestsFit
    <2> QED
        BY <1>6, <2>2, <2>3 DEF ApiPause, Applied
<1>7. CASE ApiQuarantine
    <2>1. req["api"].agent \in Agent /\ ks \in KillSwitchState
        BY DEF TypeOK, Request
    <2>2. LevelOf(ks', req["api"].agent) >= req["api"].level /\ req["api"].level # KillAll
        BY <1>7, <2>1, LevelEffects DEF ApiQuarantine, RequestsFit, Pause, Quarantine, KillAll
    <2>3. pc["auto"] = "idle"
        BY <1>7 DEF ApiQuarantine, OneAtATime, Waiting, RequestsFit
    <2> QED
        BY <1>7, <2>2, <2>3 DEF ApiQuarantine, Applied
<1>8. CASE ApiResume
    BY <1>8 DEF ApiResume, Applied, OneAtATime, Waiting, TypeOK
<1>9. CASE RestoreGate
    BY <1>9 DEF RestoreGate, Applied
<1>10. CASE JournalFail
    BY <1>10 DEF JournalFail, Applied, TypeOK
<1>11. CASE AutoSuppress
    BY <1>11 DEF AutoSuppress, Applied
<1>12. CASE AutoProcess
    <2>1. req["auto"].agent \in Agent /\ ks \in KillSwitchState /\ req["auto"].level \in KillLevel
        BY DEF TypeOK, Request
    <2>2. /\ LevelOf(ks', req["auto"].agent) >= req["auto"].level
          /\ req["auto"].level = KillAll => ks'.platform_level = KillAll
        BY <1>12, <2>1, LevelEffects, SwitchEffects DEF AutoProcess, KillLevel, KillAll
    <2>3. pc["api"] \in {"idle", "relock"}
        BY <1>12 DEF AutoProcess, OneAtATime, Waiting
    <2> QED
        BY <1>12, <2>2, <2>3 DEF AutoProcess, Applied
<1>13. CASE AutoCount
    BY <1>13 DEF AutoCount, Applied
<1>14. CASE AutoEscalate
    <2>1. req["auto"].agent \in Agent /\ ks \in KillSwitchState
        BY DEF TypeOK, Request
    <2>2. LevelOf(ks', req["auto"].agent) >= KillAll /\ ks'.platform_level = KillAll
        BY <1>14, <2>1, LevelEffects, SwitchEffects DEF AutoEscalate, KillAll
    <2>3. pc["api"] \in {"idle", "relock"}
        BY <1>14 DEF AutoEscalate, OneAtATime, Waiting
    <2>4. req'["auto"].level = KillAll /\ req'["auto"].agent = req["auto"].agent
        BY <1>14 DEF AutoEscalate, TypeOK, Request
    <2> QED
        BY <1>14, <2>2, <2>3, <2>4 DEF AutoEscalate, Applied, TypeOK
<1>15. CASE Disconnect
    BY <1>15 DEF Disconnect, Applied
<1>16. CASE DedupExpire
    BY <1>16 DEF DedupExpire, Applied
<1>17. CASE CrashRestart
    BY <1>17 DEF CrashRestart, Applied
<1>18. ASSUME NEW t \in Actor, Conclude(t)
      PROVE  Applied'
    <2>1. CASE SyncRead(t)
        BY <1>18, <2>1 DEF SyncRead, Applied
    <2>2. CASE SyncApply(t)
        BY <1>18, <2>2 DEF SyncApply, Applied, TypeOK
    <2>3. CASE PersistRead(t)
        BY <1>18, <2>3 DEF PersistRead, Applied
    <2>4. CASE PersistClear(t)
        BY <1>18, <2>4 DEF PersistClear, Applied
    <2>5. CASE PersistOpen(t)
        BY <1>18, <2>5 DEF PersistOpen, Applied
    <2>6. CASE PersistWrite(t)
        BY <1>18, <2>6 DEF PersistWrite, Applied
    <2>7. CASE PersistRename(t)
        BY <1>18, <2>7 DEF PersistRename, Applied, TypeOK
    <2>8. CASE PersistFail(t)
        BY <1>18, <2>8 DEF PersistFail, Applied, TypeOK
    <2>9. CASE Cleanup(t)
        BY <1>18, <2>9 DEF Cleanup, Applied
    <2>10. CASE Rollback(t)
        BY <1>18, <2>10 DEF Rollback, Applied, OneAtATime, Waiting
    <2>11. CASE Report(t)
        BY <1>18, <2>11 DEF Report, Applied, TypeOK
    <2> QED
        BY <1>18, <2>1, <2>2, <2>3, <2>4, <2>5, <2>6, <2>7, <2>8, <2>9, <2>10, <2>11
        DEF Conclude, Persist
<1>19. CASE UNCHANGED vars
    BY <1>19 DEF vars, Applied
<1> QED
    BY <1>1, <1>2, <1>3, <1>4, <1>5, <1>6, <1>7, <1>8, <1>9, <1>10, <1>11, <1>12, <1>13,
        <1>14, <1>15, <1>16, <1>17, <1>18, <1>19
    DEF Next, ApiStep, AutoStep

\* No cascade is left due.
LEMMA CascadeStep ==
    ASSUME TypeOK, RequestsFit, Alone', OneAtATime, CascadeDone, [Next]_vars
    PROVE  CascadeDone'
PROOF
<1> USE DEF mem, disk, local, history, Goto, Return, Actor
<1>1. ASSUME NEW op \in ApiOps, NEW agent \in Agent, NEW reviewed \in BOOLEAN,
             ApiBegin(op, agent, reviewed)
      PROVE  CascadeDone'
    BY <1>1 DEF ApiBegin, CascadeDone
<1>2. ASSUME NEW kind \in Triggers, NEW agent \in Agent, AutoReceive(kind, agent)
      PROVE  CascadeDone'
    BY <1>2 DEF AutoReceive, CascadeDone, TypeOK
<1>3. CASE ApiSnapshot
    BY <1>3 DEF ApiSnapshot, CascadeDone
<1>4. CASE ApiKillAll
    BY <1>4 DEF ApiKillAll, CascadeDone, OneAtATime, Waiting
<1>5. CASE ApiCloseGate
    BY <1>5 DEF ApiCloseGate, CascadeDone
<1>6. CASE ApiPause
    BY <1>6 DEF ApiPause, CascadeDone, OneAtATime, Waiting
<1>7. CASE ApiQuarantine
    BY <1>7 DEF ApiQuarantine, CascadeDone, OneAtATime, Waiting
<1>8. CASE ApiResume
    BY <1>8 DEF ApiResume, CascadeDone, OneAtATime, Waiting, TypeOK
<1>9. CASE RestoreGate
    BY <1>9 DEF RestoreGate, CascadeDone
<1>10. CASE JournalFail
    BY <1>10 DEF JournalFail, CascadeDone
<1>11. CASE AutoSuppress
    BY <1>11 DEF AutoSuppress, CascadeDone
<1>12. CASE AutoProcess
    BY <1>12 DEF AutoProcess, CascadeDone, RequestsFit
<1>13. CASE AutoCount
    BY <1>13 DEF AutoCount, CascadeDone
<1>14. CASE AutoEscalate
    <2>1. ks'.platform_level = KillAll
        BY <1>14, SwitchEffects, AgentAssumption DEF AutoEscalate, TypeOK
    <2> QED
        BY <2>1 DEF CascadeDone
<1>15. CASE Disconnect
    BY <1>15 DEF Disconnect, CascadeDone
<1>16. CASE DedupExpire
    BY <1>16 DEF DedupExpire, CascadeDone
<1>17. CASE CrashRestart
    BY <1>17 DEF CrashRestart, CascadeDone
<1>18. ASSUME NEW t \in Actor, Conclude(t)
      PROVE  CascadeDone'
    <2>1. CASE SyncRead(t)
        BY <1>18, <2>1 DEF SyncRead, CascadeDone
    <2>2. CASE SyncApply(t)
        BY <1>18, <2>2 DEF SyncApply, CascadeDone, TypeOK
    <2>3. CASE PersistRead(t)
        BY <1>18, <2>3 DEF PersistRead, CascadeDone
    <2>4. CASE PersistClear(t)
        BY <1>18, <2>4 DEF PersistClear, CascadeDone
    <2>5. CASE PersistOpen(t)
        BY <1>18, <2>5 DEF PersistOpen, CascadeDone
    <2>6. CASE PersistWrite(t)
        BY <1>18, <2>6 DEF PersistWrite, CascadeDone
    <2>7. CASE PersistRename(t)
        BY <1>18, <2>7 DEF PersistRename, CascadeDone, TypeOK
    <2>8. CASE PersistFail(t)
        BY <1>18, <2>8 DEF PersistFail, CascadeDone, TypeOK
    <2>9. CASE Cleanup(t)
        BY <1>18, <2>9 DEF Cleanup, CascadeDone
    <2>10. CASE Rollback(t)
        BY <1>18, <2>10 DEF Rollback, CascadeDone, OneAtATime, Waiting
    <2>11. CASE Report(t)
        BY <1>18, <2>11 DEF Report, CascadeDone, TypeOK
    <2> QED
        BY <1>18, <2>1, <2>2, <2>3, <2>4, <2>5, <2>6, <2>7, <2>8, <2>9, <2>10, <2>11
        DEF Conclude, Persist
<1>19. CASE UNCHANGED vars
    BY <1>19 DEF vars, CascadeDone
<1> QED
    BY <1>1, <1>2, <1>3, <1>4, <1>5, <1>6, <1>7, <1>8, <1>9, <1>10, <1>11, <1>12, <1>13,
        <1>14, <1>15, <1>16, <1>17, <1>18, <1>19
    DEF Next, ApiStep, AutoStep


\* What is reported is on disk.
LEMMA DurableStep ==
    ASSUME TypeOK, RequestsFit, NoGateNowhere, Alone', OneAtATime, CopiesFresh, DiskKeeps,
           MutationRaises, Applied, DiskDurable, [Next]_vars
    PROVE  DiskDurable'
PROOF
<1> USE DEF mem, disk, local, history, Goto, Return, Actor
<1>1. ASSUME NEW op \in ApiOps, NEW agent \in Agent, NEW reviewed \in BOOLEAN,
             ApiBegin(op, agent, reviewed)
      PROVE  DiskDurable'
    BY <1>1, BeginTypes DEF ApiBegin, DiskDurable, Quiet, Waiting
<1>2. ASSUME NEW kind \in Triggers, NEW agent \in Agent, AutoReceive(kind, agent)
      PROVE  DiskDurable'
    BY <1>2 DEF AutoReceive, DiskDurable, Resumes
<1>3. CASE ApiSnapshot
    BY <1>3 DEF ApiSnapshot, DiskDurable
<1>4. CASE ApiKillAll
    BY <1>4 DEF ApiKillAll, DiskDurable
<1>5. CASE ApiCloseGate
    BY <1>5 DEF ApiCloseGate, DiskDurable
<1>6. CASE ApiPause
    BY <1>6 DEF ApiPause, DiskDurable
<1>7. CASE ApiQuarantine
    BY <1>7 DEF ApiQuarantine, DiskDurable
<1>8. CASE ApiResume
    BY <1>8 DEF ApiResume, DiskDurable
<1>9. CASE RestoreGate
    BY <1>9 DEF RestoreGate, DiskDurable
<1>10. CASE JournalFail
    <2>1. pc["api"] = "done" /\ pc'["api"] = "idle" /\ path' = path
        BY <1>10 DEF JournalFail, TypeOK
    <2>2. ASSUME NEW a \in Agent
          PROVE  LevelOf(Load(path).ks, a) >= acked'[a]
        <3>1. LevelOf(Load(path).ks, a) \in KillLevel
            BY FileTypes, LevelEffects DEF TypeOK, Snapshot
        <3>2. CASE Resumes("api", a)
            BY <1>10, <3>1, <3>2
            DEF JournalFail, Resumes, TypeOK, KillLevel, Normal, Pause, Quarantine, KillAll
        <3>3. CASE ~Resumes("api", a)
            BY <1>10, <3>3 DEF JournalFail, Resumes, DiskDurable
        <3> QED
            BY <3>2, <3>3
    <2> QED
        BY <2>1, <2>2 DEF DiskDurable
<1>11. CASE AutoSuppress
    BY <1>11 DEF AutoSuppress, DiskDurable, Resumes
<1>12. CASE AutoProcess
    BY <1>12 DEF AutoProcess, DiskDurable, Resumes
<1>13. CASE AutoCount
    BY <1>13 DEF AutoCount, DiskDurable, Resumes
<1>14. CASE AutoEscalate
    BY <1>14 DEF AutoEscalate, DiskDurable, Resumes
<1>15. CASE Disconnect
    BY <1>15 DEF Disconnect, DiskDurable
<1>16. CASE DedupExpire
    BY <1>16 DEF DedupExpire, DiskDurable, Resumes
<1>17. CASE CrashRestart
    <2>1. Load(path') = Current' /\ ks' = Load(path).ks /\ pc'["api"] = "idle"
        BY <1>17, RestartLoads
    <2>2. ASSUME NEW a \in Agent
          PROVE  LevelOf(ks', a) >= acked'[a]
        <3>1. acked'[a] = IF Lifting(a) /\ LevelOf(ks', a) < acked[a] THEN LevelOf(ks', a) ELSE acked[a]
            BY <1>17, <2>1 DEF CrashRestart, LevelOf
        <3>2. LevelOf(ks', a) \in KillLevel /\ acked[a] \in KillLevel
            BY <2>1, FileTypes, LevelEffects DEF TypeOK, Snapshot
        <3>3. CASE Lifting(a)
            BY <3>1, <3>2, <3>3 DEF KillLevel, Normal, Pause, Quarantine, KillAll
        <3>4. CASE ~Lifting(a)
            BY <2>1, <3>1, <3>4 DEF DiskDurable, Lifting, Resumes
        <3> QED
            BY <3>3, <3>4
    <2> QED
        BY <2>1, <2>2 DEF DiskDurable, Current
<1>18. ASSUME NEW t \in Actor, Conclude(t)
      PROVE  DiskDurable'
    <2>1. CASE SyncRead(t)
        BY <1>18, <2>1 DEF SyncRead, DiskDurable, Resumes
    <2>2. CASE SyncApply(t)
        BY <1>18, <2>2 DEF SyncApply, DiskDurable, OneAtATime, Waiting
    <2>3. CASE PersistRead(t)
        BY <1>18, <2>3 DEF PersistRead, DiskDurable, Resumes
    <2>4. CASE PersistClear(t)
        <3>1. pc[t] \in Underway /\ pc["api"] # "done" /\ Load(path') = Current /\ UNCHANGED <<req, acked>>
            BY <1>18, <2>4, DiskUpdated DEF Underway, OneAtATime, Waiting
        <3>2. Load(path).ks = prev[t].ks
            BY <3>1 DEF DiskKeeps, Before
        <3>3. ASSUME NEW a \in Agent, ~(pc'["api"] = "done" /\ Resumes("api", a))
              PROVE  LevelOf(Load(path').ks, a) >= acked'[a]
            <4>1. ~Resumes(t, a)
                BY <1>18, <2>4, <3>3, DiskUpdated DEF Resumes, RequestsFit, TypeOK
            <4>2. LevelOf(ks, a) >= LevelOf(prev[t].ks, a)
                BY <3>1, <4>1 DEF MutationRaises
            <4>3. LevelOf(prev[t].ks, a) >= acked[a]
                BY <3>1, <3>2 DEF DiskDurable
            <4>4. /\ LevelOf(ks, a) \in KillLevel /\ LevelOf(prev[t].ks, a) \in KillLevel
                  /\ acked[a] \in KillLevel
                BY LevelEffects DEF TypeOK, Snapshot
            <4>5. LevelOf(ks, a) >= acked[a]
                BY <4>2, <4>3, <4>4 DEF KillLevel, Normal, Pause, Quarantine, KillAll
            <4> QED
                BY <3>1, <4>5 DEF Current
        <3> QED
            BY <3>1, <3>3 DEF DiskDurable, Resumes
    <2>5. CASE PersistOpen(t)
        BY <1>18, <2>5 DEF PersistOpen, DiskDurable, Resumes
    <2>6. CASE PersistWrite(t)
        BY <1>18, <2>6, DiskKept DEF PersistWrite, DiskDurable, Resumes, TypeOK
    <2>7. CASE PersistRename(t)
        <3>1. pc[t] \in Underway /\ pc["api"] # "done" /\ Load(path') = Current /\ UNCHANGED <<req, acked>>
            BY <1>18, <2>7, DiskUpdated DEF Underway, OneAtATime, Waiting
        <3>2. Load(path).ks = prev[t].ks
            BY <3>1 DEF DiskKeeps, Before
        <3>3. ASSUME NEW a \in Agent, ~(pc'["api"] = "done" /\ Resumes("api", a))
              PROVE  LevelOf(Load(path').ks, a) >= acked'[a]
            <4>1. ~Resumes(t, a)
                BY <1>18, <2>7, <3>3, DiskUpdated DEF Resumes, RequestsFit, TypeOK
            <4>2. LevelOf(ks, a) >= LevelOf(prev[t].ks, a)
                BY <3>1, <4>1 DEF MutationRaises
            <4>3. LevelOf(prev[t].ks, a) >= acked[a]
                BY <3>1, <3>2 DEF DiskDurable
            <4>4. /\ LevelOf(ks, a) \in KillLevel /\ LevelOf(prev[t].ks, a) \in KillLevel
                  /\ acked[a] \in KillLevel
                BY LevelEffects DEF TypeOK, Snapshot
            <4>5. LevelOf(ks, a) >= acked[a]
                BY <4>2, <4>3, <4>4 DEF KillLevel, Normal, Pause, Quarantine, KillAll
            <4> QED
                BY <3>1, <4>5 DEF Current
        <3> QED
            BY <3>1, <3>3 DEF DiskDurable, Resumes
    <2>8. CASE PersistFail(t)
        BY <1>18, <2>8, DiskKept DEF PersistFail, DiskDurable, Resumes, TypeOK
    <2>9. CASE Cleanup(t)
        BY <1>18, <2>9 DEF Cleanup, DiskDurable, Resumes
    <2>10. CASE Rollback(t)
        BY <1>18, <2>10 DEF Rollback, DiskDurable, Resumes
    <2>11. CASE Report(t)
        <3>1. \A u \in Actor : pc[u] \notin Underway \cup {"restore_gate"}
            BY <1>18, <2>11 DEF Report, Underway, OneAtATime, Waiting
        <3>2. Load(path).ks = ks /\ path' = path
            BY <1>18, <2>11, <3>1 DEF DiskKeeps, Current, Report
        <3>3. pc'["api"] # "done" /\ (t = "auto" => pc["api"] # "done")
            BY <1>18, <2>11 DEF Report, TypeOK, OneAtATime, Waiting
        <3>4. ASSUME NEW a \in Agent
              PROVE  LevelOf(ks, a) >= acked'[a]
            <4>1. acked'[a] = Reported(req[t], a)
                BY <1>18, <2>11 DEF Report
            <4>2. LevelOf(ks, a) \in KillLevel /\ acked[a] \in KillLevel /\ req[t].level \in KillLevel
                BY LevelEffects DEF TypeOK, Request
            <4>3. CASE Resumes(t, a)
                BY <4>1, <4>2, <4>3
                DEF Reported, Resumes, KillLevel, Normal, Pause, Quarantine, KillAll
            <4>4. CASE ~Resumes(t, a) /\ acked'[a] = acked[a]
                <5>1. ~(pc["api"] = "done" /\ Resumes("api", a))
                    BY <3>3, <4>4
                <5> QED
                    BY <3>2, <4>4, <5>1 DEF DiskDurable
            <4>5. CASE ~Resumes(t, a) /\ acked'[a] # acked[a]
                <5>1. /\ acked'[a] = req[t].level /\ req[t].op # "resume"
                      /\ req[t].level = KillAll \/ a = req[t].agent
                    BY <4>1, <4>5 DEF Reported, Resumes
                <5>2. /\ req[t].level = KillAll => ks.platform_level = KillAll
                      /\ LevelOf(ks, req[t].agent) >= req[t].level
                    BY <1>18, <2>11, <5>1 DEF Report, Applied
                <5> QED
                    BY <4>2, <5>1, <5>2 DEF LevelOf, Check, KillAll
            <4> QED
                BY <4>3, <4>4, <4>5
        <3> QED
            BY <3>2, <3>3, <3>4 DEF DiskDurable
    <2> QED
        BY <1>18, <2>1, <2>2, <2>3, <2>4, <2>5, <2>6, <2>7, <2>8, <2>9, <2>10, <2>11
        DEF Conclude, Persist
<1>19. CASE UNCHANGED vars
    BY <1>19 DEF vars, DiskDurable, Resumes
<1> QED
    BY <1>1, <1>2, <1>3, <1>4, <1>5, <1>6, <1>7, <1>8, <1>9, <1>10, <1>11, <1>12, <1>13,
        <1>14, <1>15, <1>16, <1>17, <1>18, <1>19
    DEF Next, ApiStep, AutoStep


\* The gate stays closed once a kill_all has reported.
LEMMA GateStep ==
    ASSUME TypeOK, RequestsFit, NoGateNowhere, Alone', OneAtATime, CopiesFresh, DiskKeeps,
           GateHeld, [Next]_vars
    PROVE  GateHeld'
PROOF
<1> SUFFICES ASSUME GateEnabled PROVE GateHeld'
    BY DEF GateHeld
<1> USE DEF mem, disk, local, history, Goto, Return, Actor
<1>1. ASSUME NEW op \in ApiOps, NEW agent \in Agent, NEW reviewed \in BOOLEAN,
             ApiBegin(op, agent, reviewed)
      PROVE  GateHeld'
    BY <1>1, BeginTypes DEF ApiBegin, GateHeld, TypeOK
<1>2. ASSUME NEW kind \in Triggers, NEW agent \in Agent, AutoReceive(kind, agent)
      PROVE  GateHeld'
    BY <1>2 DEF AutoReceive, GateHeld, TypeOK
<1>3. CASE ApiSnapshot
    BY <1>3 DEF ApiSnapshot, GateHeld, TypeOK
<1>4. CASE ApiKillAll
    BY <1>4 DEF ApiKillAll, GateHeld, TypeOK
<1>5. CASE ApiCloseGate
    BY <1>5 DEF ApiCloseGate, GateHeld, TypeOK
<1>6. CASE ApiPause
    BY <1>6 DEF ApiPause, GateHeld, TypeOK
<1>7. CASE ApiQuarantine
    BY <1>7 DEF ApiQuarantine, GateHeld, TypeOK
<1>8. CASE ApiResume
    BY <1>8 DEF ApiResume, GateHeld, TypeOK
<1>9. CASE RestoreGate
    BY <1>9 DEF RestoreGate, GateHeld, TypeOK
<1>10. CASE JournalFail
    BY <1>10 DEF JournalFail, GateHeld, TypeOK
<1>11. CASE AutoSuppress
    BY <1>11 DEF AutoSuppress, GateHeld, TypeOK
<1>12. CASE AutoProcess
    BY <1>12 DEF AutoProcess, GateHeld, TypeOK
<1>13. CASE AutoCount
    BY <1>13 DEF AutoCount, GateHeld, TypeOK
<1>14. CASE AutoEscalate
    BY <1>14 DEF AutoEscalate, GateHeld, TypeOK
<1>15. CASE Disconnect
    BY <1>15 DEF Disconnect, GateHeld, TypeOK
<1>16. CASE DedupExpire
    BY <1>16 DEF DedupExpire, GateHeld
<1>17. CASE CrashRestart
    <2>1. /\ gate' = IF Load(path).gate = "None" THEN "Normal" ELSE Load(path).gate
          /\ UNCHANGED killed
        BY <1>17 DEF CrashRestart
    <2>2. Load(path').gate = gate' /\ \A t \in Actor : pc'[t] = "idle"
        BY <1>17, RestartLoads DEF Current
    <2> QED
        BY <2>1, <2>2 DEF GateHeld
<1>18. ASSUME NEW t \in Actor, Conclude(t)
      PROVE  GateHeld'
    <2>1. CASE SyncRead(t)
        BY <1>18, <2>1 DEF SyncRead, GateHeld, TypeOK
    <2>2. CASE SyncApply(t)
        BY <1>18, <2>2 DEF SyncApply, GateHeld, TypeOK
    <2>3. CASE PersistRead(t)
        BY <1>18, <2>3 DEF PersistRead, GateHeld, TypeOK
    <2>4. CASE PersistClear(t) \/ PersistRename(t)
        <3>1. /\ Load(path') = Current /\ UNCHANGED <<mem, local, history>>
              /\ pc[t] \in {"open", "rename"} /\ pc' = [pc EXCEPT ![t] = "done"]
            BY <1>18, <2>4, DiskUpdated DEF PersistRename
        <3> QED
            BY <3>1 DEF GateHeld, Current, TypeOK
    <2>5. CASE PersistOpen(t)
        BY <1>18, <2>5 DEF PersistOpen, GateHeld, TypeOK
    <2>6. CASE PersistWrite(t)
        BY <1>18, <2>6, DiskKept DEF PersistWrite, GateHeld, TypeOK
    <2>8. CASE PersistFail(t)
        BY <1>18, <2>8, DiskKept DEF PersistFail, GateHeld, TypeOK
    <2>9. CASE Cleanup(t)
        BY <1>18, <2>9 DEF Cleanup, GateHeld, TypeOK
    <2>10. CASE Rollback(t)
        BY <1>18, <2>10 DEF Rollback, GateHeld, TypeOK
    <2>11. CASE Report(t)
        <3>1. /\ pc[t] = "done" /\ UNCHANGED <<mem, path>>
              /\ killed' = (killed \/ req[t].op = "kill_all")
            BY <2>11 DEF Report
        <3>2. CASE t = "api" /\ req["api"].op = "kill_all"
            <4>1. pc' = [pc EXCEPT !["api"] = "relock"]
                BY <2>11, <3>2 DEF Report
            <4>2. gate = "Propagating"
                BY <3>1, <3>2 DEF GateHeld
            <4>3. Load(path) = Current
                BY <3>1, <3>2 DEF DiskKeeps, Underway, OneAtATime, Waiting
            <4> QED
                BY <3>1, <4>1, <4>2, <4>3 DEF GateHeld, Current, TypeOK
        <3>3. CASE ~(t = "api" /\ req["api"].op = "kill_all")
            <4>1. req[t].op # "kill_all"
                BY <3>3 DEF RequestsFit
            <4>2. killed' = killed
                BY <3>1, <4>1 DEF TypeOK
            <4>3. pc' = [pc EXCEPT ![t] = "idle"] /\ prev' = [prev EXCEPT ![t] = Unused]
                  /\ req' = [req EXCEPT ![t] = NoRequest]
                BY <2>11, <4>1 DEF Report
            <4> QED
                BY <3>1, <4>2, <4>3 DEF GateHeld, TypeOK
        <3> QED
            BY <3>2, <3>3
    <2> QED
        BY <1>18, <2>1, <2>2, <2>3, <2>4, <2>5, <2>6, <2>8, <2>9, <2>10, <2>11
        DEF Conclude, Persist
<1>19. CASE UNCHANGED vars
    BY <1>19 DEF vars, GateHeld
<1> QED
    BY <1>1, <1>2, <1>3, <1>4, <1>5, <1>6, <1>7, <1>8, <1>9, <1>10, <1>11, <1>12, <1>13,
        <1>14, <1>15, <1>16, <1>17, <1>18, <1>19
    DEF Next, ApiStep, AutoStep

\* Access follows the level.
LEMMA AccessStep ==
    ASSUME TypeOK, RequestsFit, Alone', OneAtATime, CopiesFresh, AccessKept, [Next]_vars
    PROVE  AccessKept'
PROOF
<1> USE DEF mem, disk, local, history, Goto, Return, Actor
<1>1. ASSUME NEW op \in ApiOps, NEW agent \in Agent, NEW reviewed \in BOOLEAN,
             ApiBegin(op, agent, reviewed)
      PROVE  AccessKept'
    BY <1>1, BeginTypes DEF ApiBegin, AccessKept, Quiet, Waiting
<1>2. ASSUME NEW kind \in Triggers, NEW agent \in Agent, AutoReceive(kind, agent)
      PROVE  AccessKept'
    BY <1>2, BeginTypes DEF AutoReceive, AccessKept, Quiet, Waiting
<1>3. CASE ApiSnapshot
    BY <1>3 DEF ApiSnapshot, AccessKept
<1>4. CASE ApiKillAll
    <2>1. ks'.per_agent = ks.per_agent /\ ks'.platform_level = KillAll
        BY <1>4, SwitchEffects, AgentAssumption DEF ApiKillAll, TypeOK
    <2>2. QuarantinedAgents(ks') = QuarantinedAgents(ks) /\ PulledBack(ks') = Agent
        BY <2>1 DEF QuarantinedAgents, PulledBack
    <2>3. QuarantinedAgents(ks) \subseteq pulled
        BY <1>4 DEF ApiKillAll, AccessKept, OneAtATime, Waiting
    <2> QED
        BY <1>4, <2>2, <2>3 DEF ApiKillAll, AccessKept, TypeOK
<1>5. CASE ApiCloseGate
    BY <1>5 DEF ApiCloseGate, AccessKept
<1>6. CASE ApiPause
    <2>1. req["api"].agent \in Agent /\ ks \in KillSwitchState
        BY DEF TypeOK, Request
    <2>2. /\ ks'.platform_level = ks.platform_level
          /\ \A b \in Agent : ks'.per_agent[b] = Quarantine <=> ks.per_agent[b] = Quarantine
        BY <1>6, <2>1, SwitchEffects DEF ApiPause, KillSwitchState, Normal, Pause, Quarantine
    <2>3. QuarantinedAgents(ks') = QuarantinedAgents(ks)
        BY <2>2 DEF QuarantinedAgents
    <2>4. PulledBack(ks') = PulledBack(ks)
        BY <2>2, <2>3 DEF PulledBack
    <2> QED
        BY <1>6, <2>3, <2>4 DEF ApiPause, AccessKept, OneAtATime, Waiting, TypeOK
<1>7. CASE ApiQuarantine
    BY <1>7 DEF ApiQuarantine, AccessKept, TypeOK
<1>8. CASE ApiResume
    BY <1>8 DEF ApiResume, AccessKept, TypeOK
<1>9. CASE RestoreGate
    BY <1>9 DEF RestoreGate, AccessKept
<1>10. CASE JournalFail
    BY <1>10 DEF JournalFail, AccessKept
<1>11. CASE AutoSuppress
    BY <1>11 DEF AutoSuppress, AccessKept
<1>12. CASE AutoProcess
    BY <1>12 DEF AutoProcess, AccessKept, TypeOK
<1>13. CASE AutoCount
    BY <1>13 DEF AutoCount, AccessKept
<1>14. CASE AutoEscalate
    BY <1>14 DEF AutoEscalate, AccessKept
<1>15. CASE Disconnect
    BY <1>15 DEF Disconnect, AccessKept
<1>16. CASE DedupExpire
    BY <1>16 DEF DedupExpire, AccessKept
<1>17. CASE CrashRestart
    <2>1. pulled' = PulledBack(ks')
        BY <1>17 DEF CrashRestart
    <2> QED
        BY <2>1 DEF AccessKept, PulledBack, QuarantinedAgents
<1>18. ASSUME NEW t \in Actor, Conclude(t)
      PROVE  AccessKept'
    <2>1. CASE SyncRead(t)
        BY <1>18, <2>1 DEF SyncRead, AccessKept
    <2>2. CASE SyncApply(t)
        <3>1. pulled' = PulledBack(ks')
            BY <1>18, <2>2 DEF SyncApply, CopiesFresh
        <3> QED
            BY <3>1 DEF AccessKept, PulledBack, QuarantinedAgents
    <2>3. CASE PersistRead(t)
        BY <1>18, <2>3 DEF PersistRead, AccessKept
    <2>4. CASE PersistClear(t)
        BY <1>18, <2>4 DEF PersistClear, AccessKept
    <2>5. CASE PersistOpen(t)
        BY <1>18, <2>5 DEF PersistOpen, AccessKept
    <2>6. CASE PersistWrite(t)
        BY <1>18, <2>6 DEF PersistWrite, AccessKept
    <2>7. CASE PersistRename(t)
        BY <1>18, <2>7 DEF PersistRename, AccessKept, OneAtATime, Waiting
    <2>8. CASE PersistFail(t)
        BY <1>18, <2>8 DEF PersistFail, AccessKept, OneAtATime, Waiting
    <2>9. CASE Cleanup(t)
        BY <1>18, <2>9 DEF Cleanup, AccessKept
    <2>10. CASE Rollback(t)
        BY <1>18, <2>10 DEF Rollback, AccessKept
    <2>11. CASE Report(t)
        BY <1>18, <2>11 DEF Report, AccessKept, OneAtATime, Waiting
    <2> QED
        BY <1>18, <2>1, <2>2, <2>3, <2>4, <2>5, <2>6, <2>7, <2>8, <2>9, <2>10, <2>11
        DEF Conclude, Persist
<1>19. CASE UNCHANGED vars
    BY <1>19 DEF vars, AccessKept
<1> QED
    BY <1>1, <1>2, <1>3, <1>4, <1>5, <1>6, <1>7, <1>8, <1>9, <1>10, <1>11, <1>12, <1>13,
        <1>14, <1>15, <1>16, <1>17, <1>18, <1>19
    DEF Next, ApiStep, AutoStep

(***************************************************************************)
(* The theorems.                                                            *)
(***************************************************************************)

\* The invariants hold of the gateway that has just started.
LEMMA CommonInit ==
    Init => CommonInv
PROOF
<1> SUFFICES ASSUME Init PROVE CommonInv
    OBVIOUS
<1>1. [ks |-> DefaultState, gate |-> "Normal"] \in Snapshot
    BY SwitchTypes DEF Snapshot, Gates
<1>2. path \in File
    BY <1>1, FileTypes DEF Init
<1>3. TypeOK
    <2>1. ks \in KillSwitchState /\ flag \in BOOLEAN /\ gate \in Gates /\ pulled \subseteq Agent
        BY SwitchTypes DEF Init, Gates
    <2>2. dedup \subseteq Triggers \X Agent /\ tmp \in File /\ fd \in [Actor -> {"closed", "tmp", "path", "gone"}]
        BY FileTypes DEF Init
    <2>3. pc \in [Actor -> PC] /\ req \in [Actor -> Request]
        BY RequestTypes DEF Init, PC
    <2>4. prev \in [Actor -> Snapshot] /\ copy \in [Actor -> Snapshot]
        BY FileTypes DEF Init
    <2>5. /\ acked \in [Agent -> KillLevel] /\ lifted \subseteq Agent
          /\ killed \in BOOLEAN /\ undone \in BOOLEAN
        BY DEF Init, KillLevel, Normal
    <2>7. overlaps \in 0..MaxOverlaps
        BY BoundsAssumption DEF Init
    <2>6. budget \in Budget
        BY BoundsAssumption DEF Init, Budget
    <2> QED
        BY <1>2, <2>1, <2>2, <2>3, <2>4, <2>5, <2>6, <2>7 DEF TypeOK, Budget
<1>4. FlagIsLevel
    <2>1. ks.platform_level # KillAll
        BY DEF Init, DefaultState, Normal, KillAll
    <2> QED
        BY <2>1 DEF Init, FlagIsLevel
<1>5. RequestsFit
    BY DEF Init, RequestsFit, Actor, NoRequest
<1>6. NoGateNowhere
    BY DEF Init, NoGateNowhere, Actor, Unused
<1> QED
    BY <1>3, <1>4, <1>5, <1>6 DEF CommonInv

\* Every step keeps what holds in parallel.
LEMMA CommonStep ==
    CommonInv /\ [Next]_vars => CommonInv'
PROOF
    BY TypeStep, FlagStep, RequestsStep, NoGateStep DEF CommonInv

(* In every interleaving of requests and triggers the flag that check()      *)
(* reads first is the platform's level, a request has what its handler        *)
(* checked, and nothing of a gate appears where none is configured.           *)
THEOREM SafetyCommon == Spec => []CommonInv
PROOF
    BY CommonInit, CommonStep, PTL DEF Spec

(* The kill switch, its file, its access flags and both threads of control    *)
(* keep their types, for any agents, handlers, triggers, failures and crashes. *)
THEOREM SafetyTypeCorrect == Spec => []TypeOK
PROOF
<1>1. CommonInv => TypeOK
    BY DEF CommonInv
<1> QED
    BY <1>1, SafetyCommon, PTL

(* In every interleaving a step that takes an agent out of quarantine is the   *)
(* mutation of a reviewed resume of that agent (resume_agent compares the       *)
(* level under its lock), a rollback to a copy from before the quarantine, or   *)
(* a restart.                                                                  *)
THEOREM ReviewLiftsQuarantine == Spec => QuarantineLiftedByReview
PROOF
<1> DEFINE Lift(a) == ks.per_agent[a] = Quarantine /\ ks'.per_agent[a] < Quarantine
           Reviewed(a) == /\ pc["api"] = "mutate" /\ req["api"].op = "resume"
                          /\ req["api"].agent = a /\ req["api"].reviewed
           RolledBack(a) == \E t \in Actor : pc[t] = "rollback" /\ prev[t].ks.per_agent[a] < Quarantine
           Restarted == budget'.crashes < budget.crashes
<1>1. ASSUME CommonInv, [Next]_vars, NEW a \in Agent, Lift(a)
      PROVE  Reviewed(a) \/ RolledBack(a) \/ Restarted
    <2> USE DEF mem, disk, local, history
    <2>1. /\ TypeOK /\ RequestsFit /\ ks \in KillSwitchState
          /\ req["api"].agent \in Agent /\ req["auto"].agent \in Agent /\ req["auto"].level \in KillLevel
        BY <1>1 DEF CommonInv, TypeOK, Request, Actor
    <2>2. ks' # ks
        BY <1>1 DEF Quarantine
    <2>3. \/ ApiKillAll \/ ApiPause \/ ApiQuarantine \/ ApiResume \/ AutoProcess \/ AutoEscalate
          \/ CrashRestart \/ \E t \in Actor : Rollback(t)
        BY <1>1, <2>2
        DEF Next, ApiStep, AutoStep, Conclude, Persist, ApiBegin, ApiSnapshot, Actor,
           ApiCloseGate, RestoreGate, JournalFail, Disconnect, AutoReceive, AutoSuppress,
           AutoCount, DedupExpire, SyncRead, SyncApply, PersistRead,
           PersistClear, PersistOpen, PersistWrite, PersistRename, PersistFail, Cleanup,
           Report, vars
    <2>4. CASE ApiKillAll \/ AutoEscalate
        BY <1>1, <2>1, <2>4, SwitchEffects DEF ApiKillAll, AutoEscalate, Quarantine
    <2>5. CASE ApiPause \/ ApiQuarantine
        BY <1>1, <2>1, <2>5, SwitchEffects DEF ApiPause, ApiQuarantine, Quarantine, Pause, Normal
    <2>6. CASE AutoProcess
        BY <1>1, <2>1, <2>6, SwitchEffects
        DEF AutoProcess, KillLevel, Quarantine, Pause, Normal, KillAll
    <2>7. CASE ApiResume
        <3>1. /\ ks' = Resumed(ks, req["api"].agent)
              /\ ks.per_agent[req["api"].agent] = req["api"].level
              /\ pc["api"] = "mutate" /\ req["api"].op = "resume"
            BY <2>2, <2>7 DEF ApiResume, Resumed
        <3>2. req["api"].agent = a
            BY <1>1, <2>1, <3>1, SwitchEffects DEF Quarantine
        <3> QED
            BY <1>1, <2>1, <3>1, <3>2 DEF RequestsFit
    <2>8. CASE CrashRestart
        <3>1. budget.crashes \in Nat
            BY <2>1, BoundsAssumption DEF TypeOK
        <3>2. budget.crashes > 0 /\ budget'.crashes = budget.crashes - 1
            BY <2>1, <2>8 DEF CrashRestart, Spend, TypeOK
        <3> QED
            BY <3>1, <3>2
    <2>9. CASE \E t \in Actor : Rollback(t)
        BY <1>1, <2>9 DEF Rollback
    <2> QED
        BY <2>3, <2>4, <2>5, <2>6, <2>7, <2>8, <2>9
<1>2. CommonInv /\ [Next]_vars =>
        [\A a \in Agent : ks.per_agent[a] = Quarantine /\ ks'.per_agent[a] < Quarantine =>
            \/ /\ pc["api"] = "mutate" /\ req["api"].op = "resume"
               /\ req["api"].agent = a /\ req["api"].reviewed
            \/ \E t \in Actor : pc[t] = "rollback" /\ prev[t].ks.per_agent[a] < Quarantine
            \/ budget'.crashes < budget.crashes]_vars
    BY <1>1
<1> QED
    BY <1>2, SafetyCommon, PTL DEF Spec, QuarantineLiftedByReview


\* And so do those of behaviours without an overlap.
LEMMA TurnInit ==
    Init => TurnInv
PROOF
<1> SUFFICES ASSUME Init PROVE TurnInv
    OBVIOUS
<1>1. \A t \in Actor : pc[t] = "idle" /\ fd[t] = "closed"
    BY DEF Init
<1>2. Load(path) = Current /\ Load(path).gate # "Propagating" /\ gate # "Propagating"
    BY LoadForms DEF Init, Current, Unused
<1>3. OneAtATime /\ MutationRaises /\ Applied /\ CascadeDone
    BY <1>1 DEF OneAtATime, Waiting, MutationRaises, Underway, Applied, CascadeDone, Actor
<1>4. DiskKeeps /\ CopiesFresh
    BY <1>1, <1>2 DEF DiskKeeps, Underway, CopiesFresh, Actor
<1>5. DiskDurable
    BY <1>2, LevelEffects, SwitchTypes DEF Init, DiskDurable, Current, KillLevel, Normal, Pause,
       Quarantine, KillAll
<1>6. GateHeld
    BY <1>1 DEF Init, GateHeld, Actor
<1>7. AccessKept
    <2>1. QuarantinedAgents(ks) = {}
        BY DEF Init, DefaultState, QuarantinedAgents, Normal, Quarantine
    <2> QED
        BY <2>1 DEF Init, AccessKept
<1> QED
    BY <1>3, <1>4, <1>5, <1>6, <1>7 DEF TurnInv

\* Every step up to the first overlap keeps them.
LEMMA TurnStep ==
    CommonInv /\ TurnInv /\ [Next]_vars /\ Alone' => TurnInv'
PROOF
    BY OneAtATimeStep, DiskStep, CopiesStep, RaisesStep, AppliedStep, DurableStep, GateStep,
        AccessStep,
       CascadeStep DEF CommonInv, TurnInv

\* An overlap is never forgotten.
LEMMA OverlapStays ==
    ASSUME TypeOK, [Next]_vars, Alone'
    PROVE  Alone
PROOF
<1> USE DEF mem, disk, local, history
<1>1. CASE \E op \in ApiOps, agent \in Agent, reviewed \in BOOLEAN : ApiBegin(op, agent, reviewed)
    BY <1>1, BeginTypes DEF ApiBegin, Actor
<1>2. CASE \E kind \in Triggers, agent \in Agent : AutoReceive(kind, agent)
    BY <1>2, BeginTypes DEF AutoReceive, Actor
<1>3. CASE UNCHANGED overlaps
    BY <1>3 DEF Alone
<1>4. CASE ApiStep \/ Disconnect
    BY <1>3, <1>4 DEF ApiStep, ApiSnapshot, ApiKillAll, ApiCloseGate, ApiPause, ApiQuarantine,
        ApiResume, RestoreGate, JournalFail, Conclude, Persist, SyncRead, SyncApply,
        PersistRead, PersistClear, PersistOpen, PersistWrite, PersistRename, PersistFail,
        Cleanup, Rollback, Report, Disconnect
<1>5. CASE AutoStep \/ DedupExpire \/ CrashRestart
    BY <1>3, <1>5 DEF AutoStep, AutoSuppress, AutoProcess, AutoCount, AutoEscalate, Conclude,
        Persist, SyncRead, SyncApply, PersistRead, PersistClear, PersistOpen, PersistWrite,
        PersistRename, PersistFail, Cleanup, Rollback, Report, DedupExpire, CrashRestart
<1>6. CASE UNCHANGED vars
    BY <1>3, <1>6 DEF vars
<1> QED
    BY <1>1, <1>2, <1>4, <1>5, <1>6 DEF Next

(* Up to the first overlap of a request and a trigger, a thread at work has    *)
(* the state from before its mutation in its copy and on disk, until the disk  *)
(* has the new one; through every failing call, rollback and crash.            *)
THEOREM SafetyAlone == Spec => [](CommonInv /\ (Alone => TurnInv))
PROOF
<1>1. Init => CommonInv /\ (Alone => TurnInv)
    BY CommonInit, TurnInit
<1>2. CommonInv /\ (Alone => TurnInv) /\ [Next]_vars => CommonInv' /\ (Alone' => TurnInv')
    BY CommonStep, TurnStep, OverlapStays DEF CommonInv
<1> QED
    BY <1>1, <1>2, PTL DEF Spec

\* A rollback or a restart after an overlap is never forgotten.
LEMMA UndoneStays ==
    ASSUME [Next]_vars, ~undone'
    PROVE  ~undone
PROOF
    BY DEF Next, ApiBegin, AutoReceive, ApiStep, ApiSnapshot, ApiKillAll, ApiCloseGate, ApiPause,
       ApiQuarantine, ApiResume, RestoreGate, JournalFail, Disconnect, AutoStep, AutoSuppress,
       AutoProcess, AutoCount, AutoEscalate, Conclude, Persist, SyncRead, SyncApply, PersistRead,
       PersistClear, PersistOpen, PersistWrite, PersistRename, PersistFail, Cleanup, Rollback,
       Report, DedupExpire, CrashRestart, history, vars

\* A mutation applies its level and lowers no other.
LEMMA RaiseEffects ==
    ASSUME NEW s \in KillSwitchState, NEW a \in Agent, NEW level \in KillLevel,
           NEW r, r = IF level = KillAll THEN ActivateKillAll(s) ELSE ActivateAgent(s, a, level)
    PROVE  /\ \A b \in Agent : LevelOf(r, b) >= LevelOf(s, b) /\ LevelOf(r, b) \in KillLevel
           /\ LevelOf(r, a) >= level
           /\ s.platform_level = KillAll => r.platform_level = KillAll
           /\ level = KillAll => r.platform_level = KillAll
PROOF
<1>1. CASE level = KillAll
    BY <1>1, LevelEffects, SwitchEffects DEF KillLevel, Normal, Pause, Quarantine, KillAll
<1>2. CASE level # KillAll
    <2>1. level \in {Normal, Pause, Quarantine}
        BY <1>2 DEF KillLevel
    <2>2. r \in KillSwitchState
        BY <1>2, <2>1, SwitchTypes
    <2>3. \A b \in Agent : LevelOf(r, b) >= LevelOf(s, b)
        BY <1>2, <2>1, LevelEffects
    <2>4. LevelOf(r, a) >= level
        BY <1>2, <2>1, LevelEffects
    <2> QED
        BY <1>2, <2>1, <2>2, <2>3, <2>4, LevelEffects, SwitchEffects
<1> QED
    BY <1>1, <1>2

\* No step but a rollback and a restart undoes what was applied, whatever the other
\* thread is in the middle of.
LEMMA InMemoryStep ==
    ASSUME TypeOK, RequestsFit, InMemory, [Next]_vars, ~CrashRestart,
           \A t \in Actor : ~Rollback(t)
    PROVE  InMemory'
PROOF
<1> USE DEF mem, disk, local, history, Goto, Return, Actor
<1>0. /\ ks \in KillSwitchState /\ \A b \in Agent : LevelOf(ks, b) \in KillLevel /\ acked[b] \in KillLevel
      /\ \A t \in Actor : req[t].agent \in Agent /\ req[t].level \in KillLevel
    BY LevelEffects DEF TypeOK, Request
<1>1. ASSUME NEW op \in ApiOps, NEW agent \in Agent, NEW reviewed \in BOOLEAN,
             ApiBegin(op, agent, reviewed)
      PROVE  InMemory'
    BY <1>1, BeginTypes DEF ApiBegin, InMemory, Doing, Lowering, Resumes, Underway, RequestsFit,
        TypeOK
<1>2. ASSUME NEW kind \in Triggers, NEW agent \in Agent, AutoReceive(kind, agent)
      PROVE  InMemory'
    BY <1>2, BeginTypes DEF AutoReceive, InMemory, Doing, Lowering, Resumes, TypeOK
<1>3. CASE ApiSnapshot
    BY <1>3 DEF ApiSnapshot, InMemory, Doing, Lowering, Resumes, Underway
<1>4. CASE ApiKillAll
    <2>0. /\ req'["api"].level \in KillLevel /\ req["api"].agent \in Agent
          /\ ks' = IF req'["api"].level = KillAll THEN ActivateKillAll(ks)
                   ELSE ActivateAgent(ks, req["api"].agent, req'["api"].level)
        BY <1>0, <1>4 DEF ApiKillAll, RequestsFit, KillLevel, Normal, Pause, Quarantine, KillAll
    <2>1. /\ \A b \in Agent : LevelOf(ks', b) >= LevelOf(ks, b) /\ LevelOf(ks', b) \in KillLevel
          /\ LevelOf(ks', req["api"].agent) >= req'["api"].level
          /\ ks.platform_level = KillAll => ks'.platform_level = KillAll
          /\ req'["api"].level = KillAll => ks'.platform_level = KillAll
        BY <1>0, <2>0, RaiseEffects
    <2>2. \A b \in Agent : Lowering(b)' \/ LevelOf(ks', b) >= acked'[b]
        BY <1>0, <1>4, <2>1 DEF ApiKillAll, InMemory, Doing, Lowering, Resumes, Underway,
            KillLevel, Normal, Pause, Quarantine, KillAll
    <2>3. ASSUME NEW t \in Actor, Doing(t)', req'[t].op # "resume"
          PROVE  /\ req'[t].level = KillAll => ks'.platform_level = KillAll
                 /\ \/ t = "auto" /\ req'[t].agent \in lifted'
                    \/ LevelOf(ks', req'[t].agent) >= req'[t].level
        <3>1. CASE t = "api"
            BY <1>4, <2>1, <2>3, <3>1 DEF ApiKillAll, TypeOK, Request
        <3>2. CASE t # "api"
            <4>1. Doing(t) /\ req'[t] = req[t]
                BY <1>4, <2>3, <3>2 DEF ApiKillAll, Doing, TypeOK
            <4>2. req[t].op # "resume" /\ (req[t].level = KillAll => ks'.platform_level = KillAll)
                BY <2>1, <2>3, <4>1 DEF InMemory
            <4>3. (t = "auto" /\ req[t].agent \in lifted') \/ LevelOf(ks, req[t].agent) >= req[t].level
                BY <1>4, <3>2, <4>1, <4>2 DEF ApiKillAll, InMemory
            <4> QED
                BY <1>0, <2>1, <4>1, <4>2, <4>3 DEF KillLevel, Normal, Pause, Quarantine, KillAll
        <3> QED
            BY <3>1, <3>2
    <2> QED
        BY <2>2, <2>3 DEF InMemory
<1>5. CASE ApiCloseGate
    BY <1>5 DEF ApiCloseGate, InMemory, Doing, Lowering, Resumes, Underway
<1>6. CASE ApiPause
    <2>0. /\ req'["api"].level \in KillLevel /\ req["api"].agent \in Agent
          /\ ks' = IF req'["api"].level = KillAll THEN ActivateKillAll(ks)
                   ELSE ActivateAgent(ks, req["api"].agent, req'["api"].level)
        BY <1>0, <1>6 DEF ApiPause, RequestsFit, KillLevel, Normal, Pause, Quarantine, KillAll
    <2>1. /\ \A b \in Agent : LevelOf(ks', b) >= LevelOf(ks, b) /\ LevelOf(ks', b) \in KillLevel
          /\ LevelOf(ks', req["api"].agent) >= req'["api"].level
          /\ ks.platform_level = KillAll => ks'.platform_level = KillAll
          /\ req'["api"].level = KillAll => ks'.platform_level = KillAll
        BY <1>0, <2>0, RaiseEffects
    <2>2. \A b \in Agent : Lowering(b)' \/ LevelOf(ks', b) >= acked'[b]
        BY <1>0, <1>6, <2>1 DEF ApiPause, InMemory, Doing, Lowering, Resumes, Underway,
            KillLevel, Normal, Pause, Quarantine, KillAll
    <2>3. ASSUME NEW t \in Actor, Doing(t)', req'[t].op # "resume"
          PROVE  /\ req'[t].level = KillAll => ks'.platform_level = KillAll
                 /\ \/ t = "auto" /\ req'[t].agent \in lifted'
                    \/ LevelOf(ks', req'[t].agent) >= req'[t].level
        <3>1. CASE t = "api"
            BY <1>6, <2>1, <2>3, <3>1 DEF ApiPause, TypeOK, Request
        <3>2. CASE t # "api"
            <4>1. Doing(t) /\ req'[t] = req[t]
                BY <1>6, <2>3, <3>2 DEF ApiPause, Doing, TypeOK
            <4>2. req[t].op # "resume" /\ (req[t].level = KillAll => ks'.platform_level = KillAll)
                BY <2>1, <2>3, <4>1 DEF InMemory
            <4>3. (t = "auto" /\ req[t].agent \in lifted') \/ LevelOf(ks, req[t].agent) >= req[t].level
                BY <1>6, <3>2, <4>1, <4>2 DEF ApiPause, InMemory
            <4> QED
                BY <1>0, <2>1, <4>1, <4>2, <4>3 DEF KillLevel, Normal, Pause, Quarantine, KillAll
        <3> QED
            BY <3>1, <3>2
    <2> QED
        BY <2>2, <2>3 DEF InMemory
<1>7. CASE ApiQuarantine
    <2>0. /\ req'["api"].level \in KillLevel /\ req["api"].agent \in Agent
          /\ ks' = IF req'["api"].level = KillAll THEN ActivateKillAll(ks)
                   ELSE ActivateAgent(ks, req["api"].agent, req'["api"].level)
        BY <1>0, <1>7 DEF ApiQuarantine, RequestsFit, KillLevel, Normal, Pause, Quarantine,
            KillAll
    <2>1. /\ \A b \in Agent : LevelOf(ks', b) >= LevelOf(ks, b) /\ LevelOf(ks', b) \in KillLevel
          /\ LevelOf(ks', req["api"].agent) >= req'["api"].level
          /\ ks.platform_level = KillAll => ks'.platform_level = KillAll
          /\ req'["api"].level = KillAll => ks'.platform_level = KillAll
        BY <1>0, <2>0, RaiseEffects
    <2>2. \A b \in Agent : Lowering(b)' \/ LevelOf(ks', b) >= acked'[b]
        BY <1>0, <1>7, <2>1 DEF ApiQuarantine, InMemory, Doing, Lowering, Resumes, Underway,
            KillLevel, Normal, Pause, Quarantine, KillAll
    <2>3. ASSUME NEW t \in Actor, Doing(t)', req'[t].op # "resume"
          PROVE  /\ req'[t].level = KillAll => ks'.platform_level = KillAll
                 /\ \/ t = "auto" /\ req'[t].agent \in lifted'
                    \/ LevelOf(ks', req'[t].agent) >= req'[t].level
        <3>1. CASE t = "api"
            BY <1>7, <2>1, <2>3, <3>1 DEF ApiQuarantine, TypeOK, Request
        <3>2. CASE t # "api"
            <4>1. Doing(t) /\ req'[t] = req[t]
                BY <1>7, <2>3, <3>2 DEF ApiQuarantine, Doing, TypeOK
            <4>2. req[t].op # "resume" /\ (req[t].level = KillAll => ks'.platform_level = KillAll)
                BY <2>1, <2>3, <4>1 DEF InMemory
            <4>3. (t = "auto" /\ req[t].agent \in lifted') \/ LevelOf(ks, req[t].agent) >= req[t].level
                BY <1>7, <3>2, <4>1, <4>2 DEF ApiQuarantine, InMemory
            <4> QED
                BY <1>0, <2>1, <4>1, <4>2, <4>3 DEF KillLevel, Normal, Pause, Quarantine, KillAll
        <3> QED
            BY <3>1, <3>2
    <2> QED
        BY <2>2, <2>3 DEF InMemory
<1>8. CASE ApiResume
    <2>1. CASE ks' = Resumed(ks, req["api"].agent) /\ lifted' = lifted \union {req["api"].agent}
        <3>1. \A b \in Agent : Lowering(b)' \/ LevelOf(ks', b) >= acked'[b]
            BY <1>0, <1>8, <2>1, LevelEffects DEF ApiResume, InMemory, Lowering, Resumes,
                Underway, TypeOK
        <3>2. /\ Doing("auto") /\ req["auto"].op # "resume" =>
                    \/ req["auto"].agent \in lifted'
                    \/ LevelOf(ks', req["auto"].agent) >= req["auto"].level
              /\ ks'.platform_level = ks.platform_level
            BY <1>0, <1>8, <2>1, LevelEffects, SwitchEffects DEF InMemory
        <3> QED
            BY <1>8, <3>1, <3>2 DEF ApiResume, InMemory, Doing, TypeOK
    <2>2. CASE UNCHANGED <<ks, lifted>> /\ pc' = [pc EXCEPT !["api"] = "rollback"]
        BY <1>8, <2>2 DEF ApiResume, InMemory, Doing, Lowering, Resumes, Underway, TypeOK
    <2> QED
        BY <1>8, <2>1, <2>2 DEF ApiResume, Resumed
<1>9. CASE RestoreGate
    BY <1>9 DEF RestoreGate, InMemory, Doing, Lowering, Resumes, Underway
<1>10. CASE JournalFail
    <2>1. \A b \in Agent : LevelOf(ks', b) >= acked'[b]
        BY <1>0, <1>10 DEF JournalFail, InMemory, Lowering, Resumes, TypeOK, KillLevel, Normal,
            Pause,
            Quarantine, KillAll
    <2> QED
        BY <1>10, <2>1 DEF JournalFail, InMemory, Doing, TypeOK
<1>11. CASE AutoSuppress
    BY <1>11 DEF AutoSuppress, InMemory, Doing, Lowering, Resumes, Underway, TypeOK
<1>12. CASE AutoProcess
    <2>0. /\ req'["auto"].level \in KillLevel /\ req["auto"].agent \in Agent
          /\ ks' = IF req'["auto"].level = KillAll THEN ActivateKillAll(ks)
                   ELSE ActivateAgent(ks, req["auto"].agent, req'["auto"].level)
        BY <1>0, <1>12 DEF AutoProcess, RequestsFit, KillLevel, Normal, Pause, Quarantine, KillAll
    <2>1. /\ \A b \in Agent : LevelOf(ks', b) >= LevelOf(ks, b) /\ LevelOf(ks', b) \in KillLevel
          /\ LevelOf(ks', req["auto"].agent) >= req'["auto"].level
          /\ ks.platform_level = KillAll => ks'.platform_level = KillAll
          /\ req'["auto"].level = KillAll => ks'.platform_level = KillAll
        BY <1>0, <2>0, RaiseEffects
    <2>2. \A b \in Agent : Lowering(b)' \/ LevelOf(ks', b) >= acked'[b]
        BY <1>0, <1>12, <2>1 DEF AutoProcess, InMemory, Doing, Lowering, Resumes, Underway,
            KillLevel, Normal, Pause, Quarantine, KillAll
    <2>3. ASSUME NEW t \in Actor, Doing(t)', req'[t].op # "resume"
          PROVE  /\ req'[t].level = KillAll => ks'.platform_level = KillAll
                 /\ \/ t = "auto" /\ req'[t].agent \in lifted'
                    \/ LevelOf(ks', req'[t].agent) >= req'[t].level
        <3>1. CASE t = "auto"
            BY <1>12, <2>1, <2>3, <3>1 DEF AutoProcess, TypeOK, Request
        <3>2. CASE t # "auto"
            <4>1. Doing(t) /\ req'[t] = req[t]
                BY <1>12, <2>3, <3>2 DEF AutoProcess, Doing, TypeOK
            <4>2. req[t].op # "resume" /\ (req[t].level = KillAll => ks'.platform_level = KillAll)
                BY <2>1, <2>3, <4>1 DEF InMemory
            <4>3. (t = "auto" /\ req[t].agent \in lifted') \/ LevelOf(ks, req[t].agent) >= req[t].level
                BY <1>12, <3>2, <4>1, <4>2 DEF AutoProcess, InMemory
            <4> QED
                BY <1>0, <2>1, <4>1, <4>2, <4>3 DEF KillLevel, Normal, Pause, Quarantine, KillAll
        <3> QED
            BY <3>1, <3>2
    <2> QED
        BY <2>2, <2>3 DEF InMemory
<1>13. CASE AutoCount
    BY <1>13 DEF AutoCount, InMemory, Doing, Lowering, Resumes, Underway
<1>14. CASE AutoEscalate
    <2>0. /\ req'["auto"].level \in KillLevel /\ req["auto"].agent \in Agent
          /\ ks' = IF req'["auto"].level = KillAll THEN ActivateKillAll(ks)
                   ELSE ActivateAgent(ks, req["auto"].agent, req'["auto"].level)
        BY <1>0, <1>14 DEF AutoEscalate, RequestsFit, KillLevel, Normal, Pause, Quarantine,
            KillAll, TypeOK, Request
    <2>1. /\ \A b \in Agent : LevelOf(ks', b) >= LevelOf(ks, b) /\ LevelOf(ks', b) \in KillLevel
          /\ LevelOf(ks', req["auto"].agent) >= req'["auto"].level
          /\ ks.platform_level = KillAll => ks'.platform_level = KillAll
          /\ req'["auto"].level = KillAll => ks'.platform_level = KillAll
        BY <1>0, <2>0, RaiseEffects
    <2>2. \A b \in Agent : Lowering(b)' \/ LevelOf(ks', b) >= acked'[b]
        BY <1>0, <1>14, <2>1 DEF AutoEscalate, InMemory, Doing, Lowering, Resumes, Underway,
            KillLevel, Normal, Pause, Quarantine, KillAll
    <2>3. ASSUME NEW t \in Actor, Doing(t)', req'[t].op # "resume"
          PROVE  /\ req'[t].level = KillAll => ks'.platform_level = KillAll
                 /\ \/ t = "auto" /\ req'[t].agent \in lifted'
                    \/ LevelOf(ks', req'[t].agent) >= req'[t].level
        <3>1. CASE t = "auto"
            BY <1>14, <2>1, <2>3, <3>1 DEF AutoEscalate, TypeOK, Request
        <3>2. CASE t # "auto"
            <4>1. Doing(t) /\ req'[t] = req[t]
                BY <1>14, <2>3, <3>2 DEF AutoEscalate, Doing, TypeOK
            <4>2. req[t].op # "resume" /\ (req[t].level = KillAll => ks'.platform_level = KillAll)
                BY <2>1, <2>3, <4>1 DEF InMemory
            <4>3. (t = "auto" /\ req[t].agent \in lifted') \/ LevelOf(ks, req[t].agent) >= req[t].level
                BY <1>14, <3>2, <4>1, <4>2 DEF AutoEscalate, InMemory
            <4> QED
                BY <1>0, <2>1, <4>1, <4>2, <4>3 DEF KillLevel, Normal, Pause, Quarantine, KillAll
        <3> QED
            BY <3>1, <3>2
    <2> QED
        BY <2>2, <2>3 DEF InMemory
<1>15. CASE Disconnect
    BY <1>15 DEF Disconnect, InMemory, Doing, Lowering, Resumes, Underway, TypeOK
<1>16. CASE DedupExpire
    BY <1>16 DEF DedupExpire, InMemory, Doing, Lowering, Resumes, Underway
<1>17. ASSUME NEW t \in Actor, Conclude(t)
      PROVE  InMemory'
    <2>1. CASE SyncRead(t)
        BY <1>17, <2>1 DEF SyncRead, InMemory, Doing, Lowering, Resumes, Underway, TypeOK
    <2>2. CASE SyncApply(t)
        BY <1>17, <2>2 DEF SyncApply, InMemory, Doing, Lowering, Resumes, Underway, TypeOK
    <2>3. CASE PersistRead(t)
        BY <1>17, <2>3 DEF PersistRead, InMemory, Doing, Lowering, Resumes, Underway, TypeOK
    <2>4. CASE PersistClear(t)
        BY <1>17, <2>4 DEF PersistClear, InMemory, Doing, Lowering, Resumes, Underway, TypeOK
    <2>5. CASE PersistOpen(t)
        BY <1>17, <2>5 DEF PersistOpen, InMemory, Doing, Lowering, Resumes, Underway, TypeOK
    <2>6. CASE PersistWrite(t)
        BY <1>17, <2>6 DEF PersistWrite, InMemory, Doing, Lowering, Resumes, Underway, TypeOK
    <2>7. CASE PersistRename(t)
        BY <1>17, <2>7 DEF PersistRename, InMemory, Doing, Lowering, Resumes, Underway, TypeOK
    <2>8. CASE PersistFail(t)
        BY <1>17, <2>8 DEF PersistFail, InMemory, Doing, Lowering, Resumes, Underway, TypeOK
    <2>9. CASE Cleanup(t)
        BY <1>17, <2>9 DEF Cleanup, InMemory, Doing, Lowering, Resumes, Underway, TypeOK
    <2>10. CASE Report(t)
        <3>1. ASSUME NEW a \in Agent
              PROVE  Lowering(a)' \/ LevelOf(ks, a) >= acked'[a]
            <4>1. acked'[a] = Reported(req[t], a) /\ Doing(t)
                BY <2>10 DEF Report, Doing
            <4>2. CASE Resumes(t, a)
                BY <1>0, <4>1, <4>2
                DEF Reported, Resumes, KillLevel, Normal, Pause, Quarantine, KillAll
            <4>3. CASE ~Resumes(t, a) /\ acked'[a] = acked[a]
                BY <2>10, <4>3 DEF Report, InMemory, Lowering, Resumes, RequestsFit, TypeOK
            <4>4. CASE ~Resumes(t, a) /\ acked'[a] # acked[a]
                <5>1. /\ acked'[a] = req[t].level /\ req[t].op # "resume"
                      /\ req[t].level = KillAll
                         \/ (a = req[t].agent /\ ~(req[t].op = "trigger" /\ a \in lifted))
                    BY <4>1, <4>4 DEF Reported, Resumes
                <5>2. t = "auto" => req[t].op = "trigger"
                    BY <2>10 DEF RequestsFit, Report
                <5> QED
                    BY <1>0, <4>1, <5>1, <5>2 DEF InMemory, LevelOf, Check, KillAll
            <4> QED
                BY <4>2, <4>3, <4>4
        <3> QED
            BY <1>17, <2>10, <3>1 DEF Report, InMemory, Doing, TypeOK
    <2> QED
        BY <1>17, <2>1, <2>2, <2>3, <2>4, <2>5, <2>6, <2>7, <2>8, <2>9, <2>10 DEF Conclude,
            Persist
<1>18. CASE UNCHANGED vars
    BY <1>18 DEF vars, InMemory, Doing, Lowering, Resumes, Underway
<1> QED
    BY <1>1, <1>2, <1>3, <1>4, <1>5, <1>6, <1>7, <1>8, <1>9, <1>10, <1>11, <1>12, <1>13, <1>14,
        <1>15, <1>16, <1>17, <1>18 DEF Next, ApiStep, AutoStep

\* Up to the first overlap this follows from what is on disk.
LEMMA AloneInMemory ==
    CommonInv /\ TurnInv => InMemory
PROOF
<1> SUFFICES ASSUME CommonInv, TurnInv PROVE InMemory
    OBVIOUS
<1>1. ASSUME NEW a \in Agent
      PROVE  Lowering(a) \/ LevelOf(ks, a) >= acked[a]
    <2>1. CASE Lowering(a)
        BY <2>1
    <2> SUFFICES ASSUME ~Lowering(a)
                 PROVE  LevelOf(ks, a) >= acked[a]
        BY <2>1
    <2>2. LevelOf(Load(path).ks, a) >= acked[a]
        BY DEF TurnInv, DiskDurable, Resumes, Lowering
    <2>3. CASE \A t \in Actor : pc[t] \notin Underway
        <3>1. Load(path).ks = ks
            BY <2>3 DEF TurnInv, DiskKeeps, Before, Current, Actor, CommonInv, RequestsFit
        <3> QED
            BY <2>2, <3>1
    <2>4. ASSUME NEW t \in Actor, pc[t] \in Underway
          PROVE  LevelOf(ks, a) >= acked[a]
        <3>1. Load(path).ks = prev[t].ks
            BY <2>4 DEF TurnInv, DiskKeeps, Before
        <3>2. ~Resumes(t, a)
            BY <2>4 DEF Lowering, Resumes, CommonInv, RequestsFit, Actor
        <3>3. LevelOf(ks, a) >= LevelOf(prev[t].ks, a)
            BY <2>4, <3>2 DEF TurnInv, MutationRaises
        <3>4. /\ LevelOf(ks, a) \in KillLevel /\ LevelOf(prev[t].ks, a) \in KillLevel
              /\ acked[a] \in KillLevel
            BY LevelEffects DEF CommonInv, TypeOK, Snapshot
        <3> QED
            BY <2>2, <3>1, <3>3, <3>4 DEF KillLevel, Normal, Pause, Quarantine, KillAll
    <2> QED
        BY <2>3, <2>4
<1> QED
    BY <1>1 DEF TurnInv, Applied, Doing, InMemory

(* What a response or a broadcast has reported stays in force until a resume   *)
(* lifts it: no failing write, rollback or restart undoes it up to the first    *)
(* overlap, and after one no step of either thread does but a rollback or a      *)
(* restart.  The violation of LevelsNeverDrop takes both.                       *)
THEOREM ReportsAreInForce == Spec => []ReportedInForce
PROOF
<1>1. CommonInv /\ (Alone => TurnInv) => (Alone => InMemory)
    BY AloneInMemory
<1>2. Init => (~undone => InMemory)
    BY CommonInit, TurnInit, AloneInMemory
<1>3. CommonInv /\ (Alone => InMemory)' /\ (~undone => InMemory) /\ [Next]_vars
        => (~undone => InMemory)'
    <2> SUFFICES ASSUME CommonInv, Alone' => InMemory', ~undone => InMemory, [Next]_vars, ~undone'
                 PROVE  InMemory'
        OBVIOUS
    <2>1. CASE CrashRestart \/ \E t \in Actor : Rollback(t)
        BY <2>1 DEF CrashRestart, Rollback, Alone
    <2>2. CASE ~CrashRestart /\ \A t \in Actor : ~Rollback(t)
        BY <2>2, UndoneStays, InMemoryStep DEF CommonInv
    <2> QED
        BY <2>1, <2>2
<1>4. CommonInv /\ (~undone => InMemory) => ReportedInForce
    <2> SUFFICES ASSUME CommonInv, InMemory, NEW a \in Agent, ~Lifting(a)
                 PROVE  Check(ks, flag, a) >= acked[a]
        BY DEF ReportedInForce, LevelsNeverDrop
    <2>1. Check(ks, flag, a) = LevelOf(ks, a)
        BY DEF CommonInv, FlagIsLevel, Check, LevelOf
    <2>2. ~Lowering(a)
        BY DEF Lifting, Lowering, Resumes, Underway
    <2> QED
        BY <2>1, <2>2 DEF InMemory
<1> QED
    BY <1>1, <1>2, <1>3, <1>4, SafetyAlone, PTL DEF Spec

(* What was reported would survive a crash now: kill_state.json, or safe       *)
(* mode, enforces it, up to the first overlap.                                 *)
THEOREM ReportsAreDurable == Spec => []ReportedDurable
PROOF
<1>1. (Alone => TurnInv) => ReportedDurable
    BY DEF TurnInv, DiskDurable, ReportedDurable, Resumes, Lifting, LevelOf
<1> QED
    BY <1>1, SafetyAlone, PTL

(* A kill_all that was reported has closed the distributed gate: up to the first *)
(* overlap no rollback of a later request and no restart opens it.              *)
THEOREM ReportedKillsHold == Spec => []ReportedKillHoldsGate
PROOF
<1>1. (Alone => TurnInv) => ReportedKillHoldsGate
    BY DEF TurnInv, GateHeld, ReportedKillHoldsGate
<1> QED
    BY <1>1, SafetyAlone, PTL

(* Between requests the withdrawn access is that of the levels in force, after  *)
(* rollbacks and restarts too, up to the first overlap.                        *)
THEOREM AccessIsWithdrawn == Spec => []AccessFollowsLevel
PROOF
<1>1. (Alone => TurnInv) => AccessFollowsLevel
    BY DEF TurnInv, AccessKept, AccessFollowsLevel, Quiet, Waiting
<1> QED
    BY <1>1, SafetyAlone, PTL

(* T6: up to the first overlap a quarantine trigger handled to its end leaves    *)
(* no cascade due on a platform that has not been killed.                       *)
THEOREM CascadeIsComplete == Spec => CascadeComplete
PROOF
<1>1. CommonInv /\ (Alone => TurnInv) /\ [Next]_vars =>
        [Alone /\ pc["auto"] = "done" /\ pc'["auto"] # "done"
             /\ ClassifyTrigger(req["auto"].kind) = Quarantine /\ CascadeDue(ks)
          => ks.platform_level = KillAll]_vars
    BY DEF TurnInv, CascadeDone
<1> QED
    BY <1>1, SafetyAlone, PTL DEF Spec, CascadeComplete
==============================================================================
