------------------------- MODULE ConvergenceMonitor -------------------------
(***************************************************************************)
(* The convergence monitor (convergence-monitor/src/monitor.rs): one event *)
(* loop that ingests session events, scores the agents, intervenes, serves *)
(* operator requests, and keeps what it decided in SQLite so that a        *)
(* restart continues from there.                                           *)
(*                                                                         *)
(* The loop runs one handler at a time, so every action is a whole         *)
(* handler.  What makes it hard is the order of the handlers, writes that  *)
(* fail (each is logged and the handler goes on), and restarts, whose      *)
(* reads may fail (each is logged and the restart goes on without).        *)
(*                                                                         *)
(* Scores are abstracted to their level: signals and weights are floating  *)
(* point, and the environment chooses them.  Whether a cached score is     *)
(* younger than its 30 seconds is the environment's choice too.  An event  *)
(* that is rejected by validation or rate limiting, or whose own row cannot*)
(* be written, is dropped before it has any effect.                        *)
(***************************************************************************)
EXTENDS InterventionOps, FiniteSets, Sequences

CONSTANTS
    Agent, Actor,
    Session, Owner,   \* sessions, and the agent each belongs to
    BaseLevel,        \* the levels score_to_level produces
    Threshold,        \* candidate values of critical_override_threshold
    ThresholdFloor,   \* CooldownManager::threshold_floor
    DefaultThreshold, \* the configured value
    Calibration,      \* calibration_sessions
    DualKeyTtl,
    MaxTime, MaxFaults, MaxProposals

ASSUME MonitorAssumption ==
    /\ IsFiniteSet(Agent)
    /\ Owner \in [Session -> Agent]
    /\ BaseLevel \subseteq Level /\ BaseLevel # {}
    /\ Threshold \subseteq Nat /\ DefaultThreshold \in Threshold
    /\ ThresholdFloor \in Nat /\ ThresholdFloor <= DefaultThreshold
    /\ Calibration \in Nat /\ DualKeyTtl \in Nat
    /\ MaxTime \in Nat \ {0} /\ MaxFaults \in Nat /\ MaxProposals \in Nat

NoScore == -1
NoChange == [token |-> 0]

VARIABLES
    st,        \* per agent: the intervention state in memory
    cache,     \* per agent: level of the cached score, or NoScore
    calib,     \* per agent: sessions counted, saturating at Calibration
    active,    \* SessionRegistry: the active sessions
    locked,    \* CooldownManager::config_locked
    threshold, \* critical_override_threshold in memory
    pending,   \* pending_dual_key_change
    row, score, starts, thresholdRow,   \* the database
    now, faults, \* the clock; errors of the database so far
    proposals,   \* history: every dual-key change ever initiated, by token
    twoKey,      \* history: values two different actors agreed on
    hist         \* history per agent, see Hist

memory == <<st, cache, calib, active, locked, threshold, pending>>
disk == <<row, score, starts, thresholdRow>>
vars == <<memory, disk, now, faults, proposals, twoKey, hist>>

\* due: no escalation before this time; hot: consecutive cycles above the level
\* since the last escalation (on a restart, as many as the row says); owed: an
\* acknowledgement is outstanding; dirty: the last write of the state failed, or the
\* last start could not read it; lost: a restart forgot what was decided.
Hist == [due: Nat, hot: Nat, owed: BOOLEAN, dirty: BOOLEAN, lost: BOOLEAN]

Change == [token: 1..MaxProposals, initiator: Actor, current: Threshold,
           proposed: Threshold, expires: Nat]

TypeOK ==
    /\ st \in [Agent -> AgentState]
    /\ cache \in [Agent -> Level \cup {NoScore}]
    /\ calib \in [Agent -> 0..Calibration]
    /\ active \subseteq Session
    /\ locked \in BOOLEAN
    /\ threshold \in Threshold
    /\ pending \in Change \cup {NoChange}
    /\ row \in [Agent -> AgentState]
    /\ score \in [Agent -> Level \cup {NoScore}]
    /\ starts \in [Agent -> 0..Calibration]
    /\ thresholdRow \in Threshold
    /\ now \in 1..MaxTime /\ faults \in 0..MaxFaults
    /\ proposals \in Seq([initiator: Actor, proposed: Threshold]) /\ Len(proposals) <= MaxProposals
    /\ twoKey \subseteq Threshold
    /\ hist \in [Agent -> Hist]

Init ==
    /\ st = [a \in Agent |-> DefaultState]
    /\ cache = [a \in Agent |-> NoScore]
    /\ calib = [a \in Agent |-> 0]
    /\ active = {}
    /\ locked = FALSE
    /\ threshold = DefaultThreshold
    /\ pending = NoChange
    /\ row = [a \in Agent |-> DefaultState]
    /\ score = [a \in Agent |-> NoScore]
    /\ starts = [a \in Agent |-> 0]
    /\ thresholdRow = DefaultThreshold
    /\ now = 1 /\ faults = 0
    /\ proposals = <<>> /\ twoKey = {}
    /\ hist = [a \in Agent |-> [due |-> 0, hot |-> 0, owed |-> FALSE,
                                dirty |-> FALSE, lost |-> FALSE]]

OneMoreSession(n) == IF n < Calibration THEN n + 1 ELSE n

\* The writes of one handler fail independently of each other.
Fails(f) == faults + Cardinality(f) <= MaxFaults /\ faults' = faults + Cardinality(f)

\* compute_score: a critical single signal lifts the level to at least 2.
ComputedLevel(base, signal) == IF signal > threshold /\ base < 2 THEN 2 ELSE base
ComputedLevels == {ComputedLevel(b, g) : b \in BaseLevel, g \in Threshold}

\* Steps 7-9: a fresh cache entry is used, otherwise the score is computed.
ScoreLevels(a) == ComputedLevels \cup ({cache[a]} \ {NoScore})

\* History kept beside a new intervention state of an agent.  cycle: the score
\* was above the level ("hot") or not ("cool"), or there was no evaluation;
\* wrote: the write of the row succeeded ("ok") or "failed", or was not tried.
NoteState(h, old, new, cycle, wrote) ==
    [due   |-> IF new.level > old.level /\ new.level >= 2 THEN new.cooldown ELSE h.due,
     hot   |-> CASE cycle = "hot"  -> IF new.level > old.level THEN 0 ELSE h.hot + 1
                 [] cycle = "cool" -> 0
                 [] OTHER          -> h.hot,
     owed  |-> CASE new.level > old.level -> new.level = 2
                 [] new.level < old.level -> FALSE
                 [] OTHER                 -> h.owed,
     dirty |-> CASE wrote = "ok" -> FALSE [] wrote = "failed" -> TRUE [] OTHER -> h.dirty,
     lost  |-> h.lost]

PersistedWithoutAck(r, new, wrote) ==
    IF wrote = "ok" THEN [new EXCEPT !.ack = r.ack] ELSE r

\* persist_intervention_state: INSERT OR REPLACE of the whole row.
Persisted(r, new, wrote) == IF wrote = "ok" THEN new ELSE r

(***************************************************************************)
(* Steps 6-12 of handle_event, for the state s and the history h of the    *)
(* agent after step 5, with r as its row and c as its session count.       *)
(* evaluate decides whether there is an action to persist: it does only    *)
(* when it escalates.                                                      *)
(***************************************************************************)
ScoreAndEvaluate(a, s, h, r, c, f) ==
    IF c < Calibration
    THEN /\ st' = [st EXCEPT ![a] = s]
         /\ row' = [row EXCEPT ![a] = r]
         /\ hist' = [hist EXCEPT ![a] = h]
         /\ UNCHANGED <<cache, score>>
    ELSE \E target \in ScoreLevels(a) :
         LET new == Evaluate(s, target, now)
             acts == new.level > s.level
             paused == now < s.cooldown \/ s.ack
             wrote == IF ~acts THEN "no" ELSE IF "state" \in f THEN "failed" ELSE "ok"
         IN  /\ st' = [st EXCEPT ![a] = new]
             /\ cache' = [cache EXCEPT ![a] = target]
             /\ score' = [score EXCEPT ![a] = IF "score" \in f THEN @ ELSE target]
             /\ row' = [row EXCEPT ![a] = Persisted(r, new, wrote)]
             /\ hist' = [hist EXCEPT ![a] =
                    NoteState(h, s, new,
                        IF paused THEN "no" ELSE IF target > s.level THEN "hot" ELSE "cool",
                        wrote)]

(***************************************************************************)
(* handle_event for SessionStart.  A session that is already active for    *)
(* the agent is ignored (but its event is stored, and is counted on the    *)
(* next restart); otherwise the agent's other sessions are closed.         *)
(***************************************************************************)
SessionStart(s, f) == LET a == Owner[s] IN
    /\ f \subseteq {"score", "state"} /\ Fails(f)
    /\ starts' = [starts EXCEPT ![a] = OneMoreSession(@)]
    /\ UNCHANGED <<threshold, pending, thresholdRow, now, proposals, twoKey>>
    /\ \/ /\ s \in active
          /\ f = {}
          /\ UNCHANGED <<st, cache, calib, active, locked, row, score, hist>>
       \/ /\ s \notin active
          /\ active' = {t \in active : Owner[t] # a} \cup {s}
          /\ calib' = [calib EXCEPT ![a] = OneMoreSession(@)]
          /\ locked' = TRUE
          /\ ScoreAndEvaluate(a, st[a], hist[a], row[a], OneMoreSession(calib[a]), f)

UnlockAfterAnyEnd(remaining) == FALSE

\* The configuration is unlocked once no session is active.
LockAfter(remaining) == locked /\ remaining # {}

(***************************************************************************)
(* handle_event for SessionEnd: nothing checks that the session is active. *)
(* A session is normal if the cached level, 0 without one, is below the    *)
(* agent's; then the same event is scored and evaluated like any other.    *)
(***************************************************************************)
SessionEnd(s, f) == LET a == Owner[s] IN
    /\ f \subseteq {"deescalation", "score", "state"} /\ Fails(f)
    /\ active' = active \ {s}
    /\ locked' = LockAfter(active \ {s})
    /\ UNCHANGED <<calib, threshold, pending, starts, thresholdRow, now, proposals, twoKey>>
    /\ LET cached == IF cache[a] = NoScore THEN 0 ELSE cache[a]
           new == TryDeescalate(st[a], cached < st[a].level)
           fell == new.level < st[a].level
           wrote == IF ~fell THEN "no" ELSE IF "deescalation" \in f THEN "failed" ELSE "ok"
       IN  ScoreAndEvaluate(a, new,
               NoteState(hist[a], st[a], new, "no", wrote),
               Persisted(row[a], new, wrote), calib[a], f)

\* handle_event for the three kinds that only feed the signals.
Message(a, f) ==
    /\ f \subseteq {"score", "state"} /\ Fails(f)
    /\ UNCHANGED <<calib, active, locked, threshold, pending, starts, thresholdRow,
                   now, proposals, twoKey>>
    /\ ScoreAndEvaluate(a, st[a], hist[a], row[a], calib[a], f)

\* handle_monitor_request, Acknowledge.
AcknowledgeRequest(a, f) ==
    /\ f \subseteq {"state"} /\ Fails(f)
    /\ st[a].level = 2 /\ st[a].ack
    /\ LET new == Acknowledge(st[a])
           wrote == IF f = {} THEN "ok" ELSE "failed"
       IN  /\ st' = [st EXCEPT ![a] = new]
           /\ row' = [row EXCEPT ![a] = Persisted(@, new, wrote)]
           /\ hist' = [hist EXCEPT ![a] = [NoteState(@, st[a], new, "no", wrote)
                                            EXCEPT !.owed = FALSE]]
    /\ UNCHANGED <<cache, calib, active, locked, threshold, pending, score, starts,
                   thresholdRow, now, proposals, twoKey>>

(***************************************************************************)
(* apply_threshold_change: memory first, then the cache is dropped, then   *)
(* the row is written; an error is reported, and the value stays.          *)
(***************************************************************************)
ApplyThreshold(to, f) ==
    IF to = threshold
    THEN f = {} /\ UNCHANGED <<threshold, cache, thresholdRow>>
    ELSE /\ threshold' = to
         /\ cache' = [a \in Agent |-> NoScore]
         /\ thresholdRow' = IF "threshold" \in f THEN thresholdRow ELSE to

\* handle_monitor_request, ThresholdChange with the right current value: a
\* lowering is critical and waits for a second actor; the lock is not asked.
ProposeThreshold(actor, to, f) ==
    /\ f \subseteq {"threshold"} /\ Fails(f)
    /\ to >= ThresholdFloor
    /\ pending = NoChange
    /\ \/ /\ to < threshold
          /\ f = {}
          /\ Len(proposals) < MaxProposals
          /\ pending' = [token |-> Len(proposals) + 1, initiator |-> actor,
                         current |-> threshold, proposed |-> to,
                         expires |-> now + DualKeyTtl]
          /\ proposals' = Append(proposals, [initiator |-> actor, proposed |-> to])
          /\ UNCHANGED <<threshold, cache, thresholdRow>>
       \/ /\ to >= threshold
          /\ ApplyThreshold(to, f)
          /\ UNCHANGED <<pending, proposals>>
    /\ UNCHANGED <<st, calib, active, locked, row, score, starts, now, twoKey, hist>>

MayConfirmAnyToken(p, token, actor) ==
    p # NoChange /\ now < p.expires /\ p.initiator # actor

\* confirm_dual_key_change hands out the pending change.
MayConfirm(p, token, actor) ==
    /\ p # NoChange /\ now < p.expires
    /\ p.initiator # actor
    /\ p.token = token

\* handle_monitor_request, ThresholdConfirm; an expired change is pruned.
ConfirmThreshold(actor, token, f) ==
    /\ f \subseteq {"threshold"} /\ Fails(f)
    /\ pending # NoChange
    /\ UNCHANGED <<st, calib, active, locked, row, score, starts, now, proposals, hist>>
    /\ \/ /\ now >= pending.expires
          /\ f = {}
          /\ pending' = NoChange
          /\ UNCHANGED <<threshold, cache, thresholdRow, twoKey>>
       \/ /\ MayConfirm(pending, token, actor)
          /\ pending' = NoChange
          /\ IF pending.current = threshold
             THEN ApplyThreshold(pending.proposed, f)
             ELSE f = {} /\ UNCHANGED <<threshold, cache, thresholdRow>>
          /\ twoKey' = IF proposals[token].initiator # actor
                       THEN twoKey \cup {proposals[token].proposed} ELSE twoKey

(***************************************************************************)
(* The minute tick: check_cooldowns (expired changes and cooldowns go, the *)
(* rows of those agents are written) and prune_stale_state (any sessions   *)
(* may have been idle too long).                                           *)
(***************************************************************************)
CooldownTick(stale, f) ==
    LET due == {a \in Agent : ExpireCooldown(st[a], now) # st[a]}
    IN  /\ f \subseteq due /\ Fails(f)
        /\ pending' = IF pending # NoChange /\ pending.expires <= now
                      THEN NoChange ELSE pending
        /\ st' = [a \in Agent |-> ExpireCooldown(st[a], now)]
        /\ row' = [a \in Agent |-> IF a \in due \ f THEN st'[a] ELSE row[a]]
        /\ hist' = [a \in Agent |->
                      NoteState(hist[a], st[a], st'[a], "no",
                          IF a \notin due THEN "no" ELSE IF a \in f THEN "failed" ELSE "ok")]
        /\ active' = active \ stale
        /\ locked' = LockAfter(active \ stale)
        /\ UNCHANGED <<cache, calib, threshold, score, starts, thresholdRow, now,
                       proposals, twoKey>>

\* handle_recalculate_all: every cached score is replaced, nothing else.
RecalculateAll ==
    /\ \E new \in [Agent -> ComputedLevels] :
          cache' = [a \in Agent |-> IF cache[a] = NoScore THEN NoScore ELSE new[a]]
    /\ UNCHANGED <<st, calib, active, locked, threshold, pending, disk, now, faults,
                   proposals, twoKey, hist>>

(***************************************************************************)
(* reconstruct_state, from the rows and scores on disk.  missed[a]: what   *)
(* of an agent the start does not get to see, because the database does    *)
(* not open, a query fails, or a row or its cooldown does not parse; the   *)
(* agent then starts fresh, at level 0.  noThreshold: the configured value *)
(* stays.                                                                  *)
(***************************************************************************)
Readable == {"state", "cooldown", "score", "starts"}

Restored(r, missed) ==
    IF "state" \in missed THEN DefaultState
    ELSE IF "cooldown" \in missed THEN [r EXCEPT !.cooldown = 0] ELSE r

Reconstruct(rows, scores, missed, noThreshold) ==
    /\ st' = [a \in Agent |-> Restored(rows[a], missed[a])]
    /\ cache' = [a \in Agent |-> IF "score" \in missed[a] THEN NoScore ELSE scores[a]]
    /\ calib' = [a \in Agent |-> IF "starts" \in missed[a] THEN 0 ELSE starts[a]]
    /\ threshold' = IF noThreshold THEN DefaultThreshold ELSE thresholdRow
    /\ active' = {}
    /\ locked' = FALSE
    /\ pending' = NoChange

\* Reads fail within the bound on errors.
Missable == IF faults < MaxFaults THEN Readable ELSE {}

\* One failing read may take any number of rows with it: it counts once.
MissedFaults(missed, noThreshold) ==
    IF noThreshold \/ \E a \in Agent : missed[a] # {} THEN 1 ELSE 0

NoteRestart(h, r, dirty, missed) ==
    [due   |-> h.due,
     hot   |-> Restored(r, missed).hyst,
     owed  |-> h.owed,
     dirty |-> dirty \/ "state" \in missed,
     lost  |-> h.lost \/ dirty \/ missed \cap {"state", "cooldown"} # {}]

\* The process dies between two handlers.
CrashRestart(missed, noThreshold) ==
    /\ faults' = faults + MissedFaults(missed, noThreshold) /\ faults' <= MaxFaults
    /\ Reconstruct(row, score, missed, noThreshold)
    /\ hist' = [a \in Agent |-> NoteRestart(hist[a], row[a], hist[a].dirty, missed[a])]
    /\ UNCHANGED <<disk, now, proposals, twoKey>>

\* flush_pending_scores on an orderly shutdown, for the agents with a cached
\* score, and the next start.  f, g: the agents whose state or score is not written.
ShutdownRestart(f, g, missed, noThreshold) ==
    LET flushed == {a \in Agent : cache[a] # NoScore}
        rows == [a \in Agent |-> IF a \in flushed \ f THEN st[a] ELSE row[a]]
        scores == [a \in Agent |-> IF a \in flushed \ g THEN cache[a] ELSE score[a]]
    IN  /\ f \subseteq flushed /\ g \subseteq flushed
        /\ faults' = faults + Cardinality(f) + Cardinality(g) + MissedFaults(missed, noThreshold)
        /\ faults' <= MaxFaults
        /\ row' = rows /\ score' = scores
        /\ Reconstruct(rows, scores, missed, noThreshold)
        /\ hist' = [a \in Agent |-> NoteRestart(hist[a], rows[a],
                        hist[a].dirty /\ a \notin flushed \ f, missed[a])]
        /\ UNCHANGED <<starts, thresholdRow, now, proposals, twoKey>>

Tick ==
    /\ now < MaxTime
    /\ now' = now + 1
    /\ UNCHANGED <<memory, disk, faults, proposals, twoKey, hist>>

Next ==
    \/ \E s \in Session, f \in SUBSET {"score", "state"} : SessionStart(s, f)
    \/ \E s \in Session, f \in SUBSET {"deescalation", "score", "state"} : SessionEnd(s, f)
    \/ \E a \in Agent, f \in SUBSET {"score", "state"} :
          Message(a, f) \/ AcknowledgeRequest(a, f)
    \/ \E x \in Actor, to \in Threshold, f \in SUBSET {"threshold"} : ProposeThreshold(x, to, f)
    \/ \E x \in Actor, k \in 1..Len(proposals), f \in SUBSET {"threshold"} :
          ConfirmThreshold(x, k, f)
    \/ \E stale \in SUBSET active, f \in SUBSET Agent : CooldownTick(stale, f)
    \/ RecalculateAll
    \/ \E missed \in [Agent -> SUBSET Missable], noThreshold \in BOOLEAN :
          \/ CrashRestart(missed, noThreshold)
          \/ \E f, g \in SUBSET Agent : ShutdownRestart(f, g, missed, noThreshold)
    \/ Tick

Spec == Init /\ [][Next]_vars

-----------------------------------------------------------------------------
(***************************************************************************)
(* Properties.                                                             *)
(***************************************************************************)

(* What the monitor decided would survive a restart that can read it:      *)
(* unless the last write of an agent's state failed or the last start      *)
(* could not read its row, the row has the level, the outstanding          *)
(* acknowledgement and the running cooldown that memory has.  A start that *)
(* cannot read the row falls to level 0, against the "never fall to L0" of *)
(* reconstruct_state.                                                      *)
DecisionsDurable ==
    \A a \in Agent : ~hist[a].dirty =>
        /\ row[a].level = st[a].level
        /\ row[a].ack = st[a].ack
        /\ now < st[a].cooldown => row[a].cooldown = st[a].cooldown

(* An agent escalates by one level, after two consecutive cycles above its *)
(* level, not during the cooldown of an earlier escalation and not before  *)
(* an owed acknowledgement, whatever came between: session ends, ticks,    *)
(* recalculations and restarts that lost nothing by a failed write or      *)
(* read.                                                                   *)
EscalatesWhenDue ==
    [][\A a \in Agent :
        (st'[a].level > st[a].level /\ ~hist[a].lost /\ ~hist'[a].lost) =>
            /\ st'[a].level = st[a].level + 1
            /\ hist[a].hot >= 1
            /\ now >= hist[a].due
            /\ ~hist[a].owed]_vars

(* A threshold in force, or that a restart would put in force, is never    *)
(* below both the configured one and every value on which two different    *)
(* actors agreed by the token of that very proposal, before it expired.    *)
TwoKeysToLower ==
    \A t \in {threshold, thresholdRow} :
        /\ t >= ThresholdFloor
        /\ \E v \in twoKey \cup {DefaultThreshold} : v <= t

(* The configuration is locked exactly while some session is active, over  *)
(* ends, late ends of sessions that another start of their agent has       *)
(* closed, pruning and restarts.                                           *)
LockFollowsSessions == locked <=> active # {}
=============================================================================
