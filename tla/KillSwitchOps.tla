---------------------------- MODULE KillSwitchOps ----------------------------
(***************************************************************************)
(* The gateway's kill switch (ghost-gateway/src/safety/kill_switch.rs): the  *)
(* value its RwLock protects and what one call does to it.  A level is its   *)
(* KillLevel discriminant, so that levels compare as in the code; an agent   *)
(* that has no entry in per_agent has level Normal.  Timestamps and trigger  *)
(* texts are left out, and so is lock poisoning.                             *)
(***************************************************************************)
EXTENDS Naturals, FiniteSets

CONSTANTS Agent,
          CascadeThreshold  \* how many quarantined agents T6 tolerates (3 in the code)

ASSUME AgentAssumption == IsFiniteSet(Agent) /\ Agent # {}
ASSUME CascadeAssumption == CascadeThreshold \in Nat \ {0}

Normal == 0
Pause == 1
Quarantine == 2
KillAll == 3
KillLevel == {Normal, Pause, Quarantine, KillAll}

\* KillSwitchState.  per_agent never holds KillAll: every caller of
\* activate_agent passes Pause or Quarantine.
KillSwitchState == [platform_level : {Normal, KillAll},
                    per_agent : [Agent -> {Normal, Pause, Quarantine}]]

DefaultState == [platform_level |-> Normal, per_agent |-> [a \in Agent |-> Normal]]

\* activate_agent: an equal or lower level is ignored.
ActivateAgent(s, agent, level) ==
    IF level <= s.per_agent[agent] THEN s ELSE [s EXCEPT !.per_agent[agent] = level]

\* activate_kill_all, idempotent.
ActivateKillAll(s) == [s EXCEPT !.platform_level = KillAll]

QuarantinedAgents(s) == {a \in Agent : s.per_agent[a] = Quarantine}

\* The T6 test of AutoTriggerEvaluator::process.
CascadeDue(s) == Cardinality(QuarantinedAgents(s)) >= CascadeThreshold

\* classify_trigger: the level of each TriggerEvent variant.
ClassifyTrigger(kind) ==
    CASE kind \in {"SoulDrift", "PolicyDenialThreshold", "MemoryHealthCritical",
                   "ManualQuarantine", "NetworkEgressViolation"} -> Quarantine
      [] kind \in {"SpendingCapExceeded", "ManualPause"} -> Pause
      [] kind \in {"SandboxEscape", "CredentialExfiltration", "MultiAgentQuarantine",
                   "ManualKillAll", "DistributedKillGate"} -> KillAll

\* is_clear_safety_state: nothing to persist.
IsClear(s) == s = DefaultState

\* AgentRegistry::sync_access_pullbacks: whose access a kill state withdraws.
PulledBack(s) ==
    IF s.platform_level = KillAll THEN Agent ELSE QuarantinedAgents(s)
==============================================================================
