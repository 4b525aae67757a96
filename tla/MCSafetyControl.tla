--------------------------- MODULE MCSafetyControl ---------------------------
(***************************************************************************)
(* SafetyControl for TLC: trigger variants by the level they lead to.        *)
(***************************************************************************)
EXTENDS SafetyControl

QuarantineTriggers == {"SoulDrift"}
EscalatingTriggers == {"SpendingCapExceeded", "SoulDrift"}
AllLevelTriggers == {"SpendingCapExceeded", "SoulDrift", "SandboxEscape"}
==============================================================================
