-------------------------- MODULE InterventionOps --------------------------
(***************************************************************************)
(* The per-agent intervention state of the convergence monitor as a value, *)
(* and the operations of InterventionStateMachine on it                    *)
(* (convergence-monitor/src/intervention/trigger.rs).                      *)
(*                                                                         *)
(* Times are clock values; a cooldown of 0 stands for None.  The counter   *)
(* consecutive_normal is only ever compared with 2 or 3, so it saturates   *)
(* at MaxNormal.  de_escalation_credits is stored and never used: left out *)
(***************************************************************************)
EXTENDS Integers

CONSTANTS Pause2, Pause3, Pause4   \* 5 minutes, 4 hours, 24 hours

ASSUME PauseAssumption == Pause2 \in Nat /\ Pause3 \in Nat /\ Pause4 \in Nat

Level == 0..4
MaxNormal == 3

AgentState == [level: Level, normal: 0..MaxNormal, cooldown: Nat,
               ack: BOOLEAN, hyst: 0..1]

DefaultState == [level |-> 0, normal |-> 0, cooldown |-> 0,
                 ack |-> FALSE, hyst |-> 0]

OneMoreNormal(n) == IF n < MaxNormal THEN n + 1 ELSE n

\* action_for_escalation: level 2 demands an acknowledgement, levels 2 to 4
\* start a cooldown, level 1 only notifies.
Escalated(s, new, now) ==
    [level    |-> new,
     normal   |-> 0,
     hyst     |-> 0,
     ack      |-> IF new = 2 THEN TRUE ELSE s.ack,
     cooldown |-> CASE new = 2 -> now + Pause2
                    [] new = 3 -> now + Pause3
                    [] new = 4 -> now + Pause4
                    [] OTHER   -> s.cooldown]

\* At most one level per cycle.
NextLevel(level) == IF level < 4 THEN level + 1 ELSE 4

\* InterventionStateMachine::evaluate for a score of the given level.
Evaluate(s, target, now) ==
    LET t == [s EXCEPT !.cooldown = 0]
    IN  CASE now < s.cooldown -> s
          [] now >= s.cooldown /\ s.ack -> t
          [] now >= s.cooldown /\ ~s.ack /\ target > s.level ->
               IF s.hyst = 1 THEN Escalated(t, NextLevel(s.level), now)
                             ELSE [t EXCEPT !.hyst = 1]
          [] now >= s.cooldown /\ ~s.ack /\ target <= s.level ->
               [t EXCEPT !.hyst = 0,
                         !.normal = IF target < s.level THEN OneMoreNormal(s.normal) ELSE 0]

\* Sessions required to leave a level.
Required(level) == IF level >= 3 THEN 3 ELSE 2

\* One level down, and whatever was to be acknowledged is no longer asked for.
Lowered(s) == [s EXCEPT !.level = s.level - 1, !.normal = 0, !.ack = FALSE]

\* InterventionStateMachine::try_deescalate at the end of a session.
TryDeescalate(s, sessionWasNormal) ==
    CASE s.level = 0 -> s
      [] s.level > 0 /\ ~sessionWasNormal -> [s EXCEPT !.normal = 0]
      [] s.level > 0 /\ sessionWasNormal ->
           IF s.normal + 1 >= Required(s.level)
           THEN Lowered(s)
           ELSE [s EXCEPT !.normal = s.normal + 1]

Acknowledge(s) == [s EXCEPT !.ack = FALSE]

ExpireEveryCooldown(s, now) == [s EXCEPT !.cooldown = 0]

\* One entry of check_cooldowns.
ExpireCooldown(s, now) ==
    IF s.cooldown > 0 /\ now >= s.cooldown THEN [s EXCEPT !.cooldown = 0] ELSE s
=============================================================================
