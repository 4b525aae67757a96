---------------------------- MODULE MCMonitorLink ----------------------------
(***************************************************************************)
(* MonitorLink for TLC: the bridge and the reaper, two recoveries at once.  *)
(***************************************************************************)
EXTENDS MonitorLink

\* The first event leaves no room for another one.
EventSize == <<2, 1, 1>>
==============================================================================
