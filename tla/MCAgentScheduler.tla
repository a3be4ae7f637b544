-------------------------- MODULE MCAgentScheduler --------------------------
(***************************************************************************)
(* A reminder and a cycle that both reach the person, and the bounds of the *)
(* configuration.                                                           *)
(***************************************************************************)
EXTENDS AgentScheduler

CONSTANTS reminder, cycle

MCTasks == {reminder, cycle}
MCOnce == {reminder}
MCEssential == {cycle}
=============================================================================
