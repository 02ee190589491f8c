----------------------------- MODULE MCSupervisor -----------------------------
(***************************************************************************)
(* An instance of Supervisor for TLC: a command that may start one child.  *)
(***************************************************************************)
EXTENDS Supervisor

CONSTANTS leader, child

TwoProcesses == {leader, child}
===============================================================================
