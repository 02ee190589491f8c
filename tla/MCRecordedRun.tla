----------------------------- MODULE MCRecordedRun -----------------------------
(***************************************************************************)
(* An instance of RecordedRun for TLC: a command that may start one child. *)
(***************************************************************************)
EXTENDS RecordedRun

CONSTANTS leader, child

TwoProcesses == {leader, child}

(* What processes do under a dead supervisor answers no liveness question:  *)
(* it stays dead.                                                           *)
SupervisorLives == pc # "dead"
===============================================================================
