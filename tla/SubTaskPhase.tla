----------------------------- MODULE SubTaskPhase -----------------------------
(***************************************************************************)
(* The closed set of subtask phases (pluginmachinery/core Phase, spec     *)
(* section 4.1) and the predicates the array code asks of a phase.  The   *)
(* phases are numbered in the order the spec lists them: the reconciliation*)
(* loop multiplies these codes into the phase version (monitor.go:141).   *)
(***************************************************************************)
EXTENDS Naturals

PhaseUndefined           == 0
PhaseWaitingForResources == 1
PhaseQueued              == 2
PhaseInitializing        == 3
PhaseRunning             == 4
PhaseSuccess             == 5
PhaseRetryableFailure    == 6
PhasePermanentFailure    == 7

Phase == 0..7

IsTerminal(p) == p \in {PhaseSuccess, PhaseRetryableFailure, PhasePermanentFailure}
IsSuccess(p)  == p = PhaseSuccess
IsFailure(p)  == p \in {PhaseRetryableFailure, PhasePermanentFailure}
================================================================================
