-------------------------- MODULE MCOutputAssembler --------------------------
EXTENDS OutputAssembler

\* The Detailed arrays the array job of ArrayJob decides on: output
\* assembly (WriteToDiscovery) with every subtask terminal or Undefined
\* (skipped while waiting for a token); error assembly
\* (WriteToDiscoveryThenFail) may leave some running.
MCFinalPhaseSet ==
  [k \in Kinds |->
     IF k = "outputs"
     THEN {PhaseUndefined, PhaseSuccess, PhaseRetryableFailure, PhasePermanentFailure}
     ELSE {PhaseUndefined, PhaseSuccess, PhaseRunning, PhaseRetryableFailure,
           PhasePermanentFailure}]
================================================================================
