--------------------------- MODULE MCArrayExecution ---------------------------
EXTENDS ArrayExecution

\* Running stands for every non-terminal phase: none of the later steps
\* tells Queued, Initializing or Running apart.
MCRecordable == {PhaseUndefined, PhaseRunning, PhaseSuccess,
                 PhaseRetryableFailure, PhasePermanentFailure}
================================================================================
