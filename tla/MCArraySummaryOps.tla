-------------------------- MODULE MCArraySummaryOps --------------------------
EXTENDS ArraySummaryOps

MCDeltas == {-2, 0, 2}

MCPhases == {PhaseRunning, PhaseSuccess, PhaseRetryableFailure}

\* Every summary over MCPhases with counts 0..2.
MCOthers ==
  UNION { [D -> 0..2] : D \in SUBSET MCPhases }
================================================================================
