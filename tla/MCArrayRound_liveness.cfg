\* The world of MCArrayRound.cfg without external pod deletions, which
\* only end subtasks sooner and make the liveness check much larger.  One
\* subtask was a catalog cache hit and one success was required, so the
\* minimum left for the two subtasks that run is 0 (monitor.go:130).
CONSTANTS
  N = 2
  OriginalArraySize = 3
  OriginalMinSuccesses = 1
  MaxArrayJobSizes = {1, 2}
  ResourceCap = 2
  MaxOtherGrants = 1
  PodStates <- MCPodStates
  InitialPod <- MCScheduling
  MaxDeletions = 0
  TimeoutSet = TRUE

SPECIFICATION Spec
PROPERTY ArrayDecided
PROPERTY TerminalTokenReleased
