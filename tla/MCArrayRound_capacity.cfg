\* Two subtasks of which one must succeed, two tokens, and another
\* execution that takes a token as soon as one is free.
CONSTANTS
  N = 2
  OriginalArraySize = 2
  OriginalMinSuccesses = 1
  MaxArrayJobSizes = {2}
  ResourceCap = 2
  MaxOtherGrants = 1
  PodStates <- MCPodStates
  InitialPod <- MCScheduling
  MaxDeletions = 0
  TimeoutSet = TRUE

SPECIFICATION Spec
INVARIANT LivePodsWithinCapacity
