\* Two subtasks that must both succeed, two tokens, one of which another
\* execution may take, so a subtask can be denied its token.  One pod may
\* be deleted behind the array's back, also between Launch and the read,
\* and the maximum size 1 makes the array too large.
CONSTANTS
  N = 2
  OriginalArraySize = 2
  OriginalMinSuccesses = 2
  MaxArrayJobSizes = {1, 2}
  ResourceCap = 2
  MaxOtherGrants = 1
  PodStates <- MCPodStates
  InitialPod <- MCScheduling
  MaxDeletions = 1
  TimeoutSet = TRUE

SPECIFICATION Spec
INVARIANT TypeOK
INVARIANT SummaryConsistent
INVARIANT LivePodHoldsToken
PROPERTY ImplementsArrayJobSafety
