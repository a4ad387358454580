CONSTANTS
  PodSpace <- MCPodSpace
  Templates <- MCTemplates
  Now = 4
  TimeoutSet = TRUE

SPECIFICATION Spec
INVARIANT NoPanic
