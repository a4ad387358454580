\* The spec's [S, F, S] array with two successes needed: it may end in
\* WriteToDiscovery, WriteToDiscoveryThenFail or PermanentFailure.
CONSTANTS
  N = 3
  MinSuccesses = 2
  Recordable <- MCRecordable
  VarNames = {x, y}
  MaxRetries = 2
  MaxEvictions = 1
  MaxRestarts = 1

SPECIFICATION Spec
INVARIANT TypeOK
INVARIANT CombinedOutputsInOrder
PROPERTY ExecutionCompletes
