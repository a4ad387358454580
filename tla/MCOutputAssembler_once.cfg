CONSTANTS
  N = 3
  VarNames = {x, y}
  FinalPhaseSet <- MCFinalPhaseSet
  MaxRetries = 2
  MaxEvictions = 1
  MaxRestarts = 1

SPECIFICATION Spec




INVARIANT WrittenOnce
