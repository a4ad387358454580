CONSTANTS
  Phases <- MCPhases
  Deltas <- MCDeltas
  Others <- MCOthers
  MaxCount = 2

SPECIFICATION Spec
PROPERTY MergeFromReportsChange
