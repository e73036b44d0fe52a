SPECIFICATION Spec
CONSTANTS
  Last = 2
  Values = {0, 1}
  Rollouts = {0, 1}
  Modes <- Sound
  MaxSteps = 2
INVARIANTS AlignedAtRest LabelledPolicy InStep
PROPERTIES SyncReturns
CHECK_DEADLOCK FALSE
