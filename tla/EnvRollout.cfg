SPECIFICATION Spec
CONSTANTS
  Configs <- Sound
  Stages = 2
  MaxVersion = 1
INVARIANTS ResultsMatchObs PolicyInOrder OneBatchPerStage CleanHandover
PROPERTIES RoundsEnd StopReturns
CHECK_DEADLOCK FALSE
