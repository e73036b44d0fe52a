SPECIFICATION Spec
CONSTANTS
  Actors = {1, 2}
  Streams = {1, 2}
  Configs <- Sound
  MaxQueued = 1
INVARIANTS TrainsFresh OnPolicyShare
PROPERTIES StoreImproves TrainingEnds
CHECK_DEADLOCK FALSE
