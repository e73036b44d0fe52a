SPECIFICATION Spec
CONSTANTS
  Scenes <- Sound
  CclModels = {1, 2}
INVARIANTS Delivered HandlesLive NoSharedAccelerator
PROPERTIES EverybodyReturns
