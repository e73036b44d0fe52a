SPECIFICATION Spec
CONSTANTS
  Scenes <- InPlace
  CclModels = {1, 2}
INVARIANT Delivered
CHECK_DEADLOCK FALSE
