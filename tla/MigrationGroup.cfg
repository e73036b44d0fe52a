SPECIFICATION FairSpec
CONSTANTS
  N = 2
  Groups <- ThreeGroups
  Size <- Twos
  Share <- TwoAndOne
INVARIANTS NoLostWakeup
PROPERTIES EveryGroupDelivered
