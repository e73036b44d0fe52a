SPECIFICATION Spec
CONSTANTS
  N = 3
  Groups <- FourGroups
  Size <- Ones
  Share <- TwoAndOnes
INVARIANTS NothingLost AssertionsHold
PROPERTIES LeavesWhenTold
