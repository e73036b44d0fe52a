SPECIFICATION Spec
CONSTANTS
  Keys = {"a", "b"}
  Programs <- Sound
INVARIANTS FifoPerKey ItemsConserved NobodyStranded
CHECK_DEADLOCK FALSE
