SPECIFICATION FairSpec
CONSTANTS
  ActorMP = 1  ActorDp = 1
  RolloutMP = 1  RolloutDp = 3  BorrowedDp = 1
  InferenceMP = 1  InferenceDp = 2
  ValidDpSizes = {1, 2, 3, 6}
  NMinibatches = 3  TotalTasks = 6  MaxRunningRequests = 2
  SchedUsePre = TRUE  WorkerUsePre = TRUE  UseWait = TRUE
INVARIANTS GpusExclusive GpusConserved NoAssertionFails TrainerAgrees ScaledDownAtEnd LastIterOnAllGpus
PROPERTIES ImplementsPool StepsComplete
