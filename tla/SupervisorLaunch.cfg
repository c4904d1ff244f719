CONSTANTS
  MaxProcs = 3
  Declarations <- LongLists
  SuccessThreshold = 1
  FailureThreshold = 1
  CounterMax = 1
  MaxQueue = 1
  Forkers = {2}
  Signals = {15}
SPECIFICATION Spec
INVARIANTS
  TypeOK ReadyIsCurrent ReadyMeansStarted FailedStartupNeverReady GatedStart
  OnlyJobsAreEnded
PROPERTIES LaunchesNeedHealth ImplementsLifecycle
