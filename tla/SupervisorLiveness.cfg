CONSTANTS
  MaxProcs = 2
  Declarations <- ShortLists
  SuccessThreshold = 1
  FailureThreshold = 1
  CounterMax = 1
  MaxQueue = 1
  Forkers = {2}
  Signals = {15}
SPECIFICATION FairSpec
PROPERTIES
  ExitIsPublished SignalEndsRun CleanedGroupsVanish ImplementsFairLifecycle
