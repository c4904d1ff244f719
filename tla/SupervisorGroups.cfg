CONSTANTS
  MaxProcs = 2
  Declarations <- GroupLists
  SuccessThreshold = 1
  FailureThreshold = 1
  CounterMax = 1
  MaxQueue = 1
  Forkers = {1, 2}
  Signals = {2, 15}
SPECIFICATION Spec
INVARIANTS GroupsTracked NoSurvivorUnsignalled
PROPERTIES KillsAreGraceful CleanupsEscalate
