CONSTANTS
  Runs = {r1, r2, r3}
  Identities = {i, j}
  Seeds = {s}
  Attempts = 2
SPECIFICATION Spec
INVARIANTS ExclusiveLayer LayerKeepsIdentity MergedIsOwn
PROPERTY RootIsKept
CHECK_DEADLOCK FALSE
