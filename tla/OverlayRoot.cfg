CONSTANTS
  Runs = {r1, r2}
  Identities = {i}
  Seeds = {s}
  Attempts = 2
SPECIFICATION Spec
INVARIANT RootIsFitted
CHECK_DEADLOCK FALSE
