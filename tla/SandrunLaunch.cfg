SPECIFICATION Spec
CONSTANTS
    MaxLinks = 3
    Launches <- SomeLaunches
INVARIANTS
    LookupIsRight
    RootIsAsChecked
PROPERTIES
    OutsideIsKept
CHECK_DEADLOCK FALSE
