SPECIFICATION Spec
CONSTANTS
    Users = {"app", "db"}
    Files <- SomeFiles
    Rewrites <- SomeRewrites
    Unreadable = Unreadable
    Reserved = 9
    Callers <- SomeCallers
    Identities <- SomeIdentities
    Bounding <- AllCaps
    Sandboxes <- SomeSandboxes
INVARIANTS
    NamesAreRight
    IdentityIsDeclared
    RootIsNotRefused
PROPERTIES
    LauncherMakesRoot
CHECK_DEADLOCK FALSE
