SPECIFICATION Spec
CONSTANTS
    Plans <- SomePlans
    Trees <- SomeTrees
    Paths <- SomePaths
    Main = Main
INVARIANTS
    SourcesAreThere
    RaceIsHarmless
PROPERTIES
    ModesAreRight
CHECK_DEADLOCK FALSE
