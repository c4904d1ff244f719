SPECIFICATION FairSpec
CONSTANTS
    SuccessThreshold = 2
    FailureThreshold = 3
    CounterMax = 3
    Timeout = 2
    Period = 3
    Poll = 1
    Buffer = 2
    Responses <- SomeResponses
    MaxHeld = 1
INVARIANTS
    AnswersInTime
    AnswersAreRight
PROPERTIES
    EventsArePaced
    HealthIsLastRun
    CancelIsHeard
CHECK_DEADLOCK FALSE
