SPECIFICATION FairSpec
CONSTANTS
    o1 = o1
    o2 = o2
    MaxRounds = 2
    FreeRetries = 1
    EvaluatorTries = 2
    Objections = {o1}
    Ceiling = 3
    MaxAttempt = 1
    MaxResumes = 1
CHECK_DEADLOCK FALSE
INVARIANTS TypeOK BuildsOnBoundary PublishedWasReviewed OneVersionPerAttempt
PROPERTIES BoundariesStand AttemptsEnd
