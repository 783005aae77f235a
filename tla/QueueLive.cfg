SPECIFICATION FairSpec
CONSTANTS
    r1 = r1
    s1 = s1
    s2 = s2
    q1 = q1
    NoRun = NoRun
    Runs = {r1}
    Slots = {s1}
    Requests = {q1}
    Suppliers = {1}
    MaxJobs = 5
    PerSupplier = 2
    RoundCost = 1
    Triggers = {"pipeline"}
    Acts = {}
    MaxActs = 0
    MaxStops = 1
    MaxAttempt = 1
    MaxAge = 2
    LongJobs = FALSE
    Silence = FALSE
CHECK_DEADLOCK FALSE
INVARIANT ChainsOnce
PROPERTIES EveryJobSettles 
