SPECIFICATION Spec
CONSTANTS
    r1 = r1
    s1 = s1
    s2 = s2
    q1 = q1
    NoRun = NoRun
    Runs = {r1}
    Slots = {s1}
    Requests = {q1}
    Suppliers = {1, 2}
    MaxJobs = 2
    PerSupplier = 1
    RoundCost = 1
    Triggers = {"reassess"}
    Acts = {"cancel", "resume", "retryJob", "retryRun"}
    MaxActs = 3
    MaxStops = 0
    MaxAttempt = 2
    MaxAge = 0
    LongJobs = FALSE
    Silence = FALSE
CHECK_DEADLOCK FALSE
PROPERTY LeaseSpec
