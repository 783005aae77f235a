SPECIFICATION Spec
CONSTANTS
    r1 = r1
    s1 = s1
    s2 = s2
    q1 = q1
    NoRun = NoRun
    Runs = {r1}
    Slots = {s1, s2}
    Requests = {q1}
    Suppliers = {1, 2}
    MaxJobs = 2
    PerSupplier = 1
    RoundCost = 1
    Triggers = {"reassess"}
    Acts = {"cancel"}
    MaxActs = 1
    MaxStops = 1
    MaxAttempt = 1
    MaxAge = 2
    LongJobs = FALSE
    Silence = FALSE
CHECK_DEADLOCK FALSE
SYMMETRY SlotSymmetry
INVARIANTS TypeOK RunningIsRecoverable BudgetOvershoot
PROPERTY LeaseSpec
