SPECIFICATION Spec
CONSTANTS
    q1 = q1
    q2 = q2
    Requests = {q1, q2}
    Backstop = 5
    FreeRetries = 1
    MaxTries = 2
    MaxStarts = 2
CONSTANT Kinds <- MCKinds
CHECK_DEADLOCK FALSE
INVARIANTS RowsAccountForAll SpendIsBounded 
PROPERTIES NoToolAfterCeiling JobSettles
