SPECIFICATION Spec
CONSTANTS
    e1 = e1  e2 = e2
    DE = DE  AT = AT
    pump = pump  works = works  ag = ag  lane = lane  mill = mill
    ulm = ulm  linz = linz  nine = nine
    None = None
    Numbers = {nine}
    Generic = {}
    a1 = a1  a2 = a2  j1 = j1  j2 = j2
    Attempts = {a1, a2}
    Jobs = {j1, j2}
    Entities = {e1, e2}
    MaxRounds = 2
    PrepassSize = 1
CONSTANT Worlds <- MCWorlds
SYMMETRY Interchangeable
CHECK_DEADLOCK FALSE
INVARIANTS TypeOK SettledAsExamined EveryRoundIsArgued EnrichFollowsAcceptance
