SPECIFICATION Spec
CONSTANTS
    None = None
    a1 = a1  a2 = a2  a3 = a3
    s1 = s1  s2 = s2  j1 = j1  j2 = j2
    c1 = c1  c2 = c2  c3 = c3
    DE = DE  gdp = gdp  law = law
    Attempts = {a1, a2}
    MaxNodes = 2
    MaxHops = 2
    PageSize = 1
    OffsetCeiling = 1
    CallBudget = 3
CONSTANT Worlds <- MCWorlds
CONSTANT Indicators <- MCIndicators
CONSTANT Criteria <- OneCriterion
SYMMETRY Interchangeable
CHECK_DEADLOCK FALSE
INVARIANTS TypeOK ScoredOnWholeReads PathsAgreeWithTheirReads
PROPERTY RiskNeverFalls
