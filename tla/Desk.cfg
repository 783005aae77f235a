SPECIFICATION DeskSpec
CONSTANTS
    Answers = {1, 2}
    MaxTurns = 2
    MaxCalls = 1
    MaxJobs = 2
    MaxPages = 1
    Companies <- MCCompanies
    Roster = {"r"}
    Forwarders = {"a"}
    Shipments <- MCShipments
    TradeAnswers <- MCTradeAnswers
    Discovers = {1, 2}
    Clicks = {1}
    TopN = 2
    PageCap = 3
    MaxDismiss = 2
    Publishers = {1, 2}
    People = {1, 2, 3}
    Marks = {"accepted", "rejected"}
CHECK_DEADLOCK FALSE
INVARIANTS LeadsSayWhatHappened ChatOnlyProposes VersionsAreOneSequence
PROPERTIES DecisionsStand AcceptanceNeverMoves DiscoverEnds
