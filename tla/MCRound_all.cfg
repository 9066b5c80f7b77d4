SPECIFICATION SceneSpec
CONSTANTS
    Players = {p1, p2}
    p1 = p1
    BetTypes = {1, 2}
    Outcomes = {1}
    Rate <- Odds
    GameLength = 6
    ResolveTime = 2
    HistorySize = 3
    ResultSize = 3
    MinBet = 1
    MaxPayout = 2
    Slips <- SingleAndDouble
    GlobalWrites = {}
    TimeSteps = {1, 5, 6}
    MaxRound = 5
    MaxBets = 4
    MaxHardCloses = 1
INVARIANTS
    StakesMatch
    ExposureLimited
    OwnRound
    RingsHoldTheLast
PROPERTIES
    BetsFrozen
    RoundEndsOnTime
    WagerSpec
    BetsAnswered
