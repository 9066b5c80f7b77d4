SPECIFICATION SceneSpec
CONSTANTS
    Scenes = {"one event"}
    Players = {p1, p2}
    Rates <- Odd
    Amounts = {1}
    BettingTimes = {1}
    GlobalWrites = {}
    TimeSteps = {1}
    DefaultMaxBet = 3
    MaxEvents = 1
    MaxBets = 3
PROPERTIES
    ClosePaysWhatResolveAdds
SYMMETRY Symmetry
