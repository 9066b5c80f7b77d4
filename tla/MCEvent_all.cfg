SPECIFICATION SceneSpec
CONSTANTS
    Scenes = {"one event", "two events"}
    Players = {p1, p2}
    Rates <- Even
    Amounts = {1, 2}
    BettingTimes = {1}
    GlobalWrites <- LimitWrites
    TimeSteps = {1}
    DefaultMaxBet = 3
    MaxEvents = 2
    MaxBets = 3
INVARIANTS
    TotalsMatch
    StakesLimited
PROPERTIES
    WagerSpec
    PaysWhatWasClosed
SYMMETRY Symmetry
