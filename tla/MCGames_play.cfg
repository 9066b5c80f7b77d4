SPECIFICATION FairSpec
CONSTANTS
    Players = {p1, p2}
    MinBet = 1
    MaxPayout = 160
    HistorySize = 2
    MaxBets = 3
    DiceAmounts = {3}
    Numbers = {0, 50, 98}
    Rolls = {49, 99}
    SpinAmounts = {1}
    Values = {2999, 3311}
    SpinWrites <- HistoryReset
    Tokens = {"EOS", "BET"}
    BetAmounts = {1, 2}
    Games = {1}
    Prizes = {0, 3}
    BetWrites <- OtherKey
    Counts = {0, 1, 2}
    Draws <- ThreeDraws
    Prices <- TenEach
    CardWrites <- HistoryReset
    MaxOnTable = 2
    MaxCards = 2
INVARIANTS
    HouseKeepsEdge
    CardsAccounted
PROPERTIES
    GamesKeepWager
    EveryBetAnswered
CHECK_DEADLOCK FALSE
