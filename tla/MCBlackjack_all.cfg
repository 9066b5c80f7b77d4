SPECIFICATION SceneSpec
CONSTANTS
    Scenes = {"cards", "games"}
    p1 = p1
    Players = {p1, p2}
    Amounts = {10}
    CardPoints = {1, 10}
    Moves = {"hit", "stand", "surrender", "double"}
    UnsetResults = {"none", "surrender"}
    GlobalWrites = {}
    MinBet = 1
    MaxPayout = 10
    GameMaxTime = 1
    HistorySize = 1
    TimeSteps = {1}
    MaxGames = 3
    MaxHardCloses = 1
INVARIANTS
    HandsByTheRules
    PaidByTheRules
PROPERTIES
    WagerSpec
    HalfAsRecorded
    CardsAnswered
