SPECIFICATION SceneSpec
CONSTANTS
    Scenes = {"hands"}
    p1 = p1
    Players = {p1}
    Amounts = {10}
    CardPoints = {1, 10}
    Moves = {"hit", "stand", "surrender"}
    UnsetResults = {"none", "surrender"}
    GlobalWrites = {}
    MinBet = 1
    MaxPayout = 10
    GameMaxTime = 1
    HistorySize = 2
    TimeSteps = {1}
    MaxGames = 1
    MaxHardCloses = 0
PROPERTIES
    HalfForSurrender
