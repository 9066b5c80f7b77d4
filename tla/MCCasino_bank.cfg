SPECIFICATION SceneSpec
CONSTANTS
    Self = Self
    Nobody = Nobody
    EOS = EOS
    DiceGame = dice
    GameId = 1
    Games = {dice}
    Players = {p1, p2}
    Names = {}
    Accounts = {p1, p2}
    Symbols = {EOS}
    Keys = {}
    GameIds = {1}
    PlayAllIds = {1}
    Width = 1000000000
    Stakes = {20000}
    Deposits = {19200}
    Bets = {}
    Payouts = {}
    Mins = {30000}
    Maxes = {3000000}
    Balances = {20000}
    RewardTypes = {}
    ChestTypes = {}
    Rolls = {}
    TimeSteps = {}
    MaxIn = 100000
    MaxOut = 4000000
    MaxHoldings = 80000
    MaxUnpaid = 2
    MaxTime = 0
    Numbers = {1, 50}
    Faces = {0, 60}
    HistorySize = 1
    MaxBets = 3
    Told = {p1}
    Chosen = {p1}
    Scenes = {"payments", "operator"}
PROPERTIES
    KeepsLedger
