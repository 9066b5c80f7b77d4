SPECIFICATION SceneSpec
CONSTANTS
    Scenes = {"whole"}
    p1 = p1
    Self = Self
    Nobody = Nobody
    EOS = EOS
    Games = {g1}
    Players = {p1}
    Names = {r}
    Accounts = {p1, r}
    Symbols = {EOS}
    Keys = {}
    GameIds = {9}
    PlayAllIds = {9}
    Width = 1000000000
    Stakes = {1000000}
    Deposits = {1000000}
    Bets = {1000000}
    Payouts = {1000000}
    Mins = {}
    Maxes = {5000}
    Balances = {}
    RewardTypes = {}
    ChestTypes = {}
    Rolls = {}
    TimeSteps = {}
    MaxIn = 1000000
    MaxOut = 1010000
    MaxHoldings = 2000000
    MaxUnpaid = 0
    MaxTime = 0
PROPERTIES
    PayoutSpendsBalance
