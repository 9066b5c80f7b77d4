SPECIFICATION SceneSpec
CONSTANTS
    Scenes = {"money", "people", "points"}
    p1 = p1
    Self = Self
    Nobody = Nobody
    EOS = EOS
    Games = {g1}
    Players = {p1, p2}
    Names = {r}
    Accounts = {p1, p2, r}
    Symbols = {EOS, TOK}
    Keys = {k1}
    GameIds = {1, 9}
    PlayAllIds = {1, 9}
    Width = 1000000000
    Stakes = {1000000}
    Deposits = {1000000}
    Bets = {100, 1000000}
    Payouts = {1000000}
    Mins = {1000}
    Maxes = {5000}
    Balances = {1000000}
    RewardTypes = {0, 2, 21, 53}
    ChestTypes = {0, 5}
    Rolls = {0, 100}
    TimeSteps = {43200}
    MaxIn = 1000000
    MaxOut = 1010000
    MaxHoldings = 2000000
    MaxUnpaid = 2
    MaxTime = 86400
INVARIANTS
    TypeOK
    BooksAgree
    ObligationsMet
    RefererSound
    DailyIsToday
    LoyaltyPaidOnce
PROPERTY
    RefererKept
