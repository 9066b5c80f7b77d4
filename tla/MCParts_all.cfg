SPECIFICATION PartsSpec
CONSTANTS
    Parts = {"draw", "bullfight", "redblack", "baccarat", "roulette", "quick3", "table", "heap", "optional", "currency", "memo", "notices", "faucet", "codec", "signed", "key256", "names", "strings", "symbols", "keys", "assets", "times", "fixed"}
    DeckSize = 6
    RedDeck = {0, 1, 2, 3, 7, 8, 11, 12, 13, 14, 15, 20, 21}
    BaccaratDeck = {0, 1, 2, 4, 5, 6, 7, 9}
    RightReallocs = TRUE
    MaxPages = 3
    Sizes = {1, 4}
    ReallocSizes = {3}
    p1 = p1
    r = r
    ill = ill
    IllFormed = {ill}
    ByteSize = 4
    Players = {p1, r}
    Owners = {p1, r}
    Users = {p1, r}
    Accounts = {House, p1, r}
    From = p1
    House = House
    Self = Self
    Stake = Stake
    Token = Token
    System = System
    Impostor = Impostor
    Nobody = Nobody
    Moved = Moved
    MaxFilled = 2
    Abort = Abort
    Fields <- MemoFields
    MaxFields = 6
    MaxReads = 14
    Keys = {0, 1, 2, 3}
    SecKeys = {1, 2}
    Limit = 3
    Optionals = {1, 2}
    Values = {"v", "w"}
    Quantities <- TokenQuantities
    Half = 4
    MaxIssues = 3
    Amounts = {0, 1, 2}
    MaxFunds = 4
    Gift = 2
    Stock = 3
INVARIANTS
    DrawsFair
    HandsRanked
    OddsKeepEdge
    BaccaratReturnsLess
    TablesCoherent
    StorageSafe
    ValuesComeBack
    NumbersExact
    MemoRead
    AccountsMatch
PROPERTY
    TableSpec
CHECK_DEADLOCK FALSE
