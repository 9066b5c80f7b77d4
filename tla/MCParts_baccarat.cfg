SPECIFICATION PartsSpec
CONSTANTS
    Parts = {"baccarat"}
    DeckSize = 6
    RedDeck = {}
    BaccaratDeck = {0, 1, 2, 4, 5, 6, 7, 9}
    RightReallocs = FALSE
    MaxPages = 4
    Sizes = {1, 3, 4}
    ReallocSizes = {1, 3, 5}
    p1 = p1
    r = r
    ill = ill
    IllFormed = {ill}
    ByteSize = 4
    Players = {p1, r}
    Owners = {p1, r}
    Users = {p1, r}
    Accounts = {House, p1, r}
    From = p1
    House = House
    Self = Self
    Stake = Stake
    Token = Token
    System = System
    Impostor = Impostor
    Nobody = Nobody
    Moved = Moved
    MaxFilled = 2
    Abort = Abort
    Fields <- MemoFields
    MaxFields = 6
    MaxReads = 14
    Keys = {0, 1, 2, 3}
    SecKeys = {1, 2}
    Limit = 3
    Optionals = {1, 2}
    Values = {"v", "w"}
    Quantities <- TokenQuantities
    Half = 4
    MaxIssues = 3
    Amounts = {0, 1, 2}
    MaxFunds = 4
    Gift = 2
    Stock = 3
INVARIANT
    ColumnsPay
CHECK_DEADLOCK FALSE
