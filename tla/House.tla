-------------------------------- MODULE House --------------------------------
(***************************************************************************)
(* The house contract (house/house.cpp): the bank every game pays into and *)
(* is paid from, and the loyalty programme of the players.                 *)
(*                                                                         *)
(* An EOSIO action is atomic: a failed assertion in it, or in an action it *)
(* sends inline, undoes all of it.  So one action of the contract is one   *)
(* step here, and its assertions are conjuncts of its guard.  The inline   *)
(* eosio.token transfers the contract sends are part of the step: they     *)
(* abort it when the payee is no account or the house is overdrawn.        *)
(*                                                                         *)
(* Left out: memo texts, the contract field of a token row, the play_times *)
(* counters and the two never-written daily fields of a player row.        *)
(***************************************************************************)
EXTENDS Tables, FiniteSets, FiniteSetsExt

CONSTANTS
    Games,        \* accounts that can be registered as games
    Players,      \* accounts that play
    Names,        \* every other name a caller can put in a referer field
    Accounts,     \* the names that are accounts on the chain
    Self,         \* the house's own account
    Nobody,       \* name(0)
    Symbols, EOS, \* token symbols, and the one the house keeps books about
    Keys,         \* public keys for the randomness of the games
    GameIds,      \* tracking ids an operator gives to games
    PlayAllIds,   \* ids reward PLAY_ALL_GAMES asks for (code: 1..9, mask 1022)
    Width,        \* 2^64, the width of a token row's balance
    Stakes, Deposits, Bets, Payouts, \* amounts that callers use
    Mins, Maxes, Balances,           \* values an operator writes in a token row
    RewardTypes, ChestTypes, Rolls,  \* arguments of the loyalty actions
    TimeSteps,    \* how far the clock may move in one step
    MaxIn, MaxOut, MaxHoldings, MaxUnpaid, MaxTime \* bounds of the state space

VARIABLES
    games,    \* table game: account -> [id, active]
    tokens,   \* table tokens: <<game, symbol>> -> counters and limits
    players,  \* table playertable: account -> player_record
    unpaid,   \* table unpaid: id -> delayed_payment
    randKey,  \* row 0 of table randkeys
    initDue,  \* the game whose deferred init is pending, or Nobody
    now,      \* block time in seconds
    holdings, \* what the house holds in the token contracts, by symbol
    slack,    \* history: holdings no token row accounts for, by symbol
    due,      \* history: what the house undertook to pay, by player and symbol
    sent,     \* history: what it sent to players, by player and symbol
    dayIn     \* history: EOS staked, by player and day

stores == <<games, tokens, players, unpaid, randKey, initDue>>
vars == <<stores, now, holdings, slack, due, sent, dayIn>>

EventLength == 86400
ReferralBonus == 5
DelayedPaymentLimit == 1000000
BullfightId == 9
DefaultMin == 1000
DefaultMaxPayout == 2000000

Referers == Players \cup Names \cup {Self, Nobody}
Days == 0 .. MaxTime \div EventLength

ASSUME HouseNames ==
    /\ Self \notin Players \cup Games /\ Nobody \notin Players \cup Games \cup {Self}
    /\ Accounts \subseteq Players \cup Names \cup {Self}
    /\ Nobody \notin Accounts
ASSUME HouseSymbols == EOS \in Symbols /\ IsFiniteSet(Symbols)
ASSUME HouseAmounts ==
    /\ Width \in Nat \ {0} /\ Balances \subseteq 0 .. Width - 1
    /\ Stakes \cup Deposits \subseteq Nat \ {0}
    /\ Bets \cup Payouts \cup Mins \cup Maxes \cup GameIds \subseteq Nat
    /\ TimeSteps \subseteq Nat \ {0} /\ Rolls \subseteq 0 .. 100
    /\ RewardTypes \subseteq 0 .. 255 /\ ChestTypes \subseteq 0 .. 255
    /\ PlayAllIds \subseteq 0 .. 31
    /\ {MaxIn, MaxOut, MaxHoldings, MaxUnpaid, MaxTime} \subseteq Nat

(* Unsigned arithmetic on a balance.                                       *)
SignedWrap(x) == x                       \* fault: a signed field
Wrap(x) == x % Width

(***************************************************************************)
(* The rows.                                                               *)
(***************************************************************************)
GameRow == [id : GameIds, active : BOOLEAN]

TokenRow == [in : Nat, out : Nat, min : Nat, max_payout : Nat, balance : 0 .. Width - 1]

NewToken(min, max, balance) ==
    [in |-> 0, out |-> 0, min |-> min, max_payout |-> max, balance |-> balance]

PlayerRow ==
    [in : Nat, out : Nat, last_play_time : Nat, referer : Referers, referer_payout : Nat,
     game_played_flag : SUBSET (0 .. 31), bonus_claimed : SUBSET (0 .. 31),
     chest_opened : SUBSET (0 .. 4), bonus_point : Nat, bonus_payout : Nat, daily_in : Nat]

(* A row emplaced in fresh memory: what the code does not set is zero.     *)
NewPlayer ==
    [in |-> 0, out |-> 0, last_play_time |-> 0, referer |-> Nobody, referer_payout |-> 0,
     game_played_flag |-> {}, bonus_claimed |-> {}, chest_opened |-> {},
     bonus_point |-> 0, bonus_payout |-> 0, daily_in |-> 0]

Player(p) == IF p \in DOMAIN players THEN players[p] ELSE NewPlayer

DelayedPayment ==
    [game : Games, player : Players, sym : Symbols, bet : Nat, payout : Nat, referer : Referers]

(* available_primary_key: one past the largest id still in the table.      *)
CountedId(id) == id = Cardinality(DOMAIN unpaid)      \* fault: counts the rows
IsNextId(id) ==
    /\ \A other \in DOMAIN unpaid : other < id
    /\ id = 0 \/ id - 1 \in DOMAIN unpaid

TypeOK ==
    /\ IsTable(games, Games, GameRow)
    /\ IsTable(tokens, Games \X Symbols, TokenRow)
    /\ IsTable(players, Players, PlayerRow)
    /\ IsTable(unpaid, Nat, DelayedPayment)
    /\ randKey \in Keys \cup {Nobody}
    /\ initDue \in Games \cup {Nobody}
    /\ now \in 0 .. MaxTime
    /\ holdings \in [Symbols -> Nat]
    /\ slack \in [Symbols -> 0 .. Width - 1]
    /\ due \in [Players -> [Symbols -> Int]]
    /\ sent \in [Players -> [Symbols -> Nat]]
    /\ dayIn \in [Players -> [Days -> Nat]]

Init ==
    /\ games = EmptyTable /\ tokens = EmptyTable /\ players = EmptyTable
    /\ unpaid = EmptyTable /\ randKey = Nobody /\ initDue = Nobody
    /\ now = 0
    /\ holdings = [s \in Symbols |-> 0]
    /\ slack = [s \in Symbols |-> 0]
    /\ due = [p \in Players |-> [s \in Symbols |-> 0]]
    /\ sent = [p \in Players |-> [s \in Symbols |-> 0]]
    /\ dayIn = [p \in Players |-> [d \in Days |-> 0]]

(***************************************************************************)
(* The operator's actions: require_auth(_self).                            *)
(***************************************************************************)
AddGame(g, id) ==
    /\ initDue = Nobody          \* the deferred init's sender id is _self: one at a time
    /\ initDue' = g
    /\ IF g \in DOMAIN games
       THEN UNCHANGED <<games, tokens>>
       ELSE /\ games' = Put(games, g, [id |-> id, active |-> TRUE])
            /\ tokens' = IF <<g, EOS>> \in DOMAIN tokens THEN tokens
                         ELSE Put(tokens, <<g, EOS>>, NewToken(DefaultMin, DefaultMaxPayout, 0))
    /\ UNCHANGED <<players, unpaid, randKey, now, holdings, slack, due, sent, dayIn>>

(* The deferred init leaves the queue, whatever becomes of it in the game. *)
RunInit ==
    /\ initDue # Nobody
    /\ initDue' = Nobody
    /\ UNCHANGED <<games, tokens, players, unpaid, randKey, now, holdings, slack, due, sent, dayIn>>

UpdateGame(g, id) ==
    /\ g \in DOMAIN games
    /\ games' = [games EXCEPT ![g].id = id]
    /\ UNCHANGED <<tokens, players, unpaid, randKey, initDue, now, holdings, slack, due, sent, dayIn>>

SetActive(g, active) ==
    /\ g \in DOMAIN games
    /\ games' = [games EXCEPT ![g].active = active]
    /\ UNCHANGED <<tokens, players, unpaid, randKey, initDue, now, holdings, slack, due, sent, dayIn>>

SetRandKey(key) ==
    /\ randKey' = key
    /\ UNCHANGED <<games, tokens, players, unpaid, initDue, now, holdings, slack, due, sent, dayIn>>

(* The row of any name, registered or not, is written; in and out survive. *)
UpdateToken(g, s, min, max, balance) ==
    LET k   == <<g, s>>
        old == IF k \in DOMAIN tokens THEN tokens[k] ELSE NewToken(0, 0, 0)
    IN  /\ tokens' = Put(tokens, k, [old EXCEPT !.min = min, !.max_payout = max,
                                                !.balance = balance])
        /\ slack' = [slack EXCEPT ![s] = Wrap(@ + old.balance - balance)]
        /\ UNCHANGED <<games, players, unpaid, randKey, initDue, now, holdings, due, sent, dayIn>>

ClearToken(g) ==
    LET gone == {k \in DOMAIN tokens : k[1] = g /\ k[2] # EOS}
    IN  /\ tokens' = Erase(tokens, gone)
        /\ slack' = [s \in Symbols |-> IF <<g, s>> \in gone
                                       THEN Wrap(slack[s] + tokens[<<g, s>>].balance)
                                       ELSE slack[s]]
        /\ UNCHANGED <<games, players, unpaid, randKey, initDue, now, holdings, due, sent, dayIn>>

(***************************************************************************)
(* transfer: the notification of an eosio.token transfer to the house.     *)
(***************************************************************************)
(* Only EOS counts in the player's books.                                  *)
BookedAny(s, amount) == amount           \* fault: no test of the symbol
Booked(s, amount) == IF s = EOS THEN amount ELSE 0

(* What of daily_in still counts when the player stakes now.               *)
DailyByAge(row) ==                       \* fault: 24 hours instead of a day boundary
    IF now - row.last_play_time >= EventLength THEN 0 ELSE row.daily_in
DailySoFar(row) ==
    IF now \div EventLength > row.last_play_time \div EventLength THEN 0 ELSE row.daily_in

(* The bit of game_played_flag a game's id stands for: the 1 that is       *)
(* shifted is an int, and its 32 bits come round again.                    *)
PlayedBit(id) == id % 32

(* A game passes a player's stake on, the player's name in the memo.       *)
Stake(g, p, s, amount) ==
    LET k     == <<g, s>>
        eos   == Booked(s, amount)
        old   == Player(p)
    IN  /\ g \in DOMAIN games /\ games[g].active
        /\ k \in DOMAIN tokens
        /\ p \in Accounts
        /\ tokens[k].in + amount <= MaxIn /\ holdings[s] + amount <= MaxHoldings
        /\ tokens' = [tokens EXCEPT ![k].in = @ + amount, ![k].balance = Wrap(@ + amount)]
        /\ players' = Put(players, p,
                          [old EXCEPT !.in = @ + eos, !.last_play_time = now,
                                      !.daily_in = DailySoFar(old) + eos,
                                      !.game_played_flag = @ \cup {PlayedBit(games[g].id)}])
        /\ holdings' = [holdings EXCEPT ![s] = @ + amount]
        /\ dayIn' = [dayIn EXCEPT ![p][now \div EventLength] = @ + eos]
        /\ UNCHANGED <<games, unpaid, randKey, initDue, now, slack, due, sent>>

(* Anyone sends "deposit,<game>": accepted even when no row is credited.   *)
Deposit(g, s, amount) ==
    LET k == <<g, s>>
    IN  /\ holdings[s] + amount <= MaxHoldings
        /\ holdings' = [holdings EXCEPT ![s] = @ + amount]
        /\ IF k \in DOMAIN tokens
           THEN /\ tokens' = [tokens EXCEPT ![k].balance = Wrap(@ + amount)]
                /\ UNCHANGED slack
           ELSE /\ slack' = [slack EXCEPT ![s] = Wrap(@ + amount)]
                /\ UNCHANGED tokens
        /\ UNCHANGED <<games, players, unpaid, randKey, initDue, now, due, sent, dayIn>>

(***************************************************************************)
(* pay: a registered game asks for a payment.  referer is what the game    *)
(* was told; the referer on record, if any, takes precedence.              *)
(***************************************************************************)
(* Too large for the balance, or winning too much: an operator decides.    *)
MustDelay(g, s, bet, payout) ==
    \/ tokens[<<g, s>>].balance < payout
    \/ s = EOS /\ payout - bet >= DelayedPaymentLimit

RefererUnfiltered(p, referer) ==         \* fault: the house's name is not filtered out
    IF players[p].referer # Nobody THEN players[p].referer ELSE referer
RefererAsTold(p, referer) ==             \* fault: the game's word takes precedence
    IF referer \in {Self, Nobody} THEN players[p].referer ELSE referer
RefererOf(p, referer) ==
    IF players[p].referer # Nobody THEN players[p].referer
    ELSE IF referer = Self THEN Nobody ELSE referer

ReferBonus(g, bet) ==
    LET bonus == (bet * ReferralBonus) \div 1000
    IN  IF games[g].id = BullfightId THEN bonus \div 5 ELSE bonus

(* What the payment takes from the game's balance.                         *)
ChargePayout(payout, bonus) == payout    \* fault: the bonus is not charged
Charge(payout, bonus) == payout + bonus

PayLater(g, to, s, bet, payout, referer) ==
    /\ g \in DOMAIN games /\ <<g, s>> \in DOMAIN tokens
    /\ MustDelay(g, s, bet, payout)
    /\ \E id \in 0 .. MaxUnpaid - 1 :
          /\ IsNextId(id)
          /\ unpaid' = Put(unpaid, id,
                           [game |-> g, player |-> to, sym |-> s, bet |-> bet,
                            payout |-> payout, referer |-> referer])
    /\ due' = [due EXCEPT ![to][s] = @ + payout]
    /\ UNCHANGED <<games, tokens, players, randKey, initDue, now, holdings, slack, sent, dayIn>>

PayNow(g, to, s, bet, payout, referer) ==
    LET k     == <<g, s>>
        known == s = EOS /\ to \in DOMAIN players
        payee == IF known THEN RefererOf(to, referer) ELSE Nobody
        bonus == IF payee = Nobody THEN 0 ELSE ReferBonus(g, bet)
        spent == Charge(payout, bonus)
    IN  /\ g \in DOMAIN games /\ k \in DOMAIN tokens
        /\ ~MustDelay(g, s, bet, payout)
        /\ tokens[k].out + spent <= MaxOut /\ sent[to][s] + payout <= MaxOut
        /\ payout + bonus <= holdings[s]           \* eosio.token: overdrawn balance
        /\ bonus > 0 => payee \in Accounts         \* eosio.token: to account does not exist
        /\ payout > 0 => to \in Accounts
        /\ players' = IF known
                      THEN [players EXCEPT ![to].out = @ + payout, ![to].referer = payee,
                                           ![to].referer_payout = @ + bonus]
                      ELSE players
        /\ tokens' = [tokens EXCEPT ![k].out = @ + spent, ![k].balance = Wrap(@ - spent)]
        /\ holdings' = [holdings EXCEPT ![s] = @ - (payout + bonus)]
        /\ due' = [due EXCEPT ![to][s] = @ + payout]
        /\ sent' = [sent EXCEPT ![to][s] = @ + payout]
        /\ UNCHANGED <<games, unpaid, randKey, initDue, now, slack, dayIn>>

(***************************************************************************)
(* settleunpaid: the operator pays a delayed payment, or drops it.         *)
(***************************************************************************)
SettleUnpaid(id) ==
    LET d == unpaid[id]
        k == <<d.game, d.sym>>
    IN  /\ id \in DOMAIN unpaid
        /\ d.player \in DOMAIN players /\ k \in DOMAIN tokens
        /\ sent[d.player][d.sym] + d.payout <= MaxOut
        /\ d.payout <= holdings[d.sym]
        /\ d.payout > 0 => d.player \in Accounts
        /\ players' = [players EXCEPT ![d.player].out = @ + d.payout]
        /\ tokens' = [tokens EXCEPT ![k].out = d.payout, ![k].balance = Wrap(@ - d.payout)]
        /\ holdings' = [holdings EXCEPT ![d.sym] = @ - d.payout]
        /\ sent' = [sent EXCEPT ![d.player][d.sym] = @ + d.payout]
        /\ unpaid' = Erase(unpaid, {id})
        /\ UNCHANGED <<games, randKey, initDue, now, slack, due, dayIn>>

DropUnpaid(id) ==
    /\ id \in DOMAIN unpaid
    /\ unpaid' = Erase(unpaid, {id})
    /\ due' = [due EXCEPT ![unpaid[id].player][unpaid[id].sym] = @ - unpaid[id].payout]
    /\ UNCHANGED <<games, tokens, players, randKey, initDue, now, holdings, slack, sent, dayIn>>

(***************************************************************************)
(* The loyalty programme: the player's own actions.                        *)
(***************************************************************************)
(* A new referer starts a new count of what it was paid.                   *)
ReferredKeep(row, referer) == [row EXCEPT !.referer = referer]     \* fault: no reset
Referred(row, referer) == [row EXCEPT !.referer = referer, !.referer_payout = 0]

SetReferer(p, referer) ==
    /\ referer # p /\ referer # Self
    /\ players' = Put(players, p,
                      IF p \in DOMAIN players /\ referer = players[p].referer THEN players[p]
                      ELSE Referred(Player(p), referer))
    /\ UNCHANGED <<games, tokens, unpaid, randKey, initDue, now, holdings, slack, due, sent, dayIn>>

SetRefererReward == 0
PlayAnyGame == 1
PlayAllGames == 2
TotalPlayed == 20 .. 27

(* rewards[]: EOS to have staked, and the points that earns.               *)
RewardAmount == <<10, 100, 500, 1000, 2000, 5000, 10000, 100000>>
RewardPoints == <<10, 100, 300, 500, 1000, 3000, 5000, 10000>>

Points(type) ==
    CASE type = SetRefererReward -> 50
      [] type \in {PlayAnyGame, PlayAllGames} -> 20
      [] type \in TotalPlayed -> RewardPoints[type - 19]
      [] OTHER -> 0

Earned(row, type) ==
    CASE type = SetRefererReward -> row.referer # Nobody
      [] type = PlayAnyGame -> row.game_played_flag # {}
      [] type = PlayAllGames -> PlayAllIds \subseteq row.game_played_flag
      [] type \in TotalPlayed -> row.in >= RewardAmount[type - 19] * 10000
      [] OTHER -> FALSE

AnyClaim(row, type) == TRUE              \* fault: the claim is not looked up
FirstClaim(row, type) == (type % 32) \notin row.bonus_claimed

(* The claim is used up whether or not it was earned; the mask is a 32-bit *)
(* shift, which counts modulo 32.                                          *)
ClaimReward(p, type) ==
    /\ p \in DOMAIN players
    /\ FirstClaim(players[p], type)
    /\ players' = [players EXCEPT
                     ![p].bonus_point = @ + IF Earned(players[p], type) THEN Points(type) ELSE 0,
                     ![p].bonus_claimed = @ \cup {type % 32}]
    /\ UNCHANGED <<games, tokens, unpaid, randKey, initDue, now, holdings, slack, due, sent, dayIn>>

ChestOpenEnd == 4
ChestAmount == <<500, 5000, 10000, 20000, 100000>>
ChestLimit == <<100, 500, 1000, 5000, 20000>>
ChestReward(chest, roll) == ChestAmount[chest + 1] + (ChestAmount[chest + 1] * roll) \div 100

AnyPoints(row, chest) == TRUE            \* fault: the points are not looked up
Affords(row, chest) == row.bonus_point >= ChestLimit[chest + 1]

AnyChest(row, chest) == TRUE             \* fault: opened chests are not looked up
Unopened(row, chest) == chest \notin row.chest_opened

(* The chest's content is drawn at random between one and two times its    *)
(* amount and paid from what the house holds, charged to no game.          *)
OpenChest(p, chest, roll) ==
    LET reward == ChestReward(chest, roll)
    IN  /\ chest <= ChestOpenEnd
        /\ p \in DOMAIN players
        /\ Affords(players[p], chest)
        /\ Unopened(players[p], chest)
        /\ sent[p][EOS] + reward <= MaxOut
        /\ reward <= holdings[EOS] /\ p \in Accounts
        /\ players' = [players EXCEPT ![p].out = @ + reward, ![p].bonus_payout = @ + reward,
                                      ![p].chest_opened = @ \cup {chest}]
        /\ holdings' = [holdings EXCEPT ![EOS] = @ - reward]
        /\ slack' = [slack EXCEPT ![EOS] = Wrap(@ - reward)]
        /\ due' = [due EXCEPT ![p][EOS] = @ + reward]
        /\ sent' = [sent EXCEPT ![p][EOS] = @ + reward]
        /\ UNCHANGED <<games, tokens, unpaid, randKey, initDue, now, dayIn>>

Tick ==
    /\ \E d \in TimeSteps : now + d <= MaxTime /\ now' = now + d
    /\ UNCHANGED <<stores, holdings, slack, due, sent, dayIn>>

Next ==
    \/ \E g \in Games, id \in GameIds : AddGame(g, id)
    \/ RunInit
    \/ \E g \in Games, id \in GameIds : UpdateGame(g, id)
    \/ \E g \in Games, active \in BOOLEAN : SetActive(g, active)
    \/ \E key \in Keys : SetRandKey(key)
    \/ \E g \in Games, s \in Symbols, min \in Mins, max \in Maxes, balance \in Balances :
          UpdateToken(g, s, min, max, balance)
    \/ \E g \in Games : ClearToken(g)
    \/ \E g \in Games, p \in Players, s \in Symbols, amount \in Stakes : Stake(g, p, s, amount)
    \/ \E g \in Games, s \in Symbols, amount \in Deposits : Deposit(g, s, amount)
    \/ \E g \in Games, to \in Players, s \in Symbols, bet \in Bets, payout \in Payouts,
          referer \in Referers :
          PayNow(g, to, s, bet, payout, referer) \/ PayLater(g, to, s, bet, payout, referer)
    \/ \E id \in DOMAIN unpaid : SettleUnpaid(id) \/ DropUnpaid(id)
    \/ \E p \in Players, referer \in Referers : SetReferer(p, referer)
    \/ \E p \in Players, type \in RewardTypes : ClaimReward(p, type)
    \/ \E p \in Players, chest \in ChestTypes, roll \in Rolls : OpenChest(p, chest, roll)
    \/ Tick

Spec == Init /\ [][Next]_vars
-----------------------------------------------------------------------------
(***************************************************************************)
(* What the house promises.                                                *)
(***************************************************************************)
TokensOf(s) == {k \in DOMAIN tokens : k[2] = s}
BalancesOf(s) == [k \in TokensOf(s) |-> tokens[k].balance]
QueuedFor(p, s) == {id \in DOMAIN unpaid : unpaid[id].player = p /\ unpaid[id].sym = s}
PayoutsOf(p, s) == [id \in QueuedFor(p, s) |-> unpaid[id].payout]

(* The balances of the games partition what the house holds: stakes,       *)
(* deposits, payouts, referral bonuses and settled debts move both by the  *)
(* same amount.  Only what the operator writes, what is deposited for no   *)
(* row and what chests cost sets them apart, by exactly slack.             *)
PoolSplit ==
    \A s \in Symbols : holdings[s] % Width = Wrap(SumFunction(BalancesOf(s)) + slack[s])

(* The EOS the token rows say came in is the EOS the player rows say was   *)
(* staked ("we only keep track of EOS cash flow").                         *)
TokenIncomes == [k \in TokensOf(EOS) |-> tokens[k].in]
PlayerIncomes == [p \in DOMAIN players |-> players[p].in]
SameIncome == SumFunction(TokenIncomes) = SumFunction(PlayerIncomes)

(* The books agree, with the token contracts and with each other, after    *)
(* any order of stakes, payments, settlements and operator's writes.       *)
BooksAgree == PoolSplit /\ SameIncome

(* Every payment the house undertook is either sent or still queued, once: *)
(* a delayed payment never overwrites another one, and settling one sends  *)
(* it and only it.                                                         *)
ObligationsMet ==
    \A p \in Players, s \in Symbols :
        due[p][s] = sent[p][s] + SumFunction(PayoutsOf(p, s))

(* A queued payment is never altered: it stays as pay recorded it until it *)
(* is settled or dropped.                                                  *)
UnpaidStable ==
    [][\A id \in DOMAIN unpaid : id \in DOMAIN unpaid' => unpaid'[id] = unpaid[id]]_vars

(* daily_in is the EOS staked on the day of the last stake, however the    *)
(* day boundaries fell between the stakes.                                 *)
DailyIsToday ==
    \A p \in DOMAIN players :
        players[p].daily_in = dayIn[p][players[p].last_play_time \div EventLength]

(* The house never becomes anybody's referer, although games pass its name *)
(* in for a player without one: a bonus to itself would abort the payout.  *)
HouseNeverReferer == \A p \in DOMAIN players : players[p].referer # Self

(* referer_payout counts what the present referer got: with no referer it  *)
(* is zero.                                                                *)
CounterNeedsReferer ==
    \A p \in DOMAIN players : players[p].referer = Nobody => players[p].referer_payout = 0

(* What a player's row says of its referer makes sense, whichever of the   *)
(* two paths, his choice or a payment, put it there.                       *)
RefererSound == HouseNeverReferer /\ CounterNeedsReferer

(* The referer on record is replaced only by a choice that also restarts   *)
(* the counter: a payment never overrides it.                              *)
RefererKept ==
    [][\A p \in DOMAIN players :
          \/ players'[p].referer = players[p].referer
             /\ players'[p].referer_payout >= players[p].referer_payout
          \/ players[p].referer = Nobody
          \/ players'[p].referer_payout = 0]_vars

(* Bonus points come from rewards that were earned, each at most once:     *)
(* they never exceed the points of the claimed rewards that are earned     *)
(* (the referer reward may have been earned by a referer since dropped).   *)
EarnedClaims(row) == {b \in row.bonus_claimed : b = SetRefererReward \/ Earned(row, b)}
PointsEarned ==
    \A p \in DOMAIN players :
        players[p].bonus_point <= SumFunction([b \in EarnedClaims(players[p]) |-> Points(b)])

(* Each chest pays once, between one and two times its amount.             *)
ChestsPayOnce ==
    \A p \in DOMAIN players :
        LET least == SumFunction([c \in players[p].chest_opened |-> ChestAmount[c + 1]])
        IN  least <= players[p].bonus_payout /\ players[p].bonus_payout <= 2 * least

(* A chest is opened only by a player whose points reach its limit.        *)
ChestEarned ==
    \A p \in DOMAIN players : \A c \in players[p].chest_opened :
        players[p].bonus_point >= ChestLimit[c + 1]

(* The loyalty programme gives what was earned and no more, whatever the   *)
(* order of claims and chests.                                             *)
LoyaltyPaidOnce == PointsEarned /\ ChestsPayOnce /\ ChestEarned

(***************************************************************************)
(* What the source says of the program, and the program does not do.       *)
(***************************************************************************)
(* A payout only ever uses up the game's payout limit, the balance         *)
(* (house.cpp:158).                                                        *)
PayoutSpendsBalance ==
    [][\A k \in DOMAIN tokens :
          k \in DOMAIN tokens' /\ tokens'[k].out # tokens[k].out
            => tokens'[k].balance <= tokens[k].balance]_vars
=============================================================================
