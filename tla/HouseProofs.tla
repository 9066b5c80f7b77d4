----------------------------- MODULE HouseProofs -----------------------------
(***************************************************************************)
(* Theorems about House, alone and composed with dice, for every value of  *)
(* their constants.                                                        *)
(***************************************************************************)
EXTENDS Casino, TableLemmas

(* A balance stays within its width whatever is added or taken.            *)
LEMMA WrapInWidth == ASSUME NEW x \in Int PROVE Wrap(x) \in 0 .. Width - 1
  BY HouseAmounts DEF Wrap

(* Adding to one entry of a two-level counter keeps its type.              *)
LEMMA AddTo2 ==
    ASSUME NEW A, NEW B, NEW f \in [A -> [B -> Nat]], NEW a \in A, NEW b, NEW n,
           b \in B => n \in Nat
    PROVE  [f EXCEPT ![a][b] = n] \in [A -> [B -> Nat]]
  BY Zenon

(* Rows fresh from memory have their types.                                *)
LEMMA NewRows ==
    /\ NewPlayer \in PlayerRow
    /\ \A min, max \in Nat, balance \in 0 .. Width - 1 : NewToken(min, max, balance) \in TokenRow
  BY DEF NewPlayer, PlayerRow, Referers, NewToken, TokenRow

(* A player's row, or the one that would be emplaced, has its type.        *)
LEMMA PlayerIsRow == ASSUME TypeOK, NEW p \in Players PROVE Player(p) \in PlayerRow
  BY NewRows DEF TypeOK, IsTable, Player

(* The fields of the rows have their types.                                *)
LEMMA TokenFields ==
    ASSUME NEW r \in TokenRow
    PROVE  r.in \in Nat /\ r.out \in Nat /\ r.balance \in 0 .. Width - 1
  BY DEF TokenRow
LEMMA PlayerFields ==
    ASSUME NEW r \in PlayerRow
    PROVE  /\ r.in \in Nat /\ r.out \in Nat /\ r.daily_in \in Nat /\ r.last_play_time \in Nat
           /\ r.referer \in Referers /\ r.referer_payout \in Nat
           /\ r.bonus_point \in Nat /\ r.bonus_payout \in Nat
           /\ r.game_played_flag \in SUBSET (0 .. 31)
           /\ r.bonus_claimed \in SUBSET (0 .. 31) /\ r.chest_opened \in SUBSET (0 .. 4)
  BY DEF PlayerRow

(***************************************************************************)
(* Type correctness.                                                       *)
(***************************************************************************)
LEMMA InitTypeOK == Init => TypeOK
  <1>1. /\ 0 \in 0 .. MaxTime /\ 0 \in 0 .. Width - 1 /\ 0 \in Nat /\ 0 \in Int
    BY HouseAmounts
  <1> QED BY <1>1, EmptyIsTable DEF Init, TypeOK

LEMMA AddGameType ==
    ASSUME TypeOK, NEW g \in Games, NEW id \in GameIds, AddGame(g, id) PROVE TypeOK'
  <1>1. IsTable(games', Games, GameRow)
    <2>1. [id |-> id, active |-> TRUE] \in GameRow
      BY DEF GameRow
    <2>2. IsTable(games, Games, GameRow)
      BY DEF TypeOK
    <2>3. games' = games \/ games' = Put(games, g, [id |-> id, active |-> TRUE])
      BY DEF AddGame
    <2> QED BY <2>1, <2>2, <2>3, PutIsTable, Zenon
  <1>2. IsTable(tokens', Games \X Symbols, TokenRow)
    <2>1. NewToken(DefaultMin, DefaultMaxPayout, 0) \in TokenRow
      BY NewRows, HouseAmounts, SMT DEF DefaultMin, DefaultMaxPayout
    <2>2. <<g, EOS>> \in Games \X Symbols
      BY HouseSymbols
    <2>3. IsTable(tokens, Games \X Symbols, TokenRow)
      BY DEF TypeOK
    <2>4. \/ tokens' = tokens
          \/ tokens' = Put(tokens, <<g, EOS>>, NewToken(DefaultMin, DefaultMaxPayout, 0))
      BY Zenon DEF AddGame
    <2> QED BY <2>1, <2>2, <2>3, <2>4, PutIsTable, Zenon
  <1> QED BY <1>1, <1>2 DEF TypeOK, AddGame

LEMMA UpdateGameType ==
    ASSUME TypeOK, NEW g \in Games, NEW id \in GameIds, UpdateGame(g, id) PROVE TypeOK'
  <1>0. /\ IsTable(games, Games, GameRow) /\ g \in DOMAIN games
        /\ games[g] \in GameRow
    BY RowOfTable, Zenon DEF TypeOK, UpdateGame
  <1>1. [games[g] EXCEPT !.id = id] \in GameRow
    BY <1>0, Zenon DEF GameRow
  <1>2. games' = [games EXCEPT ![g] = [games[g] EXCEPT !.id = id]]
    BY Zenon DEF UpdateGame
  <1>3. IsTable(games', Games, GameRow)
    BY <1>0, <1>1, <1>2, ModifyIsTable, Zenon
  <1> QED BY <1>3, Zenon DEF TypeOK, UpdateGame

LEMMA SetActiveType ==
    ASSUME TypeOK, NEW g \in Games, NEW on \in BOOLEAN, SetActive(g, on) PROVE TypeOK'
  <1>0. /\ IsTable(games, Games, GameRow) /\ g \in DOMAIN games
        /\ games[g] \in GameRow
    BY RowOfTable, Zenon DEF TypeOK, SetActive
  <1>1. [games[g] EXCEPT !.active = on] \in GameRow
    BY <1>0, Zenon DEF GameRow
  <1>2. games' = [games EXCEPT ![g] = [games[g] EXCEPT !.active = on]]
    BY Zenon DEF SetActive
  <1>3. IsTable(games', Games, GameRow)
    BY <1>0, <1>1, <1>2, ModifyIsTable, Zenon
  <1> QED BY <1>3, Zenon DEF TypeOK, SetActive

LEMMA UpdateTokenType ==
    ASSUME TypeOK, NEW g \in Games, NEW s \in Symbols, NEW min \in Mins, NEW max \in Maxes,
           NEW balance \in Balances, UpdateToken(g, s, min, max, balance)
    PROVE  TypeOK'
  <1> DEFINE k   == <<g, s>>
             old == IF k \in DOMAIN tokens THEN tokens[k] ELSE NewToken(0, 0, 0)
             new == [old EXCEPT !.min = min, !.max_payout = max, !.balance = balance]
  <1>1. old \in TokenRow
    <2>1. NewToken(0, 0, 0) \in TokenRow
      BY NewRows, HouseAmounts
    <2>2. k \in DOMAIN tokens => tokens[k] \in TokenRow
      BY DEF TypeOK, IsTable
    <2> QED BY <2>1, <2>2
  <1>2. min \in Nat /\ max \in Nat /\ balance \in 0 .. Width - 1
    BY HouseAmounts
  <1>3. new \in TokenRow
    BY <1>1, <1>2, Zenon DEF TokenRow
  <1>4. tokens' = Put(tokens, k, new) /\ slack' = [slack EXCEPT ![s] = Wrap(@ + old.balance - balance)]
    BY Zenon DEF UpdateToken
  <1>5. IsTable(tokens', Games \X Symbols, TokenRow)
    BY <1>3, <1>4, PutIsTable DEF TypeOK
  <1>6. slack' \in [Symbols -> 0 .. Width - 1]
    <2>1. slack[s] + old.balance - balance \in Int
      BY <1>1, <1>2, TokenFields, HouseAmounts DEF TypeOK
    <2> QED BY <2>1, <1>4, WrapInWidth DEF TypeOK
  <1> QED BY <1>5, <1>6, Zenon DEF TypeOK, UpdateToken

LEMMA ClearTokenType ==
    ASSUME TypeOK, NEW g \in Games, ClearToken(g) PROVE TypeOK'
  <1>1. IsTable(tokens', Games \X Symbols, TokenRow)
    BY EraseIsTable DEF TypeOK, ClearToken
  <1>2. slack' \in [Symbols -> 0 .. Width - 1]
    <2>1. ASSUME NEW s \in Symbols, <<g, s>> \in DOMAIN tokens
          PROVE  Wrap(slack[s] + tokens[<<g, s>>].balance) \in 0 .. Width - 1
      <3>1. tokens[<<g, s>>] \in TokenRow
        BY <2>1 DEF TypeOK, IsTable
      <3> QED BY <3>1, TokenFields, WrapInWidth, HouseAmounts DEF TypeOK
    <2> QED BY <2>1 DEF TypeOK, ClearToken
  <1> QED BY <1>1, <1>2 DEF TypeOK, ClearToken

LEMMA StakeType ==
    ASSUME TypeOK, NEW g \in Games, NEW p \in Players, NEW s \in Symbols, NEW amount \in Stakes,
           Stake(g, p, s, amount)
    PROVE  TypeOK'
  <1> DEFINE k   == <<g, s>>
             old == Player(p)
             tok == [tokens[k] EXCEPT !.in = @ + amount, !.balance = Wrap(@ + amount)]
             row == [old EXCEPT !.in = @ + Booked(s, amount), !.last_play_time = now,
                                !.daily_in = DailySoFar(old) + Booked(s, amount),
                                !.game_played_flag = @ \cup {PlayedBit(games[g].id)}]
  <1>1. amount \in Nat /\ Booked(s, amount) \in Nat /\ now \in Nat
    BY HouseAmounts DEF Booked, TypeOK
  <1>2. /\ k \in DOMAIN tokens /\ tokens' = [tokens EXCEPT ![k] = tok]
        /\ players' = Put(players, p, row)
        /\ holdings' = [holdings EXCEPT ![s] = @ + amount]
        /\ dayIn' = [dayIn EXCEPT ![p][now \div EventLength] =
                        dayIn[p][now \div EventLength] + Booked(s, amount)]
        /\ g \in DOMAIN games
    BY Zenon DEF Stake
  <1>3. IsTable(tokens', Games \X Symbols, TokenRow)
    <2>1. tokens[k] \in TokenRow
      BY <1>2 DEF TypeOK, IsTable
    <2>2. tokens[k].in + amount \in Nat /\ Wrap(tokens[k].balance + amount) \in 0 .. Width - 1
      BY <1>1, <2>1, TokenFields, WrapInWidth, HouseAmounts
    <2>3. tok \in TokenRow
      BY <2>1, <2>2, Zenon DEF TokenRow
    <2> QED BY <1>2, <2>3, ModifyIsTable, Zenon DEF TypeOK
  <1>4. IsTable(players', Players, PlayerRow)
    <2>1. old \in PlayerRow
      BY PlayerIsRow
    <2>2. old.in + Booked(s, amount) \in Nat /\ DailySoFar(old) + Booked(s, amount) \in Nat
      BY <1>1, <2>1, PlayerFields DEF DailySoFar
    <2>3. games[g].id \in GameIds
      BY <1>2 DEF TypeOK, IsTable, GameRow
    <2>4. PlayedBit(games[g].id) \in 0 .. 31
      BY <2>3, HouseAmounts DEF PlayedBit
    <2>5. row \in PlayerRow
      BY <1>1, <2>1, <2>2, <2>4, Zenon DEF PlayerRow
    <2> QED BY <1>2, <2>5, PutIsTable, Zenon DEF TypeOK
  <1>5. holdings' \in [Symbols -> Nat]
    BY <1>1, <1>2 DEF TypeOK
  <1>6. dayIn' \in [Players -> [Days -> Nat]]
    <2>1. now \div EventLength \in Days
            => dayIn[p][now \div EventLength] + Booked(s, amount) \in Nat
      BY <1>1 DEF TypeOK
    <2>2. dayIn \in [Players -> [Days -> Nat]]
      BY DEF TypeOK
    <2> QED BY <1>2, <2>1, <2>2, Zenon
  <1> QED BY <1>3, <1>4, <1>5, <1>6, Zenon DEF TypeOK, Stake

LEMMA DepositType ==
    ASSUME TypeOK, NEW g \in Games, NEW s \in Symbols, NEW amount \in Deposits,
           Deposit(g, s, amount)
    PROVE  TypeOK'
  <1> DEFINE k == <<g, s>>
  <1>1. amount \in Nat
    BY HouseAmounts
  <1>2. CASE k \in DOMAIN tokens
    <2> DEFINE tok == [tokens[k] EXCEPT !.balance = Wrap(@ + amount)]
    <2>1. tokens[k] \in TokenRow
      BY <1>2 DEF TypeOK, IsTable
    <2>2. Wrap(tokens[k].balance + amount) \in 0 .. Width - 1
      BY <1>1, <2>1, TokenFields, WrapInWidth, HouseAmounts
    <2>3. tok \in TokenRow
      BY <2>1, <2>2, Zenon DEF TokenRow
    <2>4. /\ tokens' = [tokens EXCEPT ![k] = tok] /\ slack' = slack
          /\ holdings' = [holdings EXCEPT ![s] = @ + amount]
      BY <1>2, Zenon DEF Deposit
    <2>5. IsTable(tokens', Games \X Symbols, TokenRow)
      BY <1>2, <2>3, <2>4, ModifyIsTable, Zenon DEF TypeOK
    <2>6. holdings' \in [Symbols -> Nat]
      BY <1>1, <2>4 DEF TypeOK
    <2> QED BY <2>4, <2>5, <2>6, Zenon DEF TypeOK, Deposit
  <1>3. CASE k \notin DOMAIN tokens
    <2>1. /\ tokens' = tokens /\ slack' = [slack EXCEPT ![s] = Wrap(@ + amount)]
          /\ holdings' = [holdings EXCEPT ![s] = @ + amount]
      BY <1>3, Zenon DEF Deposit
    <2>2. slack' \in [Symbols -> 0 .. Width - 1]
      BY <1>1, <2>1, WrapInWidth, HouseAmounts DEF TypeOK
    <2>3. holdings' \in [Symbols -> Nat]
      BY <1>1, <2>1 DEF TypeOK
    <2> QED BY <2>1, <2>2, <2>3, Zenon DEF TypeOK, Deposit
  <1> QED BY <1>2, <1>3

LEMMA PayLaterType ==
    ASSUME TypeOK, NEW g \in Games, NEW to \in Players, NEW s \in Symbols, NEW bet \in Nat,
           NEW payout \in Nat, NEW referer \in Referers,
           PayLater(g, to, s, bet, payout, referer)
    PROVE  TypeOK'
  <1> DEFINE debt == [game |-> g, player |-> to, sym |-> s, bet |-> bet, payout |-> payout,
                      referer |-> referer]
  <1>2. debt \in DelayedPayment
    BY DEF DelayedPayment
  <1>3. PICK id \in 0 .. MaxUnpaid - 1 : unpaid' = Put(unpaid, id, debt)
    BY Zenon DEF PayLater
  <1>4. id \in Nat
    BY HouseAmounts
  <1>5. IsTable(unpaid', Nat, DelayedPayment)
    BY <1>2, <1>3, <1>4, PutIsTable, Zenon DEF TypeOK
  <1>6. due' \in [Players -> [Symbols -> Int]]
    <2>1. due[to][s] + payout \in Int /\ due \in [Players -> [Symbols -> Int]]
      BY DEF TypeOK
    <2>2. due' = [due EXCEPT ![to][s] = due[to][s] + payout]
      BY Zenon DEF PayLater
    <2> QED BY <2>1, <2>2, Zenon
  <1> QED BY <1>5, <1>6, Zenon DEF TypeOK, PayLater

(* The bonus is an amount.                                                 *)
LEMMA BonusIsNat == ASSUME NEW g, NEW bet \in Nat PROVE ReferBonus(g, bet) \in Nat
  <1>1. (bet * ReferralBonus) \div 1000 \in Nat
    BY SMT DEF ReferralBonus
  <1>2. ((bet * ReferralBonus) \div 1000) \div 5 \in Nat
    BY <1>1, SMT
  <1> QED BY <1>1, <1>2, Zenon DEF ReferBonus

LEMMA PayNowType ==
    ASSUME TypeOK, NEW g \in Games, NEW to \in Players, NEW s \in Symbols, NEW bet \in Nat,
           NEW payout \in Nat, NEW referer \in Referers,
           PayNow(g, to, s, bet, payout, referer)
    PROVE  TypeOK'
  <1> DEFINE k     == <<g, s>>
             known == s = EOS /\ to \in DOMAIN players
             payee == IF known THEN RefererOf(to, referer) ELSE Nobody
             bonus == IF payee = Nobody THEN 0 ELSE ReferBonus(g, bet)
             spent == payout + bonus
             row   == [players[to] EXCEPT !.out = @ + payout, !.referer = payee,
                                          !.referer_payout = @ + bonus]
             tok   == [tokens[k] EXCEPT !.out = @ + spent, !.balance = Wrap(@ - spent)]
  <1>1. payout \in Nat /\ bonus \in Nat /\ spent \in Nat
    <2>1. bonus \in Nat
      BY BonusIsNat
    <2> QED BY <2>1
  <1>2. /\ k \in DOMAIN tokens /\ spent <= holdings[s]
        /\ players' = (IF known THEN [players EXCEPT ![to] = row] ELSE players)
        /\ tokens' = [tokens EXCEPT ![k] = tok]
        /\ holdings' = [holdings EXCEPT ![s] = holdings[s] - spent]
        /\ due' = [due EXCEPT ![to][s] = due[to][s] + payout]
        /\ sent' = [sent EXCEPT ![to][s] = sent[to][s] + payout]
    BY Zenon DEF PayNow, Charge
  <1>3. IsTable(players', Players, PlayerRow)
    <2>1. CASE known
      <3>1. players[to] \in PlayerRow
        BY <2>1 DEF TypeOK, IsTable
      <3>2. payee \in Referers
        BY <2>1, <3>1, PlayerFields, Zenon DEF RefererOf, Referers
      <3>3. players[to].out + payout \in Nat /\ players[to].referer_payout + bonus \in Nat
        BY <1>1, <3>1, PlayerFields
      <3>4. row \in PlayerRow
        BY <3>1, <3>2, <3>3, Zenon DEF PlayerRow
      <3> QED BY <1>2, <2>1, <3>4, ModifyIsTable, Zenon DEF TypeOK
    <2>2. CASE ~known
      BY <1>2, <2>2, Zenon DEF TypeOK
    <2> QED BY <2>1, <2>2
  <1>4. IsTable(tokens', Games \X Symbols, TokenRow)
    <2>1. tokens[k] \in TokenRow
      BY <1>2 DEF TypeOK, IsTable
    <2>2. tokens[k].out + spent \in Nat /\ Wrap(tokens[k].balance - spent) \in 0 .. Width - 1
      BY <1>1, <2>1, TokenFields, WrapInWidth, HouseAmounts
    <2>3. tok \in TokenRow
      BY <2>1, <2>2, Zenon DEF TokenRow
    <2> QED BY <1>2, <2>3, ModifyIsTable, Zenon DEF TypeOK
  <1>5. holdings' \in [Symbols -> Nat]
    <2>1. holdings[s] \in Nat /\ holdings[s] - spent \in Nat
      BY <1>1, <1>2 DEF TypeOK
    <2> QED BY <1>2, <2>1, Zenon DEF TypeOK
  <1>6. due' \in [Players -> [Symbols -> Int]] /\ sent' \in [Players -> [Symbols -> Nat]]
    <2>1. /\ due[to][s] + payout \in Int /\ due \in [Players -> [Symbols -> Int]]
          /\ sent[to][s] + payout \in Nat /\ sent \in [Players -> [Symbols -> Nat]]
      BY <1>1 DEF TypeOK
    <2> QED BY <1>2, <2>1, Zenon
  <1> QED BY <1>3, <1>4, <1>5, <1>6, Zenon DEF TypeOK, PayNow

LEMMA SettleUnpaidType ==
    ASSUME TypeOK, NEW id \in DOMAIN unpaid, SettleUnpaid(id) PROVE TypeOK'
  <1> DEFINE d   == unpaid[id]
             k   == <<d.game, d.sym>>
             row == [players[d.player] EXCEPT !.out = @ + d.payout]
             tok == [tokens[k] EXCEPT !.out = d.payout, !.balance = Wrap(@ - d.payout)]
  <1>1. d.payout \in Nat /\ d.player \in Players /\ d.sym \in Symbols
    BY DEF TypeOK, IsTable, DelayedPayment
  <1>2. /\ d.player \in DOMAIN players /\ k \in DOMAIN tokens /\ d.payout <= holdings[d.sym]
        /\ players' = [players EXCEPT ![d.player] = row]
        /\ tokens' = [tokens EXCEPT ![k] = tok]
        /\ holdings' = [holdings EXCEPT ![d.sym] = holdings[d.sym] - d.payout]
        /\ sent' = [sent EXCEPT ![d.player][d.sym] = sent[d.player][d.sym] + d.payout]
        /\ unpaid' = Erase(unpaid, {id})
    BY Zenon DEF SettleUnpaid
  <1>3. IsTable(players', Players, PlayerRow)
    <2>1. players[d.player] \in PlayerRow
      BY <1>2 DEF TypeOK, IsTable
    <2>2. players[d.player].out + d.payout \in Nat
      BY <1>1, <2>1, PlayerFields
    <2>3. row \in PlayerRow
      BY <2>1, <2>2, Zenon DEF PlayerRow
    <2> QED BY <1>2, <2>3, ModifyIsTable, Zenon DEF TypeOK
  <1>4. IsTable(tokens', Games \X Symbols, TokenRow)
    <2>1. tokens[k] \in TokenRow
      BY <1>2 DEF TypeOK, IsTable
    <2>2. Wrap(tokens[k].balance - d.payout) \in 0 .. Width - 1
      BY <1>1, <2>1, TokenFields, WrapInWidth, HouseAmounts
    <2>3. tok \in TokenRow
      BY <1>1, <2>1, <2>2, Zenon DEF TokenRow
    <2> QED BY <1>2, <2>3, ModifyIsTable, Zenon DEF TypeOK
  <1>5. holdings' \in [Symbols -> Nat]
    <2>1. holdings[d.sym] \in Nat /\ holdings[d.sym] - d.payout \in Nat
      BY <1>1, <1>2 DEF TypeOK
    <2> QED BY <1>2, <2>1, Zenon DEF TypeOK
  <1>6. sent' \in [Players -> [Symbols -> Nat]]
    <2>1. sent[d.player][d.sym] + d.payout \in Nat /\ sent \in [Players -> [Symbols -> Nat]]
      BY <1>1 DEF TypeOK
    <2> QED BY <1>2, <2>1, Zenon
  <1>7. IsTable(unpaid', Nat, DelayedPayment)
    BY <1>2, EraseIsTable, Zenon DEF TypeOK
  <1> QED BY <1>3, <1>4, <1>5, <1>6, <1>7, Zenon DEF TypeOK, SettleUnpaid

LEMMA DropUnpaidType ==
    ASSUME TypeOK, NEW id \in DOMAIN unpaid, DropUnpaid(id) PROVE TypeOK'
  <1> DEFINE d == unpaid[id]
  <1>1. IsTable(unpaid', Nat, DelayedPayment)
    BY EraseIsTable, Zenon DEF TypeOK, DropUnpaid
  <1>2. due' \in [Players -> [Symbols -> Int]]
    <2>1. d.payout \in Nat /\ d.player \in Players /\ d.sym \in Symbols
      BY DEF TypeOK, IsTable, DelayedPayment
    <2>2. /\ due[d.player][d.sym] - d.payout \in Int
          /\ due \in [Players -> [Symbols -> Int]]
      BY <2>1 DEF TypeOK
    <2>3. due' = [due EXCEPT ![d.player][d.sym] = due[d.player][d.sym] - d.payout]
      BY Zenon DEF DropUnpaid
    <2> QED BY <2>2, <2>3, Zenon
  <1> QED BY <1>1, <1>2, Zenon DEF TypeOK, DropUnpaid

(* The row setreferer writes.                                              *)
LEMMA ReferredIsRow ==
    ASSUME NEW row \in PlayerRow, NEW referer \in Referers
    PROVE  Referred(row, referer) \in PlayerRow
  <1>1. 0 \in Nat
    OBVIOUS
  <1> QED BY <1>1, Zenon DEF Referred, PlayerRow

LEMMA SetRefererType ==
    ASSUME TypeOK, NEW p \in Players, NEW referer \in Referers, SetReferer(p, referer)
    PROVE  TypeOK'
  <1>1. Player(p) \in PlayerRow /\ (p \in DOMAIN players => players[p] \in PlayerRow)
    BY PlayerIsRow DEF TypeOK, IsTable
  <1>2. PICK row \in PlayerRow : players' = Put(players, p, row)
    BY <1>1, ReferredIsRow, Zenon DEF SetReferer
  <1>3. IsTable(players', Players, PlayerRow)
    BY <1>2, PutIsTable, Zenon DEF TypeOK
  <1> QED BY <1>3, Zenon DEF TypeOK, SetReferer

(* Every reward is worth a number of points.                               *)
LEMMA PointsAreNat == ASSUME NEW type PROVE Points(type) \in Nat
  <1>1. ASSUME type \in TotalPlayed PROVE RewardPoints[type - 19] \in Nat
    <2>1. type - 19 \in 1 .. 8
      BY <1>1, SMT DEF TotalPlayed
    <2> QED BY <2>1, SMT DEF RewardPoints
  <1> QED BY <1>1, SMT DEF Points, SetRefererReward, PlayAnyGame, PlayAllGames

LEMMA ClaimRewardType ==
    ASSUME TypeOK, NEW p \in Players, NEW type \in RewardTypes, ClaimReward(p, type)
    PROVE  TypeOK'
  <1> DEFINE gain == IF Earned(players[p], type) THEN Points(type) ELSE 0
             row  == [players[p] EXCEPT !.bonus_point = @ + gain,
                                        !.bonus_claimed = @ \cup {type % 32}]
  <1>1. p \in DOMAIN players /\ players' = [players EXCEPT ![p] = row]
    BY Zenon DEF ClaimReward
  <1>2. players[p] \in PlayerRow
    BY <1>1 DEF TypeOK, IsTable
  <1>3. type % 32 \in 0 .. 31
    BY HouseAmounts, SMT
  <1>4. gain \in Nat
    BY PointsAreNat
  <1>5. /\ players[p].bonus_point + gain \in Nat
        /\ players[p].bonus_claimed \cup {type % 32} \in SUBSET (0 .. 31)
    BY <1>2, <1>3, <1>4, PlayerFields
  <1>6. row \in PlayerRow
    BY <1>2, <1>5, Zenon DEF PlayerRow
  <1>7. IsTable(players', Players, PlayerRow)
    BY <1>1, <1>6, ModifyIsTable, Zenon DEF TypeOK
  <1> QED BY <1>7, Zenon DEF TypeOK, ClaimReward

(* Every chest holds an amount.                                            *)
LEMMA ChestRewardIsNat ==
    ASSUME NEW chest \in 0 .. 4, NEW roll \in Nat PROVE ChestReward(chest, roll) \in Nat
  <1>1. ChestAmount[chest + 1] \in Nat
    BY SMT DEF ChestAmount
  <1>2. ChestAmount[chest + 1] * roll \in Nat
    BY <1>1, SMT
  <1>3. (ChestAmount[chest + 1] * roll) \div 100 \in Nat
    BY <1>2, SMT
  <1> QED BY <1>1, <1>3, SMT DEF ChestReward

LEMMA OpenChestType ==
    ASSUME TypeOK, NEW p \in Players, NEW chest \in ChestTypes, NEW roll \in Rolls,
           OpenChest(p, chest, roll)
    PROVE  TypeOK'
  <1> DEFINE reward == ChestReward(chest, roll)
             row    == [players[p] EXCEPT !.out = @ + reward, !.bonus_payout = @ + reward,
                                          !.chest_opened = @ \cup {chest}]
  <1>1. /\ p \in DOMAIN players /\ chest <= ChestOpenEnd /\ reward <= holdings[EOS]
        /\ players' = [players EXCEPT ![p] = row]
        /\ holdings' = [holdings EXCEPT ![EOS] = holdings[EOS] - reward]
        /\ slack' = [slack EXCEPT ![EOS] = Wrap(slack[EOS] - reward)]
        /\ due' = [due EXCEPT ![p][EOS] = due[p][EOS] + reward]
        /\ sent' = [sent EXCEPT ![p][EOS] = sent[p][EOS] + reward]
    BY Zenon DEF OpenChest
  <1>2. chest \in 0 .. 4 /\ roll \in Nat /\ EOS \in Symbols
    BY <1>1, HouseAmounts, HouseSymbols DEF ChestOpenEnd
  <1>3. reward \in Nat
    BY <1>2, ChestRewardIsNat
  <1>4. IsTable(players', Players, PlayerRow)
    <2>1. players[p] \in PlayerRow
      BY <1>1 DEF TypeOK, IsTable
    <2>2. /\ players[p].out + reward \in Nat /\ players[p].bonus_payout + reward \in Nat
          /\ players[p].chest_opened \cup {chest} \in SUBSET (0 .. 4)
      BY <1>2, <1>3, <2>1, PlayerFields
    <2>3. row \in PlayerRow
      BY <2>1, <2>2, Zenon DEF PlayerRow
    <2> QED BY <1>1, <2>3, ModifyIsTable, Zenon DEF TypeOK
  <1>5. holdings' \in [Symbols -> Nat]
    <2>1. holdings[EOS] - reward \in Nat
      BY <1>1, <1>2, <1>3 DEF TypeOK
    <2> QED BY <1>1, <2>1, Zenon DEF TypeOK
  <1>6. slack' \in [Symbols -> 0 .. Width - 1]
    <2>1. Wrap(slack[EOS] - reward) \in 0 .. Width - 1
      BY <1>2, <1>3, WrapInWidth, HouseAmounts DEF TypeOK
    <2> QED BY <1>1, <2>1, Zenon DEF TypeOK
  <1>7. due' \in [Players -> [Symbols -> Int]] /\ sent' \in [Players -> [Symbols -> Nat]]
    <2>1. /\ due[p][EOS] + reward \in Int /\ due \in [Players -> [Symbols -> Int]]
          /\ sent[p][EOS] + reward \in Nat /\ sent \in [Players -> [Symbols -> Nat]]
      BY <1>2, <1>3 DEF TypeOK
    <2> QED BY <1>1, <2>1, Zenon
  <1> QED BY <1>4, <1>5, <1>6, <1>7, Zenon DEF TypeOK, OpenChest

LEMMA TickType == ASSUME TypeOK, Tick PROVE TypeOK'
  <1>1. now' \in 0 .. MaxTime
    BY HouseAmounts DEF TypeOK, Tick
  <1> QED BY <1>1, Zenon DEF TypeOK, Tick, stores

LEMMA StutterType == ASSUME TypeOK, UNCHANGED vars PROVE TypeOK'
  BY Zenon DEF TypeOK, vars, stores

LEMMA NextTypeOK == TypeOK /\ [Next]_vars => TypeOK'
  <1> SUFFICES ASSUME TypeOK, [Next]_vars PROVE TypeOK'
    OBVIOUS
  <1>1. CASE \E g \in Games, id \in GameIds : AddGame(g, id)
    BY <1>1, AddGameType, Zenon
  <1>2. CASE RunInit
    BY <1>2, Zenon DEF TypeOK, RunInit
  <1>3. CASE \E g \in Games, id \in GameIds : UpdateGame(g, id)
    BY <1>3, UpdateGameType, Zenon
  <1>4. CASE \E g \in Games, on \in BOOLEAN : SetActive(g, on)
    BY <1>4, SetActiveType, Zenon
  <1>5. CASE \E key \in Keys : SetRandKey(key)
    BY <1>5, Zenon DEF TypeOK, SetRandKey
  <1>6. CASE \E g \in Games, s \in Symbols, min \in Mins, max \in Maxes, balance \in Balances :
               UpdateToken(g, s, min, max, balance)
    BY <1>6, UpdateTokenType, Zenon
  <1>7. CASE \E g \in Games : ClearToken(g)
    BY <1>7, ClearTokenType, Zenon
  <1>8. CASE \E g \in Games, p \in Players, s \in Symbols, amount \in Stakes :
               Stake(g, p, s, amount)
    BY <1>8, StakeType, Zenon
  <1>9. CASE \E g \in Games, s \in Symbols, amount \in Deposits : Deposit(g, s, amount)
    BY <1>9, DepositType, Zenon
  <1>10. CASE \E g \in Games, to \in Players, s \in Symbols, bet \in Bets, payout \in Payouts,
                referer \in Referers :
                PayNow(g, to, s, bet, payout, referer) \/ PayLater(g, to, s, bet, payout, referer)
    <2>1. Bets \subseteq Nat /\ Payouts \subseteq Nat
      BY HouseAmounts
    <2> QED BY <1>10, <2>1, PayNowType, PayLaterType, Zenon
  <1>11. CASE \E id \in DOMAIN unpaid : SettleUnpaid(id) \/ DropUnpaid(id)
    BY <1>11, SettleUnpaidType, DropUnpaidType, Zenon
  <1>12. CASE \E p \in Players, referer \in Referers : SetReferer(p, referer)
    BY <1>12, SetRefererType, Zenon
  <1>13. CASE \E p \in Players, type \in RewardTypes : ClaimReward(p, type)
    BY <1>13, ClaimRewardType, Zenon
  <1>14. CASE \E p \in Players, chest \in ChestTypes, roll \in Rolls : OpenChest(p, chest, roll)
    BY <1>14, OpenChestType, Zenon
  <1>15. CASE Tick
    BY <1>15, TickType
  <1>16. CASE UNCHANGED vars
    BY <1>16, StutterType
  <1> QED BY <1>1, <1>2, <1>3, <1>4, <1>5, <1>6, <1>7, <1>8, <1>9, <1>10, <1>11, <1>12, <1>13,
             <1>14, <1>15, <1>16, Zenon DEF Next

(* Every reachable state of the house is well typed: in particular a       *)
(* balance is within its width and the house never holds a negative        *)
(* amount.                                                                 *)
THEOREM TypeCorrect == Spec => []TypeOK
  <1> QED BY InitTypeOK, NextTypeOK, PTL DEF Spec

(***************************************************************************)
(* What is true of every player row: the referer and the chests.           *)
(***************************************************************************)
Sound(row) ==
    /\ row.referer # Self
    /\ row.referer = Nobody => row.referer_payout = 0
    /\ \A c \in row.chest_opened : row.bonus_point >= ChestLimit[c + 1]

RowsSound == \A p \in DOMAIN players : Sound(players[p])

(* A fresh row is sound.                                                   *)
LEMMA NewPlayerSound == Sound(NewPlayer)
  BY HouseNames, Zenon DEF Sound, NewPlayer

(* Writing a sound row leaves every row sound.                             *)
LEMMA PutSound ==
    ASSUME RowsSound, NEW p, NEW row, Sound(row), players' = Put(players, p, row)
    PROVE  RowsSound'
  <1> SUFFICES ASSUME NEW q \in DOMAIN players' PROVE Sound(players'[q])
    BY Zenon DEF RowsSound, Sound
  <1>1. CASE q = p
    <2>1. players'[q] = row
      BY <1>1 DEF Put
    <2> QED BY <2>1, Zenon
  <1>2. CASE q # p
    <2>1. q \in DOMAIN players /\ players'[q] = players[q]
      BY <1>2 DEF Put
    <2> QED BY <2>1, Zenon DEF RowsSound
  <1> QED BY <1>1, <1>2

LEMMA ModifySound ==
    ASSUME RowsSound, NEW p \in DOMAIN players, NEW row, Sound(row),
           players' = [players EXCEPT ![p] = row]
    PROVE  RowsSound'
  <1> SUFFICES ASSUME NEW q \in DOMAIN players' PROVE Sound(players'[q])
    BY Zenon DEF RowsSound, Sound
  <1>1. q \in DOMAIN players /\ (players'[q] = row \/ players'[q] = players[q])
    BY Zenon
  <1> QED BY <1>1, Zenon DEF RowsSound

LEMMA StakeSound ==
    ASSUME TypeOK, RowsSound, NEW g \in Games, NEW p \in Players, NEW s \in Symbols,
           NEW amount \in Stakes, Stake(g, p, s, amount)
    PROVE  RowsSound'
  <1> DEFINE old == Player(p)
             row == [old EXCEPT !.in = @ + Booked(s, amount), !.last_play_time = now,
                                !.daily_in = DailySoFar(old) + Booked(s, amount),
                                !.game_played_flag = @ \cup {PlayedBit(games[g].id)}]
  <1>1. players' = Put(players, p, row)
    BY Zenon DEF Stake
  <1>2. old \in PlayerRow /\ Sound(old)
    BY PlayerIsRow, NewPlayerSound, Zenon DEF Player, RowsSound
  <1>3. /\ row.referer = old.referer /\ row.referer_payout = old.referer_payout
        /\ row.chest_opened = old.chest_opened /\ row.bonus_point = old.bonus_point
    BY <1>2, Zenon DEF PlayerRow
  <1>4. Sound(row)
    BY <1>2, <1>3, Zenon DEF Sound
  <1> QED BY <1>1, <1>4, PutSound, Zenon

LEMMA PayNowSound ==
    ASSUME TypeOK, RowsSound, NEW g \in Games, NEW to \in Players, NEW s \in Symbols,
           NEW bet \in Bets, NEW payout \in Payouts, NEW referer \in Referers,
           PayNow(g, to, s, bet, payout, referer)
    PROVE  RowsSound'
  <1> DEFINE known == s = EOS /\ to \in DOMAIN players
             payee == IF known THEN RefererOf(to, referer) ELSE Nobody
             bonus == IF payee = Nobody THEN 0 ELSE ReferBonus(g, bet)
             old   == players[to]
             row   == [old EXCEPT !.out = @ + payout, !.referer = payee,
                                  !.referer_payout = @ + bonus]
  <1>1. players' = (IF known THEN [players EXCEPT ![to] = row] ELSE players)
    BY Zenon DEF PayNow
  <1>2. CASE known
    <2>1. old \in PlayerRow /\ Sound(old)
      BY <1>2, Zenon DEF TypeOK, IsTable, RowsSound
    <2>2. /\ row.referer = payee /\ row.referer_payout = old.referer_payout + bonus
          /\ row.chest_opened = old.chest_opened /\ row.bonus_point = old.bonus_point
      BY <2>1, Zenon DEF PlayerRow
    <2>3. payee # Self
      BY <1>2, <2>1, HouseNames, Zenon DEF RefererOf, Sound
    <2>4. payee = Nobody => old.referer_payout + bonus = 0
      <3>1. payee = Nobody => old.referer = Nobody /\ bonus = 0
        BY <1>2, Zenon DEF RefererOf
      <3>2. old.referer = Nobody => old.referer_payout = 0
        BY <2>1, Zenon DEF Sound
      <3> QED BY <3>1, <3>2
    <2>5. Sound(row)
      BY <2>1, <2>2, <2>3, <2>4, Zenon DEF Sound
    <2> QED BY <1>1, <1>2, <2>5, ModifySound, Zenon
  <1>3. CASE ~known
    BY <1>1, <1>3, Zenon DEF RowsSound, Sound
  <1> QED BY <1>2, <1>3

LEMMA SettleUnpaidSound ==
    ASSUME TypeOK, RowsSound, NEW id \in DOMAIN unpaid, SettleUnpaid(id) PROVE RowsSound'
  <1> DEFINE p   == unpaid[id].player
             old == players[p]
             row == [old EXCEPT !.out = @ + unpaid[id].payout]
  <1>1. p \in DOMAIN players /\ players' = [players EXCEPT ![p] = row]
    BY Zenon DEF SettleUnpaid
  <1>2. old \in PlayerRow /\ Sound(old)
    BY <1>1, Zenon DEF TypeOK, IsTable, RowsSound
  <1>3. /\ row.referer = old.referer /\ row.referer_payout = old.referer_payout
        /\ row.chest_opened = old.chest_opened /\ row.bonus_point = old.bonus_point
    BY <1>2, Zenon DEF PlayerRow
  <1>4. Sound(row)
    BY <1>2, <1>3, Zenon DEF Sound
  <1> QED BY <1>1, <1>4, ModifySound, Zenon

LEMMA SetRefererSound ==
    ASSUME TypeOK, RowsSound, NEW p \in Players, NEW referer \in Referers, SetReferer(p, referer)
    PROVE  RowsSound'
  <1> DEFINE old == Player(p)
             row == Referred(old, referer)
  <1>1. old \in PlayerRow /\ Sound(old)
    BY PlayerIsRow, NewPlayerSound, Zenon DEF Player, RowsSound
  <1>2. /\ row.referer = referer /\ row.referer_payout = 0
        /\ row.chest_opened = old.chest_opened /\ row.bonus_point = old.bonus_point
    BY <1>1, Zenon DEF PlayerRow, Referred
  <1>3. Sound(row)
    BY <1>1, <1>2, Zenon DEF Sound, SetReferer
  <1>4. players' = Put(players, p, row) \/ players' = Put(players, p, old)
    BY Zenon DEF SetReferer, Player
  <1> QED BY <1>1, <1>3, <1>4, PutSound, Zenon

LEMMA ClaimRewardSound ==
    ASSUME TypeOK, RowsSound, NEW p \in Players, NEW type \in RewardTypes, ClaimReward(p, type)
    PROVE  RowsSound'
  <1> DEFINE gain == IF Earned(players[p], type) THEN Points(type) ELSE 0
             old  == players[p]
             row  == [old EXCEPT !.bonus_point = @ + gain, !.bonus_claimed = @ \cup {type % 32}]
  <1>1. p \in DOMAIN players /\ players' = [players EXCEPT ![p] = row]
    BY Zenon DEF ClaimReward
  <1>2. old \in PlayerRow /\ Sound(old)
    BY <1>1, Zenon DEF TypeOK, IsTable, RowsSound
  <1>3. /\ row.referer = old.referer /\ row.referer_payout = old.referer_payout
        /\ row.chest_opened = old.chest_opened /\ row.bonus_point = old.bonus_point + gain
    BY <1>2, Zenon DEF PlayerRow
  <1>4. ASSUME NEW c \in old.chest_opened PROVE old.bonus_point + gain >= ChestLimit[c + 1]
    <2>1. c \in 0 .. 4 /\ old.bonus_point \in Nat /\ gain \in Nat
      BY <1>2, PlayerFields, PointsAreNat
    <2>2. ChestLimit[c + 1] \in Nat
      BY <2>1, SMT DEF ChestLimit
    <2>3. old.bonus_point >= ChestLimit[c + 1]
      BY <1>2, Zenon DEF Sound
    <2> QED BY <2>1, <2>2, <2>3
  <1>5. Sound(row)
    BY <1>2, <1>3, <1>4, Zenon DEF Sound
  <1> QED BY <1>1, <1>5, ModifySound, Zenon

LEMMA OpenChestSound ==
    ASSUME TypeOK, RowsSound, NEW p \in Players, NEW chest \in ChestTypes, NEW roll \in Rolls,
           OpenChest(p, chest, roll)
    PROVE  RowsSound'
  <1> DEFINE reward == ChestReward(chest, roll)
             old    == players[p]
             row    == [old EXCEPT !.out = @ + reward, !.bonus_payout = @ + reward,
                                   !.chest_opened = @ \cup {chest}]
  <1>1. /\ p \in DOMAIN players /\ players' = [players EXCEPT ![p] = row]
        /\ old.bonus_point >= ChestLimit[chest + 1]
    BY Zenon DEF OpenChest, Affords
  <1>2. old \in PlayerRow /\ Sound(old)
    BY <1>1, Zenon DEF TypeOK, IsTable, RowsSound
  <1>3. /\ row.referer = old.referer /\ row.referer_payout = old.referer_payout
        /\ row.chest_opened = old.chest_opened \cup {chest} /\ row.bonus_point = old.bonus_point
    BY <1>2, Zenon DEF PlayerRow
  <1>4. Sound(row)
    BY <1>1, <1>2, <1>3, Zenon DEF Sound
  <1> QED BY <1>1, <1>4, ModifySound, Zenon

LEMMA NextRowsSound == TypeOK /\ RowsSound /\ [Next]_vars => RowsSound'
  <1> SUFFICES ASSUME TypeOK, RowsSound, [Next]_vars PROVE RowsSound'
    OBVIOUS
  <1>1. CASE UNCHANGED players
    BY <1>1, Zenon DEF RowsSound, Sound
  <1>2. CASE \E g \in Games, p \in Players, s \in Symbols, amount \in Stakes :
               Stake(g, p, s, amount)
    BY <1>2, StakeSound, Zenon
  <1>3. CASE \E g \in Games, to \in Players, s \in Symbols, bet \in Bets, payout \in Payouts,
                referer \in Referers : PayNow(g, to, s, bet, payout, referer)
    BY <1>3, PayNowSound, Zenon
  <1>4. CASE \E id \in DOMAIN unpaid : SettleUnpaid(id)
    BY <1>4, SettleUnpaidSound, Zenon
  <1>5. CASE \E p \in Players, referer \in Referers : SetReferer(p, referer)
    BY <1>5, SetRefererSound, Zenon
  <1>6. CASE \E p \in Players, type \in RewardTypes : ClaimReward(p, type)
    BY <1>6, ClaimRewardSound, Zenon
  <1>7. CASE \E p \in Players, chest \in ChestTypes, roll \in Rolls : OpenChest(p, chest, roll)
    BY <1>7, OpenChestSound, Zenon
  <1>8. ASSUME NEW g \in Games, NEW id, AddGame(g, id) \/ UpdateGame(g, id) \/ SetActive(g, id)
        PROVE  UNCHANGED players
    BY <1>8, Zenon DEF AddGame, UpdateGame, SetActive
  <1>9. ASSUME NEW key, RunInit \/ SetRandKey(key) \/ Tick PROVE UNCHANGED players
    BY <1>9, Zenon DEF RunInit, SetRandKey, Tick, stores
  <1>10. ASSUME NEW g, NEW s, NEW min, NEW max, NEW balance,
                UpdateToken(g, s, min, max, balance) \/ ClearToken(g) \/ Deposit(g, s, balance)
         PROVE  UNCHANGED players
    BY <1>10, Zenon DEF UpdateToken, ClearToken, Deposit
  <1>11. ASSUME NEW g, NEW to, NEW s, NEW bet, NEW payout, NEW referer,
                PayLater(g, to, s, bet, payout, referer)
         PROVE  UNCHANGED players
    BY <1>11, Zenon DEF PayLater
  <1>12. ASSUME NEW id, DropUnpaid(id) PROVE UNCHANGED players
    BY <1>12, Zenon DEF DropUnpaid
  <1>13. CASE UNCHANGED vars
    BY <1>1, <1>13, Zenon DEF vars, stores
  <1> QED BY <1>1, <1>2, <1>3, <1>4, <1>5, <1>6, <1>7, <1>8, <1>9, <1>10, <1>11, <1>12, <1>13,
             Zenon DEF Next

THEOREM RowsAlwaysSound == Spec => []RowsSound
  <1>1. Init => RowsSound
    BY Zenon DEF Init, RowsSound, EmptyTable
  <1> QED BY <1>1, InitTypeOK, NextTypeOK, NextRowsSound, PTL DEF Spec

(* Payments never make the house a player's referer.                       *)
THEOREM HouseIsNeverReferer == Spec => []HouseNeverReferer
  <1>1. RowsSound => HouseNeverReferer
    BY Zenon DEF RowsSound, Sound, HouseNeverReferer
  <1> QED BY <1>1, RowsAlwaysSound, PTL

(* Without a referer there is nothing on the referer's counter.            *)
THEOREM NoRefererNoCounter == Spec => []CounterNeedsReferer
  <1>1. RowsSound => CounterNeedsReferer
    BY Zenon DEF RowsSound, Sound, CounterNeedsReferer
  <1> QED BY <1>1, RowsAlwaysSound, PTL

(* Both, the sanity of what a row says of its referer.                     *)
THEOREM RefererIsSound == Spec => []RefererSound
  <1> QED BY HouseIsNeverReferer, NoRefererNoCounter, PTL DEF RefererSound

(* An opened chest was earned, and its points are still there.             *)
THEOREM ChestsAreEarned == Spec => []ChestEarned
  <1>1. RowsSound => ChestEarned
    BY Zenon DEF RowsSound, Sound, ChestEarned
  <1> QED BY <1>1, RowsAlwaysSound, PTL

(* A queued payment is what pay recorded until it is settled or dropped.   *)
THEOREM UnpaidIsStable == Spec => UnpaidStable
  <1> DEFINE Stable == \A id \in DOMAIN unpaid : id \in DOMAIN unpaid' => unpaid'[id] = unpaid[id]
  <1>1. ASSUME TypeOK, NEW g, NEW to, NEW s, NEW bet, NEW payout, NEW referer,
               PayLater(g, to, s, bet, payout, referer)
        PROVE  Stable
    <2>1. PICK new \in 0 .. MaxUnpaid - 1 : \E row :
             (\A other \in DOMAIN unpaid : other < new) /\ unpaid' = Put(unpaid, new, row)
      BY <1>1, Zenon DEF PayLater, IsNextId
    <2>2. ASSUME NEW id \in DOMAIN unpaid PROVE id # new
      BY <1>1, <2>1, HouseAmounts DEF TypeOK, IsTable
    <2> QED BY <2>1, <2>2 DEF Put
  <1>2. ASSUME NEW id \in DOMAIN unpaid, SettleUnpaid(id) \/ DropUnpaid(id) PROVE Stable
    <2>1. unpaid' = Erase(unpaid, {id})
      BY <1>2, Zenon DEF SettleUnpaid, DropUnpaid
    <2> QED BY <2>1 DEF Erase
  <1>3. ASSUME UNCHANGED unpaid PROVE Stable
    BY <1>3, Zenon
  <1>4. ASSUME NEW g \in Games, NEW id, AddGame(g, id) \/ UpdateGame(g, id) \/ SetActive(g, id)
        PROVE  Stable
    BY <1>3, <1>4, Zenon DEF AddGame, UpdateGame, SetActive
  <1>5. ASSUME NEW key, RunInit \/ SetRandKey(key) \/ Tick PROVE Stable
    BY <1>3, <1>5, Zenon DEF RunInit, SetRandKey, Tick, stores
  <1>6. ASSUME NEW g, NEW s, NEW min, NEW max, NEW balance,
               UpdateToken(g, s, min, max, balance) \/ ClearToken(g) \/ Deposit(g, s, balance)
        PROVE  Stable
    BY <1>3, <1>6, Zenon DEF UpdateToken, ClearToken, Deposit
  <1>7. ASSUME NEW g, NEW p, NEW s, NEW bet, NEW amount, NEW referer,
               Stake(g, p, s, amount) \/ PayNow(g, p, s, bet, amount, referer)
        PROVE  Stable
    BY <1>3, <1>7, Zenon DEF Stake, PayNow
  <1>8. ASSUME NEW p, NEW referer, NEW type, NEW roll,
               SetReferer(p, referer) \/ ClaimReward(p, type) \/ OpenChest(p, type, roll)
        PROVE  Stable
    BY <1>3, <1>8, Zenon DEF SetReferer, ClaimReward, OpenChest
  <1>9. ASSUME UNCHANGED vars PROVE Stable
    BY <1>3, <1>9, Zenon DEF vars, stores
  <1>10. TypeOK /\ [Next]_vars => Stable
    BY <1>1, <1>2, <1>4, <1>5, <1>6, <1>7, <1>8, <1>9, Zenon DEF Next
  <1>11. TypeOK /\ [Next]_vars => [Stable]_vars
    BY <1>10
  <1> QED BY <1>11, TypeCorrect, PTL DEF Spec, UnpaidStable

(***************************************************************************)
(* The rows each action writes, field by field.                            *)
(***************************************************************************)
StakeRow(g, p, s, amount) ==
    [Player(p) EXCEPT !.in = @ + Booked(s, amount), !.last_play_time = now,
                      !.daily_in = DailySoFar(Player(p)) + Booked(s, amount),
                      !.game_played_flag = @ \cup {PlayedBit(games[g].id)}]
PayRow(to, referer, payout, bonus) ==
    [players[to] EXCEPT !.out = @ + payout, !.referer = RefererOf(to, referer),
                        !.referer_payout = @ + bonus]
SettledRow(id) == [players[unpaid[id].player] EXCEPT !.out = @ + unpaid[id].payout]
ClaimRow(p, type) ==
    [players[p] EXCEPT
        !.bonus_point = @ + IF Earned(players[p], type) THEN Points(type) ELSE 0,
        !.bonus_claimed = @ \cup {type % 32}]
ChestRow(p, chest, roll) ==
    [players[p] EXCEPT !.out = @ + ChestReward(chest, roll),
                       !.bonus_payout = @ + ChestReward(chest, roll),
                       !.chest_opened = @ \cup {chest}]

(* A row with other books, but the same rewards and chests.                *)
SameRewards(old, new) ==
    /\ new.bonus_point = old.bonus_point /\ new.bonus_claimed = old.bonus_claimed
    /\ new.chest_opened = old.chest_opened /\ new.bonus_payout = old.bonus_payout
SameDay(old, new) == new.last_play_time = old.last_play_time /\ new.daily_in = old.daily_in
SamePlay(old, new) == new.in = old.in /\ new.game_played_flag = old.game_played_flag
SameReferer(old, new) == new.referer = old.referer /\ new.referer_payout = old.referer_payout

LEMMA AfterStake ==
    ASSUME TypeOK, NEW g \in Games, NEW p \in Players, NEW s, NEW amount, Stake(g, p, s, amount)
    PROVE  LET row == StakeRow(g, p, s, amount)
           IN  /\ players' = Put(players, p, row) /\ Player(p) \in PlayerRow
               /\ row.in = Player(p).in + Booked(s, amount)
               /\ row.last_play_time = now
               /\ row.daily_in = DailySoFar(Player(p)) + Booked(s, amount)
               /\ row.game_played_flag = Player(p).game_played_flag \cup {PlayedBit(games[g].id)}
               /\ SameRewards(Player(p), row) /\ SameReferer(Player(p), row)
  <1>1. Player(p) \in PlayerRow
    BY PlayerIsRow
  <1>2. players' = Put(players, p, StakeRow(g, p, s, amount))
    BY Zenon DEF Stake, StakeRow
  <1> QED BY <1>1, <1>2, Zenon DEF StakeRow, PlayerRow, SameRewards, SameReferer

LEMMA AfterPayNow ==
    ASSUME TypeOK, NEW g, NEW to, NEW s, NEW bet, NEW payout, NEW referer,
           PayNow(g, to, s, bet, payout, referer)
    PROVE  \/ UNCHANGED players
           \/ \E bonus :
                /\ s = EOS /\ to \in DOMAIN players /\ players[to] \in PlayerRow
                /\ players' = [players EXCEPT ![to] = PayRow(to, referer, payout, bonus)]
                /\ bonus = (IF RefererOf(to, referer) = Nobody THEN 0 ELSE ReferBonus(g, bet))
                /\ PayRow(to, referer, payout, bonus).referer = RefererOf(to, referer)
                /\ PayRow(to, referer, payout, bonus).referer_payout = players[to].referer_payout + bonus
                /\ SameRewards(players[to], PayRow(to, referer, payout, bonus))
                /\ SameDay(players[to], PayRow(to, referer, payout, bonus))
                /\ SamePlay(players[to], PayRow(to, referer, payout, bonus))
  <1> DEFINE bonus == IF RefererOf(to, referer) = Nobody THEN 0 ELSE ReferBonus(g, bet)
  <1>1. CASE s = EOS /\ to \in DOMAIN players
    <2>1. players[to] \in PlayerRow
      BY <1>1 DEF TypeOK, IsTable
    <2>2. players' = [players EXCEPT ![to] = PayRow(to, referer, payout, bonus)]
      BY <1>1, Zenon DEF PayNow, PayRow
    <2> HIDE DEF bonus
    <2>3. /\ PayRow(to, referer, payout, bonus).referer = RefererOf(to, referer)
          /\ PayRow(to, referer, payout, bonus).referer_payout = players[to].referer_payout + bonus
          /\ SameRewards(players[to], PayRow(to, referer, payout, bonus))
          /\ SameDay(players[to], PayRow(to, referer, payout, bonus))
          /\ SamePlay(players[to], PayRow(to, referer, payout, bonus))
      BY <2>1, Zenon DEF PayRow, PlayerRow, SameRewards, SameDay, SamePlay
    <2> QED BY <1>1, <2>1, <2>2, <2>3, Zenon DEF bonus
  <1>2. CASE ~(s = EOS /\ to \in DOMAIN players)
    BY <1>2, Zenon DEF PayNow
  <1> QED BY <1>1, <1>2

LEMMA AfterSettle ==
    ASSUME TypeOK, NEW id, SettleUnpaid(id)
    PROVE  LET p == unpaid[id].player
           IN  /\ p \in DOMAIN players /\ players[p] \in PlayerRow
               /\ players' = [players EXCEPT ![p] = SettledRow(id)]
               /\ SameRewards(players[p], SettledRow(id)) /\ SameReferer(players[p], SettledRow(id))
               /\ SameDay(players[p], SettledRow(id)) /\ SamePlay(players[p], SettledRow(id))
  <1>1. unpaid[id].player \in DOMAIN players
    BY Zenon DEF SettleUnpaid
  <1>2. players[unpaid[id].player] \in PlayerRow
    BY <1>1 DEF TypeOK, IsTable
  <1>3. players' = [players EXCEPT ![unpaid[id].player] = SettledRow(id)]
    BY Zenon DEF SettleUnpaid, SettledRow
  <1> QED BY <1>1, <1>2, <1>3, Zenon DEF SettledRow, PlayerRow, SameRewards, SameReferer, SameDay, SamePlay

LEMMA AfterSetReferer ==
    ASSUME TypeOK, NEW p \in Players, NEW referer \in Referers, SetReferer(p, referer)
    PROVE  /\ Player(p) \in PlayerRow
           /\ \/ players' = Put(players, p, Player(p))
              \/ LET row == Referred(Player(p), referer)
                 IN  /\ players' = Put(players, p, row)
                     /\ row.referer = referer /\ row.referer_payout = 0
                     /\ SameRewards(Player(p), row) /\ SameDay(Player(p), row) /\ SamePlay(Player(p), row)
  <1>1. Player(p) \in PlayerRow
    BY PlayerIsRow
  <1>2. players' = Put(players, p, Player(p)) \/ players' = Put(players, p, Referred(Player(p), referer))
    BY Zenon DEF SetReferer, Player
  <1> QED BY <1>1, <1>2, Zenon DEF Referred, PlayerRow, SameRewards, SameDay, SamePlay

LEMMA AfterClaim ==
    ASSUME TypeOK, NEW p, NEW type, ClaimReward(p, type)
    PROVE  LET row == ClaimRow(p, type)
           IN  /\ p \in DOMAIN players /\ players[p] \in PlayerRow
               /\ players' = [players EXCEPT ![p] = row]
               /\ row.bonus_point = players[p].bonus_point
                                      + (IF Earned(players[p], type) THEN Points(type) ELSE 0)
               /\ row.bonus_claimed = players[p].bonus_claimed \cup {type % 32}
               /\ row.chest_opened = players[p].chest_opened /\ row.bonus_payout = players[p].bonus_payout
               /\ SameReferer(players[p], row) /\ SameDay(players[p], row) /\ SamePlay(players[p], row)
  <1>1. p \in DOMAIN players /\ players' = [players EXCEPT ![p] = ClaimRow(p, type)]
    BY Zenon DEF ClaimReward, ClaimRow
  <1>2. players[p] \in PlayerRow
    BY <1>1 DEF TypeOK, IsTable
  <1> QED BY <1>1, <1>2, Zenon DEF ClaimRow, PlayerRow, SameReferer, SameDay, SamePlay

LEMMA AfterOpenChest ==
    ASSUME TypeOK, NEW p, NEW chest, NEW roll, OpenChest(p, chest, roll)
    PROVE  LET row == ChestRow(p, chest, roll)
           IN  /\ p \in DOMAIN players /\ players[p] \in PlayerRow
               /\ players' = [players EXCEPT ![p] = row]
               /\ row.bonus_point = players[p].bonus_point /\ row.bonus_claimed = players[p].bonus_claimed
               /\ row.chest_opened = players[p].chest_opened \cup {chest}
               /\ row.bonus_payout = players[p].bonus_payout + ChestReward(chest, roll)
               /\ SameReferer(players[p], row) /\ SameDay(players[p], row) /\ SamePlay(players[p], row)
  <1>1. p \in DOMAIN players /\ players' = [players EXCEPT ![p] = ChestRow(p, chest, roll)]
    BY Zenon DEF OpenChest, ChestRow
  <1>2. players[p] \in PlayerRow
    BY <1>1 DEF TypeOK, IsTable
  <1> QED BY <1>1, <1>2, Zenon DEF ChestRow, PlayerRow, SameReferer, SameDay, SamePlay

(* The other actions leave the players alone.                              *)
LEMMA OthersKeepPlayers ==
    ASSUME [Next]_vars
    PROVE  \/ UNCHANGED players
           \/ \E g \in Games, p \in Players, s \in Symbols, amount \in Stakes : Stake(g, p, s, amount)
           \/ \E g \in Games, to \in Players, s \in Symbols, bet \in Bets, payout \in Payouts,
                 referer \in Referers : PayNow(g, to, s, bet, payout, referer)
           \/ \E id \in DOMAIN unpaid : SettleUnpaid(id)
           \/ \E p \in Players, referer \in Referers : SetReferer(p, referer)
           \/ \E p \in Players, type \in RewardTypes : ClaimReward(p, type)
           \/ \E p \in Players, chest \in ChestTypes, roll \in Rolls : OpenChest(p, chest, roll)
  <1>1. ASSUME NEW g \in Games, NEW id, AddGame(g, id) \/ UpdateGame(g, id) \/ SetActive(g, id)
        PROVE  UNCHANGED players
    BY <1>1, Zenon DEF AddGame, UpdateGame, SetActive
  <1>2. ASSUME NEW key, RunInit \/ SetRandKey(key) \/ Tick PROVE UNCHANGED players
    BY <1>2, Zenon DEF RunInit, SetRandKey, Tick, stores
  <1>3. ASSUME NEW g, NEW s, NEW min, NEW max, NEW balance,
               UpdateToken(g, s, min, max, balance) \/ ClearToken(g) \/ Deposit(g, s, balance)
        PROVE  UNCHANGED players
    BY <1>3, Zenon DEF UpdateToken, ClearToken, Deposit
  <1>4. ASSUME NEW g, NEW to, NEW s, NEW bet, NEW payout, NEW referer,
               PayLater(g, to, s, bet, payout, referer)
        PROVE  UNCHANGED players
    BY <1>4, Zenon DEF PayLater
  <1>5. ASSUME NEW id, DropUnpaid(id) PROVE UNCHANGED players
    BY <1>5, Zenon DEF DropUnpaid
  <1>6. CASE UNCHANGED vars
    BY <1>6, Zenon DEF vars, stores
  <1> QED BY <1>1, <1>2, <1>3, <1>4, <1>5, <1>6, Zenon DEF Next

-----------------------------------------------------------------------------
(* The referer on record.                                                  *)
KeptRow(old, new) ==
    \/ new.referer = old.referer /\ new.referer_payout >= old.referer_payout
    \/ old.referer = Nobody
    \/ new.referer_payout = 0
KeptAll == \A p \in DOMAIN players : KeptRow(players[p], players'[p])

(* A referer on record stays, and what it got only grows, until the player *)
(* chooses another: no payment replaces it, whatever the game was told.    *)
THEOREM RefererIsKept == Spec => RefererKept
  <1>1. ASSUME TypeOK, UNCHANGED players PROVE KeptAll
    <2>1. \A p \in DOMAIN players : players[p].referer_payout \in Nat
      BY <1>1, PlayerFields DEF TypeOK, IsTable
    <2> QED BY <1>1, <2>1 DEF KeptAll, KeptRow
  <1>2. ASSUME TypeOK, NEW p, NEW row, players' = Put(players, p, row),
               p \in DOMAIN players => KeptRow(players[p], row)
        PROVE  KeptAll
    <2> SUFFICES ASSUME NEW q \in DOMAIN players PROVE KeptRow(players[q], players'[q])
      BY DEF KeptAll
    <2>1. players[q].referer_payout \in Nat
      BY <1>2, PlayerFields DEF TypeOK, IsTable
    <2>2. players'[q] = IF q = p THEN row ELSE players[q]
      BY <1>2 DEF Put
    <2>3. CASE q = p
      BY <1>2, <2>2, <2>3
    <2>4. CASE q # p
      BY <2>1, <2>2, <2>4 DEF KeptRow
    <2> QED BY <2>3, <2>4
  <1>3. ASSUME TypeOK, NEW p \in DOMAIN players, NEW row, players' = [players EXCEPT ![p] = row],
               KeptRow(players[p], row)
        PROVE  KeptAll
    <2>1. players' = Put(players, p, row)
      BY <1>3, ModifyIsPut DEF TypeOK
    <2> QED BY <1>2, <1>3, <2>1
  <1>4. ASSUME NEW old \in PlayerRow, NEW new, SameReferer(old, new) PROVE KeptRow(old, new)
    BY <1>4, PlayerFields DEF SameReferer, KeptRow
  <1>5. ASSUME TypeOK, NEW g, NEW to, NEW s, NEW bet \in Nat, NEW payout, NEW referer,
               PayNow(g, to, s, bet, payout, referer)
        PROVE  KeptAll
    <2>1. CASE ~ UNCHANGED players
      <3>1. PICK bonus :
                /\ to \in DOMAIN players /\ players[to] \in PlayerRow
                /\ players' = [players EXCEPT ![to] = PayRow(to, referer, payout, bonus)]
                /\ bonus = (IF RefererOf(to, referer) = Nobody THEN 0 ELSE ReferBonus(g, bet))
                /\ PayRow(to, referer, payout, bonus).referer = RefererOf(to, referer)
                /\ PayRow(to, referer, payout, bonus).referer_payout = players[to].referer_payout + bonus
        BY <1>5, <2>1, AfterPayNow
      <3>2. bonus \in Nat /\ players[to].referer_payout \in Nat
        BY <1>5, <3>1, BonusIsNat, PlayerFields
      <3>3. players[to].referer # Nobody => RefererOf(to, referer) = players[to].referer
        BY DEF RefererOf
      <3>4. KeptRow(players[to], PayRow(to, referer, payout, bonus))
        BY <3>1, <3>2, <3>3 DEF KeptRow
      <3> QED BY <1>3, <1>5, <3>1, <3>4
    <2> QED BY <1>1, <1>5, <2>1
  <1>6. ASSUME TypeOK, NEW p \in Players, NEW referer \in Referers, SetReferer(p, referer) PROVE KeptAll
    <2>1. p \in DOMAIN players => players[p] = Player(p)
      BY DEF Player
    <2>2. CASE players' = Put(players, p, Player(p))
      BY <1>2, <1>4, <1>6, <2>1, <2>2, AfterSetReferer DEF SameReferer
    <2>3. CASE players' # Put(players, p, Player(p))
      <3>1. /\ players' = Put(players, p, Referred(Player(p), referer))
            /\ Referred(Player(p), referer).referer_payout = 0
        BY <1>6, <2>3, AfterSetReferer
      <3> QED BY <1>2, <1>6, <3>1 DEF KeptRow
    <2> QED BY <2>2, <2>3
  <1>7. TypeOK /\ [Next]_vars => KeptAll
    <2> SUFFICES ASSUME TypeOK, [Next]_vars PROVE KeptAll
      OBVIOUS
    <2>1. ASSUME NEW g \in Games, NEW p \in Players, NEW s, NEW amount, Stake(g, p, s, amount) PROVE KeptAll
      <3>1. p \in DOMAIN players => players[p] = Player(p)
        BY DEF Player
      <3> QED BY <1>2, <1>4, <2>1, <3>1, AfterStake
    <2>2. ASSUME NEW id, SettleUnpaid(id) PROVE KeptAll
      BY <1>3, <1>4, <2>2, AfterSettle
    <2>3. ASSUME NEW p, NEW type, ClaimReward(p, type) PROVE KeptAll
      BY <1>3, <1>4, <2>3, AfterClaim
    <2>4. ASSUME NEW p, NEW chest, NEW roll, OpenChest(p, chest, roll) PROVE KeptAll
      BY <1>3, <1>4, <2>4, AfterOpenChest
    <2>5. Bets \subseteq Nat
      BY HouseAmounts
    <2> QED BY <1>1, <1>5, <1>6, <2>1, <2>2, <2>3, <2>4, <2>5, OthersKeepPlayers, Zenon
  <1>8. TypeOK /\ [Next]_vars => [KeptAll]_vars
    BY <1>7
  <1>9. KeptAll <=> \A p \in DOMAIN players :
                      \/ players'[p].referer = players[p].referer
                         /\ players'[p].referer_payout >= players[p].referer_payout
                      \/ players[p].referer = Nobody
                      \/ players'[p].referer_payout = 0
    BY Zenon DEF KeptAll, KeptRow
  <1> QED BY <1>8, <1>9, TypeCorrect, PTL DEF Spec, RefererKept

-----------------------------------------------------------------------------
(* What was staked each day.                                               *)
DayOf(t) == t \div EventLength
DayRow(p, row) ==
    /\ row.last_play_time <= now
    /\ row.daily_in = dayIn[p][DayOf(row.last_play_time)]
    /\ \A d \in Days : d > DayOf(row.last_play_time) => dayIn[p][d] = 0
(* A player without a row has staked nothing: the row a payment or a       *)
(* referer creates for him must not inherit a day.                         *)
DaysInv == \A p \in Players : DayRow(p, Player(p))

LEMMA DaysInOrder ==
    ASSUME NEW t \in Nat, NEW u \in Nat
    PROVE  DayOf(t) \in Nat /\ (t <= u => DayOf(t) <= DayOf(u))
  BY DEF DayOf, EventLength

LEMMA DayIsDay == ASSUME NEW t \in 0 .. MaxTime PROVE DayOf(t) \in Days
  <1>1. DayOf(t) \in Nat /\ DayOf(t) <= DayOf(MaxTime)
    BY DaysInOrder, HouseAmounts
  <1>2. DayOf(MaxTime) \in Nat
    BY DaysInOrder, HouseAmounts
  <1> QED BY <1>1, <1>2 DEF Days, DayOf

LEMMA StakeKeepsDays ==
    ASSUME TypeOK, DaysInv, NEW g \in Games, NEW p \in Players, NEW s \in Symbols,
           NEW amount \in Stakes, Stake(g, p, s, amount)
    PROVE  DaysInv'
  <1> DEFINE old == Player(p)
             eos == Booked(s, amount)
             day == DayOf(now)
             last == DayOf(old.last_play_time)
  <1>1. old \in PlayerRow
    BY PlayerIsRow
  <1>2. PICK row : /\ players' = Put(players, p, row)
                   /\ row.last_play_time = now /\ row.daily_in = DailySoFar(old) + eos
    BY AfterStake
  <1>3. dayIn' = [dayIn EXCEPT ![p][day] = dayIn[p][day] + eos] /\ now' = now
    BY Zenon DEF Stake, DayOf
  <1>4. now \in Nat /\ old.last_play_time \in 0 .. MaxTime /\ now \in 0 .. MaxTime
    BY <1>1, PlayerFields, HouseAmounts DEF TypeOK, DaysInv, DayRow
  <1>5. day \in Days /\ day \in Nat /\ last \in Nat /\ last <= day /\ last \in Days
    <2>1. old.last_play_time <= now
      BY DEF DaysInv, DayRow
    <2> QED BY <1>4, <2>1, DaysInOrder, DayIsDay
  <1>6. DailySoFar(old) = IF day > last THEN 0 ELSE old.daily_in
    BY DEF DailySoFar, DayOf
  <1>7. dayIn \in [Players -> [Days -> Nat]]
    BY DEF TypeOK
  <1>8. /\ old.daily_in = dayIn[p][last]
        /\ \A d \in Days : d > last => dayIn[p][d] = 0
    BY DEF DaysInv, DayRow
  <1>9. eos \in Nat
    BY HouseAmounts DEF Booked
  <1>10. Player(p)' = row /\ \A q \in Players \ {p} : Player(q)' = Player(q)
    BY <1>2 DEF Put, Player
  <1>11. day = DayOf(row.last_play_time)
    BY <1>2
  <1> HIDE DEF old, eos, day, last
  <1>12. DailySoFar(old) = dayIn[p][day]
    <2>1. CASE day > last
      BY <1>5, <1>6, <1>8, <2>1
    <2>2. CASE day = last
      BY <1>5, <1>6, <1>8, <2>2
    <2> QED BY <1>5, <2>1, <2>2
  <1>13. /\ dayIn'[p][day] = dayIn[p][day] + eos
         /\ \A d \in Days \ {day} : dayIn'[p][d] = dayIn[p][d]
         /\ \A q \in Players \ {p} : dayIn'[q] = dayIn[q]
    BY <1>3, <1>5, <1>7
  <1>14. \A d \in Days : d > day => d > last /\ d # day
    BY <1>5 DEF Days
  <1>15. DayRow(p, row)'
    <2>1. row.last_play_time <= now'
      BY <1>2, <1>3, <1>4
    <2>2. row.daily_in = dayIn'[p][day]
      BY <1>2, <1>12, <1>13
    <2>3. \A d \in Days : d > day => dayIn'[p][d] = 0
      BY <1>8, <1>13, <1>14
    <2> QED BY <1>11, <2>1, <2>2, <2>3 DEF DayRow
  <1>16. \A q \in Players \ {p} : DayRow(q, Player(q))'
    BY <1>3, <1>10, <1>13 DEF DaysInv, DayRow
  <1> QED BY <1>10, <1>15, <1>16 DEF DaysInv

KeepDays == \A p \in Players : SameDay(Player(p), Player(p)')

LEMMA NextDays == TypeOK /\ DaysInv /\ [Next]_vars => DaysInv'
  <1> SUFFICES ASSUME TypeOK, DaysInv, [Next]_vars PROVE DaysInv'
    OBVIOUS
  <1>1. ASSUME NEW g \in Games, NEW p \in Players, NEW s \in Symbols, NEW amount \in Stakes,
               Stake(g, p, s, amount)
        PROVE  DaysInv'
    BY <1>1, StakeKeepsDays
  <1>2. ASSUME UNCHANGED <<now, dayIn>>, KeepDays PROVE DaysInv'
    BY <1>2 DEF KeepDays, DaysInv, DayRow, SameDay
  <1>3. ASSUME UNCHANGED players PROVE KeepDays
    BY <1>3 DEF KeepDays, Player, SameDay
  <1>4. ASSUME NEW p, NEW row, players' = Put(players, p, row), SameDay(Player(p), row)
        PROVE  KeepDays
    BY <1>4 DEF KeepDays, Player, SameDay, Put
  <1>5. ASSUME NEW p \in DOMAIN players, NEW row, players' = [players EXCEPT ![p] = row],
               SameDay(players[p], row)
        PROVE  KeepDays
    <2>1. players' = Put(players, p, row)
      BY <1>5, ModifyIsPut DEF TypeOK
    <2> QED BY <1>4, <1>5, <2>1 DEF Player
  <1>6. CASE Tick
    <2>1. now \in Int /\ now' \in Int /\ now <= now'
      BY <1>6, HouseAmounts DEF Tick, TypeOK
    <2>2. \A p \in Players : Player(p) \in PlayerRow /\ Player(p)' = Player(p)
      BY <1>6, PlayerIsRow DEF Tick, stores, Player
    <2>3. \A p \in Players : Player(p).last_play_time <= now'
      BY <2>1, <2>2, PlayerFields DEF DaysInv, DayRow
    <2> QED BY <1>6, <2>2, <2>3 DEF DaysInv, DayRow, Tick
  <1>7. \/ Tick \/ UNCHANGED <<now, dayIn>>
        \/ \E g \in Games, p \in Players, s \in Symbols, amount \in Stakes : Stake(g, p, s, amount)
    <2>1. ASSUME NEW g, NEW id, AddGame(g, id) \/ UpdateGame(g, id) \/ SetActive(g, id)
          PROVE  UNCHANGED <<now, dayIn>>
      BY <2>1, Zenon DEF AddGame, UpdateGame, SetActive
    <2>2. ASSUME NEW key, RunInit \/ SetRandKey(key) PROVE UNCHANGED <<now, dayIn>>
      BY <2>2, Zenon DEF RunInit, SetRandKey
    <2>3. ASSUME NEW g, NEW s, NEW min, NEW max, NEW balance,
                 UpdateToken(g, s, min, max, balance) \/ ClearToken(g) \/ Deposit(g, s, balance)
          PROVE  UNCHANGED <<now, dayIn>>
      BY <2>3, Zenon DEF UpdateToken, ClearToken, Deposit
    <2>4. ASSUME NEW g, NEW to, NEW s, NEW bet, NEW payout, NEW referer,
                 PayLater(g, to, s, bet, payout, referer) \/ PayNow(g, to, s, bet, payout, referer)
          PROVE  UNCHANGED <<now, dayIn>>
      BY <2>4, Zenon DEF PayLater, PayNow
    <2>5. ASSUME NEW id, DropUnpaid(id) \/ SettleUnpaid(id) PROVE UNCHANGED <<now, dayIn>>
      BY <2>5, Zenon DEF DropUnpaid, SettleUnpaid
    <2>6. ASSUME NEW p, NEW referer, NEW type, NEW roll,
                 SetReferer(p, referer) \/ ClaimReward(p, type) \/ OpenChest(p, type, roll)
          PROVE  UNCHANGED <<now, dayIn>>
      BY <2>6, Zenon DEF SetReferer, ClaimReward, OpenChest
    <2>7. CASE UNCHANGED vars
      BY <2>7, Zenon DEF vars
    <2> QED BY <2>1, <2>2, <2>3, <2>4, <2>5, <2>6, <2>7, Zenon DEF Next
  <1>8. \/ KeepDays
        \/ \E g \in Games, p \in Players, s \in Symbols, amount \in Stakes : Stake(g, p, s, amount)
    <2>1. ASSUME NEW g \in Games, NEW to \in Players, NEW s \in Symbols, NEW bet \in Bets,
                 NEW payout \in Payouts, NEW referer \in Referers,
                 PayNow(g, to, s, bet, payout, referer)
          PROVE  KeepDays
      BY <1>3, <1>5, <2>1, AfterPayNow
    <2>2. ASSUME NEW id, SettleUnpaid(id) PROVE KeepDays
      BY <1>5, <2>2, AfterSettle
    <2>3. ASSUME NEW p \in Players, NEW referer \in Referers, SetReferer(p, referer) PROVE KeepDays
      BY <1>4, <2>3, AfterSetReferer DEF SameDay
    <2>4. ASSUME NEW p, NEW type, ClaimReward(p, type) PROVE KeepDays
      BY <1>5, <2>4, AfterClaim
    <2>5. ASSUME NEW p, NEW chest, NEW roll, OpenChest(p, chest, roll) PROVE KeepDays
      BY <1>5, <2>5, AfterOpenChest
    <2>6. CASE UNCHANGED players
      BY <1>3, <2>6
    <2> QED BY <2>1, <2>2, <2>3, <2>4, <2>5, <2>6, OthersKeepPlayers, Zenon
  <1> QED BY <1>1, <1>2, <1>6, <1>7, <1>8

(* daily_in is what the player staked on the day of his last stake, for    *)
(* every order of stakes, payments and day boundaries.                     *)
THEOREM DailyIsOfToday == Spec => []DailyIsToday
  <1>1. Init => DaysInv
    <2> SUFFICES ASSUME Init, NEW p \in Players PROVE DayRow(p, Player(p))
      BY DEF DaysInv
    <2>1. Player(p) = NewPlayer /\ now = 0 /\ dayIn[p] = [d \in Days |-> 0]
      BY DEF Init, Player, EmptyTable
    <2>2. NewPlayer.last_play_time = 0 /\ NewPlayer.daily_in = 0
      BY DEF NewPlayer
    <2>3. DayOf(0) = 0 /\ 0 \in Days
      <3>1. DayOf(0) = 0
        BY DEF DayOf, EventLength
      <3> QED BY <3>1, DayIsDay, HouseAmounts
    <2> QED BY <2>1, <2>2, <2>3 DEF DayRow
  <1>2. TypeOK /\ DaysInv => DailyIsToday
    BY DEF TypeOK, IsTable, DaysInv, DayRow, DayOf, DailyIsToday, Player
  <1> QED BY <1>1, <1>2, NextDays, TypeCorrect, PTL DEF Spec

-----------------------------------------------------------------------------
(* The rewards and the chests.                                             *)
PointTable == [b \in 0 .. 31 |-> Points(b)]
AmountTable == [c \in 0 .. 4 |-> ChestAmount[c + 1]]
PointsFair(row) == row.bonus_point <= SumFunctionOnSet(PointTable, EarnedClaims(row))
ChestsFair(row) ==
    /\ SumFunctionOnSet(AmountTable, row.chest_opened) <= row.bonus_payout
    /\ row.bonus_payout <= 2 * SumFunctionOnSet(AmountTable, row.chest_opened)
FairRow(row) == PointsFair(row) /\ ChestsFair(row)
RowsFair == \A p \in DOMAIN players : FairRow(players[p])

LEMMA PointSums ==
    ASSUME NEW E \in SUBSET (0 .. 31)
    PROVE  /\ IsFiniteSet(E) /\ \A b \in E : PointTable[b] \in Nat
           /\ SumFunctionOnSet(PointTable, E) \in Nat
           /\ \A F \in SUBSET E : SumFunctionOnSet(PointTable, F) <= SumFunctionOnSet(PointTable, E)
           /\ SumFunction([b \in E |-> Points(b)]) = SumFunctionOnSet(PointTable, E)
  <1>1. IsFiniteSet(E)
    <2>1. 0 \in Int /\ 31 \in Int
      OBVIOUS
    <2>2. IsFiniteSet(0 .. 31)
      BY ONLY <2>1, FS_Interval
    <2> QED BY <2>2, FS_Subset
  <1>2. \A b \in E : PointTable[b] = Points(b) /\ PointTable[b] \in Nat
    BY PointsAreNat DEF PointTable
  <1> DEFINE f == [b \in E |-> Points(b)]
  <1>3. SumFunction(f) = SumFunctionOnSet(f, E) /\ \A b \in E : f[b] = Points(b)
    BY DEF SumFunction
  <1> HIDE DEF f
  <1>4. SumFunctionOnSet(f, E) = SumFunctionOnSet(PointTable, E)
    <2>1. \A b \in E : f[b] = PointTable[b]
      BY <1>2, <1>3
    <2> QED BY ONLY <1>1, <2>1, SumsEqual
  <1> QED BY <1>1, <1>2, <1>3, <1>4, SumOfNaturals DEF f

LEMMA ChestSums ==
    ASSUME NEW C \in SUBSET (0 .. 4)
    PROVE  /\ IsFiniteSet(C) /\ \A c \in C : AmountTable[c] \in Nat
           /\ SumFunctionOnSet(AmountTable, C) \in Nat
           /\ SumFunction([c \in C |-> ChestAmount[c + 1]]) = SumFunctionOnSet(AmountTable, C)
  <1>1. IsFiniteSet(C)
    <2>1. 0 \in Int /\ 4 \in Int
      OBVIOUS
    <2>2. IsFiniteSet(0 .. 4)
      BY ONLY <2>1, FS_Interval
    <2> QED BY <2>2, FS_Subset
  <1>2. \A c \in C : AmountTable[c] = ChestAmount[c + 1] /\ AmountTable[c] \in Nat
    BY SMT DEF AmountTable, ChestAmount
  <1> DEFINE f == [c \in C |-> ChestAmount[c + 1]]
  <1>3. SumFunction(f) = SumFunctionOnSet(f, C) /\ \A c \in C : f[c] = ChestAmount[c + 1]
    BY DEF SumFunction
  <1> HIDE DEF f
  <1>4. SumFunctionOnSet(f, C) = SumFunctionOnSet(AmountTable, C)
    <2>1. \A c \in C : f[c] = AmountTable[c]
      BY <1>2, <1>3
    <2> QED BY ONLY <1>1, <2>1, SumsEqual
  <1> QED BY <1>1, <1>2, <1>3, <1>4, SumOfNaturals DEF f

(* What was earned stays earned while the books grow.                      *)
LEMMA EarnedStays ==
    ASSUME NEW old \in PlayerRow, NEW new, new.in \in Nat, new.in >= old.in,
           old.game_played_flag \subseteq new.game_played_flag, NEW b \in 1 .. 255, Earned(old, b)
    PROVE  Earned(new, b)
  <1>1. old.in \in Nat
    BY PlayerFields
  <1>2. CASE b \in TotalPlayed
    <2>1. b \in 20 .. 27 /\ b # 0 /\ b # 1 /\ b # 2
      BY <1>2 DEF TotalPlayed
    <2>2. RewardAmount[b - 19] \in Nat
      BY <2>1, SMT DEF RewardAmount
    <2>3. Earned(old, b) <=> old.in >= RewardAmount[b - 19] * 10000
      BY <1>2, <2>1 DEF Earned, SetRefererReward, PlayAnyGame, PlayAllGames
    <2>4. Earned(new, b) <=> new.in >= RewardAmount[b - 19] * 10000
      BY <1>2, <2>1 DEF Earned, SetRefererReward, PlayAnyGame, PlayAllGames
    <2> QED BY <1>1, <2>2, <2>3, <2>4
  <1>3. CASE b \notin TotalPlayed
    BY <1>3 DEF Earned, SetRefererReward, PlayAnyGame, PlayAllGames
  <1> QED BY <1>2, <1>3

(* A row whose books grew is as fair as it was.                            *)
LEMMA FairStays ==
    ASSUME NEW old \in PlayerRow, NEW new, FairRow(old), SameRewards(old, new), new.in \in Nat,
           new.in >= old.in, old.game_played_flag \subseteq new.game_played_flag
    PROVE  FairRow(new)
  <1>1. EarnedClaims(old) \subseteq EarnedClaims(new) /\ EarnedClaims(new) \in SUBSET (0 .. 31)
    <2>1. old.bonus_claimed \in SUBSET (0 .. 31) /\ new.bonus_claimed = old.bonus_claimed
      BY PlayerFields DEF SameRewards
    <2>2. ASSUME NEW b \in EarnedClaims(old) PROVE b \in EarnedClaims(new)
      <3>1. b = SetRefererReward \/ (b \in 1 .. 255 /\ Earned(old, b))
        BY <2>1 DEF EarnedClaims, SetRefererReward
      <3> QED BY <2>1, <3>1, EarnedStays DEF EarnedClaims
    <2> QED BY <2>1, <2>2 DEF EarnedClaims
  <1>2. /\ SumFunctionOnSet(PointTable, EarnedClaims(old)) \in Nat
        /\ SumFunctionOnSet(PointTable, EarnedClaims(new)) \in Nat
        /\ SumFunctionOnSet(PointTable, EarnedClaims(old)) <= SumFunctionOnSet(PointTable, EarnedClaims(new))
    BY <1>1, PointSums
  <1>3. old.bonus_point \in Nat /\ new.bonus_point = old.bonus_point
    BY PlayerFields DEF SameRewards
  <1>4. PointsFair(new)
    BY <1>2, <1>3 DEF FairRow, PointsFair
  <1>5. ChestsFair(new)
    BY DEF FairRow, ChestsFair, SameRewards
  <1> QED BY <1>4, <1>5 DEF FairRow

(* A claim adds the reward's points once, with the reward.                 *)
LEMMA ClaimIsFair ==
    ASSUME NEW old \in PlayerRow, FairRow(old), NEW type \in 0 .. 255, FirstClaim(old, type), NEW new,
           SameReferer(old, new), SamePlay(old, new),
           new.bonus_point = old.bonus_point + (IF Earned(old, type) THEN Points(type) ELSE 0),
           new.bonus_claimed = old.bonus_claimed \cup {type % 32},
           new.chest_opened = old.chest_opened, new.bonus_payout = old.bonus_payout
    PROVE  FairRow(new)
  <1> DEFINE E == EarnedClaims(old)
             F == EarnedClaims(new)
  <1>1. /\ old.bonus_claimed \in SUBSET (0 .. 31) /\ type % 32 \in 0 .. 31
        /\ type % 32 \notin old.bonus_claimed /\ old.bonus_point \in Nat
    BY PlayerFields DEF FirstClaim
  <1>2. \A b : Earned(new, b) = Earned(old, b)
    BY DEF Earned, SameReferer, SamePlay
  <1>3. E \subseteq F /\ F \in SUBSET (0 .. 31) /\ type % 32 \notin E /\ F \subseteq E \cup {type % 32}
    BY <1>1, <1>2 DEF EarnedClaims
  <1>4. ASSUME Earned(old, type) PROVE type % 32 = type /\ type \in F
    <2>1. type \in 0 .. 31
      BY <1>4 DEF Earned, SetRefererReward, PlayAnyGame, PlayAllGames, TotalPlayed
    <2>2. type % 32 = type
      BY <2>1
    <2> QED BY <1>2, <1>4, <2>2 DEF EarnedClaims
  <1>5. old.bonus_point <= SumFunctionOnSet(PointTable, E)
    BY DEF FairRow, PointsFair
  <1> HIDE DEF E, F
  <1>6. SumFunctionOnSet(PointTable, E) \in Nat /\ SumFunctionOnSet(PointTable, F) \in Nat
    BY <1>3, PointSums
  <1>7. new.bonus_point <= SumFunctionOnSet(PointTable, F)
    <2>1. CASE Earned(old, type)
      <3>1. F = E \cup {type} /\ type \notin E /\ type \in 0 .. 31
        BY <1>1, <1>3, <1>4, <2>1
      <3>2. IsFiniteSet(E) /\ \A b \in E \cup {type} : PointTable[b] \in Int
        <4>1. E \in SUBSET (0 .. 31)
          BY <1>3
        <4>2. IsFiniteSet(E)
          BY <4>1, PointSums
        <4>3. \A b \in F : PointTable[b] \in Nat
          BY <1>3, PointSums
        <4> QED BY <3>1, <4>2, <4>3
      <3>3. SumFunctionOnSet(PointTable, F) = SumFunctionOnSet(PointTable, E) + PointTable[type]
        BY <3>1, <3>2, SumWith
      <3>4. PointTable[type] = Points(type) /\ Points(type) \in Nat
        BY <3>1, PointsAreNat DEF PointTable
      <3> QED BY <1>1, <1>5, <1>6, <2>1, <3>3, <3>4
    <2>2. CASE ~Earned(old, type)
      <3>1. SumFunctionOnSet(PointTable, E) <= SumFunctionOnSet(PointTable, F)
        BY <1>3, PointSums
      <3> QED BY <1>1, <1>5, <1>6, <2>2, <3>1
    <2> QED BY <2>1, <2>2
  <1> QED BY <1>7 DEF FairRow, PointsFair, ChestsFair, F

(* What a chest holds is between one and two times its amount.             *)
LEMMA ChestHolds ==
    ASSUME NEW chest \in 0 .. 4, NEW roll \in 0 .. 100
    PROVE  /\ AmountTable[chest] \in Nat /\ ChestReward(chest, roll) \in Nat
           /\ AmountTable[chest] <= ChestReward(chest, roll)
           /\ ChestReward(chest, roll) <= 2 * AmountTable[chest]
  <1> DEFINE amount == ChestAmount[chest + 1]
  <1>1. amount \in {500, 5000, 10000, 20000, 100000} /\ AmountTable[chest] = amount
    BY SMT DEF ChestAmount, AmountTable
  <1>2. ChestReward(chest, roll) = amount + (amount * roll) \div 100
    BY DEF ChestReward
  <1> HIDE DEF amount
  <1>3. amount * roll \in 0 .. amount * 100
    BY <1>1, SMT
  <1>4. (amount * roll) \div 100 \in 0 .. amount
    BY <1>1, <1>3, SMT
  <1> QED BY <1>1, <1>2, <1>4

LEMMA ChestIsFair ==
    ASSUME NEW old \in PlayerRow, FairRow(old), NEW chest \in 0 .. 4, NEW roll \in 0 .. 100,
           Unopened(old, chest), NEW new, SamePlay(old, new), SameReferer(old, new),
           new.bonus_point = old.bonus_point, new.bonus_claimed = old.bonus_claimed,
           new.chest_opened = old.chest_opened \cup {chest},
           new.bonus_payout = old.bonus_payout + ChestReward(chest, roll)
    PROVE  FairRow(new)
  <1> DEFINE C == old.chest_opened
             sum(S) == SumFunctionOnSet(AmountTable, S)
  <1>1. C \in SUBSET (0 .. 4) /\ chest \notin C /\ old.bonus_payout \in Nat
    BY PlayerFields DEF Unopened
  <1>2. /\ IsFiniteSet(C) /\ sum(C) \in Nat /\ AmountTable[chest] \in Nat
        /\ \A c \in C \cup {chest} : AmountTable[c] \in Int
    <2>1. C \in SUBSET (0 .. 4) /\ C \cup {chest} \in SUBSET (0 .. 4)
      BY <1>1
    <2> HIDE DEF C
    <2>2. IsFiniteSet(C) /\ SumFunctionOnSet(AmountTable, C) \in Nat
      BY <2>1, ChestSums
    <2>3. \A c \in C \cup {chest} : AmountTable[c] \in Nat
      BY <2>1, ChestSums
    <2> QED BY <2>2, <2>3
  <1>3. sum(C) <= old.bonus_payout /\ old.bonus_payout <= 2 * sum(C)
    BY DEF FairRow, ChestsFair
  <1> HIDE DEF C
  <1>4. sum(C \cup {chest}) = sum(C) + AmountTable[chest]
    BY <1>1, <1>2, SumWith
  <1>5. \A b : Earned(new, b) = Earned(old, b)
    BY DEF Earned, SameReferer, SamePlay
  <1>6. EarnedClaims(new) = EarnedClaims(old)
    BY <1>5 DEF EarnedClaims
  <1>7. PointsFair(new)
    BY <1>6 DEF FairRow, PointsFair
  <1>8. new.chest_opened = C \cup {chest}
    BY DEF C
  <1> HIDE DEF sum
  <1>9. /\ sum(C \cup {chest}) <= new.bonus_payout
        /\ new.bonus_payout <= 2 * sum(C \cup {chest})
    <2>1. /\ ChestReward(chest, roll) \in Nat /\ AmountTable[chest] <= ChestReward(chest, roll)
          /\ ChestReward(chest, roll) <= 2 * AmountTable[chest]
      BY ChestHolds
    <2> QED BY <1>1, <1>2, <1>3, <1>4, <2>1
  <1>10. ChestsFair(new)
    BY <1>8, <1>9 DEF ChestsFair, sum
  <1> QED BY <1>7, <1>10 DEF FairRow

LEMMA NewPlayerFair == FairRow(NewPlayer)
  <1>1. EarnedClaims(NewPlayer) = {} /\ NewPlayer.bonus_point = 0 /\ NewPlayer.chest_opened = {}
        /\ NewPlayer.bonus_payout = 0
    BY DEF EarnedClaims, NewPlayer
  <1>2. SumFunctionOnSet(PointTable, {}) = 0 /\ SumFunctionOnSet(AmountTable, {}) = 0
    BY SumOfNone
  <1> QED BY <1>1, <1>2 DEF FairRow, PointsFair, ChestsFair

LEMMA NextRowsFair == TypeOK /\ RowsFair /\ [Next]_vars => RowsFair'
  <1> SUFFICES ASSUME TypeOK, RowsFair, [Next]_vars PROVE RowsFair'
    OBVIOUS
  <1>1. ASSUME NEW p, NEW row, players' = Put(players, p, row), FairRow(row) PROVE RowsFair'
    <2> SUFFICES ASSUME NEW q \in DOMAIN players' PROVE FairRow(players'[q])
      BY Zenon DEF RowsFair, FairRow, PointsFair, ChestsFair, EarnedClaims, Earned, PointTable, AmountTable
    <2>1. players'[q] = row \/ (q \in DOMAIN players /\ players'[q] = players[q])
      BY <1>1 DEF Put
    <2> QED BY <1>1, <2>1 DEF RowsFair
  <1>2. ASSUME NEW p \in DOMAIN players, NEW row, players' = [players EXCEPT ![p] = row], FairRow(row)
        PROVE  RowsFair'
    <2>1. players' = Put(players, p, row)
      BY <1>2, ModifyIsPut DEF TypeOK
    <2> QED BY <1>1, <1>2, <2>1
  <1>3. ASSUME NEW old \in PlayerRow, NEW new, FairRow(old), SameRewards(old, new), SamePlay(old, new)
        PROVE  FairRow(new)
    BY <1>3, FairStays, PlayerFields DEF SamePlay
  <1>4. \A p \in Players : Player(p) \in PlayerRow /\ FairRow(Player(p))
    BY PlayerIsRow, NewPlayerFair DEF RowsFair, Player
  <1>5. ASSUME NEW g \in Games, NEW p \in Players, NEW s \in Symbols, NEW amount \in Stakes,
               Stake(g, p, s, amount)
        PROVE  RowsFair'
    <2>1. PICK row : /\ players' = Put(players, p, row) /\ SameRewards(Player(p), row)
                     /\ row.in = Player(p).in + Booked(s, amount)
                     /\ row.game_played_flag = Player(p).game_played_flag \cup {PlayedBit(games[g].id)}
      BY <1>5, AfterStake
    <2>2. Booked(s, amount) \in Nat
      BY HouseAmounts DEF Booked
    <2>3. Player(p).in \in Nat
      BY <1>4, PlayerFields
    <2>4. FairRow(row)
      BY <1>4, <2>1, <2>2, <2>3, FairStays
    <2> QED BY <1>1, <2>1, <2>4
  <1>6. ASSUME NEW g \in Games, NEW to \in Players, NEW s \in Symbols, NEW bet \in Bets,
               NEW payout \in Payouts, NEW referer \in Referers, PayNow(g, to, s, bet, payout, referer)
        PROVE  UNCHANGED players \/ RowsFair'
    BY <1>2, <1>3, <1>6, AfterPayNow DEF RowsFair
  <1>7. ASSUME NEW id, SettleUnpaid(id) PROVE RowsFair'
    BY <1>2, <1>3, <1>7, AfterSettle DEF RowsFair
  <1>8. ASSUME NEW p \in Players, NEW referer \in Referers, SetReferer(p, referer) PROVE RowsFair'
    BY <1>1, <1>3, <1>4, <1>8, AfterSetReferer
  <1>9. ASSUME NEW p, NEW type \in RewardTypes, ClaimReward(p, type) PROVE RowsFair'
    <2>1. type \in 0 .. 255 /\ FirstClaim(players[p], type) /\ p \in DOMAIN players /\ FairRow(players[p])
      BY <1>9, HouseAmounts DEF ClaimReward, RowsFair
    <2>2. FairRow(ClaimRow(p, type))
      BY <1>9, <2>1, AfterClaim, ClaimIsFair
    <2> QED BY <1>2, <1>9, <2>2, AfterClaim
  <1>10. ASSUME NEW p, NEW chest \in ChestTypes, NEW roll \in Rolls, OpenChest(p, chest, roll) PROVE RowsFair'
    <2>1. chest \in 0 .. 4 /\ roll \in 0 .. 100
      BY <1>10, HouseAmounts DEF OpenChest, ChestOpenEnd
    <2>2. Unopened(players[p], chest) /\ p \in DOMAIN players /\ FairRow(players[p])
      BY <1>10 DEF OpenChest, RowsFair
    <2>3. FairRow(ChestRow(p, chest, roll))
      BY <1>10, <2>1, <2>2, AfterOpenChest, ChestIsFair
    <2> QED BY <1>2, <1>10, <2>3, AfterOpenChest
  <1>11. CASE UNCHANGED players
    <2> SUFFICES ASSUME NEW q \in DOMAIN players' PROVE FairRow(players'[q])
      BY Zenon DEF RowsFair, FairRow, PointsFair, ChestsFair, EarnedClaims, Earned, PointTable, AmountTable
    <2> QED BY <1>11 DEF RowsFair
  <1> QED BY <1>5, <1>6, <1>7, <1>8, <1>9, <1>10, <1>11, OthersKeepPlayers, Zenon

(* Points and chests are worth what was earned and no more, for every      *)
(* order of stakes, claims and chests.                                     *)
THEOREM LoyaltyIsPaidOnce == Spec => []LoyaltyPaidOnce
  <1>1. Init => RowsFair
    BY DEF Init, RowsFair, EmptyTable
  <1>2. TypeOK /\ RowsFair /\ ChestEarned => LoyaltyPaidOnce
    <2> SUFFICES ASSUME TypeOK, RowsFair, ChestEarned PROVE LoyaltyPaidOnce
      OBVIOUS
    <2>1. ASSUME NEW p \in DOMAIN players
          PROVE  /\ players[p].chest_opened \in SUBSET (0 .. 4) /\ EarnedClaims(players[p]) \in SUBSET (0 .. 31)
                 /\ FairRow(players[p])
      BY PlayerFields DEF TypeOK, IsTable, EarnedClaims, RowsFair
    <2>2. PointsEarned
      BY <2>1, PointSums DEF PointsEarned, FairRow, PointsFair
    <2>3. ChestsPayOnce
      BY <2>1, ChestSums DEF ChestsPayOnce, FairRow, ChestsFair
    <2> QED BY <2>2, <2>3 DEF LoyaltyPaidOnce
  <1> QED BY <1>1, <1>2, NextRowsFair, TypeCorrect, ChestsAreEarned, PTL DEF Spec

-----------------------------------------------------------------------------
(* The tables are finite, so that their rows can be added up.              *)
TablesFinite == IsFiniteSet(DOMAIN tokens) /\ IsFiniteSet(DOMAIN players) /\ IsFiniteSet(DOMAIN unpaid)

(* A step writes the row of one key, which is in or not.                   *)
OldToken(k) == IF k \in DOMAIN tokens THEN tokens[k] ELSE NewToken(0, 0, 0)
Recorded(k, in, balance) ==
    \E row \in TokenRow : tokens' = Put(tokens, k, row) /\ row.in = in /\ row.balance = balance

LEMMA OldTokenIsRow ==
    ASSUME TypeOK, NEW k
    PROVE  /\ OldToken(k) \in TokenRow /\ OldToken(k).in \in Nat /\ OldToken(k).balance \in 0 .. Width - 1
           /\ k \in DOMAIN tokens => OldToken(k) = tokens[k]
           /\ k \notin DOMAIN tokens => OldToken(k).in = 0 /\ OldToken(k).balance = 0
  <1>1. NewToken(0, 0, 0) \in TokenRow
    BY NewRows, HouseAmounts
  <1>2. k \in DOMAIN tokens => tokens[k] \in TokenRow
    BY DEF TypeOK, IsTable
  <1>3. k \notin DOMAIN tokens => OldToken(k).in = 0 /\ OldToken(k).balance = 0
    BY DEF OldToken, NewToken
  <1> QED BY <1>1, <1>2, <1>3, TokenFields DEF OldToken

LEMMA ModifyRecords ==
    ASSUME TypeOK, NEW k \in DOMAIN tokens, NEW row \in TokenRow, tokens' = [tokens EXCEPT ![k] = row]
    PROVE  Recorded(k, row.in, row.balance)
  <1>1. tokens' = Put(tokens, k, row)
    BY ModifyIsPut DEF TypeOK
  <1> QED BY <1>1 DEF Recorded

LEMMA AddGameRecords ==
    ASSUME TypeOK, NEW g \in Games, NEW id, AddGame(g, id)
    PROVE  \/ UNCHANGED tokens
           \/ <<g, EOS>> \notin DOMAIN tokens /\ Recorded(<<g, EOS>>, 0, 0)
  <1> DEFINE row == NewToken(DefaultMin, DefaultMaxPayout, 0)
  <1>1. row \in TokenRow
    BY NewRows, HouseAmounts DEF DefaultMin, DefaultMaxPayout
  <1>2. row.in = 0 /\ row.balance = 0
    BY DEF NewToken
  <1>3. UNCHANGED tokens \/ (<<g, EOS>> \notin DOMAIN tokens /\ tokens' = Put(tokens, <<g, EOS>>, row))
    BY Zenon DEF AddGame
  <1> HIDE DEF row
  <1> QED BY <1>1, <1>2, <1>3 DEF Recorded

LEMMA UpdateRecords ==
    ASSUME TypeOK, NEW g \in Games, NEW s \in Symbols, NEW min \in Mins, NEW max \in Maxes,
           NEW balance \in Balances, UpdateToken(g, s, min, max, balance)
    PROVE  /\ Recorded(<<g, s>>, OldToken(<<g, s>>).in, balance) /\ balance \in 0 .. Width - 1
           /\ slack' = [slack EXCEPT ![s] = Wrap(slack[s] + OldToken(<<g, s>>).balance - balance)]
  <1> DEFINE k   == <<g, s>>
             new == [OldToken(k) EXCEPT !.min = min, !.max_payout = max, !.balance = balance]
  <1>1. OldToken(k) \in TokenRow
    BY OldTokenIsRow
  <1>2. min \in Nat /\ max \in Nat /\ balance \in 0 .. Width - 1
    BY HouseAmounts
  <1>3. new \in TokenRow /\ new.in = OldToken(k).in /\ new.balance = balance
    BY <1>1, <1>2, Zenon DEF TokenRow
  <1>4. /\ tokens' = Put(tokens, k, new)
        /\ slack' = [slack EXCEPT ![s] = Wrap(slack[s] + OldToken(k).balance - balance)]
    BY Zenon DEF UpdateToken, OldToken
  <1> HIDE DEF k, new
  <1>5. Recorded(k, OldToken(k).in, balance)
    BY <1>3, <1>4 DEF Recorded
  <1> QED BY <1>2, <1>4, <1>5 DEF k

LEMMA StakeRecords ==
    ASSUME TypeOK, NEW g \in Games, NEW p, NEW s \in Symbols, NEW amount \in Nat, Stake(g, p, s, amount)
    PROVE  LET k == <<g, s>>
           IN  k \in DOMAIN tokens /\ Recorded(k, tokens[k].in + amount, Wrap(tokens[k].balance + amount))
  <1> DEFINE k   == <<g, s>>
             tok == [tokens[k] EXCEPT !.in = @ + amount, !.balance = Wrap(@ + amount)]
  <1>1. k \in DOMAIN tokens /\ tokens' = [tokens EXCEPT ![k] = tok]
    BY Zenon DEF Stake
  <1>2. tokens[k] \in TokenRow
    BY <1>1 DEF TypeOK, IsTable
  <1>3. tokens[k].in + amount \in Nat /\ Wrap(tokens[k].balance + amount) \in 0 .. Width - 1
    BY <1>2, TokenFields, WrapInWidth, HouseAmounts
  <1>4. tok \in TokenRow /\ tok.in = tokens[k].in + amount /\ tok.balance = Wrap(tokens[k].balance + amount)
    BY <1>2, <1>3, Zenon DEF TokenRow
  <1> HIDE DEF tok
  <1> QED BY <1>1, <1>4, ModifyRecords

LEMMA DepositRecords ==
    ASSUME TypeOK, NEW g \in Games, NEW s \in Symbols, NEW amount \in Nat, Deposit(g, s, amount),
           <<g, s>> \in DOMAIN tokens
    PROVE  Recorded(<<g, s>>, tokens[<<g, s>>].in, Wrap(tokens[<<g, s>>].balance + amount))
  <1> DEFINE k   == <<g, s>>
             tok == [tokens[k] EXCEPT !.balance = Wrap(@ + amount)]
  <1>1. tokens' = [tokens EXCEPT ![k] = tok]
    BY Zenon DEF Deposit
  <1>2. tokens[k] \in TokenRow
    BY DEF TypeOK, IsTable
  <1>3. Wrap(tokens[k].balance + amount) \in 0 .. Width - 1
    BY <1>2, TokenFields, WrapInWidth, HouseAmounts
  <1>4. tok \in TokenRow /\ tok.in = tokens[k].in /\ tok.balance = Wrap(tokens[k].balance + amount)
    BY <1>2, <1>3, Zenon DEF TokenRow
  <1> HIDE DEF tok
  <1> QED BY <1>1, <1>4, ModifyRecords

LEMMA PayNowRecords ==
    ASSUME TypeOK, NEW g \in Games, NEW to, NEW s \in Symbols, NEW bet \in Nat, NEW payout \in Nat,
           NEW referer, PayNow(g, to, s, bet, payout, referer)
    PROVE  LET k == <<g, s>>
           IN  /\ k \in DOMAIN tokens
               /\ \E spent \in Nat :
                    /\ Recorded(k, tokens[k].in, Wrap(tokens[k].balance - spent))
                    /\ holdings' = [holdings EXCEPT ![s] = holdings[s] - spent]
  <1> DEFINE k     == <<g, s>>
             known == s = EOS /\ to \in DOMAIN players
             payee == IF known THEN RefererOf(to, referer) ELSE Nobody
             bonus == IF payee = Nobody THEN 0 ELSE ReferBonus(g, bet)
             spent == payout + bonus
             tok   == [tokens[k] EXCEPT !.out = @ + spent, !.balance = Wrap(@ - spent)]
  <1>1. /\ k \in DOMAIN tokens /\ tokens' = [tokens EXCEPT ![k] = tok]
        /\ holdings' = [holdings EXCEPT ![s] = holdings[s] - spent]
    BY Zenon DEF PayNow, Charge
  <1>2. bonus \in Nat
    BY BonusIsNat
  <1>3. spent \in Nat
    BY <1>2
  <1> HIDE DEF spent
  <1>4. tokens[k] \in TokenRow
    BY <1>1 DEF TypeOK, IsTable
  <1>5. tokens[k].out + spent \in Nat /\ Wrap(tokens[k].balance - spent) \in 0 .. Width - 1
    BY <1>3, <1>4, TokenFields, WrapInWidth, HouseAmounts
  <1>6. tok \in TokenRow /\ tok.in = tokens[k].in /\ tok.balance = Wrap(tokens[k].balance - spent)
    BY <1>4, <1>5, Zenon DEF TokenRow
  <1> HIDE DEF tok
  <1>7. Recorded(k, tokens[k].in, Wrap(tokens[k].balance - spent))
    BY <1>1, <1>6, ModifyRecords
  <1> QED BY <1>1, <1>3, <1>7

LEMMA SettleRecords ==
    ASSUME TypeOK, NEW id \in DOMAIN unpaid, SettleUnpaid(id)
    PROVE  LET d == unpaid[id]
               k == <<d.game, d.sym>>
           IN  /\ k \in DOMAIN tokens /\ k \in Games \X Symbols /\ d.payout \in Nat
               /\ Recorded(k, tokens[k].in, Wrap(tokens[k].balance - d.payout))
               /\ holdings' = [holdings EXCEPT ![d.sym] = holdings[d.sym] - d.payout]
  <1> DEFINE d   == unpaid[id]
             k   == <<d.game, d.sym>>
             tok == [tokens[k] EXCEPT !.out = d.payout, !.balance = Wrap(@ - d.payout)]
  <1>1. d.payout \in Nat /\ d.game \in Games /\ d.sym \in Symbols
    BY DEF TypeOK, IsTable, DelayedPayment
  <1>2. /\ k \in DOMAIN tokens /\ tokens' = [tokens EXCEPT ![k] = tok]
        /\ holdings' = [holdings EXCEPT ![d.sym] = holdings[d.sym] - d.payout]
    BY Zenon DEF SettleUnpaid
  <1>3. tokens[k] \in TokenRow
    BY <1>2 DEF TypeOK, IsTable
  <1>4. Wrap(tokens[k].balance - d.payout) \in 0 .. Width - 1
    BY <1>1, <1>3, TokenFields, WrapInWidth, HouseAmounts
  <1>5. tok \in TokenRow /\ tok.in = tokens[k].in /\ tok.balance = Wrap(tokens[k].balance - d.payout)
    BY <1>1, <1>3, <1>4, Zenon DEF TokenRow
  <1> HIDE DEF tok
  <1>6. Recorded(k, tokens[k].in, Wrap(tokens[k].balance - d.payout))
    BY <1>2, <1>5, ModifyRecords
  <1> QED BY <1>1, <1>2, <1>6

(* The other actions write no row.                                         *)
LEMMA OthersKeepTokens ==
    ASSUME [Next]_vars
    PROVE  \/ UNCHANGED tokens
           \/ \E g \in Games, id \in GameIds : AddGame(g, id)
           \/ \E g \in Games, s \in Symbols, min \in Mins, max \in Maxes, balance \in Balances :
                 UpdateToken(g, s, min, max, balance)
           \/ \E g \in Games : ClearToken(g)
           \/ \E g \in Games, p \in Players, s \in Symbols, amount \in Stakes : Stake(g, p, s, amount)
           \/ \E g \in Games, s \in Symbols, amount \in Deposits : Deposit(g, s, amount)
           \/ \E g \in Games, to \in Players, s \in Symbols, bet \in Bets, payout \in Payouts,
                 referer \in Referers : PayNow(g, to, s, bet, payout, referer)
           \/ \E id \in DOMAIN unpaid : SettleUnpaid(id)
  <1>1. ASSUME NEW g, NEW id, UpdateGame(g, id) \/ SetActive(g, id) PROVE UNCHANGED tokens
    BY <1>1, Zenon DEF UpdateGame, SetActive
  <1>2. ASSUME NEW key, RunInit \/ SetRandKey(key) \/ Tick PROVE UNCHANGED tokens
    BY <1>2, Zenon DEF RunInit, SetRandKey, Tick, stores
  <1>3. ASSUME NEW g, NEW to, NEW s, NEW bet, NEW payout, NEW referer,
               PayLater(g, to, s, bet, payout, referer)
        PROVE  UNCHANGED tokens
    BY <1>3, Zenon DEF PayLater
  <1>4. ASSUME NEW id, DropUnpaid(id) PROVE UNCHANGED tokens
    BY <1>4, Zenon DEF DropUnpaid
  <1>5. ASSUME NEW p, NEW referer, NEW type, NEW roll,
               SetReferer(p, referer) \/ ClaimReward(p, type) \/ OpenChest(p, type, roll)
        PROVE  UNCHANGED tokens
    BY <1>5, Zenon DEF SetReferer, ClaimReward, OpenChest
  <1>6. CASE UNCHANGED vars
    BY <1>6, Zenon DEF vars, stores
  <1> QED BY <1>1, <1>2, <1>3, <1>4, <1>5, <1>6, Zenon DEF Next

(* The other actions leave the queue of delayed payments alone.            *)
LEMMA OthersKeepQueue ==
    ASSUME [Next]_vars
    PROVE  \/ UNCHANGED unpaid
           \/ \E g \in Games, to \in Players, s \in Symbols, bet \in Bets, payout \in Payouts,
                 referer \in Referers : PayLater(g, to, s, bet, payout, referer)
           \/ \E id \in DOMAIN unpaid : SettleUnpaid(id) \/ DropUnpaid(id)
  <1>1. ASSUME NEW g, NEW id, AddGame(g, id) \/ UpdateGame(g, id) \/ SetActive(g, id)
        PROVE  UNCHANGED unpaid
    BY <1>1, Zenon DEF AddGame, UpdateGame, SetActive
  <1>2. ASSUME NEW key, RunInit \/ SetRandKey(key) \/ Tick PROVE UNCHANGED unpaid
    BY <1>2, Zenon DEF RunInit, SetRandKey, Tick, stores
  <1>3. ASSUME NEW g, NEW s, NEW min, NEW max, NEW balance,
               UpdateToken(g, s, min, max, balance) \/ ClearToken(g) \/ Deposit(g, s, balance)
        PROVE  UNCHANGED unpaid
    BY <1>3, Zenon DEF UpdateToken, ClearToken, Deposit
  <1>4. ASSUME NEW g, NEW p, NEW s, NEW bet, NEW amount, NEW referer,
               Stake(g, p, s, amount) \/ PayNow(g, p, s, bet, amount, referer)
        PROVE  UNCHANGED unpaid
    BY <1>4, Zenon DEF Stake, PayNow
  <1>5. ASSUME NEW p, NEW referer, NEW type, NEW roll,
               SetReferer(p, referer) \/ ClaimReward(p, type) \/ OpenChest(p, type, roll)
        PROVE  UNCHANGED unpaid
    BY <1>5, Zenon DEF SetReferer, ClaimReward, OpenChest
  <1>6. CASE UNCHANGED vars
    BY <1>6, Zenon DEF vars, stores
  <1> QED BY <1>1, <1>2, <1>3, <1>4, <1>5, <1>6, Zenon DEF Next

LEMMA NextTablesFinite == TypeOK /\ TablesFinite /\ [Next]_vars => TablesFinite'
  <1> SUFFICES ASSUME TypeOK, TablesFinite, [Next]_vars PROVE TablesFinite'
    OBVIOUS
  <1>1. IsFiniteSet(DOMAIN players')
    <2>1. ASSUME NEW p, NEW row, players' = Put(players, p, row) PROVE IsFiniteSet(DOMAIN players')
      BY <2>1, FiniteTables DEF TablesFinite
    <2>2. ASSUME NEW p, NEW row, players' = [players EXCEPT ![p] = row] PROVE IsFiniteSet(DOMAIN players')
      BY <2>2 DEF TablesFinite
    <2>3. ASSUME NEW g \in Games, NEW p \in Players, NEW s, NEW amount, Stake(g, p, s, amount)
          PROVE  IsFiniteSet(DOMAIN players')
      BY <2>1, <2>3, AfterStake
    <2>4. ASSUME NEW g, NEW to, NEW s, NEW bet, NEW payout, NEW referer,
                 PayNow(g, to, s, bet, payout, referer)
          PROVE  IsFiniteSet(DOMAIN players')
      BY <2>2, <2>4, AfterPayNow DEF TablesFinite
    <2>5. ASSUME NEW p \in Players, NEW referer \in Referers, SetReferer(p, referer)
          PROVE  IsFiniteSet(DOMAIN players')
      BY <2>1, <2>5, AfterSetReferer
    <2>6. ASSUME NEW id, SettleUnpaid(id) PROVE IsFiniteSet(DOMAIN players')
      BY <2>2, <2>6, AfterSettle
    <2>7. ASSUME NEW p, NEW type, ClaimReward(p, type) PROVE IsFiniteSet(DOMAIN players')
      BY <2>2, <2>7, AfterClaim
    <2>8. ASSUME NEW p, NEW chest, NEW roll, OpenChest(p, chest, roll) PROVE IsFiniteSet(DOMAIN players')
      BY <2>2, <2>8, AfterOpenChest
    <2>9. CASE UNCHANGED players
      BY <2>9 DEF TablesFinite
    <2> QED BY <2>3, <2>4, <2>5, <2>6, <2>7, <2>8, <2>9, OthersKeepPlayers, Zenon
  <1>2. IsFiniteSet(DOMAIN tokens')
    <2>1. ASSUME NEW k, NEW in, NEW balance, Recorded(k, in, balance) PROVE IsFiniteSet(DOMAIN tokens')
      BY <2>1, FiniteTables DEF TablesFinite, Recorded
    <2>2. ASSUME UNCHANGED tokens PROVE IsFiniteSet(DOMAIN tokens')
      BY <2>2 DEF TablesFinite
    <2>3. ASSUME NEW g \in Games, NEW id, AddGame(g, id) PROVE IsFiniteSet(DOMAIN tokens')
      BY <2>1, <2>2, <2>3, AddGameRecords
    <2>4. ASSUME NEW g \in Games, NEW s \in Symbols, NEW min \in Mins, NEW max \in Maxes,
                 NEW balance \in Balances, UpdateToken(g, s, min, max, balance)
          PROVE  IsFiniteSet(DOMAIN tokens')
      BY <2>1, <2>4, UpdateRecords
    <2>5. ASSUME NEW g, ClearToken(g) PROVE IsFiniteSet(DOMAIN tokens')
      BY <2>5, FiniteTables DEF TablesFinite, ClearToken
    <2>6. ASSUME NEW g, NEW p, NEW s, NEW amount, Stake(g, p, s, amount) PROVE IsFiniteSet(DOMAIN tokens')
      BY <2>6 DEF Stake, TablesFinite
    <2>7. ASSUME NEW g, NEW s, NEW amount, Deposit(g, s, amount) PROVE IsFiniteSet(DOMAIN tokens')
      BY <2>7 DEF Deposit, TablesFinite
    <2>8. ASSUME NEW g, NEW to, NEW s, NEW bet, NEW payout, NEW referer,
                 PayNow(g, to, s, bet, payout, referer)
          PROVE  IsFiniteSet(DOMAIN tokens')
      BY <2>8 DEF PayNow, TablesFinite
    <2>9. ASSUME NEW id, SettleUnpaid(id) PROVE IsFiniteSet(DOMAIN tokens')
      BY <2>9 DEF SettleUnpaid, TablesFinite
    <2> QED BY <2>2, <2>3, <2>4, <2>5, <2>6, <2>7, <2>8, <2>9, OthersKeepTokens, Zenon
  <1>3. IsFiniteSet(DOMAIN unpaid')
    <2>1. ASSUME NEW g, NEW to, NEW s, NEW bet, NEW payout, NEW referer,
                 PayLater(g, to, s, bet, payout, referer)
          PROVE  IsFiniteSet(DOMAIN unpaid')
      BY <2>1, FiniteTables DEF PayLater, TablesFinite
    <2>2. ASSUME NEW id, SettleUnpaid(id) \/ DropUnpaid(id) PROVE IsFiniteSet(DOMAIN unpaid')
      BY <2>2, FiniteTables DEF SettleUnpaid, DropUnpaid, TablesFinite
    <2>3. CASE UNCHANGED unpaid
      BY <2>3 DEF TablesFinite
    <2> QED BY <2>1, <2>2, <2>3, OthersKeepQueue, Zenon
  <1> QED BY <1>1, <1>2, <1>3 DEF TablesFinite

-----------------------------------------------------------------------------
(* The sums over the rows of the token table and of the players.           *)
Backing(s) == SumFunction(BalancesOf(s))
TokensIn == SumFunction(TokenIncomes)
PlayersIn == SumFunction(PlayerIncomes)

LEMMA SumsAreInts ==
    ASSUME TypeOK, TablesFinite
    PROVE  /\ \A s : /\ IsFiniteSet(DOMAIN BalancesOf(s)) /\ Backing(s) \in Int
                     /\ \A k \in DOMAIN BalancesOf(s) : BalancesOf(s)[k] \in Int
           /\ IsFiniteSet(DOMAIN TokenIncomes) /\ \A k \in DOMAIN TokenIncomes : TokenIncomes[k] \in Int
           /\ IsFiniteSet(DOMAIN PlayerIncomes) /\ \A p \in DOMAIN PlayerIncomes : PlayerIncomes[p] \in Int
  <1>1. \A k \in DOMAIN tokens : tokens[k].balance \in Int /\ tokens[k].in \in Int
    BY TokenFields, HouseAmounts DEF TypeOK, IsTable
  <1>2. ASSUME NEW s
        PROVE  /\ IsFiniteSet(DOMAIN BalancesOf(s)) /\ Backing(s) \in Int
               /\ \A k \in DOMAIN BalancesOf(s) : BalancesOf(s)[k] \in Int
    <2>1. DOMAIN BalancesOf(s) \subseteq DOMAIN tokens
      BY DEF BalancesOf, TokensOf
    <2>2. \A k \in DOMAIN BalancesOf(s) : BalancesOf(s)[k] \in Int
      BY <1>1 DEF BalancesOf, TokensOf
    <2>3. IsFiniteSet(DOMAIN BalancesOf(s))
      BY <2>1, FS_Subset DEF TablesFinite
    <2> QED BY <2>2, <2>3, SumOfTable DEF Backing
  <1>3. IsFiniteSet(DOMAIN TokenIncomes) /\ \A k \in DOMAIN TokenIncomes : TokenIncomes[k] \in Int
    <2>1. DOMAIN TokenIncomes \subseteq DOMAIN tokens
      BY DEF TokenIncomes, TokensOf
    <2>2. IsFiniteSet(DOMAIN TokenIncomes)
      BY <2>1, FS_Subset DEF TablesFinite
    <2> QED BY <1>1, <2>1, <2>2 DEF TokenIncomes
  <1>4. IsFiniteSet(DOMAIN PlayerIncomes) /\ \A p \in DOMAIN PlayerIncomes : PlayerIncomes[p] \in Int
    BY PlayerFields DEF TablesFinite, TypeOK, IsTable, PlayerIncomes
  <1> QED BY <1>2, <1>3, <1>4

(* One row written changes one balance, and the EOS that came in if it is  *)
(* a row of EOS.                                                           *)
LEMMA SumsAfterRecord ==
    ASSUME TypeOK, TablesFinite, NEW k, NEW in \in Int, NEW balance \in Int, Recorded(k, in, balance)
    PROVE  /\ \A s : Backing(s)' = IF s = k[2] THEN Backing(s) - OldToken(k).balance + balance ELSE Backing(s)
           /\ TokensIn' = IF k[2] = EOS THEN TokensIn - OldToken(k).in + in ELSE TokensIn
  <1>1. PICK row : tokens' = Put(tokens, k, row) /\ row.in = in /\ row.balance = balance
    BY DEF Recorded
  <1>2. /\ DOMAIN tokens' = DOMAIN tokens \cup {k} /\ tokens'[k] = row
        /\ \A x \in DOMAIN tokens \ {k} : tokens'[x] = tokens[x]
    BY <1>1 DEF Put
  <1>3. ASSUME NEW s
        PROVE  Backing(s)' = IF s = k[2] THEN Backing(s) - OldToken(k).balance + balance ELSE Backing(s)
    <2>1. CASE s = k[2]
      <3>1. BalancesOf(s)' = Put(BalancesOf(s), k, balance)
        <4>1. TokensOf(s)' = TokensOf(s) \cup {k}
          BY <1>2, <2>1 DEF TokensOf
        <4>2. \A x \in TokensOf(s) \cup {k} :
                 tokens'[x].balance = IF x = k THEN balance ELSE tokens[x].balance
          BY <1>1, <1>2 DEF TokensOf
        <4> QED BY <4>1, <4>2 DEF BalancesOf, Put
      <3>2. k \in DOMAIN BalancesOf(s) <=> k \in DOMAIN tokens
        BY <2>1 DEF BalancesOf, TokensOf
      <3>3. k \in DOMAIN tokens => BalancesOf(s)[k] = OldToken(k).balance
        BY <3>2 DEF BalancesOf, OldToken
      <3>4. k \notin DOMAIN tokens => OldToken(k).balance = 0
        BY OldTokenIsRow
      <3>5. SumFunction(Put(BalancesOf(s), k, balance))
              = SumFunction(BalancesOf(s))
                  - (IF k \in DOMAIN BalancesOf(s) THEN BalancesOf(s)[k] ELSE 0) + balance
        BY SumsAreInts, SumPut
      <3> QED BY <2>1, <3>1, <3>2, <3>3, <3>4, <3>5 DEF Backing
    <2>2. CASE s # k[2]
      <3>1. TokensOf(s)' = TokensOf(s) /\ \A x \in TokensOf(s) : tokens'[x] = tokens[x]
        BY <1>2, <2>2 DEF TokensOf
      <3>2. BalancesOf(s)' = BalancesOf(s)
        BY <3>1 DEF BalancesOf
      <3> QED BY <2>2, <3>2 DEF Backing
    <2> QED BY <2>1, <2>2
  <1>4. TokensIn' = IF k[2] = EOS THEN TokensIn - OldToken(k).in + in ELSE TokensIn
    <2>1. CASE k[2] = EOS
      <3>1. TokenIncomes' = Put(TokenIncomes, k, in)
        <4>1. TokensOf(EOS)' = TokensOf(EOS) \cup {k}
          BY <1>2, <2>1 DEF TokensOf
        <4>2. \A x \in TokensOf(EOS) \cup {k} : tokens'[x].in = IF x = k THEN in ELSE tokens[x].in
          BY <1>1, <1>2 DEF TokensOf
        <4> QED BY <4>1, <4>2 DEF TokenIncomes, Put
      <3>2. k \in DOMAIN TokenIncomes <=> k \in DOMAIN tokens
        BY <2>1 DEF TokenIncomes, TokensOf
      <3>3. k \in DOMAIN tokens => TokenIncomes[k] = OldToken(k).in
        BY <3>2 DEF TokenIncomes, OldToken
      <3>4. k \notin DOMAIN tokens => OldToken(k).in = 0
        BY OldTokenIsRow
      <3>5. SumFunction(Put(TokenIncomes, k, in))
              = SumFunction(TokenIncomes) - (IF k \in DOMAIN TokenIncomes THEN TokenIncomes[k] ELSE 0) + in
        BY SumsAreInts, SumPut
      <3> QED BY <2>1, <3>1, <3>2, <3>3, <3>4, <3>5 DEF TokensIn
    <2>2. CASE k[2] # EOS
      <3>1. TokensOf(EOS)' = TokensOf(EOS) /\ \A x \in TokensOf(EOS) : tokens'[x] = tokens[x]
        BY <1>2, <2>2 DEF TokensOf
      <3>2. TokenIncomes' = TokenIncomes
        BY <3>1 DEF TokenIncomes
      <3> QED BY <2>2, <3>2 DEF TokensIn
    <2> QED BY <2>1, <2>2
  <1> QED BY <1>3, <1>4

LEMMA SumsStay ==
    ASSUME UNCHANGED tokens PROVE TokensIn' = TokensIn /\ \A s : Backing(s)' = Backing(s)
  <1>1. TokenIncomes' = TokenIncomes /\ \A s : BalancesOf(s)' = BalancesOf(s)
    BY DEF TokenIncomes, BalancesOf, TokensOf
  <1> QED BY <1>1 DEF TokensIn, Backing

LEMMA PlayersInAfterPut ==
    ASSUME TypeOK, TablesFinite, NEW p \in Players, NEW row, row.in \in Int, players' = Put(players, p, row)
    PROVE  PlayersIn' = PlayersIn - Player(p).in + row.in
  <1>1. PlayerIncomes' = Put(PlayerIncomes, p, row.in)
    BY DEF PlayerIncomes, Put
  <1>2. (IF p \in DOMAIN PlayerIncomes THEN PlayerIncomes[p] ELSE 0) = Player(p).in
    BY DEF PlayerIncomes, Player, NewPlayer
  <1> QED BY <1>1, <1>2, SumsAreInts, SumPut DEF PlayersIn

LEMMA PlayersInStays ==
    ASSUME TypeOK, TablesFinite, NEW p \in Players, NEW row, SamePlay(Player(p), row),
           players' = Put(players, p, row) \/ (p \in DOMAIN players /\ players' = [players EXCEPT ![p] = row])
    PROVE  PlayersIn' = PlayersIn
  <1>1. players' = Put(players, p, row)
    BY ModifyIsPut DEF TypeOK
  <1>2. Player(p).in \in Int /\ row.in = Player(p).in
    BY PlayerIsRow, PlayerFields DEF SamePlay
  <1>3. PlayersIn \in Int
    BY SumsAreInts, SumOfTable DEF PlayersIn
  <1> QED BY <1>1, <1>2, <1>3, PlayersInAfterPut

(* The same EOS came in for the games as from the players.                 *)
LEMMA NextSameIncome == TypeOK /\ TablesFinite /\ SameIncome /\ [Next]_vars => SameIncome'
  <1> SUFFICES ASSUME TypeOK, TablesFinite, TokensIn = PlayersIn, [Next]_vars PROVE TokensIn' = PlayersIn'
    BY DEF SameIncome, TokensIn, PlayersIn
  <1>1. TokensIn \in Int /\ PlayersIn \in Int
    BY SumsAreInts, SumOfTable DEF TokensIn, PlayersIn
  <1>2. ASSUME NEW g \in Games, NEW p \in Players, NEW s \in Symbols, NEW amount \in Stakes,
               Stake(g, p, s, amount)
        PROVE  TokensIn' = PlayersIn'
    <2> DEFINE k == <<g, s>>
    <2>1. amount \in Nat
      BY HouseAmounts
    <2>2. k \in DOMAIN tokens /\ Recorded(k, tokens[k].in + amount, Wrap(tokens[k].balance + amount))
      BY <1>2, <2>1, StakeRecords
    <2>3. /\ OldToken(k) = tokens[k] /\ tokens[k].in \in Nat /\ tokens[k].balance \in Int
          /\ Wrap(tokens[k].balance + amount) \in Int /\ k[2] = s
      <3>1. OldToken(k) = tokens[k] /\ tokens[k].in \in Nat /\ tokens[k].balance \in Int
        BY <2>2, OldTokenIsRow, HouseAmounts
      <3>2. tokens[k].balance + amount \in Int
        BY <2>1, <3>1
      <3>3. Wrap(tokens[k].balance + amount) \in 0 .. Width - 1
        BY <3>2, WrapInWidth
      <3> QED BY <3>1, <3>3, HouseAmounts
    <2> HIDE DEF k
    <2>4. TokensIn' = IF s = EOS THEN TokensIn + amount ELSE TokensIn
      <3>1. TokensIn' = IF k[2] = EOS THEN TokensIn - OldToken(k).in + (tokens[k].in + amount) ELSE TokensIn
        <4>1. tokens[k].in + amount \in Int
          BY <2>1, <2>3
        <4> QED BY <2>2, <2>3, <4>1, SumsAfterRecord
      <3> QED BY <1>1, <2>1, <2>3, <3>1
    <2>5. PICK row : players' = Put(players, p, row) /\ row.in = Player(p).in + Booked(s, amount)
      BY <1>2, AfterStake
    <2>6. Player(p).in \in Nat /\ Booked(s, amount) \in Nat
      BY <2>1, PlayerIsRow, PlayerFields DEF Booked
    <2>7. PlayersIn' = PlayersIn + Booked(s, amount)
      <3>1. row.in \in Int
        BY <2>5, <2>6
      <3>2. PlayersIn' = PlayersIn - Player(p).in + row.in
        BY <2>5, <3>1, PlayersInAfterPut
      <3> QED BY <1>1, <2>5, <2>6, <3>2
    <2> QED BY <1>1, <2>1, <2>4, <2>7 DEF Booked
  <1>3. \/ TokensIn' = TokensIn
        \/ \E g \in Games, p \in Players, s \in Symbols, amount \in Stakes : Stake(g, p, s, amount)
    <2>1. UNCHANGED tokens => TokensIn' = TokensIn
      BY SumsStay
    <2>2. ASSUME NEW k, NEW balance \in Int, Recorded(k, OldToken(k).in, balance) PROVE TokensIn' = TokensIn
      <3>1. OldToken(k).in \in Int
        BY OldTokenIsRow
      <3>2. TokensIn' = IF k[2] = EOS THEN TokensIn - OldToken(k).in + OldToken(k).in ELSE TokensIn
        BY <2>2, <3>1, SumsAfterRecord
      <3> QED BY <1>1, <3>1, <3>2
    <2>3. ASSUME NEW g \in Games, NEW id \in GameIds, AddGame(g, id) PROVE TokensIn' = TokensIn
      <3>1. CASE ~ UNCHANGED tokens
        <4>1. <<g, EOS>> \notin DOMAIN tokens /\ Recorded(<<g, EOS>>, 0, 0)
          BY <2>3, <3>1, AddGameRecords
        <4>2. OldToken(<<g, EOS>>).in = 0
          BY <4>1, OldTokenIsRow
        <4> QED BY <2>2, <4>1, <4>2
      <3> QED BY <2>1, <3>1
    <2>4. ASSUME NEW g \in Games, NEW s \in Symbols, NEW min \in Mins, NEW max \in Maxes,
                 NEW balance \in Balances, UpdateToken(g, s, min, max, balance)
          PROVE  TokensIn' = TokensIn
      <3>1. Recorded(<<g, s>>, OldToken(<<g, s>>).in, balance) /\ balance \in 0 .. Width - 1
        BY <2>4, UpdateRecords
      <3>2. balance \in Int
        BY <3>1, HouseAmounts
      <3> QED BY <2>2, <3>1, <3>2
    <2>5. ASSUME NEW g, ClearToken(g) PROVE TokensIn' = TokensIn
      <3>1. TokensOf(EOS)' = TokensOf(EOS) /\ \A k \in TokensOf(EOS) : tokens'[k] = tokens[k]
        BY <2>5 DEF ClearToken, Erase, TokensOf
      <3>2. TokenIncomes' = TokenIncomes
        BY <3>1 DEF TokenIncomes
      <3> QED BY <3>2 DEF TokensIn
    <2>6. ASSUME NEW g \in Games, NEW s \in Symbols, NEW amount \in Deposits, Deposit(g, s, amount)
          PROVE  TokensIn' = TokensIn
      <3>1. CASE <<g, s>> \in DOMAIN tokens
        <4>1. amount \in Nat
          BY HouseAmounts
        <4>2. Recorded(<<g, s>>, tokens[<<g, s>>].in, Wrap(tokens[<<g, s>>].balance + amount))
          BY <2>6, <3>1, <4>1, DepositRecords
        <4>3. OldToken(<<g, s>>) = tokens[<<g, s>>] /\ tokens[<<g, s>>].balance + amount \in Int
          BY <3>1, <4>1, OldTokenIsRow, HouseAmounts
        <4>4. Wrap(tokens[<<g, s>>].balance + amount) \in Int
          BY <4>3, WrapInWidth, HouseAmounts
        <4> QED BY <2>2, <4>2, <4>3, <4>4
      <3>2. CASE <<g, s>> \notin DOMAIN tokens
        BY <2>1, <2>6, <3>2, Zenon DEF Deposit
      <3> QED BY <3>1, <3>2
    <2>7. ASSUME NEW g \in Games, NEW to \in Players, NEW s \in Symbols, NEW bet \in Bets,
                 NEW payout \in Payouts, NEW referer \in Referers, PayNow(g, to, s, bet, payout, referer)
          PROVE  TokensIn' = TokensIn
      <3>1. bet \in Nat /\ payout \in Nat
        BY HouseAmounts
      <3>2. PICK spent \in Nat :
               /\ <<g, s>> \in DOMAIN tokens
               /\ Recorded(<<g, s>>, tokens[<<g, s>>].in, Wrap(tokens[<<g, s>>].balance - spent))
        BY <2>7, <3>1, PayNowRecords
      <3>3. OldToken(<<g, s>>) = tokens[<<g, s>>] /\ tokens[<<g, s>>].balance - spent \in Int
        BY <3>2, OldTokenIsRow, HouseAmounts
      <3>4. Wrap(tokens[<<g, s>>].balance - spent) \in Int
        BY <3>3, WrapInWidth, HouseAmounts
      <3> QED BY <2>2, <3>2, <3>3, <3>4
    <2>8. ASSUME NEW id \in DOMAIN unpaid, SettleUnpaid(id) PROVE TokensIn' = TokensIn
      <3> DEFINE k == <<unpaid[id].game, unpaid[id].sym>>
                 payout == unpaid[id].payout
      <3>1. /\ k \in DOMAIN tokens /\ payout \in Nat
            /\ Recorded(k, tokens[k].in, Wrap(tokens[k].balance - payout))
        BY <2>8, SettleRecords
      <3> HIDE DEF k, payout
      <3>2. OldToken(k) = tokens[k] /\ tokens[k].balance - payout \in Int
        BY <3>1, OldTokenIsRow, HouseAmounts
      <3>3. Wrap(tokens[k].balance - payout) \in Int
        BY <3>2, WrapInWidth, HouseAmounts
      <3> QED BY <2>2, <3>1, <3>2, <3>3
    <2> QED BY <2>1, <2>3, <2>4, <2>5, <2>6, <2>7, <2>8, OthersKeepTokens, Zenon
  <1>4. \/ PlayersIn' = PlayersIn
        \/ \E g \in Games, p \in Players, s \in Symbols, amount \in Stakes : Stake(g, p, s, amount)
    <2>1. UNCHANGED players => PlayersIn' = PlayersIn
      BY DEF PlayersIn, PlayerIncomes
    <2>2. \A p \in DOMAIN players : p \in Players /\ players[p] = Player(p)
      BY DEF TypeOK, IsTable, Player
    <2>3. ASSUME NEW g, NEW to, NEW s, NEW bet, NEW payout, NEW referer,
                 PayNow(g, to, s, bet, payout, referer)
          PROVE  PlayersIn' = PlayersIn
      BY <2>1, <2>2, <2>3, AfterPayNow, PlayersInStays
    <2>4. ASSUME NEW id, SettleUnpaid(id) PROVE PlayersIn' = PlayersIn
      BY <2>2, <2>4, AfterSettle, PlayersInStays
    <2>5. ASSUME NEW p \in Players, NEW referer \in Referers, SetReferer(p, referer)
          PROVE  PlayersIn' = PlayersIn
      BY <2>5, AfterSetReferer, PlayersInStays DEF SamePlay
    <2>6. ASSUME NEW p, NEW type, ClaimReward(p, type) PROVE PlayersIn' = PlayersIn
      BY <2>2, <2>6, AfterClaim, PlayersInStays
    <2>7. ASSUME NEW p, NEW chest, NEW roll, OpenChest(p, chest, roll) PROVE PlayersIn' = PlayersIn
      BY <2>2, <2>7, AfterOpenChest, PlayersInStays
    <2> QED BY <2>1, <2>3, <2>4, <2>5, <2>6, <2>7, OthersKeepPlayers, Zenon
  <1> QED BY <1>2, <1>3, <1>4, Zenon

-----------------------------------------------------------------------------
(* What the balances, the slack and the holdings differ by: whole turns of *)
(* the unsigned field.                                                     *)
Rounds == {Width * m : m \in Int}
PoolInv == \A s \in Symbols : holdings[s] - (Backing(s) + slack[s]) \in Rounds

LEMMA RoundsAdd ==
    /\ 0 \in Rounds /\ Rounds \subseteq Int
    /\ \A x, y \in Rounds : x + y \in Rounds /\ x - y \in Rounds
  <1>1. Width \in Int
    BY HouseAmounts
  <1>2. 0 \in Rounds /\ Rounds \subseteq Int
    <2>1. Width * 0 = 0 /\ \A m \in Int : Width * m \in Int
      BY <1>1
    <2> QED BY <2>1 DEF Rounds
  <1>3. ASSUME NEW x \in Rounds, NEW y \in Rounds PROVE x + y \in Rounds /\ x - y \in Rounds
    <2>1. PICK m \in Int, n \in Int : x = Width * m /\ y = Width * n
      BY <1>3 DEF Rounds
    <2>2. Width * (m + n) = Width * m + Width * n /\ Width * (m - n) = Width * m - Width * n
      BY <1>1
    <2>3. m + n \in Int /\ m - n \in Int
      OBVIOUS
    <2> QED BY <2>1, <2>2, <2>3 DEF Rounds
  <1> QED BY <1>2, <1>3

(* Wrapping takes whole turns away.                                        *)
LEMMA WrapRounds ==
    ASSUME NEW x \in Int PROVE Wrap(x) \in Int /\ x - Wrap(x) \in Rounds /\ Wrap(x) - x \in Rounds
  <1> DEFINE q == x \div Width
             r == x % Width
  <1>1. r \in 0 .. Width - 1 /\ q \in Int /\ x = Width * q + r /\ Width \in Int
    BY HouseAmounts, Division
  <1> HIDE DEF q, r
  <1>2. Width * q \in Int /\ Width * (-q) = -(Width * q) /\ -q \in Int /\ r \in Int
    BY <1>1
  <1>3. x - r = Width * q /\ r - x = Width * (-q)
    BY <1>1, <1>2
  <1>4. x - r \in Rounds /\ r - x \in Rounds
    BY <1>1, <1>2, <1>3 DEF Rounds
  <1> QED BY <1>2, <1>4 DEF Wrap, r

(* Numbers that differ by whole turns are the same in the field.           *)
LEMMA SameWrapped ==
    ASSUME NEW x \in Int, NEW y \in Int, x - y \in Rounds PROVE x % Width = Wrap(y)
  <1>1. Width \in Nat \ {0}
    BY HouseAmounts
  <1>2. PICK m \in Int : x - y = Width * m
    BY DEF Rounds
  <1> DEFINE q == x \div Width
             r == x % Width
             u == y \div Width
             v == y % Width
  <1>3. /\ r \in 0 .. Width - 1 /\ q \in Int /\ x = Width * q + r
        /\ v \in 0 .. Width - 1 /\ u \in Int /\ y = Width * u + v
    BY <1>1, Division
  <1> HIDE DEF q, r, u, v
  <1>4. Width * (u + m) = Width * u + Width * m /\ u + m \in Int
    BY <1>1, <1>3
  <1>5. Width * q + r = Width * (u + m) + v
    <2>1. Width * u \in Int /\ Width * m \in Int /\ Width * q \in Int /\ r \in Int /\ v \in Int
      BY <1>1, <1>3
    <2> QED BY <1>2, <1>3, <1>4, <2>1
  <1>6. r = v
    BY <1>1, <1>3, <1>4, <1>5, ModUnique
  <1> QED BY <1>6 DEF r, v, Wrap

(* A step keeps the pool split when what it adds to the holdings is, up to *)
(* whole turns, what it adds to the balances and the slack.                *)
Drift(s) == (holdings'[s] - holdings[s]) - ((Backing(s)' - Backing(s)) + (slack'[s] - slack[s]))

LEMMA PoolKept ==
    ASSUME PoolInv,
           \A s \in Symbols :
              /\ holdings[s] \in Int /\ slack[s] \in Int /\ Backing(s) \in Int
              /\ holdings'[s] \in Int /\ slack'[s] \in Int /\ Backing(s)' \in Int
              /\ Drift(s) \in Rounds
    PROVE  PoolInv'
  <1> SUFFICES ASSUME NEW s \in Symbols
               PROVE  holdings'[s] - (Backing(s)' + slack'[s]) \in Rounds
    BY Zenon DEF PoolInv, Rounds
  <1> DEFINE before == holdings[s] - (Backing(s) + slack[s])
             after == holdings'[s] - (Backing(s)' + slack'[s])
  <1>1. before \in Rounds /\ Drift(s) \in Rounds
    BY DEF PoolInv
  <1>2. before + Drift(s) = after
    BY DEF Drift
  <1> QED BY <1>1, <1>2, RoundsAdd

LEMMA PoolTypes ==
    ASSUME TypeOK, TablesFinite, NEW s \in Symbols
    PROVE  holdings[s] \in Int /\ slack[s] \in Int /\ Backing(s) \in Int
  BY SumsAreInts, HouseAmounts DEF TypeOK

(* Balance and holdings move together.                                     *)
LEMMA PoolMoves ==
    ASSUME TypeOK, TablesFinite, PoolInv, NEW k, NEW t \in Symbols, k[2] = t, k \in DOMAIN tokens,
           NEW in \in Int, NEW d \in Int, Recorded(k, in, Wrap(tokens[k].balance + d)),
           UNCHANGED slack, holdings' = [holdings EXCEPT ![t] = holdings[t] + d]
    PROVE  PoolInv'
  <1>1. tokens[k].balance \in Int /\ tokens[k].balance + d \in Int /\ OldToken(k) = tokens[k]
    BY OldTokenIsRow, HouseAmounts
  <1> DEFINE x == tokens[k].balance
             w == Wrap(x + d)
  <1>2. w \in Int /\ (x + d) - w \in Rounds
    BY <1>1, WrapRounds
  <1>3. \A s : Backing(s)' = IF s = t THEN Backing(s) - x + w ELSE Backing(s)
    BY <1>1, <1>2, SumsAfterRecord
  <1> HIDE DEF x, w
  <1>4. x \in Int
    BY <1>1 DEF x
  <1>5. \A s \in Symbols : holdings'[s] = IF s = t THEN holdings[s] + d ELSE holdings[s]
    BY DEF TypeOK
  <1>6. ASSUME NEW s \in Symbols
        PROVE  /\ holdings[s] \in Int /\ slack[s] \in Int /\ Backing(s) \in Int
               /\ holdings'[s] \in Int /\ slack'[s] \in Int /\ Backing(s)' \in Int
               /\ Drift(s) \in Rounds
    <2>1. holdings[s] \in Int /\ slack[s] \in Int /\ Backing(s) \in Int
      BY PoolTypes
    <2>2. CASE s = t
      <3>1. holdings'[s] = holdings[s] + d /\ Backing(s)' = Backing(s) - x + w /\ slack'[s] = slack[s]
        BY <1>3, <1>5, <2>2
      <3>2. d \in Int
        OBVIOUS
      <3>3. Drift(s) = (x + d) - w
        BY ONLY <1>2, <1>4, <2>1, <3>1, <3>2 DEF Drift
      <3> QED BY <1>2, <1>4, <2>1, <3>1, <3>3
    <2>3. CASE s # t
      <3>1. holdings'[s] = holdings[s] /\ Backing(s)' = Backing(s) /\ slack'[s] = slack[s]
        BY <1>3, <1>5, <2>3
      <3>2. Drift(s) = 0
        BY <2>1, <3>1 DEF Drift
      <3> QED BY <2>1, <3>1, <3>2, RoundsAdd
    <2> QED BY <2>2, <2>3
  <1> QED BY <1>6, PoolKept

(* What is held for no row moves the slack.                                *)
LEMMA SlackMoves ==
    ASSUME TypeOK, TablesFinite, PoolInv, NEW t \in Symbols, NEW d \in Int, UNCHANGED tokens,
           slack' = [slack EXCEPT ![t] = Wrap(slack[t] + d)],
           holdings' = [holdings EXCEPT ![t] = holdings[t] + d]
    PROVE  PoolInv'
  <1> DEFINE x == slack[t]
             w == Wrap(x + d)
  <1>1. x \in Int /\ x + d \in Int
    BY PoolTypes
  <1>2. w \in Int /\ (x + d) - w \in Rounds
    BY <1>1, WrapRounds
  <1>3. /\ \A s \in Symbols : slack'[s] = IF s = t THEN w ELSE slack[s]
        /\ \A s \in Symbols : holdings'[s] = IF s = t THEN holdings[s] + d ELSE holdings[s]
    BY DEF TypeOK
  <1>4. \A s : Backing(s)' = Backing(s)
    BY SumsStay
  <1> HIDE DEF w
  <1>5. ASSUME NEW s \in Symbols
        PROVE  /\ holdings[s] \in Int /\ slack[s] \in Int /\ Backing(s) \in Int
               /\ holdings'[s] \in Int /\ slack'[s] \in Int /\ Backing(s)' \in Int
               /\ Drift(s) \in Rounds
    <2>1. holdings[s] \in Int /\ slack[s] \in Int /\ Backing(s) \in Int
      BY PoolTypes
    <2>2. CASE s = t
      <3>1. holdings'[s] = holdings[s] + d /\ Backing(s)' = Backing(s) /\ slack'[s] = w /\ slack[s] = x
        BY <1>3, <1>4, <2>2
      <3>2. d \in Int
        OBVIOUS
      <3>3. Drift(s) = (x + d) - w
        BY ONLY <1>1, <1>2, <2>1, <3>1, <3>2 DEF Drift
      <3> QED BY <1>2, <2>1, <3>1, <3>3
    <2>3. CASE s # t
      <3>1. holdings'[s] = holdings[s] /\ Backing(s)' = Backing(s) /\ slack'[s] = slack[s]
        BY <1>3, <1>4, <2>3
      <3>2. Drift(s) = 0
        BY <2>1, <3>1 DEF Drift
      <3> QED BY <2>1, <3>1, <3>2, RoundsAdd
    <2> QED BY <2>2, <2>3
  <1> QED BY <1>5, PoolKept

(* What the operator writes over a balance moves the slack the other way.  *)
LEMMA UpdateKeepsPool ==
    ASSUME TypeOK, TablesFinite, PoolInv, NEW g \in Games, NEW t \in Symbols, NEW min \in Mins,
           NEW max \in Maxes, NEW balance \in Balances, UpdateToken(g, t, min, max, balance)
    PROVE  PoolInv'
  <1> DEFINE k == <<g, t>>
             b == OldToken(k).balance
             x == slack[t]
             w == Wrap(x + b - balance)
  <1>1. /\ Recorded(k, OldToken(k).in, balance) /\ balance \in 0 .. Width - 1
        /\ slack' = [slack EXCEPT ![t] = w]
    BY UpdateRecords
  <1>2. x \in Int /\ b \in Int /\ balance \in Int /\ OldToken(k).in \in Int /\ x + b - balance \in Int
    BY <1>1, PoolTypes, OldTokenIsRow, HouseAmounts
  <1>3. w \in Int /\ (x + b - balance) - w \in Rounds
    BY <1>2, WrapRounds
  <1>4. \A s : Backing(s)' = IF s = t THEN Backing(s) - b + balance ELSE Backing(s)
    BY <1>1, <1>2, SumsAfterRecord
  <1>5. holdings' = holdings
    BY Zenon DEF UpdateToken
  <1>6. \A s \in Symbols : slack'[s] = IF s = t THEN w ELSE slack[s]
    BY <1>1 DEF TypeOK
  <1> HIDE DEF w, b
  <1>7. ASSUME NEW s \in Symbols
        PROVE  /\ holdings[s] \in Int /\ slack[s] \in Int /\ Backing(s) \in Int
               /\ holdings'[s] \in Int /\ slack'[s] \in Int /\ Backing(s)' \in Int
               /\ Drift(s) \in Rounds
    <2>1. holdings[s] \in Int /\ slack[s] \in Int /\ Backing(s) \in Int
      BY PoolTypes
    <2>2. CASE s = t
      <3>1. holdings'[s] = holdings[s] /\ Backing(s)' = Backing(s) - b + balance /\ slack'[s] = w
            /\ slack[s] = x
        BY <1>4, <1>5, <1>6, <2>2
      <3>2. Drift(s) = (x + b - balance) - w
        BY <1>2, <1>3, <2>1, <3>1 DEF Drift
      <3> QED BY <1>2, <1>3, <2>1, <3>1, <3>2
    <2>3. CASE s # t
      <3>1. holdings'[s] = holdings[s] /\ Backing(s)' = Backing(s) /\ slack'[s] = slack[s]
        BY <1>4, <1>5, <1>6, <2>3
      <3>2. Drift(s) = 0
        BY <2>1, <3>1 DEF Drift
      <3> QED BY <2>1, <3>1, <3>2, RoundsAdd
    <2> QED BY <2>2, <2>3
  <1> QED BY <1>7, PoolKept

LEMMA ClearKeepsPool ==
    ASSUME TypeOK, TablesFinite, PoolInv, NEW g \in Games, ClearToken(g) PROVE PoolInv'
  <1> DEFINE gone == {k \in DOMAIN tokens : k[1] = g /\ k[2] # EOS}
  <1>1. /\ tokens' = Erase(tokens, gone) /\ holdings' = holdings
        /\ slack' = [s \in Symbols |-> IF <<g, s>> \in gone
                                       THEN Wrap(slack[s] + tokens[<<g, s>>].balance) ELSE slack[s]]
    BY Zenon DEF ClearToken
  <1>2. /\ DOMAIN tokens' = DOMAIN tokens \ gone
        /\ \A k \in DOMAIN tokens \ gone : tokens'[k] = tokens[k]
    BY <1>1 DEF Erase
  <1>3. \A k \in DOMAIN tokens : k \in Games \X Symbols
    BY DEF TypeOK, IsTable
  <1>4. ASSUME NEW s \in Symbols
        PROVE  /\ holdings[s] \in Int /\ slack[s] \in Int /\ Backing(s) \in Int
               /\ holdings'[s] \in Int /\ slack'[s] \in Int /\ Backing(s)' \in Int
               /\ Drift(s) \in Rounds
    <2>1. holdings[s] \in Int /\ slack[s] \in Int /\ Backing(s) \in Int /\ holdings'[s] = holdings[s]
      BY <1>1, PoolTypes
    <2>2. CASE <<g, s>> \in gone
      <3> DEFINE k == <<g, s>>
                 b == tokens[k].balance
                 x == slack[s]
                 w == Wrap(x + b)
      <3>1. b \in Int /\ x + b \in Int
        BY <2>1, <2>2, OldTokenIsRow, HouseAmounts
      <3>2. w \in Int /\ (x + b) - w \in Rounds
        BY <3>1, WrapRounds
      <3>3. BalancesOf(s)' = Erase(BalancesOf(s), {k})
        <4>1. TokensOf(s)' = TokensOf(s) \ {k}
          BY <1>2, <1>3, <2>2 DEF TokensOf
        <4>2. \A j \in TokensOf(s) \ {k} : tokens'[j] = tokens[j]
          BY <1>2, <1>3, <2>2 DEF TokensOf
        <4> QED BY <4>1, <4>2 DEF BalancesOf, Erase
      <3>4. k \in DOMAIN BalancesOf(s) /\ BalancesOf(s)[k] = b
        BY <2>2 DEF BalancesOf, TokensOf
      <3>5. SumFunction(Erase(BalancesOf(s), {k})) = SumFunction(BalancesOf(s)) - BalancesOf(s)[k]
        BY <3>4, SumsAreInts, SumErase
      <3>6. Backing(s)' = Backing(s) - b
        BY <3>3, <3>4, <3>5 DEF Backing
      <3>7. slack'[s] = w
        BY <1>1, <2>2
      <3> HIDE DEF b, w
      <3>8. Drift(s) = (x + b) - w
        BY <2>1, <3>1, <3>2, <3>6, <3>7 DEF Drift
      <3> QED BY <2>1, <3>1, <3>2, <3>6, <3>7, <3>8
    <2>3. CASE <<g, s>> \notin gone
      <3>1. TokensOf(s)' = TokensOf(s) /\ \A j \in TokensOf(s) : tokens'[j] = tokens[j]
        BY <1>2, <1>3, <2>3 DEF TokensOf
      <3>2. BalancesOf(s)' = BalancesOf(s)
        BY <3>1 DEF BalancesOf
      <3>3. Backing(s)' = Backing(s) /\ slack'[s] = slack[s]
        BY <1>1, <2>3, <3>2 DEF Backing
      <3>4. Drift(s) = 0
        BY <2>1, <3>3 DEF Drift
      <3> QED BY <2>1, <3>3, <3>4, RoundsAdd
    <2> QED BY <2>2, <2>3
  <1> QED BY <1>4, PoolKept

LEMMA PoolStays ==
    ASSUME PoolInv, UNCHANGED <<tokens, holdings, slack>> PROVE PoolInv'
  <1>1. \A s : Backing(s)' = Backing(s)
    BY SumsStay
  <1> QED BY <1>1 DEF PoolInv, Rounds

LEMMA NextPool == TypeOK /\ TablesFinite /\ PoolInv /\ [Next]_vars => PoolInv'
  <1> SUFFICES ASSUME TypeOK, TablesFinite, PoolInv, [Next]_vars PROVE PoolInv'
    OBVIOUS
  <1>1. ASSUME NEW g \in Games, NEW id \in GameIds, AddGame(g, id) PROVE PoolInv'
    <2>1. UNCHANGED <<holdings, slack>>
      BY <1>1, Zenon DEF AddGame
    <2>2. CASE UNCHANGED tokens
      BY <2>1, <2>2, PoolStays
    <2>3. CASE ~ UNCHANGED tokens
      <3>1. <<g, EOS>> \notin DOMAIN tokens /\ Recorded(<<g, EOS>>, 0, 0)
        BY <1>1, <2>3, AddGameRecords
      <3>2. OldToken(<<g, EOS>>).balance = 0
        BY <3>1, OldTokenIsRow
      <3> DEFINE k == <<g, EOS>>
      <3> HIDE DEF k
      <3>3. \A s : Backing(s)' = IF s = k[2] THEN Backing(s) - OldToken(k).balance + 0 ELSE Backing(s)
        BY <3>1, SumsAfterRecord DEF k
      <3>4. \A s \in Symbols : Backing(s)' = Backing(s)
        BY <3>2, <3>3, PoolTypes DEF k
      <3> QED BY <2>1, <3>4 DEF PoolInv, Rounds
    <2> QED BY <2>2, <2>3
  <1>2. ASSUME NEW g \in Games, NEW p \in Players, NEW s \in Symbols, NEW amount \in Stakes,
               Stake(g, p, s, amount)
        PROVE  PoolInv'
    <2>1. amount \in Nat
      BY HouseAmounts
    <2>2. UNCHANGED slack /\ holdings' = [holdings EXCEPT ![s] = holdings[s] + amount]
      BY <1>2, Zenon DEF Stake
    <2>3. /\ <<g, s>> \in DOMAIN tokens /\ tokens[<<g, s>>].in + amount \in Int
          /\ Recorded(<<g, s>>, tokens[<<g, s>>].in + amount, Wrap(tokens[<<g, s>>].balance + amount))
      BY <1>2, <2>1, StakeRecords, OldTokenIsRow
    <2>4. <<g, s>>[2] = s /\ amount \in Int
      BY <2>1
    <2> QED BY <2>2, <2>3, <2>4, PoolMoves
  <1>3. ASSUME NEW g \in Games, NEW s \in Symbols, NEW amount \in Deposits, Deposit(g, s, amount)
        PROVE  PoolInv'
    <2>1. amount \in Nat
      BY HouseAmounts
    <2>2. CASE <<g, s>> \in DOMAIN tokens
      <3>1. UNCHANGED slack /\ holdings' = [holdings EXCEPT ![s] = holdings[s] + amount]
        BY <1>3, <2>2, Zenon DEF Deposit
      <3>2. /\ tokens[<<g, s>>].in \in Int
            /\ Recorded(<<g, s>>, tokens[<<g, s>>].in, Wrap(tokens[<<g, s>>].balance + amount))
        BY <1>3, <2>1, <2>2, DepositRecords, OldTokenIsRow
      <3>3. <<g, s>>[2] = s /\ amount \in Int
        BY <2>1
      <3> QED BY <2>2, <3>1, <3>2, <3>3, PoolMoves
    <2>3. CASE <<g, s>> \notin DOMAIN tokens
      <3>1. /\ UNCHANGED tokens /\ holdings' = [holdings EXCEPT ![s] = holdings[s] + amount]
            /\ slack' = [slack EXCEPT ![s] = Wrap(slack[s] + amount)]
        BY <1>3, <2>3, Zenon DEF Deposit
      <3>2. amount \in Int
        BY <2>1
      <3> QED BY <3>1, <3>2, SlackMoves
    <2> QED BY <2>2, <2>3
  <1>4. ASSUME NEW g \in Games, NEW to \in Players, NEW s \in Symbols, NEW bet \in Bets,
               NEW payout \in Payouts, NEW referer \in Referers, PayNow(g, to, s, bet, payout, referer)
        PROVE  PoolInv'
    <2>1. bet \in Nat /\ payout \in Nat
      BY HouseAmounts
    <2>2. PICK spent \in Nat :
             /\ <<g, s>> \in DOMAIN tokens
             /\ Recorded(<<g, s>>, tokens[<<g, s>>].in, Wrap(tokens[<<g, s>>].balance - spent))
             /\ holdings' = [holdings EXCEPT ![s] = holdings[s] - spent]
      BY <1>4, <2>1, PayNowRecords
    <2>3. UNCHANGED slack
      BY <1>4, Zenon DEF PayNow
    <2>4. /\ tokens[<<g, s>>].in \in Int /\ -spent \in Int /\ holdings[s] - spent = holdings[s] + (-spent)
          /\ tokens[<<g, s>>].balance - spent = tokens[<<g, s>>].balance + (-spent)
      BY <2>2, OldTokenIsRow, PoolTypes, HouseAmounts
    <2> QED BY <2>2, <2>3, <2>4, PoolMoves
  <1>5. ASSUME NEW id \in DOMAIN unpaid, SettleUnpaid(id) PROVE PoolInv'
    <2> DEFINE t == unpaid[id].sym
               k == <<unpaid[id].game, t>>
               payout == unpaid[id].payout
    <2>1. /\ k \in DOMAIN tokens /\ k \in Games \X Symbols /\ payout \in Nat
          /\ Recorded(k, tokens[k].in, Wrap(tokens[k].balance - payout))
          /\ holdings' = [holdings EXCEPT ![t] = holdings[t] - payout]
      BY <1>5, SettleRecords
    <2>2. t \in Symbols /\ k[2] = t
      BY <2>1
    <2>3. UNCHANGED slack
      BY <1>5, Zenon DEF SettleUnpaid
    <2> HIDE DEF t, k, payout
    <2>4. /\ tokens[k].in \in Int /\ -payout \in Int /\ holdings[t] - payout = holdings[t] + (-payout)
          /\ tokens[k].balance - payout = tokens[k].balance + (-payout)
      BY <2>1, <2>2, OldTokenIsRow, PoolTypes, HouseAmounts
    <2> QED BY <2>1, <2>2, <2>3, <2>4, PoolMoves
  <1>6. ASSUME NEW p \in Players, NEW chest \in ChestTypes, NEW roll \in Rolls, OpenChest(p, chest, roll)
        PROVE  PoolInv'
    <2> DEFINE reward == ChestReward(chest, roll)
    <2>1. chest \in 0 .. 4 /\ roll \in Nat
      BY <1>6, HouseAmounts DEF OpenChest, ChestOpenEnd
    <2>2. reward \in Nat
      BY <2>1, ChestRewardIsNat
    <2>3. /\ UNCHANGED tokens /\ holdings' = [holdings EXCEPT ![EOS] = holdings[EOS] - reward]
          /\ slack' = [slack EXCEPT ![EOS] = Wrap(slack[EOS] - reward)]
      BY <1>6, Zenon DEF OpenChest
    <2> HIDE DEF reward
    <2>4. /\ -reward \in Int /\ EOS \in Symbols /\ holdings[EOS] - reward = holdings[EOS] + (-reward)
          /\ slack[EOS] - reward = slack[EOS] + (-reward)
      BY <2>2, HouseSymbols, PoolTypes
    <2> QED BY <2>3, <2>4, SlackMoves
  <1>7. ASSUME NEW g \in Games, NEW id, UpdateGame(g, id) \/ SetActive(g, id) PROVE PoolInv'
    BY <1>7, PoolStays DEF UpdateGame, SetActive
  <1>8. ASSUME NEW key, RunInit \/ SetRandKey(key) \/ Tick PROVE PoolInv'
    BY <1>8, PoolStays DEF RunInit, SetRandKey, Tick, stores
  <1>9. ASSUME NEW g, NEW to, NEW s, NEW bet, NEW payout, NEW referer,
               PayLater(g, to, s, bet, payout, referer)
        PROVE  PoolInv'
    BY <1>9, PoolStays DEF PayLater
  <1>10. ASSUME NEW id, DropUnpaid(id) PROVE PoolInv'
    BY <1>10, PoolStays DEF DropUnpaid
  <1>11. ASSUME NEW p, NEW referer, NEW type, SetReferer(p, referer) \/ ClaimReward(p, type) PROVE PoolInv'
    BY <1>11, PoolStays DEF SetReferer, ClaimReward
  <1>12. CASE UNCHANGED vars
    BY <1>12, PoolStays DEF vars, stores
  <1> QED BY <1>1, <1>2, <1>3, <1>4, <1>5, <1>6, <1>7, <1>8, <1>9, <1>10, <1>11, <1>12,
             UpdateKeepsPool, ClearKeepsPool, Zenon DEF Next

LEMMA InitTablesFinite == Init => TablesFinite
  BY FS_EmptySet DEF Init, TablesFinite, EmptyTable

LEMMA TablesAlwaysFinite == Spec => []TablesFinite
  BY InitTablesFinite, NextTablesFinite, TypeCorrect, PTL DEF Spec

(* What the house holds is split among the games' balances and the slack,  *)
(* and the EOS that came in for the games is the EOS the players staked,   *)
(* for any number of games, symbols and players, in every order of stakes, *)
(* deposits, payments, settlements, chests and operator's writes.          *)
THEOREM BooksAlwaysAgree == Spec => []BooksAgree
  <1>1. Init => PoolInv /\ SameIncome
    <2> SUFFICES ASSUME Init PROVE PoolInv /\ SameIncome
      OBVIOUS
    <2>1. DOMAIN TokenIncomes = {} /\ DOMAIN PlayerIncomes = {} /\ \A s : DOMAIN BalancesOf(s) = {}
      BY DEF Init, EmptyTable, TokenIncomes, PlayerIncomes, BalancesOf, TokensOf
    <2>2. SumFunction(TokenIncomes) = 0 /\ SumFunction(PlayerIncomes) = 0 /\ \A s : Backing(s) = 0
      BY <2>1, SumOfEmpty DEF Backing
    <2>3. \A s \in Symbols : holdings[s] = 0 /\ slack[s] = 0
      BY DEF Init
    <2>4. PoolInv
      BY <2>2, <2>3, RoundsAdd DEF PoolInv
    <2> QED BY <2>2, <2>4 DEF SameIncome
  <1>2. TypeOK /\ TablesFinite /\ PoolInv /\ SameIncome => BooksAgree
    <2> SUFFICES ASSUME TypeOK, TablesFinite, PoolInv, SameIncome PROVE BooksAgree
      OBVIOUS
    <2>1. ASSUME NEW s \in Symbols PROVE holdings[s] % Width = Wrap(Backing(s) + slack[s])
      <3>1. holdings[s] \in Int /\ Backing(s) + slack[s] \in Int
        BY PoolTypes
      <3>2. holdings[s] - (Backing(s) + slack[s]) \in Rounds
        BY DEF PoolInv
      <3> QED BY <3>1, <3>2, SameWrapped
    <2> QED BY <2>1 DEF BooksAgree, PoolSplit, Backing
  <1> QED BY <1>1, <1>2, NextPool, NextSameIncome, TablesAlwaysFinite, TypeCorrect, PTL DEF Spec

-----------------------------------------------------------------------------
(* What is still queued for a player.                                      *)
QueuedSum(p, s) == SumFunction(PayoutsOf(p, s))

LEMMA QueuedIsInt ==
    ASSUME TypeOK, TablesFinite, NEW p, NEW s
    PROVE  /\ IsFiniteSet(DOMAIN PayoutsOf(p, s)) /\ QueuedSum(p, s) \in Int
           /\ \A id \in DOMAIN PayoutsOf(p, s) : PayoutsOf(p, s)[id] \in Int
  <1>1. DOMAIN PayoutsOf(p, s) \subseteq DOMAIN unpaid
    BY DEF PayoutsOf, QueuedFor
  <1>2. IsFiniteSet(DOMAIN PayoutsOf(p, s))
    BY <1>1, FS_Subset DEF TablesFinite
  <1>3. \A id \in DOMAIN PayoutsOf(p, s) : PayoutsOf(p, s)[id] \in Int
    BY DEF TypeOK, IsTable, DelayedPayment, PayoutsOf, QueuedFor
  <1> QED BY <1>2, <1>3, SumOfTable DEF QueuedSum

(* The queues after a payment is delayed, and after one leaves.            *)
LEMMA QueueAfterPut ==
    ASSUME TypeOK, TablesFinite, NEW id, id \notin DOMAIN unpaid, NEW row, row.payout \in Int,
           unpaid' = Put(unpaid, id, row)
    PROVE  \A p, s : QueuedSum(p, s)'
                       = IF row.player = p /\ row.sym = s THEN QueuedSum(p, s) + row.payout
                         ELSE QueuedSum(p, s)
  <1> SUFFICES ASSUME NEW p, NEW s
               PROVE  QueuedSum(p, s)' = IF row.player = p /\ row.sym = s THEN QueuedSum(p, s) + row.payout
                                         ELSE QueuedSum(p, s)
    OBVIOUS
  <1>1. /\ DOMAIN unpaid' = DOMAIN unpaid \cup {id} /\ unpaid'[id] = row
        /\ \A u \in DOMAIN unpaid : unpaid'[u] = unpaid[u]
    BY DEF Put
  <1>2. CASE row.player = p /\ row.sym = s
    <2>1. QueuedFor(p, s)' = QueuedFor(p, s) \cup {id}
      BY <1>1, <1>2 DEF QueuedFor
    <2>2. \A u \in QueuedFor(p, s) \cup {id} :
             unpaid'[u].payout = IF u = id THEN row.payout ELSE unpaid[u].payout
      BY <1>1 DEF QueuedFor
    <2>3. PayoutsOf(p, s)' = Put(PayoutsOf(p, s), id, row.payout)
      BY <2>1, <2>2 DEF PayoutsOf, Put
    <2>4. id \notin DOMAIN PayoutsOf(p, s)
      BY DEF PayoutsOf, QueuedFor
    <2>5. SumFunction(Put(PayoutsOf(p, s), id, row.payout))
            = SumFunction(PayoutsOf(p, s))
                - (IF id \in DOMAIN PayoutsOf(p, s) THEN PayoutsOf(p, s)[id] ELSE 0) + row.payout
      BY QueuedIsInt, SumPut
    <2>6. QueuedSum(p, s)' = QueuedSum(p, s) - 0 + row.payout
      BY <2>3, <2>4, <2>5 DEF QueuedSum
    <2> QED BY <1>2, <2>6, QueuedIsInt
  <1>3. CASE ~ (row.player = p /\ row.sym = s)
    <2>1. QueuedFor(p, s)' = QueuedFor(p, s) /\ \A u \in QueuedFor(p, s) : unpaid'[u] = unpaid[u]
      BY <1>1, <1>3 DEF QueuedFor
    <2>2. PayoutsOf(p, s)' = PayoutsOf(p, s)
      BY <2>1 DEF PayoutsOf
    <2> QED BY <1>3, <2>2 DEF QueuedSum
  <1> QED BY <1>2, <1>3

LEMMA QueueAfterErase ==
    ASSUME TypeOK, TablesFinite, NEW id \in DOMAIN unpaid, unpaid' = Erase(unpaid, {id})
    PROVE  \A p, s : QueuedSum(p, s)'
                       = IF unpaid[id].player = p /\ unpaid[id].sym = s
                         THEN QueuedSum(p, s) - unpaid[id].payout ELSE QueuedSum(p, s)
  <1> SUFFICES ASSUME NEW p, NEW s
               PROVE  QueuedSum(p, s)' = IF unpaid[id].player = p /\ unpaid[id].sym = s
                                         THEN QueuedSum(p, s) - unpaid[id].payout ELSE QueuedSum(p, s)
    OBVIOUS
  <1>1. DOMAIN unpaid' = DOMAIN unpaid \ {id} /\ \A u \in DOMAIN unpaid \ {id} : unpaid'[u] = unpaid[u]
    BY DEF Erase
  <1>2. CASE unpaid[id].player = p /\ unpaid[id].sym = s
    <2>1. QueuedFor(p, s)' = QueuedFor(p, s) \ {id}
      BY <1>1, <1>2 DEF QueuedFor
    <2>2. \A u \in QueuedFor(p, s) \ {id} : unpaid'[u].payout = unpaid[u].payout
      BY <1>1 DEF QueuedFor
    <2>3. PayoutsOf(p, s)' = Erase(PayoutsOf(p, s), {id})
      BY <2>1, <2>2 DEF PayoutsOf, Erase
    <2>4. id \in DOMAIN PayoutsOf(p, s) /\ PayoutsOf(p, s)[id] = unpaid[id].payout
      BY <1>2 DEF PayoutsOf, QueuedFor
    <2>5. SumFunction(Erase(PayoutsOf(p, s), {id})) = SumFunction(PayoutsOf(p, s)) - PayoutsOf(p, s)[id]
      BY <2>4, QueuedIsInt, SumErase
    <2> QED BY <1>2, <2>3, <2>4, <2>5 DEF QueuedSum
  <1>3. CASE ~ (unpaid[id].player = p /\ unpaid[id].sym = s)
    <2>1. QueuedFor(p, s)' = QueuedFor(p, s) /\ \A u \in QueuedFor(p, s) : unpaid'[u] = unpaid[u]
      BY <1>1, <1>3 DEF QueuedFor
    <2>2. PayoutsOf(p, s)' = PayoutsOf(p, s)
      BY <2>1 DEF PayoutsOf
    <2> QED BY <1>3, <2>2 DEF QueuedSum
  <1> QED BY <1>2, <1>3

LEMMA QueueStays == ASSUME UNCHANGED unpaid PROVE \A p, s : QueuedSum(p, s)' = QueuedSum(p, s)
  <1>1. \A p, s : PayoutsOf(p, s)' = PayoutsOf(p, s)
    BY DEF PayoutsOf, QueuedFor
  <1> QED BY <1>1 DEF QueuedSum

(* One entry of a two-level counter grows.                                 *)
LEMMA Grown ==
    ASSUME NEW f \in [Players -> [Symbols -> Int]], NEW p \in Players, NEW s \in Symbols, NEW n
    PROVE  \A q \in Players, t \in Symbols :
              [f EXCEPT ![p][s] = n][q][t] = IF q = p /\ t = s THEN n ELSE f[q][t]
  OBVIOUS

LEMMA CountersAreInts ==
    ASSUME TypeOK
    PROVE  /\ due \in [Players -> [Symbols -> Int]] /\ sent \in [Players -> [Symbols -> Int]]
           /\ \A p \in Players, s \in Symbols : due[p][s] \in Int /\ sent[p][s] \in Int
  BY DEF TypeOK

(* What is undertaken and sent at once changes neither side.               *)
LEMMA BothGrow ==
    ASSUME TypeOK, TablesFinite, ObligationsMet, NEW p \in Players, NEW s \in Symbols, NEW n \in Int,
           UNCHANGED unpaid, due' = [due EXCEPT ![p][s] = due[p][s] + n],
           sent' = [sent EXCEPT ![p][s] = sent[p][s] + n]
    PROVE  ObligationsMet'
  <1> SUFFICES ASSUME NEW q \in Players, NEW t \in Symbols
               PROVE  due'[q][t] = sent'[q][t] + QueuedSum(q, t)'
    BY DEF ObligationsMet, QueuedSum
  <1>1. /\ due'[q][t] = IF q = p /\ t = s THEN due[p][s] + n ELSE due[q][t]
        /\ sent'[q][t] = IF q = p /\ t = s THEN sent[p][s] + n ELSE sent[q][t]
    BY CountersAreInts, Grown
  <1>2. due[q][t] = sent[q][t] + QueuedSum(q, t) /\ QueuedSum(q, t)' = QueuedSum(q, t)
    BY QueueStays DEF ObligationsMet, QueuedSum
  <1>3. sent[q][t] \in Int /\ due[q][t] \in Int /\ QueuedSum(q, t) \in Int /\ n \in Int
    BY CountersAreInts, QueuedIsInt
  <1> QED BY ONLY <1>1, <1>2, <1>3

LEMMA PayLaterMeets ==
    ASSUME TypeOK, TablesFinite, ObligationsMet, NEW g, NEW to \in Players, NEW s \in Symbols, NEW bet,
           NEW payout \in Nat, NEW referer, PayLater(g, to, s, bet, payout, referer)
    PROVE  ObligationsMet'
  <1> SUFFICES ASSUME NEW q \in Players, NEW t \in Symbols
               PROVE  due'[q][t] = sent'[q][t] + QueuedSum(q, t)'
    BY DEF ObligationsMet, QueuedSum
  <1> DEFINE row == [game |-> g, player |-> to, sym |-> s, bet |-> bet, payout |-> payout,
                     referer |-> referer]
  <1>1. /\ due' = [due EXCEPT ![to][s] = due[to][s] + payout] /\ sent' = sent
        /\ \E id \in 0 .. MaxUnpaid - 1 : IsNextId(id) /\ unpaid' = Put(unpaid, id, row)
    BY Zenon DEF PayLater
  <1>2. row.player = to /\ row.sym = s /\ row.payout = payout
    OBVIOUS
  <1> HIDE DEF row
  <1>3. PICK id \in 0 .. MaxUnpaid - 1 : IsNextId(id) /\ unpaid' = Put(unpaid, id, row)
    BY <1>1
  <1>4. id \notin DOMAIN unpaid
    BY <1>3, HouseAmounts DEF IsNextId, TypeOK, IsTable
  <1>5. payout \in Int
    OBVIOUS
  <1>6. QueuedSum(q, t)' = IF row.player = q /\ row.sym = t THEN QueuedSum(q, t) + row.payout
                           ELSE QueuedSum(q, t)
    BY <1>2, <1>3, <1>4, <1>5, QueueAfterPut
  <1>7. due'[q][t] = (IF q = to /\ t = s THEN due[to][s] + payout ELSE due[q][t]) /\ sent'[q][t] = sent[q][t]
    BY <1>1, CountersAreInts, Grown
  <1>8. due[q][t] = sent[q][t] + QueuedSum(q, t)
    BY DEF ObligationsMet, QueuedSum
  <1>9. sent[q][t] \in Int /\ due[q][t] \in Int /\ QueuedSum(q, t) \in Int
    BY CountersAreInts, QueuedIsInt
  <1> QED BY ONLY <1>2, <1>5, <1>6, <1>7, <1>8, <1>9

LEMMA LeavingMeets ==
    ASSUME TypeOK, TablesFinite, ObligationsMet, NEW id \in DOMAIN unpaid,
           SettleUnpaid(id) \/ DropUnpaid(id)
    PROVE  ObligationsMet'
  <1> SUFFICES ASSUME NEW q \in Players, NEW t \in Symbols
               PROVE  due'[q][t] = sent'[q][t] + QueuedSum(q, t)'
    BY DEF ObligationsMet, QueuedSum
  <1> DEFINE p == unpaid[id].player
             s == unpaid[id].sym
             n == unpaid[id].payout
  <1>1. p \in Players /\ s \in Symbols /\ n \in Int
    BY DEF TypeOK, IsTable, DelayedPayment
  <1>2. /\ unpaid' = Erase(unpaid, {id})
        /\ \/ due' = due /\ sent' = [sent EXCEPT ![p][s] = sent[p][s] + n]
           \/ sent' = sent /\ due' = [due EXCEPT ![p][s] = due[p][s] - n]
    BY Zenon DEF SettleUnpaid, DropUnpaid
  <1>3. QueuedSum(q, t)' = IF p = q /\ s = t THEN QueuedSum(q, t) - n ELSE QueuedSum(q, t)
    BY <1>2, QueueAfterErase
  <1> HIDE DEF p, s, n
  <1>4. \/ due'[q][t] = due[q][t] /\ sent'[q][t] = IF q = p /\ t = s THEN sent[p][s] + n ELSE sent[q][t]
        \/ sent'[q][t] = sent[q][t] /\ due'[q][t] = IF q = p /\ t = s THEN due[p][s] - n ELSE due[q][t]
    BY <1>1, <1>2, CountersAreInts, Grown
  <1>5. due[q][t] = sent[q][t] + QueuedSum(q, t)
    BY DEF ObligationsMet, QueuedSum
  <1>6. sent[q][t] \in Int /\ due[q][t] \in Int /\ QueuedSum(q, t) \in Int
    BY CountersAreInts, QueuedIsInt
  <1> QED BY ONLY <1>1, <1>3, <1>4, <1>5, <1>6

LEMMA NextMeets == TypeOK /\ TablesFinite /\ ObligationsMet /\ [Next]_vars => ObligationsMet'
  <1> SUFFICES ASSUME TypeOK, TablesFinite, ObligationsMet, [Next]_vars PROVE ObligationsMet'
    OBVIOUS
  <1>1. ASSUME UNCHANGED <<unpaid, due, sent>> PROVE ObligationsMet'
    BY <1>1, QueueStays DEF ObligationsMet, QueuedSum
  <1>2. ASSUME NEW g \in Games, NEW id, AddGame(g, id) \/ UpdateGame(g, id) \/ SetActive(g, id)
        PROVE  ObligationsMet'
    BY <1>1, <1>2, Zenon DEF AddGame, UpdateGame, SetActive
  <1>3. ASSUME NEW key, RunInit \/ SetRandKey(key) \/ Tick PROVE ObligationsMet'
    BY <1>1, <1>3, Zenon DEF RunInit, SetRandKey, Tick, stores
  <1>4. ASSUME NEW g, NEW s, NEW min, NEW max, NEW balance,
               UpdateToken(g, s, min, max, balance) \/ ClearToken(g) \/ Deposit(g, s, balance)
        PROVE  ObligationsMet'
    BY <1>1, <1>4, Zenon DEF UpdateToken, ClearToken, Deposit
  <1>5. ASSUME NEW g, NEW p, NEW s, NEW amount, Stake(g, p, s, amount) PROVE ObligationsMet'
    BY <1>1, <1>5, Zenon DEF Stake
  <1>6. ASSUME NEW p, NEW referer, NEW type, SetReferer(p, referer) \/ ClaimReward(p, type)
        PROVE  ObligationsMet'
    BY <1>1, <1>6, Zenon DEF SetReferer, ClaimReward
  <1>7. CASE UNCHANGED vars
    BY <1>1, <1>7, Zenon DEF vars, stores
  <1>8. ASSUME NEW g \in Games, NEW to \in Players, NEW s \in Symbols, NEW bet \in Bets,
               NEW payout \in Payouts, NEW referer \in Referers, PayNow(g, to, s, bet, payout, referer)
        PROVE  ObligationsMet'
    <2>1. payout \in Int
      BY HouseAmounts
    <2>2. /\ UNCHANGED unpaid /\ due' = [due EXCEPT ![to][s] = due[to][s] + payout]
          /\ sent' = [sent EXCEPT ![to][s] = sent[to][s] + payout]
      BY <1>8, Zenon DEF PayNow
    <2> QED BY <2>1, <2>2, BothGrow
  <1>9. ASSUME NEW p \in Players, NEW chest \in ChestTypes, NEW roll \in Rolls, OpenChest(p, chest, roll)
        PROVE  ObligationsMet'
    <2> DEFINE reward == ChestReward(chest, roll)
    <2>1. chest \in 0 .. 4 /\ roll \in Nat
      BY <1>9, HouseAmounts DEF OpenChest, ChestOpenEnd
    <2>2. reward \in Int
      BY <2>1, ChestRewardIsNat
    <2>3. /\ UNCHANGED unpaid /\ due' = [due EXCEPT ![p][EOS] = due[p][EOS] + reward]
          /\ sent' = [sent EXCEPT ![p][EOS] = sent[p][EOS] + reward]
      BY <1>9, Zenon DEF OpenChest
    <2> HIDE DEF reward
    <2> QED BY <2>2, <2>3, BothGrow, HouseSymbols
  <1>10. Payouts \subseteq Nat
    BY HouseAmounts
  <1> QED BY <1>2, <1>3, <1>4, <1>5, <1>6, <1>7, <1>8, <1>9, <1>10, PayLaterMeets, LeavingMeets,
             Zenon DEF Next

(* Every payment the house undertook is sent or still queued, once, for    *)
(* any number of games, players and delayed payments.                      *)
THEOREM ObligationsAreMet == Spec => []ObligationsMet
  <1>1. Init => ObligationsMet
    <2> SUFFICES ASSUME Init, NEW p \in Players, NEW s \in Symbols PROVE due[p][s] = sent[p][s] + QueuedSum(p, s)
      BY DEF ObligationsMet, QueuedSum
    <2>1. DOMAIN PayoutsOf(p, s) = {} /\ due[p][s] = 0 /\ sent[p][s] = 0
      BY DEF Init, EmptyTable, PayoutsOf, QueuedFor
    <2> QED BY <2>1, SumOfEmpty DEF QueuedSum
  <1> QED BY <1>1, NextMeets, TablesAlwaysFinite, TypeCorrect, PTL DEF Spec

(***************************************************************************)
(* The composition with dice keeps the ledger.                             *)
(***************************************************************************)
LastBetId == Global(globals, "bet")
InCalls == UNION {calls[p].bets : p \in DOMAIN calls}

(* A player who has something to get has a row in the house.               *)
ActiveSound ==
    /\ DOMAIN active \subseteq 1 .. MaxBets
    /\ \A id \in DOMAIN active :
          /\ active[id].player \in Players /\ active[id].player \in DOMAIN players
          /\ active[id].bet \in Nat /\ active[id].number \in 1 .. 97
CallsSound ==
    /\ DOMAIN calls \subseteq Players /\ DOMAIN calls \subseteq DOMAIN players
    /\ \A p \in DOMAIN calls :
          calls[p].payout \in Nat /\ \E id \in 1 .. MaxBets : calls[p].bets = {id}
    /\ \A p, q \in DOMAIN calls : p # q => calls[p].bets \cap calls[q].bets = {}
TermsSound ==
    \A id \in DOMAIN active \cup InCalls :
        id \in DOMAIN terms /\ terms[id].bet \in Nat /\ terms[id].referer \in Referers
(* Each row of the queue is of one bet.                                    *)
QueueSound ==
    /\ DOMAIN queue = DOMAIN unpaid
    /\ \A u \in DOMAIN queue :
          queue[u] \in 1 .. MaxBets /\ unpaid[u].player \in DOMAIN players /\ unpaid[u].sym = EOS
    /\ \A u, v \in DOMAIN queue : u # v => queue[u] # queue[v]
GhostsSound ==
    /\ paid \in [Players -> SUBSET (1 .. MaxBets)]
    /\ lost \in [Players -> SUBSET (1 .. MaxBets)]
    /\ dropped \subseteq 1 .. MaxBets

(* A bet is in one place only; dice holds queued and dropped ones for paid. *)
Apart ==
    /\ DOMAIN active \cap (InCalls \cup Everyone(paid) \cup Everyone(lost)) = {}
    /\ InCalls \cap (Everyone(paid) \cup Everyone(lost)) = {}
    /\ Everyone(paid) \cap Everyone(lost) = {}
    /\ Queued \subseteq Everyone(paid) /\ dropped \subseteq Everyone(paid)
    /\ Queued \cap dropped = {}

(* The counter has passed every id in use.                                 *)
Numbered ==
    /\ LastBetId \in Nat
    /\ \A id \in DOMAIN active \cup InCalls \cup Everyone(paid) \cup Everyone(lost) : id <= LastBetId

CInv == TypeOK /\ ActiveSound /\ CallsSound /\ TermsSound /\ QueueSound /\ GhostsSound /\ Apart /\ Numbered

KeepsStep == [L!Next]_L!vars /\ CInv'

(* Both contracts are written against the same tables.                     *)
LEMMA SameTables ==
    /\ D!EmptyTable = EmptyTable
    /\ \A t, k, row : D!Put(t, k, row) = Put(t, k, row)
    /\ \A t, S : D!Erase(t, S) = Erase(t, S)
    /\ \A t, k : D!NextGlobal(t, k) = Global(t, k) + 1
  BY DEF D!EmptyTable, EmptyTable, D!Put, Put, D!Erase, Erase, D!NextGlobal, D!Global, Global

LEMMA CasinoInitOK == CasinoInit => L!Init /\ CInv
<1> SUFFICES ASSUME CasinoInit PROVE L!Init /\ CInv
  OBVIOUS
<1>1. Init /\ D!Init /\ terms = EmptyTable /\ queue = EmptyTable /\ dropped = {}
  BY Zenon DEF CasinoInit
<1>2. /\ active = EmptyTable /\ calls = EmptyTable /\ globals = EmptyTable
      /\ paid = [p \in Players |-> {}] /\ lost = [p \in Players |-> {}]
  BY <1>1, SameTables, Zenon DEF D!Init
<1>3. /\ unpaid = EmptyTable /\ players = EmptyTable
      /\ sent = [p \in Players |-> [s \in Symbols |-> 0]]
  BY <1>1, Zenon DEF Init
<1>4. DOMAIN EmptyTable = {}
  BY DEF EmptyTable
<1>5. InCalls = {} /\ Queued = {} /\ Everyone(paid) = {} /\ Everyone(lost) = {}
  BY <1>1, <1>2, <1>4 DEF InCalls, Queued, Everyone
<1>6. Staked = {} /\ Owed = {}
  BY <1>1, <1>2, <1>4 DEF Staked, Owed
<1>7. \A p \in Players : Player(p).in = 0 /\ Player(p).out = 0 /\ sent[p][EOS] = 0
  BY <1>3, <1>4, HouseSymbols DEF Player, NewPlayer
<1>8. L!Init
  BY <1>1, <1>5, <1>6, <1>7 DEF L!Init
<1>9. LastBetId = 0
  BY <1>2, <1>4 DEF LastBetId, Global
<1>10. ActiveSound /\ CallsSound /\ TermsSound /\ QueueSound /\ GhostsSound
  BY <1>1, <1>2, <1>3, <1>4, <1>5
     DEF ActiveSound, CallsSound, TermsSound, QueueSound, GhostsSound
<1>11. Apart /\ Numbered
  BY <1>1, <1>2, <1>4, <1>5, <1>9 DEF Apart, Numbered
<1> QED BY <1>1, <1>8, <1>10, <1>11, InitTypeOK, Zenon DEF CInv

(* A step of the house alone that leaves the books and the queue.          *)
LEMMA BooksUntouched ==
    ASSUME CInv, TypeOK', UNCHANGED <<active, calls, paid, lost, terms, queue, dropped, unpaid, sent>>,
           LastBetId' = LastBetId, DOMAIN players \subseteq DOMAIN players',
           \A p \in Players : Player(p)'.in = Player(p).in /\ Player(p)'.out = Player(p).out
    PROVE  KeepsStep
<1>1. /\ UNCHANGED <<active, calls, paid, lost, terms, queue, dropped, unpaid, sent>>
      /\ InCalls' = InCalls /\ Queued' = Queued
      /\ Everyone(paid)' = Everyone(paid) /\ Everyone(lost)' = Everyone(lost)
  BY DEF InCalls, Queued, Everyone
<1>2. Staked' = Staked /\ Owed' = Owed
  BY <1>1 DEF Staked, Owed, OfCall, OfRow
<1>3. UNCHANGED L!vars
  BY <1>1, <1>2 DEF L!vars
<1>4. ActiveSound' /\ CallsSound' /\ QueueSound'
  BY <1>1 DEF CInv, ActiveSound, CallsSound, QueueSound
<1>5. TermsSound' /\ GhostsSound' /\ Apart' /\ Numbered'
  BY <1>1 DEF CInv, TermsSound, GhostsSound, Apart, Numbered
<1> QED BY <1>3, <1>4, <1>5, Zenon DEF KeepsStep, CInv

(* A row of the house is written: what the others' rows say stays.         *)
LEMMA PutPlayer ==
    ASSUME NEW p \in Players, NEW row, players' = Put(players, p, row)
    PROVE  /\ Player(p)' = row /\ DOMAIN players' = DOMAIN players \cup {p}
           /\ \A q \in Players \ {p} : Player(q)' = Player(q)
<1>1. /\ DOMAIN players' = DOMAIN players \cup {p} /\ players'[p] = row
      /\ \A q \in DOMAIN players \ {p} : players'[q] = players[q]
  BY DEF Put
<1> QED BY <1>1 DEF Player

(* What is owed is owed in a call or in the queue.                         *)
LEMMA InOwed ==
    ASSUME NEW d
    PROVE  d \in Owed <=> \/ \E p \in DOMAIN calls : d \in OfCall(p)
                          \/ \E u \in DOMAIN queue : d = OfRow(u)
<1> DEFINE A == UNION {OfCall(p) : p \in DOMAIN calls}
           B == {OfRow(u) : u \in DOMAIN queue}
<1>1. d \in A <=> \E p \in DOMAIN calls : d \in OfCall(p)
  OBVIOUS
<1>2. d \in B <=> \E u \in DOMAIN queue : d = OfRow(u)
  OBVIOUS
<1>3. Owed = A \cup B
  BY DEF Owed
<1> HIDE DEF A, B
<1> QED BY <1>1, <1>2, <1>3

(* A new bet takes an id nothing has, and its stake is booked.             *)
LEMMA BetOK ==
    ASSUME CInv, NEW p \in Players, NEW amount \in Stakes, NEW number \in Numbers, NEW name \in Told,
           Bet(p, amount, number, name)
    PROVE  KeepsStep
<1> DEFINE new == LastBetId + 1
           row == [bet |-> new, player |-> p, amount |-> amount]
<1>1. amount \in Nat /\ number \in 1 .. 97
  <2>1. number \in Int /\ amount \in Nat
    BY CasinoDice, HouseAmounts DEF D!DiceAssumption
  <2>2. number >= 1 /\ number <= 97
    BY Zenon DEF Bet, D!Transfer
  <2> QED BY <2>1, <2>2
<1>2. /\ new \notin DOMAIN active /\ new <= MaxBets
      /\ globals' = Put(globals, "bet", new)
      /\ active' = Put(active, new, [player |-> p, bet |-> amount, number |-> number])
      /\ terms' = Put(terms, new, [bet |-> amount, referer |-> RefererTold(p, name)])
      /\ UNCHANGED <<calls, paid, lost, queue, dropped>>
  BY SameTables, Zenon DEF Bet, D!Transfer, D!BetId, D!BetOf, LastBetId
<1>3. new \in 1 .. MaxBets /\ new \in Nat
  BY <1>2, CasinoDice DEF CInv, Numbered, D!DiceAssumption
<1>4. PICK written : /\ written = [Player(p) EXCEPT
                            !.in = @ + Booked(EOS, amount), !.last_play_time = now,
                            !.daily_in = DailySoFar(Player(p)) + Booked(EOS, amount),
                            !.game_played_flag = @ \cup {PlayedBit(games[DiceGame].id)}]
                     /\ players' = Put(players, p, written)
                     /\ UNCHANGED <<sent, unpaid>>
  BY Zenon DEF Bet, Stake
<1>5. Player(p)'.in = Player(p).in + amount /\ Player(p)'.out = Player(p).out
  <2>1. Player(p) \in PlayerRow
    BY PlayerIsRow DEF CInv
  <2>2. Booked(EOS, amount) = amount
    BY DEF Booked
  <2>3. written.in = Player(p).in + amount /\ written.out = Player(p).out
    BY <1>4, <2>1, <2>2 DEF PlayerRow
  <2> QED BY <1>4, <2>3, PutPlayer
<1>6. /\ DOMAIN players' = DOMAIN players \cup {p}
      /\ \A q \in Players \ {p} : Player(q)' = Player(q)
  BY <1>4, PutPlayer
<1>7. /\ DOMAIN active' = DOMAIN active \cup {new}
      /\ active'[new] = [player |-> p, bet |-> amount, number |-> number]
      /\ \A id \in DOMAIN active : active'[id] = active[id]
  BY <1>2 DEF Put
<1>8. /\ DOMAIN terms' = DOMAIN terms \cup {new}
      /\ terms'[new] = [bet |-> amount, referer |-> RefererTold(p, name)]
      /\ \A id \in DOMAIN terms \ {new} : terms'[id] = terms[id]
  BY <1>2 DEF Put
<1>9. LastBetId' = new
  BY <1>2 DEF Put, LastBetId, Global
<1>10. \A id \in DOMAIN active \cup InCalls \cup Everyone(paid) \cup Everyone(lost) :
          id \in Nat /\ id <= LastBetId
  BY DEF CInv, Numbered, ActiveSound, CallsSound, GhostsSound, InCalls, Everyone
<1>11. new \notin DOMAIN active \cup InCalls \cup Everyone(paid) \cup Everyone(lost)
  BY <1>3, <1>10 DEF CInv, Numbered
<1>12. /\ InCalls' = InCalls /\ Queued' = Queued
       /\ Everyone(paid)' = Everyone(paid) /\ Everyone(lost)' = Everyone(lost)
  BY <1>2 DEF InCalls, Queued, Everyone
<1> HIDE DEF new
<1>13. Owed' = Owed
  BY <1>2, <1>4 DEF Owed, OfCall, OfRow
<1>14. Staked' = Staked \cup {row}
  BY <1>2, <1>7 DEF Staked
<1>15. L!Place(row)
  <2>1. row \in L!Entries
    BY <1>1, <1>3 DEF L!Entries
  <2>2. row.bet \notin L!Known
    <3>1. \A r \in Staked : r.bet \in DOMAIN active
      BY DEF Staked
    <3>2. \A d \in Owed : d.bet \in InCalls \cup Everyone(paid)
      <4>1. \A q \in DOMAIN calls : \A d \in OfCall(q) : d.bet \in InCalls
        BY DEF OfCall, InCalls
      <4>2. \A u \in DOMAIN queue : OfRow(u).bet \in Everyone(paid)
        BY DEF OfRow, CInv, Apart, Queued
      <4> QED BY <4>1, <4>2, InOwed, Zenon
    <3>3. dropped \subseteq Everyone(paid)
      BY DEF CInv, Apart
    <3> QED BY <1>11, <3>1, <3>2, <3>3 DEF L!Known
  <2>3. [q \in Players |-> Player(q).in]'
          = [[q \in Players |-> Player(q).in] EXCEPT ![p] = @ + amount]
    BY <1>5, <1>6
  <2>4. [q \in Players |-> Player(q).out]' = [q \in Players |-> Player(q).out]
    BY <1>5, <1>6
  <2>5. UNCHANGED <<[q \in Players |-> sent[q][EOS]], Everyone(lost) \cup dropped,
                    Everyone(paid) \ (Queued \cup dropped)>>
    BY <1>2, <1>4, <1>12
  <2> QED BY <1>13, <1>14, <2>1, <2>2, <2>3, <2>4, <2>5 DEF L!Place
<1>16. L!Next
  BY <1>14, <1>15 DEF L!Next
<1>17. ActiveSound' /\ CallsSound' /\ QueueSound' /\ GhostsSound'
  <2>1. ActiveSound'
    BY <1>1, <1>3, <1>6, <1>7 DEF CInv, ActiveSound
  <2>2. CallsSound'
    BY <1>2, <1>6 DEF CInv, CallsSound
  <2>3. QueueSound' /\ GhostsSound'
    BY <1>2, <1>4, <1>6 DEF CInv, QueueSound, GhostsSound
  <2> QED BY <2>1, <2>2, <2>3
<1>18. TermsSound'
  <2>1. RefererTold(p, name) \in Referers
    BY HouseNames DEF RefererTold, Referers
  <2> QED BY <1>1, <1>7, <1>8, <1>11, <1>12, <2>1 DEF CInv, TermsSound
<1>19. Apart'
  BY <1>2, <1>7, <1>11, <1>12 DEF CInv, Apart
<1>20. Numbered'
  <2>1. new > LastBetId /\ LastBetId \in Nat
    BY DEF new, CInv, Numbered
  <2> QED BY <1>3, <1>7, <1>9, <1>10, <1>12, <2>1 DEF Numbered
<1>21. TypeOK'
  BY CasinoNames, HouseSymbols, StakeType, Zenon DEF CInv, Bet
<1> QED BY <1>16, <1>17, <1>18, <1>19, <1>20, <1>21, Zenon DEF KeepsStep, CInv

(* The edge leaves an amount.                                              *)
LEMMA PayoutIsNat ==
    ASSUME NEW bet \in Nat, NEW number \in 1 .. 97, NEW roll
    PROVE  D!Payout(bet, number, roll) \in Nat
<1>1. (bet * (100 - 2)) \div number \in Nat
  OBVIOUS
<1> QED BY <1>1 DEF D!Payout, D!Reward, D!HouseEdge

(* reveal decides one bet of a player for whom no call is under way.       *)
LEMMA RevealOK ==
    ASSUME CInv, NEW id \in 1 .. MaxBets, NEW roll \in Faces, D!Reveal(id, roll), UNCHANGED <<vars, ours>>
    PROVE  KeepsStep
<1>1. PICK p \in Players, payout \in Nat :
        /\ id \in DOMAIN active /\ p = active[id].player /\ p \notin DOMAIN calls
        /\ p \in DOMAIN players
        /\ active' = Erase(active, {id})
        /\ calls' = Put(calls, p, [step |-> "pay", bets |-> {id}, payout |-> payout])
        /\ UNCHANGED <<paid, lost>>
  <2>1. id \in DOMAIN active
    BY Zenon DEF D!Reveal
  <2>2. /\ active[id].player \in Players /\ active[id].player \in DOMAIN players
        /\ D!Payout(active[id].bet, active[id].number, roll) \in Nat
    BY <2>1, PayoutIsNat, Zenon DEF CInv, ActiveSound
  <2>3. /\ active[id].player \notin DOMAIN calls
        /\ active' = Erase(active, {id})
        /\ calls' = Put(calls, active[id].player,
                        [step |-> "pay", bets |-> {id},
                         payout |-> D!Payout(active[id].bet, active[id].number, roll)])
        /\ UNCHANGED <<paid, lost>>
    BY SameTables, Zenon DEF D!Reveal, D!SenderFree, D!Revealed
  <2> QED BY <2>1, <2>2, <2>3, Zenon
<1>2. LastBetId' = LastBetId
  <2>1. globals' = Put(globals, "history", D!HistorySlot)
    BY SameTables, Zenon DEF D!Reveal
  <2> QED BY <2>1 DEF Put, LastBetId, Global
<1>3. UNCHANGED <<players, unpaid, sent, terms, queue, dropped, paid, lost>>
  BY <1>1, Zenon DEF vars, stores, ours
<1>4. /\ DOMAIN active' = DOMAIN active \ {id}
      /\ \A other \in DOMAIN active' : active'[other] = active[other]
  BY <1>1 DEF Erase
<1>5. /\ DOMAIN calls' = DOMAIN calls \cup {p}
      /\ calls'[p].bets = {id} /\ calls'[p].payout = payout
      /\ \A q \in DOMAIN calls : calls'[q] = calls[q]
  BY <1>1 DEF Put
<1>6. /\ InCalls' = InCalls \cup {id}
      /\ Queued' = Queued /\ Everyone(paid)' = Everyone(paid) /\ Everyone(lost)' = Everyone(lost)
  <2>1. InCalls' = InCalls \cup {id}
    <3>1. \A x : x \in InCalls <=> \E q \in DOMAIN calls : x \in calls[q].bets
      BY DEF InCalls
    <3>2. \A x : x \in InCalls' <=> \E q \in DOMAIN calls' : x \in calls'[q].bets
      BY DEF InCalls
    <3>3. ASSUME NEW x \in InCalls' PROVE x \in InCalls \cup {id}
      BY <1>5, <3>1, <3>2
    <3>4. ASSUME NEW x \in InCalls \cup {id} PROVE x \in InCalls'
      BY <1>5, <3>1, <3>2
    <3> QED BY <3>3, <3>4
  <2> QED BY <1>3, <2>1 DEF Queued, Everyone
<1> DEFINE r == [bet |-> id, player |-> p, amount |-> active[id].bet]
           d == [bet |-> id, player |-> p, amount |-> payout]
<1>7. r \in Staked /\ Staked' = Staked \ {r}
  BY <1>1, <1>4 DEF Staked
<1>8. Owed' = Owed \cup {d}
  <2>1. OfCall(p)' = {d}
    BY <1>5 DEF OfCall
  <2>2. \A q \in DOMAIN calls : OfCall(q)' = OfCall(q)
    BY <1>5 DEF OfCall
  <2>3. \A u \in DOMAIN queue : OfRow(u)' = OfRow(u)
    BY <1>3 DEF OfRow
  <2> QED BY <1>3, <1>5, <2>1, <2>2, <2>3 DEF Owed
<1>9. L!Decide(r, d)
  <2>1. d \in L!Entries /\ d.bet = r.bet /\ d.player = r.player
    BY <1>1 DEF L!Entries
  <2>2. UNCHANGED <<[q \in Players |-> Player(q).in], [q \in Players |-> Player(q).out],
                    [q \in Players |-> sent[q][EOS]], Everyone(paid) \ (Queued \cup dropped),
                    Everyone(lost) \cup dropped>>
    BY <1>3, <1>6 DEF Player
  <2> HIDE DEF r, d
  <2> QED BY <1>7, <1>8, <2>1, <2>2 DEF L!Decide
<1>10. L!Next
  <2> HIDE DEF r, d
  <2> QED BY <1>7, <1>8, <1>9 DEF L!Next
<1>11. ActiveSound' /\ QueueSound' /\ GhostsSound'
  BY <1>3, <1>4 DEF CInv, ActiveSound, QueueSound, GhostsSound
<1>12. CallsSound'
  <2>1. id \notin InCalls
    BY <1>1 DEF CInv, Apart
  <2>2. \A q \in DOMAIN calls : calls[q].bets \cap {id} = {}
    BY <2>1 DEF InCalls
  <2>3. \A q \in DOMAIN calls' : calls'[q].payout \in Nat /\ \E b \in 1 .. MaxBets : calls'[q].bets = {b}
    <3>1. calls'[p].payout \in Nat /\ \E b \in 1 .. MaxBets : calls'[p].bets = {b}
      BY <1>1, <1>5
    <3>2. ASSUME NEW q \in DOMAIN calls
          PROVE  calls'[q].payout \in Nat /\ \E b \in 1 .. MaxBets : calls'[q].bets = {b}
      BY <1>5, <3>2 DEF CInv, CallsSound
    <3> QED BY <1>5, <3>1, <3>2
  <2>4. \A q, o \in DOMAIN calls' : q # o => calls'[q].bets \cap calls'[o].bets = {}
    BY <1>5, <2>2 DEF CInv, CallsSound
  <2>5. DOMAIN calls' \subseteq Players /\ DOMAIN calls' \subseteq DOMAIN players'
    BY <1>1, <1>3, <1>5 DEF CInv, CallsSound
  <2> QED BY <2>3, <2>4, <2>5 DEF CallsSound
<1>13. TermsSound'
  BY <1>1, <1>3, <1>4, <1>6 DEF CInv, TermsSound
<1>14. Apart'
  BY <1>1, <1>3, <1>4, <1>6 DEF CInv, Apart
<1>15. Numbered'
  BY <1>1, <1>2, <1>4, <1>6 DEF CInv, Numbered
<1>16. TypeOK'
  BY StutterType, Zenon DEF CInv
<1> QED BY <1>10, <1>11, <1>12, <1>13, <1>14, <1>15, <1>16, Zenon DEF KeepsStep, CInv

(* The first deferred call sends the second: nothing moves.                *)
LEMMA PayOK ==
    ASSUME CInv, NEW p \in Players, D!Pay(p), UNCHANGED <<vars, ours>>
    PROVE  KeepsStep
<1>1. /\ p \in DOMAIN calls
      /\ calls' = Put(calls, p, [step |-> "payment", bets |-> calls[p].bets, payout |-> calls[p].payout])
      /\ UNCHANGED <<globals, active, paid, lost>>
  BY SameTables, Zenon DEF D!Pay, D!rows
<1>2. UNCHANGED <<players, unpaid, sent, terms, queue, dropped>>
  BY Zenon DEF vars, stores, ours
<1>3. /\ DOMAIN calls' = DOMAIN calls
      /\ \A q \in DOMAIN calls : calls'[q].bets = calls[q].bets /\ calls'[q].payout = calls[q].payout
  BY <1>1 DEF Put
<1>4. /\ InCalls' = InCalls /\ Queued' = Queued /\ LastBetId' = LastBetId
      /\ Everyone(paid)' = Everyone(paid) /\ Everyone(lost)' = Everyone(lost)
  BY <1>1, <1>2, <1>3 DEF InCalls, Queued, Everyone, LastBetId
<1>5. Staked' = Staked /\ Owed' = Owed
  <2>1. Staked' = Staked
    BY <1>1 DEF Staked
  <2>2. \A q \in DOMAIN calls : OfCall(q)' = OfCall(q)
    BY <1>3 DEF OfCall
  <2>3. \A u \in DOMAIN queue : OfRow(u)' = OfRow(u)
    BY <1>2 DEF OfRow
  <2> QED BY <1>2, <1>3, <2>1, <2>2, <2>3 DEF Owed
<1>6. UNCHANGED L!vars
  BY <1>1, <1>2, <1>4, <1>5 DEF L!vars, Player
<1>7. ActiveSound' /\ CallsSound' /\ QueueSound' /\ GhostsSound'
  BY <1>1, <1>2, <1>3 DEF CInv, ActiveSound, CallsSound, QueueSound, GhostsSound
<1>8. TermsSound' /\ Apart' /\ Numbered'
  BY <1>1, <1>2, <1>4 DEF CInv, TermsSound, Apart, Numbered
<1>9. TypeOK'
  BY StutterType, Zenon DEF CInv
<1> QED BY <1>6, <1>7, <1>8, <1>9, Zenon DEF KeepsStep, CInv

(* A call leaves, and with it what is owed in it.                          *)
InCallsOwed == UNION {OfCall(p) : p \in DOMAIN calls}
Rows == {OfRow(u) : u \in DOMAIN queue}

LEMMA CallGone ==
    ASSUME CInv, NEW p \in DOMAIN calls, NEW id \in calls[p].bets,
           calls' = Erase(calls, {p}), DOMAIN players \subseteq DOMAIN players'
    PROVE  LET d == [bet |-> id, player |-> p, amount |-> calls[p].payout]
           IN  /\ id \in 1 .. MaxBets /\ calls[p].bets = {id} /\ calls[p].payout \in Nat
               /\ id \in InCalls /\ id \notin DOMAIN active
               /\ id \notin Everyone(paid) \cup Everyone(lost) \cup Queued \cup dropped
               /\ InCalls' = InCalls \ {id}
               /\ d \in InCallsOwed /\ d \notin Rows
               /\ InCallsOwed' = InCallsOwed \ {d}
               /\ CallsSound'
<1> DEFINE d == [bet |-> id, player |-> p, amount |-> calls[p].payout]
<1>1. id \in 1 .. MaxBets /\ calls[p].bets = {id} /\ calls[p].payout \in Nat
  BY DEF CInv, CallsSound
<1>2. id \in InCalls
  BY DEF InCalls
<1>3. /\ id \notin DOMAIN active
      /\ id \notin Everyone(paid) \cup Everyone(lost) \cup Queued \cup dropped
  BY <1>2 DEF CInv, Apart
<1>4. /\ DOMAIN calls' = DOMAIN calls \ {p}
      /\ \A q \in DOMAIN calls \ {p} : calls'[q] = calls[q] /\ id \notin calls[q].bets
  <2>1. /\ DOMAIN calls' = DOMAIN calls \ {p}
        /\ \A q \in DOMAIN calls \ {p} : calls'[q] = calls[q]
    BY DEF Erase
  <2>2. \A q \in DOMAIN calls \ {p} : calls[q].bets \cap calls[p].bets = {}
    BY DEF CInv, CallsSound
  <2> QED BY <1>1, <2>1, <2>2
<1>5. InCalls' = InCalls \ {id}
  <2>1. \A x : x \in InCalls <=> \E q \in DOMAIN calls : x \in calls[q].bets
    BY DEF InCalls
  <2>2. \A x : x \in InCalls' <=> \E q \in DOMAIN calls' : x \in calls'[q].bets
    BY DEF InCalls
  <2>3. ASSUME NEW x \in InCalls' PROVE x \in InCalls \ {id}
    BY <1>4, <2>1, <2>2
  <2>4. ASSUME NEW x \in InCalls \ {id} PROVE x \in InCalls'
    <3>1. PICK q \in DOMAIN calls : x \in calls[q].bets
      BY <2>1
    <3>2. q # p
      BY <1>1, <3>1
    <3> QED BY <1>4, <2>2, <3>1, <3>2
  <2> QED BY <2>3, <2>4
<1>6. /\ OfCall(p) = {d}
      /\ \A q \in DOMAIN calls \ {p} : OfCall(q)' = OfCall(q) /\ d \notin OfCall(q)
  BY <1>1, <1>4 DEF OfCall
<1>7. d \notin Rows
  BY <1>3 DEF Rows, OfRow, Queued
<1> HIDE DEF d
<1>8. d \in InCallsOwed
  BY <1>6 DEF InCallsOwed
<1>9. InCallsOwed' = InCallsOwed \ {d}
  <2>1. \A x : x \in InCallsOwed <=> \E q \in DOMAIN calls : x \in OfCall(q)
    BY DEF InCallsOwed
  <2>2. \A x : x \in InCallsOwed' <=> \E q \in DOMAIN calls' : x \in OfCall(q)'
    BY DEF InCallsOwed
  <2>3. ASSUME NEW x \in InCallsOwed' PROVE x \in InCallsOwed \ {d}
    BY <1>4, <1>6, <2>1, <2>2
  <2>4. ASSUME NEW x \in InCallsOwed \ {d} PROVE x \in InCallsOwed'
    <3>1. PICK q \in DOMAIN calls : x \in OfCall(q)
      BY <2>1
    <3>2. q # p
      BY <1>6, <3>1
    <3> QED BY <1>4, <1>6, <2>2, <3>1, <3>2
  <2> QED BY <2>3, <2>4
<1>10. CallsSound'
  BY <1>4 DEF CInv, CallsSound
<1> QED BY <1>1, <1>2, <1>3, <1>5, <1>7, <1>8, <1>9, <1>10 DEF d

LEMMA OwedIs == Owed = InCallsOwed \cup Rows /\ Owed' = InCallsOwed' \cup Rows'
  BY DEF Owed, InCallsOwed, Rows

(* A call fails: what it was to pay is void.                               *)
LEMMA FailCallOK == ASSUME CInv, NEW p \in Players, FailCall(p) PROVE KeepsStep
<1>1. /\ p \in DOMAIN calls /\ calls' = Erase(calls, {p})
      /\ lost' = [lost EXCEPT ![p] = @ \cup calls[p].bets]
      /\ UNCHANGED <<globals, active, paid, vars, ours>>
  BY SameTables, Zenon DEF FailCall, D!FailCall, D!rows
<1>2. UNCHANGED <<players, unpaid, sent, terms, queue, dropped>>
  BY <1>1, Zenon DEF vars, stores, ours
<1>3. PICK id : id \in calls[p].bets
  BY <1>1 DEF CInv, CallsSound
<1> DEFINE d == [bet |-> id, player |-> p, amount |-> calls[p].payout]
<1>4. /\ id \in 1 .. MaxBets /\ calls[p].bets = {id} /\ calls[p].payout \in Nat
      /\ id \in InCalls /\ id \notin DOMAIN active
      /\ id \notin Everyone(paid) \cup Everyone(lost) \cup Queued \cup dropped
      /\ InCalls' = InCalls \ {id}
      /\ d \in InCallsOwed /\ d \notin Rows /\ InCallsOwed' = InCallsOwed \ {d}
      /\ CallsSound'
  BY <1>1, <1>2, <1>3, CallGone
<1> HIDE DEF d
<1>5. /\ Everyone(lost)' = Everyone(lost) \cup {id} /\ Everyone(paid)' = Everyone(paid)
      /\ Queued' = Queued /\ LastBetId' = LastBetId
  BY <1>1, <1>2, <1>4 DEF Everyone, Queued, LastBetId, CInv, GhostsSound
<1>6. Staked' = Staked /\ Rows' = Rows
  BY <1>1, <1>2 DEF Staked, Rows, OfRow
<1>7. L!Void(d)
  <2>1. Owed' = Owed \ {d}
    BY <1>4, <1>6, OwedIs
  <2>2. (Everyone(lost) \cup dropped)' = (Everyone(lost) \cup dropped) \cup {id}
    BY <1>2, <1>5
  <2>3. UNCHANGED <<Staked, Everyone(paid) \ (Queued \cup dropped), [q \in Players |-> Player(q).in],
                    [q \in Players |-> Player(q).out], [q \in Players |-> sent[q][EOS]]>>
    BY <1>2, <1>5, <1>6 DEF Player
  <2>4. d.bet = id
    BY DEF d
  <2> QED BY <2>1, <2>2, <2>3, <2>4 DEF L!Void
<1>8. L!Next
  BY <1>4, <1>7, OwedIs DEF L!Next
<1>9. ActiveSound' /\ QueueSound' /\ GhostsSound'
  BY <1>1, <1>2, <1>4 DEF CInv, ActiveSound, QueueSound, GhostsSound
<1>10. TermsSound'
  BY <1>1, <1>2, <1>4 DEF CInv, TermsSound
<1>11. Apart'
  BY <1>1, <1>2, <1>4, <1>5 DEF CInv, Apart
<1>12. Numbered'
  BY <1>1, <1>4, <1>5 DEF CInv, Numbered
<1>13. TypeOK'
  BY <1>1, StutterType, Zenon DEF CInv
<1> QED BY <1>4, <1>8, <1>9, <1>10, <1>11, <1>12, <1>13, Zenon DEF KeepsStep, CInv

(* The house pays what a call asks for: it is sent and booked.             *)
LEMMA PayNowOK ==
    ASSUME CInv, NEW p \in Players, D!RunPayment(p), NEW id \in calls[p].bets,
           PayNow(DiceGame, p, EOS, terms[id].bet, calls[p].payout, terms[id].referer),
           UNCHANGED <<queue, terms, dropped>>
    PROVE  KeepsStep
<1> DEFINE payout == calls[p].payout
           d == [bet |-> id, player |-> p, amount |-> payout]
<1>1. /\ p \in DOMAIN calls /\ calls' = Erase(calls, {p})
      /\ paid' = [paid EXCEPT ![p] = @ \cup calls[p].bets]
      /\ UNCHANGED <<globals, active, lost>>
  BY SameTables, Zenon DEF D!RunPayment, D!rows
<1>2. p \in DOMAIN players
  BY <1>1 DEF CInv, CallsSound
<1>3. PICK payee, bonus :
        /\ players' = [players EXCEPT ![p].out = @ + payout, ![p].referer = payee,
                                      ![p].referer_payout = @ + bonus]
        /\ sent' = [sent EXCEPT ![p][EOS] = @ + payout]
        /\ UNCHANGED unpaid
  BY <1>2, Zenon DEF PayNow
<1>4. /\ DOMAIN players' = DOMAIN players
      /\ Player(p)'.in = Player(p).in /\ Player(p)'.out = Player(p).out + payout
      /\ \A q \in Players \ {p} : Player(q)' = Player(q)
  <2>1. players[p] \in PlayerRow
    BY <1>2 DEF CInv, TypeOK, IsTable
  <2>2. players'[p].in = players[p].in /\ players'[p].out = players[p].out + payout
    BY <1>2, <1>3, <2>1 DEF PlayerRow
  <2>3. /\ DOMAIN players' = DOMAIN players
        /\ \A q \in DOMAIN players \ {p} : players'[q] = players[q]
    BY <1>3
  <2> QED BY <1>2, <2>2, <2>3 DEF Player
<1>5. sent'[p][EOS] = sent[p][EOS] + payout /\ \A q \in Players \ {p} : sent'[q] = sent[q]
  BY <1>3, HouseSymbols DEF CInv, TypeOK
<1>6. /\ id \in 1 .. MaxBets /\ calls[p].bets = {id} /\ payout \in Nat
      /\ id \in InCalls /\ id \notin DOMAIN active
      /\ id \notin Everyone(paid) \cup Everyone(lost) \cup Queued \cup dropped
      /\ InCalls' = InCalls \ {id}
      /\ d \in InCallsOwed /\ d \notin Rows /\ InCallsOwed' = InCallsOwed \ {d}
      /\ CallsSound'
  BY <1>1, <1>4, CallGone
<1>7. /\ Everyone(paid)' = Everyone(paid) \cup {id} /\ Everyone(lost)' = Everyone(lost)
      /\ Queued' = Queued /\ LastBetId' = LastBetId
  BY <1>1, <1>6 DEF Everyone, Queued, LastBetId, CInv, GhostsSound
<1>8. Staked' = Staked /\ Rows' = Rows
  BY <1>1, <1>3 DEF Staked, Rows, OfRow
<1>9. L!Pay(d)
  <2>1. [q \in Players |-> Player(q).out]'
          = [[q \in Players |-> Player(q).out] EXCEPT ![p] = @ + payout]
    BY <1>4
  <2>2. [q \in Players |-> sent[q][EOS]]'
          = [[q \in Players |-> sent[q][EOS]] EXCEPT ![p] = @ + payout]
    BY <1>5
  <2>3. [q \in Players |-> Player(q).in]' = [q \in Players |-> Player(q).in]
    BY <1>4
  <2>4. d.bet = id /\ d.player = p /\ d.amount = payout
    OBVIOUS
  <2> HIDE DEF d, payout
  <2>5. Owed' = Owed \ {d}
    BY <1>6, <1>8, OwedIs
  <2>6. (Everyone(paid) \ (Queued \cup dropped))' = (Everyone(paid) \ (Queued \cup dropped)) \cup {id}
    BY <1>6, <1>7
  <2>7. UNCHANGED <<Staked, Everyone(lost) \cup dropped>>
    BY <1>7, <1>8
  <2> QED BY <2>1, <2>2, <2>3, <2>4, <2>5, <2>6, <2>7 DEF L!Pay
<1> HIDE DEF d
<1>10. L!Next
  <2>1. d \in Owed
    BY <1>6, OwedIs
  <2>2. PICK e : e = d
    OBVIOUS
  <2>3. L!Pay(e)
    BY <1>9, <2>2 DEF L!Pay
  <2> QED BY <2>1, <2>2, <2>3, Zenon DEF L!Next
<1>11. ActiveSound' /\ QueueSound' /\ GhostsSound'
  BY <1>1, <1>3, <1>4, <1>6 DEF CInv, ActiveSound, QueueSound, GhostsSound
<1>12. TermsSound'
  BY <1>1, <1>6 DEF CInv, TermsSound
<1>13. Apart'
  BY <1>1, <1>6, <1>7 DEF CInv, Apart
<1>14. Numbered'
  BY <1>1, <1>6, <1>7 DEF CInv, Numbered
<1>15. TypeOK'
  <2>1. terms[id].bet \in Nat /\ terms[id].referer \in Referers
    BY <1>6 DEF CInv, TermsSound
  <2> QED BY <1>6, <2>1, CasinoNames, HouseSymbols, PayNowType, Zenon DEF CInv
<1> QED BY <1>6, <1>10, <1>11, <1>12, <1>13, <1>14, <1>15, Zenon DEF KeepsStep, CInv

(* The house queues it: what is owed is owed in a row nobody had.          *)
LEMMA PayLaterOK ==
    ASSUME CInv, NEW p \in Players, D!RunPayment(p), NEW id \in calls[p].bets,
           PayLater(DiceGame, p, EOS, terms[id].bet, calls[p].payout, terms[id].referer),
           \E u \in 0 .. MaxUnpaid - 1 : IsNextId(u) /\ queue' = Put(queue, u, id),
           UNCHANGED <<terms, dropped>>
    PROVE  KeepsStep
<1> DEFINE payout == calls[p].payout
           d == [bet |-> id, player |-> p, amount |-> payout]
<1>1. /\ p \in DOMAIN calls /\ calls' = Erase(calls, {p})
      /\ paid' = [paid EXCEPT ![p] = @ \cup calls[p].bets]
      /\ UNCHANGED <<globals, active, lost, players, sent>>
  BY SameTables, Zenon DEF D!RunPayment, D!rows, PayLater
<1>2. p \in DOMAIN players
  BY <1>1 DEF CInv, CallsSound
<1>3. \A u, v \in 0 .. MaxUnpaid - 1 : IsNextId(u) /\ IsNextId(v) => u = v
  BY HouseAmounts DEF IsNextId
<1>4. PICK u \in 0 .. MaxUnpaid - 1 :
        /\ IsNextId(u) /\ queue' = Put(queue, u, id)
        /\ \E row : /\ unpaid' = Put(unpaid, u, row)
                    /\ row.player = p /\ row.payout = payout /\ row.sym = EOS
  <2>1. PICK u \in 0 .. MaxUnpaid - 1 :
          IsNextId(u) /\ unpaid' = Put(unpaid, u, [game |-> DiceGame, player |-> p, sym |-> EOS,
              bet |-> terms[id].bet, payout |-> payout, referer |-> terms[id].referer])
    BY Zenon DEF PayLater
  <2>2. queue' = Put(queue, u, id)
    BY <1>3, <2>1, Zenon
  <2> QED BY <2>1, <2>2
<1>5. u \notin DOMAIN unpaid /\ u \notin DOMAIN queue
  BY <1>4, HouseAmounts DEF IsNextId, CInv, QueueSound
<1>6. /\ DOMAIN queue' = DOMAIN queue \cup {u} /\ DOMAIN unpaid' = DOMAIN unpaid \cup {u}
      /\ queue'[u] = id
      /\ unpaid'[u].player = p /\ unpaid'[u].payout = payout /\ unpaid'[u].sym = EOS
      /\ \A v \in DOMAIN queue : queue'[v] = queue[v] /\ unpaid'[v] = unpaid[v]
  BY <1>4, <1>5 DEF Put, CInv, QueueSound
<1>7. /\ id \in 1 .. MaxBets /\ calls[p].bets = {id} /\ payout \in Nat
      /\ id \in InCalls /\ id \notin DOMAIN active
      /\ id \notin Everyone(paid) \cup Everyone(lost) \cup Queued \cup dropped
      /\ InCalls' = InCalls \ {id}
      /\ d \in InCallsOwed /\ d \notin Rows /\ InCallsOwed' = InCallsOwed \ {d}
      /\ CallsSound'
  BY <1>1, CallGone
<1>8. Queued' = Queued \cup {id}
  BY <1>5, <1>6 DEF Queued
<1>9. /\ Everyone(paid)' = Everyone(paid) \cup {id} /\ Everyone(lost)' = Everyone(lost)
      /\ LastBetId' = LastBetId
  BY <1>1, <1>7 DEF Everyone, LastBetId, CInv, GhostsSound
<1>10. Rows' = Rows \cup {d}
  BY <1>5, <1>6 DEF Rows, OfRow
<1> HIDE DEF d
<1>11. Owed' = Owed
  BY <1>7, <1>10, OwedIs
<1>12. UNCHANGED L!vars
  <2>1. Staked' = Staked
    BY <1>1 DEF Staked
  <2>2. (Everyone(paid) \ (Queued \cup dropped))' = Everyone(paid) \ (Queued \cup dropped)
    BY <1>7, <1>8, <1>9
  <2> QED BY <1>1, <1>9, <1>11, <2>1, <2>2 DEF L!vars, Player
<1>13. ActiveSound' /\ GhostsSound'
  BY <1>1, <1>7 DEF CInv, ActiveSound, GhostsSound
<1>14. QueueSound'
  <2>1. \A v \in DOMAIN queue : queue[v] # id
    BY <1>7 DEF Queued
  <2> QED BY <1>1, <1>2, <1>5, <1>6, <1>7, <2>1 DEF CInv, QueueSound
<1>15. TermsSound'
  BY <1>1, <1>7 DEF CInv, TermsSound
<1>16. Apart'
  BY <1>1, <1>7, <1>8, <1>9 DEF CInv, Apart
<1>17. Numbered'
  BY <1>1, <1>7, <1>9 DEF CInv, Numbered
<1>18. TypeOK'
  <2>1. terms[id].bet \in Nat /\ terms[id].referer \in Referers
    BY <1>7 DEF CInv, TermsSound
  <2> QED BY <1>7, <2>1, CasinoNames, HouseSymbols, PayLaterType, Zenon DEF CInv
<1> QED BY <1>7, <1>12, <1>13, <1>14, <1>15, <1>16, <1>17, <1>18, Zenon DEF KeepsStep, CInv

(* A row leaves the queue, and with it what is owed in it.                 *)
LEMMA RowGone ==
    ASSUME CInv, NEW u \in DOMAIN unpaid, queue' = Erase(queue, {u}), unpaid' = Erase(unpaid, {u}),
           DOMAIN players \subseteq DOMAIN players'
    PROVE  /\ queue[u] \in Queued /\ queue[u] \notin InCalls /\ queue[u] \notin dropped
           /\ Queued' = Queued \ {queue[u]}
           /\ OfRow(u) \in Rows /\ OfRow(u) \notin InCallsOwed
           /\ Rows' = Rows \ {OfRow(u)}
           /\ QueueSound'
<1>1. /\ DOMAIN queue = DOMAIN unpaid /\ u \in DOMAIN queue
      /\ \A v \in DOMAIN queue \ {u} : queue[v] # queue[u]
  BY DEF CInv, QueueSound
<1>2. /\ DOMAIN queue' = DOMAIN queue \ {u} /\ DOMAIN unpaid' = DOMAIN unpaid \ {u}
      /\ \A v \in DOMAIN queue \ {u} : queue'[v] = queue[v] /\ unpaid'[v] = unpaid[v]
  BY <1>1 DEF Erase
<1>3. queue[u] \in Queued
  BY <1>1 DEF Queued
<1>4. queue[u] \notin InCalls /\ queue[u] \notin dropped
  BY <1>3 DEF CInv, Apart
<1>5. Queued' = Queued \ {queue[u]}
  BY <1>1, <1>2 DEF Queued
<1>6. OfRow(u) \in Rows
  BY <1>1 DEF Rows
<1>7. OfRow(u) \notin InCallsOwed
  <2>1. \A q \in DOMAIN calls : \A e \in OfCall(q) : e.bet \in InCalls
    BY DEF OfCall, InCalls
  <2>2. OfRow(u).bet = queue[u]
    BY DEF OfRow
  <2>3. \A q \in DOMAIN calls : OfRow(u) \notin OfCall(q)
    BY <1>4, <2>1, <2>2
  <2> HIDE DEF OfRow, OfCall
  <2> QED BY <2>3 DEF InCallsOwed
<1>8. \A v \in DOMAIN queue \ {u} : OfRow(v)' = OfRow(v) /\ OfRow(v) # OfRow(u)
  BY <1>1, <1>2 DEF OfRow
<1>9. Rows' = Rows \ {OfRow(u)}
  BY <1>1, <1>2, <1>8 DEF Rows
<1>10. QueueSound'
  BY <1>1, <1>2 DEF CInv, QueueSound
<1> QED BY <1>3, <1>4, <1>5, <1>6, <1>7, <1>9, <1>10

(* The operator settles a queued payment: it is sent and booked.           *)
LEMMA SettleOK == ASSUME CInv, NEW u \in DOMAIN unpaid, Settle(u) PROVE KeepsStep
<1> DEFINE d == OfRow(u)
<1>1. PICK p, payout :
        /\ p = unpaid[u].player /\ payout = unpaid[u].payout /\ unpaid[u].sym = EOS
        /\ p \in DOMAIN players
        /\ players' = [players EXCEPT ![p].out = @ + payout]
        /\ sent' = [sent EXCEPT ![p][EOS] = @ + payout]
        /\ unpaid' = Erase(unpaid, {u})
  <2>1. unpaid[u].sym = EOS
    BY DEF CInv, QueueSound
  <2> QED BY <2>1, Zenon DEF Settle, SettleUnpaid
<1>2. queue' = Erase(queue, {u}) /\ UNCHANGED <<globals, active, calls, paid, lost, terms, dropped>>
  BY Zenon DEF Settle, diceVars
<1>3. p \in Players /\ payout \in Nat
  BY <1>1 DEF CInv, TypeOK, IsTable, DelayedPayment
<1>4. /\ DOMAIN players' = DOMAIN players
      /\ Player(p)'.in = Player(p).in /\ Player(p)'.out = Player(p).out + payout
      /\ \A q \in Players \ {p} : Player(q)' = Player(q)
  <2>1. players[p] \in PlayerRow
    BY <1>1 DEF CInv, TypeOK, IsTable
  <2>2. players'[p].in = players[p].in /\ players'[p].out = players[p].out + payout
    BY <1>1, <2>1 DEF PlayerRow
  <2>3. /\ DOMAIN players' = DOMAIN players
        /\ \A q \in DOMAIN players \ {p} : players'[q] = players[q]
    BY <1>1
  <2> QED BY <1>1, <2>2, <2>3 DEF Player
<1>5. sent'[p][EOS] = sent[p][EOS] + payout /\ \A q \in Players \ {p} : sent'[q] = sent[q]
  BY <1>1, <1>3, HouseSymbols DEF CInv, TypeOK
<1>6. /\ queue[u] \in Queued /\ queue[u] \notin InCalls /\ queue[u] \notin dropped
      /\ Queued' = Queued \ {queue[u]}
      /\ d \in Rows /\ d \notin InCallsOwed /\ Rows' = Rows \ {d}
      /\ QueueSound'
  BY <1>1, <1>2, <1>4, RowGone
<1>7. d.bet = queue[u] /\ d.player = p /\ d.amount = payout
  BY <1>1 DEF OfRow
<1> HIDE DEF d
<1>8. /\ InCalls' = InCalls /\ InCallsOwed' = InCallsOwed /\ Staked' = Staked
      /\ Everyone(paid)' = Everyone(paid) /\ Everyone(lost)' = Everyone(lost)
      /\ LastBetId' = LastBetId
  BY <1>2 DEF InCalls, InCallsOwed, OfCall, Staked, Everyone, LastBetId
<1>9. L!Pay(d)
  <2>1. [q \in Players |-> Player(q).out]'
          = [[q \in Players |-> Player(q).out] EXCEPT ![p] = @ + payout]
    BY <1>3, <1>4
  <2>2. [q \in Players |-> sent[q][EOS]]'
          = [[q \in Players |-> sent[q][EOS]] EXCEPT ![p] = @ + payout]
    BY <1>3, <1>5
  <2>3. [q \in Players |-> Player(q).in]' = [q \in Players |-> Player(q).in]
    BY <1>4
  <2>4. Owed' = Owed \ {d}
    BY <1>6, <1>8, OwedIs
  <2>5. (Everyone(paid) \ (Queued \cup dropped))'
          = (Everyone(paid) \ (Queued \cup dropped)) \cup {queue[u]}
    BY <1>2, <1>6, <1>8 DEF CInv, Apart
  <2>6. UNCHANGED <<Staked, Everyone(lost) \cup dropped>>
    BY <1>2, <1>8
  <2> QED BY <1>7, <2>1, <2>2, <2>3, <2>4, <2>5, <2>6 DEF L!Pay
<1>10. L!Next
  <2>1. d \in Owed
    BY <1>6, OwedIs
  <2>2. PICK e : e = d
    OBVIOUS
  <2>3. L!Pay(e)
    BY <1>9, <2>2 DEF L!Pay
  <2> QED BY <2>1, <2>2, <2>3, Zenon DEF L!Next
<1>11. ActiveSound' /\ CallsSound' /\ GhostsSound'
  BY <1>2, <1>4 DEF CInv, ActiveSound, CallsSound, GhostsSound
<1>12. TermsSound' /\ Numbered'
  BY <1>2, <1>8 DEF CInv, TermsSound, Numbered
<1>13. Apart'
  BY <1>2, <1>6, <1>8 DEF CInv, Apart
<1>14. TypeOK'
  BY SettleUnpaidType, Zenon DEF CInv, Settle
<1> QED BY <1>6, <1>10, <1>11, <1>12, <1>13, <1>14, Zenon DEF KeepsStep, CInv

(* The operator drops a queued payment: it is void.                        *)
LEMMA DiscardOK == ASSUME CInv, NEW u \in DOMAIN unpaid, Discard(u) PROVE KeepsStep
<1> DEFINE d == OfRow(u)
<1>1. /\ unpaid' = Erase(unpaid, {u}) /\ queue' = Erase(queue, {u})
      /\ dropped' = dropped \cup {queue[u]}
      /\ UNCHANGED <<players, sent, globals, active, calls, paid, lost, terms>>
  BY Zenon DEF Discard, DropUnpaid, diceVars
<1>2. /\ queue[u] \in Queued /\ queue[u] \notin InCalls /\ queue[u] \notin dropped
      /\ Queued' = Queued \ {queue[u]}
      /\ d \in Rows /\ d \notin InCallsOwed /\ Rows' = Rows \ {d}
      /\ QueueSound'
  BY <1>1, RowGone
<1>3. d.bet = queue[u]
  BY DEF OfRow
<1> HIDE DEF d
<1>4. /\ InCalls' = InCalls /\ InCallsOwed' = InCallsOwed /\ Staked' = Staked
      /\ Everyone(paid)' = Everyone(paid) /\ Everyone(lost)' = Everyone(lost)
      /\ LastBetId' = LastBetId
  BY <1>1 DEF InCalls, InCallsOwed, OfCall, Staked, Everyone, LastBetId
<1>5. L!Void(d)
  <2>1. Owed' = Owed \ {d}
    BY <1>2, <1>4, OwedIs
  <2>2. (Everyone(lost) \cup dropped)' = (Everyone(lost) \cup dropped) \cup {queue[u]}
    BY <1>1, <1>4
  <2>3. (Everyone(paid) \ (Queued \cup dropped))' = Everyone(paid) \ (Queued \cup dropped)
    BY <1>1, <1>2, <1>4
  <2> QED BY <1>1, <1>3, <1>4, <2>1, <2>2, <2>3 DEF L!Void, Player
<1>6. L!Next
  <2>1. d \in Owed
    BY <1>2, OwedIs
  <2> QED BY <1>5, <2>1, Zenon DEF L!Next
<1>7. ActiveSound' /\ CallsSound'
  BY <1>1 DEF CInv, ActiveSound, CallsSound
<1>8. GhostsSound'
  <2>1. queue[u] \in 1 .. MaxBets
    BY DEF CInv, QueueSound
  <2> QED BY <1>1, <2>1 DEF CInv, GhostsSound
<1>9. TermsSound' /\ Numbered'
  BY <1>1, <1>4 DEF CInv, TermsSound, Numbered
<1>10. Apart'
  BY <1>1, <1>2, <1>4 DEF CInv, Apart
<1>11. TypeOK'
  BY DropUnpaidType, Zenon DEF CInv, Discard
<1> QED BY <1>2, <1>6, <1>7, <1>8, <1>9, <1>10, <1>11, Zenon DEF KeepsStep, CInv

(* What else the house does leaves stakes, payouts and the queue alone.    *)
LEMMA HouseStepOK == ASSUME CInv, HouseStep PROVE KeepsStep
<1>1. UNCHANGED <<globals, active, calls, paid, lost, terms, queue, dropped>>
  BY Zenon DEF HouseStep, diceVars, ours
<1>2. LastBetId' = LastBetId
  BY <1>1 DEF LastBetId
<1>3. CASE UNCHANGED <<players, unpaid, sent>> /\ TypeOK'
  BY <1>1, <1>2, <1>3, BooksUntouched DEF Player
<1>4. ASSUME NEW on \in BOOLEAN, SetActive(DiceGame, on) PROVE KeepsStep
  <2>1. UNCHANGED <<players, unpaid, sent>>
    BY <1>4, Zenon DEF SetActive
  <2> QED BY <1>3, <1>4, <2>1, CasinoNames, SetActiveType, Zenon DEF CInv
<1>5. ASSUME NEW min \in Mins, NEW max \in Maxes, NEW balance \in Balances,
             UpdateToken(DiceGame, EOS, min, max, balance)
      PROVE  KeepsStep
  <2>1. UNCHANGED <<players, unpaid, sent>>
    BY <1>5, Zenon DEF UpdateToken
  <2> QED BY <1>3, <1>5, <2>1, CasinoNames, HouseSymbols, UpdateTokenType, Zenon DEF CInv
<1>6. ASSUME NEW amount \in Deposits, Deposit(DiceGame, EOS, amount) PROVE KeepsStep
  <2>1. UNCHANGED <<players, unpaid, sent>>
    BY <1>6, Zenon DEF Deposit
  <2> QED BY <1>3, <1>6, <2>1, CasinoNames, HouseSymbols, DepositType, Zenon DEF CInv
<1>7. ASSUME NEW p \in Players, NEW referer \in Chosen, SetReferer(p, referer) PROVE KeepsStep
  <2>1. PICK row : /\ row = Player(p) \/ row = Referred(Player(p), referer)
                   /\ players' = Put(players, p, row)
    <3>1. p \in DOMAIN players => players[p] = Player(p)
      BY DEF Player
    <3> QED BY <1>7, <3>1, Zenon DEF SetReferer
  <2>2. row.in = Player(p).in /\ row.out = Player(p).out
    <3>1. Player(p) \in PlayerRow
      BY PlayerIsRow DEF CInv
    <3> QED BY <2>1, <3>1 DEF Referred, PlayerRow
  <2>3. UNCHANGED <<unpaid, sent>>
    BY <1>7, Zenon DEF SetReferer
  <2>4. /\ Player(p)' = row /\ DOMAIN players' = DOMAIN players \cup {p}
        /\ \A q \in Players \ {p} : Player(q)' = Player(q)
    BY <2>1, PutPlayer
  <2>5. TypeOK'
    <3>1. referer \in Referers
      BY CasinoNames DEF Referers
    <3> QED BY <1>7, <3>1, SetRefererType, Zenon DEF CInv
  <2>6. /\ DOMAIN players \subseteq DOMAIN players'
        /\ \A q \in Players : Player(q)'.in = Player(q).in /\ Player(q)'.out = Player(q).out
    BY <2>2, <2>4
  <2> QED BY <1>1, <1>2, <2>3, <2>5, <2>6, BooksUntouched
<1> QED BY <1>4, <1>5, <1>6, <1>7, Zenon DEF HouseStep

(* Registering dice, and its init, move no bet.                            *)
LEMMA RegisterOK == ASSUME CInv, Register PROVE KeepsStep
<1>1. UNCHANGED <<players, unpaid, sent, globals, active, calls, paid, lost, terms, queue, dropped>>
  BY Zenon DEF Register, AddGame, diceVars, ours
<1>2. TypeOK'
  BY CasinoNames, AddGameType, Zenon DEF CInv, Register
<1> QED BY <1>1, <1>2, BooksUntouched DEF LastBetId, Player

LEMMA InitGameOK == ASSUME CInv, InitGame PROVE KeepsStep
<1>1. /\ UNCHANGED <<players, unpaid, sent, active, calls, paid, lost, terms, queue, dropped>>
      /\ globals' = globals \/ globals' = [k \in D!Counters |-> D!Global(globals, k)]
  BY Zenon DEF InitGame, RunInit, D!InitGlobals, diceVars, ours
<1>2. LastBetId' = LastBetId
  BY <1>1 DEF LastBetId, Global, D!Global, D!Counters
<1>3. TypeOK'
  BY Zenon DEF CInv, TypeOK, InitGame, RunInit
<1> QED BY <1>1, <1>2, <1>3, BooksUntouched DEF Player

-----------------------------------------------------------------------------
LEMMA CasinoStepOK == ASSUME CInv, [CasinoNext]_casinoVars PROVE KeepsStep
<1>1. ASSUME NEW p \in Players, NEW amount \in Stakes, NEW number \in Numbers, NEW name \in Told,
             Bet(p, amount, number, name)
      PROVE  KeepsStep
  BY <1>1, BetOK, Zenon
<1>2. CASE DiceStep
  BY <1>2, RevealOK, PayOK, Zenon DEF DiceStep
<1>3. ASSUME NEW p \in Players, RunPayment(p) \/ FailCall(p) PROVE KeepsStep
  <2>1. CASE RunPayment(p)
    BY <2>1, PayNowOK, PayLaterOK, Zenon DEF RunPayment
  <2>2. CASE FailCall(p)
    BY <2>2, FailCallOK, Zenon
  <2> QED BY <1>3, <2>1, <2>2, Zenon
<1>4. ASSUME NEW u \in DOMAIN unpaid, Settle(u) \/ Discard(u) PROVE KeepsStep
  BY <1>4, SettleOK, DiscardOK, Zenon
<1>5. CASE Register \/ InitGame \/ HouseStep
  BY <1>5, RegisterOK, InitGameOK, HouseStepOK, Zenon
<1>6. CASE UNCHANGED casinoVars
  <2>1. /\ UNCHANGED <<players, unpaid, sent, globals, active, calls, paid, lost, terms, queue, dropped>>
        /\ UNCHANGED vars
    BY <1>6, Zenon DEF casinoVars, vars, stores, diceVars, ours
  <2>2. TypeOK'
    BY <2>1, StutterType, Zenon DEF CInv
  <2> QED BY <2>1, <2>2, BooksUntouched DEF LastBetId, Player
<1> QED BY <1>1, <1>2, <1>3, <1>4, <1>5, <1>6, Zenon DEF CasinoNext

(* The house and dice together keep the ledger: whatever dice decides for  *)
(* a bet, the house sends once to the bet's player, or never, and books as *)
(* sent, for any players, stakes and rolls, whatever is late, lost, queued *)
(* or dropped (dice.cpp:53-130, house.cpp:184-282).                        *)
THEOREM CasinoKeepsLedger == CasinoSpec => KeepsLedger
<1>1. CInv /\ [CasinoNext]_casinoVars => [L!Next]_L!vars /\ CInv'
  BY CasinoStepOK DEF KeepsStep
<1> QED BY <1>1, CasinoInitOK, PTL DEF CasinoSpec, KeepsLedger, L!Spec

(* No bet of dice is in two places: decided again, queued twice, paid and  *)
(* dropped, or paid and lost.                                              *)
THEOREM CasinoBetInOnePlace == CasinoSpec => []Apart
<1>1. CInv /\ [CasinoNext]_casinoVars => CInv'
  BY CasinoStepOK DEF KeepsStep
<1>2. CInv => Apart
  BY DEF CInv
<1> QED BY <1>1, <1>2, CasinoInitOK, PTL DEF CasinoSpec
=============================================================================
