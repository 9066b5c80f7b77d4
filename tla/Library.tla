------------------------------- MODULE Library -------------------------------
(***************************************************************************)
(* What the contracts are built on, put to use: the rules the round based  *)
(* games are decided by, the SDK's tables, optionals and token, the reader *)
(* of memos, what is routed to a handler, and the faucet, whose one action *)
(* is here.  A behaviour is of one part; the others rest.                  *)
(*                                                                         *)
(* A game deals cards one by one as add_card does, the hands of bullfight  *)
(* by their values and those of redblack by the cards of a smaller deck,   *)
(* each in increasing order, since the code sorts them; or it bets on one  *)
(* number of a wheel.                                                      *)
(***************************************************************************)
EXTENDS Cards, MultiIndex

CONSTANTS
    Parts,       \* the parts to look at
    DeckSize,    \* size of the deck the drawing is checked on
    RedDeck,     \* the cards of redblack
    BaccaratDeck, \* the cards of baccarat
    Optionals, Values, Moved, MaxFilled,        \* Optional
    Owners, Quantities, Half, MaxIssues,        \* Currency
    Fields, MaxFields, MaxReads, ByteSize, Accounts, IllFormed, From, House, Nobody, \* Memo
    Players, Amounts, MaxFunds, Self, Stake, Token, System, Impostor, \* Dispatch
    Users,      \* visitors of the faucet
    Gift,       \* what it gives, asset(1000, EOS_SYMBOL)
    Stock       \* what it owns

\* what the constants have to be
LibraryAssumption == DeckSize \in Nat /\ RedDeck \subseteq Nat /\ BaccaratDeck \subseteq Nat
FaucetAssumption == Gift \in Nat /\ Stock \in Nat

VARIABLES
    part, \* the part a behaviour is of
    dealt, \* the cards, values or the bet it has come to
    banker, player, stage,
    box, objects, filled,
    stat, account, issues,
    memo, cursor, state, referer, slip, reads,
    funds, credited, sent, staked,
    limit, owned, got \* the faucet's table of who was served, its coins, what users have

sides == <<banker, player, stage>>
table == <<dealt, sides>>
optional == <<box, objects, filled>>
currency == <<stat, account, issues>>
reader == <<memo, cursor, state, referer, slip, reads>>
notices == <<funds, credited, sent, staked>>
faucet == <<limit, owned, got>>
library == <<part, table, vars, optional, currency, reader, notices, faucet>>

Boxes == INSTANCE Optional
Money == INSTANCE Currency
Reader == INSTANCE Memo
Notices == INSTANCE Dispatch

Bull == INSTANCE Bullfight WITH Word <- 65536
RB == INSTANCE RedBlack
Bac == INSTANCE Baccarat WITH Deck <- BaccaratDeck
Wheel == INSTANCE Wheels

Highest(values) == IF values = <<>> THEN 0 ELSE Last(values)
NoSides == banker = <<>> /\ player = <<>> /\ stage = "done"

DealsInit ==
    /\ dealt = <<>>
    /\ IF part = "baccarat" THEN Bac!Init ELSE NoSides

(* One more card by draw_random_card.                                      *)
Draw(drawn) ==
    /\ part = "draw"
    /\ drawn < DeckSize - Len(dealt)
    /\ dealt' = AddCard(drawn, dealt)
    /\ UNCHANGED sides

(* One more value of a sorted hand.                                        *)
Hold(value) ==
    /\ part = "bullfight" /\ Len(dealt) < 5 /\ value >= Highest(dealt)
    /\ dealt' = Append(dealt, value)
    /\ UNCHANGED sides

(* One more card of the red, then of the black hand.                       *)
Give(card) ==
    /\ part = "redblack" /\ Len(dealt) < 6 /\ card \notin ToSet(dealt)
    /\ Len(dealt) % 3 # 0 => card > Highest(dealt)
    /\ dealt' = Append(dealt, card)
    /\ UNCHANGED sides

Bet(bet_type) ==
    /\ dealt = <<>>
    /\ (part = "roulette" /\ bet_type \in Wheel!RouletteBets) \/ (part = "quick3" /\ bet_type \in Wheel!Quick3Bets)
    /\ dealt' = <<bet_type>>
    /\ UNCHANGED sides

DealsNext ==
    \/ \E drawn \in 0 .. DeckSize - 1 : Draw(drawn)
    \/ \E value \in 1 .. 13 : Hold(value)
    \/ \E card \in RedDeck : Give(card)
    \/ \E bet_type \in 1 .. 49 : Bet(bet_type)
    \/ part = "baccarat" /\ Bac!Next /\ UNCHANGED dealt

-----------------------------------------------------------------------------
(* Cards come from what is left of the deck, each with one number: the     *)
(* bumping of draw_random_card needs the dealt cards sorted, and they are. *)
DrawsFair == part = "draw" => DrawsAreFair(dealt, DeckSize)

(* The hands rank as the rules say: a bull is what the whole hand leaves,  *)
(* whichever three cards the search finds first, and redblack's comparison *)
(* by cases is the order of the hands' ranks.                              *)
Red == SubSeq(dealt, 1, 3)
Black == SubSeq(dealt, 4, 6)
HandsRanked ==
    /\ part = "bullfight" /\ Len(dealt) = 5 => Bull!HandType(dealt) = Bull!ByTheRule(dealt)
    /\ part = "redblack" /\ Len(dealt) = 6 => RB!RankedRight(Red, Black)

(* Nobody wins on every outcome: the two sides of a game together pay at   *)
(* most their stakes.  A bet on a hand of bullfight is paid at most double *)
(* and gains when its rate is positive, although the rate is added as an   *)
(* unsigned number.                                                        *)
CardsOf(values) == [i \in DOMAIN values |-> values[i] - 1]
BankHands == {<<1, 1, 2, 2, 3>>, <<11, 11, 12, 12, 13>>, <<4, 4, 4, 4, 9>>, <<5, 5, 10, 10, 10>>,
              <<2, 3, 5, 9, 10>>, <<1, 3, 5, 8, 13>>}
BullfightPays(hand) ==
    \A bank \in BankHands : \A rate \in Bull!PayRates(CardsOf(hand), CardsOf(bank)) :
        /\ Bull!Payout(5, rate) \in 0 .. 10
        /\ (rate > 0) = (Bull!Payout(5, rate) > 5)
NoSureWin ==
    /\ part = "bullfight" /\ Len(dealt) = 5 => BullfightPays(dealt)
    /\ part = "redblack" /\ Len(dealt) = 6 =>
          RB!Rate(Red, Black, RB!RedWin) + RB!Rate(Red, Black, RB!BlackWin) <= 200
    /\ part = "baccarat" /\ stage = "done" =>
          /\ \A x \in Bac!Rates(Bac!BankerWin), y \in Bac!Rates(Bac!PlayerWin) : x + y <= 200
          /\ Bac!ClassicRate(Bac!BankerWin) + Bac!ClassicRate(Bac!PlayerWin) <= 200

(* On average each of the five bets of baccarat and of cbaccarat returns   *)
(* less than it costs (baccarat.cpp:25-58, cbaccarat.cpp:43-71).  It hangs *)
(* on who draws a third card on what (baccarat_common.hpp:40-87).          *)
BaccaratReturnsLess == part = "baccarat" /\ banker = <<>> => Bac!ReturnsLess

(* A round of baccarat pays a bet by the column of its type, and there is  *)
(* a column for each of the five (baccarat.cpp:25-32, :57-59).  transfer   *)
(* takes any byte for a type (round_based_contract.hpp:181), and the index *)
(* of one that has no column comes out in the row of another result or     *)
(* outside of the matrix.                                                  *)
ColumnsPay == part = "baccarat" /\ stage = "done" => Bac!OnlyColumnsPay

(* Over all its numbers a wheel pays back at most what is staked, on every *)
(* bet there is.                                                           *)
WheelsKeepEdge ==
    /\ part = "roulette" /\ dealt # <<>> => Wheel!RouletteReturn(dealt[1]) <= 37
    /\ part = "quick3" /\ dealt # <<>> => Wheel!Quick3Return(dealt[1]) <= 216 * 100

(* Backing both sides of a game never gains, whatever the cards, and no    *)
(* bet on a wheel gains over all its numbers (redblack.cpp, baccarat.cpp,  *)
(* cbaccarat.cpp, bullfight.cpp, roulette.cpp, quick3.cpp): said of the    *)
(* bet types the games name.                                               *)
OddsKeepEdge == NoSureWin /\ WheelsKeepEdge

-----------------------------------------------------------------------------
(* get of eosfaucet: every account may ask once.  The transfer runs        *)
(* inline; without the coins all of it is undone.                          *)
FaucetInit == limit = EmptyTable /\ owned = Stock /\ got = [u \in Users |-> 0]
GetCoins(user) ==
    /\ part = "faucet"
    /\ user \notin DOMAIN limit
    /\ owned >= Gift
    /\ limit' = Put(limit, user, user)
    /\ owned' = owned - Gift
    /\ got' = [got EXCEPT ![user] = @ + Gift]

(* The table tells who has received coins, each the same.                  *)
GivenOnce == \A u \in Users : got[u] = (IF u \in DOMAIN limit THEN Gift ELSE 0)

-----------------------------------------------------------------------------
(* A table that is not looked at is empty, and no memo is read.            *)
TableInit == MIInit /\ (part # "table" => rows = EmptyTable)
ReaderRests ==
    memo = <<>> /\ cursor = 1 /\ state = "head" /\ referer = Nobody /\ slip = <<>> /\ reads = 0

LibraryInit ==
    /\ part \in Parts
    /\ DealsInit /\ TableInit /\ Boxes!Init /\ Money!Init /\ Notices!Init /\ FaucetInit
    /\ IF part = "memo" THEN Reader!Init ELSE ReaderRests

LibraryNext ==
    /\ UNCHANGED part
    /\ \/ DealsNext /\ UNCHANGED <<vars, optional, currency, reader, notices, faucet>>
       \/ part = "table" /\ MINext /\ UNCHANGED <<table, optional, currency, reader, notices, faucet>>
       \/ part = "optional" /\ Boxes!Next /\ UNCHANGED <<table, vars, currency, reader, notices, faucet>>
       \/ part = "currency" /\ Money!Next /\ UNCHANGED <<table, vars, optional, reader, notices, faucet>>
       \/ part = "memo" /\ Reader!Next /\ UNCHANGED <<table, vars, optional, currency, notices, faucet>>
       \/ part = "notices" /\ Notices!Next /\ UNCHANGED <<table, vars, optional, currency, reader, faucet>>
       \/ (\E user \in Users : GetCoins(user)) /\ UNCHANGED <<table, vars, optional, currency, reader, notices>>

LibrarySpec == LibraryInit /\ [][LibraryNext]_library

-----------------------------------------------------------------------------
(* A memo is read once from its beginning to its end, and names a referer  *)
(* who is not the player.                                                  *)
MemoRead == part = "memo" => Reader!MemoReadOnce /\ Reader!RefererUsable

(* What games, holders of a token and visitors of the faucet have is what  *)
(* was transferred to them.                                                *)
AccountsMatch == Money!SupplyHeld /\ Notices!StakesFunded /\ GivenOnce
=============================================================================
