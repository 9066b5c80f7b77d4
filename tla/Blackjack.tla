------------------------------ MODULE Blackjack ------------------------------
(***************************************************************************)
(* blackjack: one game per player.  A transfer opens it, the player plays  *)
(* actions, and every action waits in a table until the operator's backend *)
(* resolves it with a signed seed, which deals the cards.  A game that     *)
(* stands is closed at once: the bank draws, and the payout goes out over  *)
(* two deferred calls, the contract's own pay and then the house's.        *)
(*                                                                         *)
(* A card is its points, 1 for an ace up to 10.  Times are kept as the     *)
(* seconds left until cleargames may erase a game.  Left out: seeds,       *)
(* referers, the time of the closing, the cards shown in the history, and  *)
(* the flag insured, which nothing sets.                                   *)
(***************************************************************************)
EXTENDS Tables, FiniteSetsExt, SequencesExt

CONSTANTS
    Players,       \* accounts that play
    Amounts,       \* stakes they transfer
    CardPoints,    \* points of the cards that can be dealt (code: 1 to 10)
    Moves,         \* the actions a player passes to playeraction
    UnsetResults,  \* what the result of a new game, never assigned, may hold
    GlobalWrites,  \* the pairs <<key, value>> the operator passes to setglobal
    MinBet, MaxPayout, \* the limits in the house's token row of the game
    GameMaxTime,   \* GAME_MAX_TIME in seconds (code: 1200)
    HistorySize,   \* GAME_MAX_HISTORY_SIZE (code: 50)
    TimeSteps,     \* how far the clock may move in one step
    MaxGames, MaxHardCloses \* bounds of the state space

PlayerMoves == {"hit", "double", "insure", "stand", "surrender"}
Counters == {"game", "history"}
Results == {"none", "surrender", "win", "lose", "push"}

ASSUME BlackjackAssumption ==
    /\ Amounts \subseteq Nat \ {0} /\ CardPoints \subseteq 1 .. 10
    /\ Moves \subseteq PlayerMoves /\ UnsetResults \subseteq Results
    /\ GlobalWrites \subseteq Counters \X Nat
    /\ MinBet \in Nat /\ MaxPayout \in Nat /\ GameMaxTime \in Nat
    /\ HistorySize \in Nat \ {0} /\ TimeSteps \subseteq Nat
    /\ MaxGames \in Nat /\ MaxHardCloses \in Nat

VARIABLES
    games,    \* table games: player -> his last game
    actions,  \* table actions: game id -> the action that waits for resolve
    globals,  \* table globals: the two counters
    results,  \* table results: slot -> [player, bet, payout, result]
    deferred, \* the pending deferred call by sender id, the player's name:
              \* [to, id, bet, payout], "pay" for our own, then "house"
    paid, lost, \* history: games whose payment was made, and games that will
                \* never be paid, payments that failed included
    forced    \* history: how often the operator closed a game by hand

rows == <<games, actions, globals, results>>
ghosts == <<paid, lost, forced>>
vars == <<rows, deferred, ghosts>>

-----------------------------------------------------------------------------
(* cal_points: one ace counts 11 where that does not bust the hand.        *)
MaxPoints == 21
BankerStands == 17
Hard(cards) == FoldSeq(+, 0, cards)
CalPoints(cards) ==
    IF 1 \in ToSet(cards) /\ Hard(cards) + 10 <= MaxPoints THEN Hard(cards) + 10 ELSE Hard(cards)
NaturalByPoints(cards) == CalPoints(cards) = MaxPoints  \* fault: any 21 is a blackjack
Natural(cards) == CalPoints(cards) = MaxPoints /\ Len(cards) = 2

(* The hands the bank may hold once it has drawn up to 17.  Every card is  *)
(* worth a point at least, so 16 of them always get it there.              *)
DrawsOn17(points) == points <= BankerStands    \* fault: draws once too often
DrawsOn(points) == points < BankerStands
DrawOne(hands) ==
    UNION {IF DrawsOn(CalPoints(h)) THEN {Append(h, c) : c \in CardPoints} ELSE {h} : h \in hands}
DrawAll(hand) == {h \in FoldSet(LAMBDA i, hands : DrawOne(hands), {hand}, 2 .. BankerStands) :
                      CalPoints(h) >= BankerStands}

(* The row of a game after something changed it.                           *)
Row(gm, player_cards, banker_cards, status, result) ==
    [id |-> gm.id, left |-> gm.left, bet |-> gm.bet, status |-> status, result |-> result,
     player_cards |-> player_cards, banker_cards |-> banker_cards]

(* doClose: what the bank may draw against this game, and what is paid.    *)
BankerHands(gm) ==
    IF gm.status # "stood" \/ gm.result = "surrender" \/ CalPoints(gm.player_cards) > MaxPoints
    THEN {gm.banker_cards}
    ELSE IF Natural(gm.player_cards) THEN {Append(gm.banker_cards, c) : c \in CardPoints}
    ELSE DrawAll(gm.banker_cards)

WholeBet(bet) == bet                           \* fault: a surrender costs nothing
HalfBet(bet) == bet \div 2

Verdict(gm, banker) ==
    LET player == CalPoints(gm.player_cards)
        bank == CalPoints(banker)
        lose == [result |-> "lose", payout |-> 0]
        push == [result |-> "push", payout |-> gm.bet]
        win(amount) == [result |-> "win", payout |-> amount]
    IN  IF gm.status # "stood" THEN lose
        ELSE IF gm.result = "surrender" THEN [result |-> "surrender", payout |-> HalfBet(gm.bet)]
        ELSE IF player > MaxPoints THEN lose
        ELSE IF Natural(gm.player_cards) THEN
            IF bank = MaxPoints THEN push ELSE win((gm.bet * 25) \div 10)
        ELSE IF bank > MaxPoints \/ bank < player THEN win(gm.bet * 2)
        ELSE IF bank = player /\ ~Natural(banker) THEN push
        ELSE lose

-----------------------------------------------------------------------------
Init ==
    /\ games = EmptyTable
    /\ actions = EmptyTable
    /\ globals = [k \in Counters |-> 0]
    /\ results = EmptyTable
    /\ deferred = EmptyTable
    /\ paid = [p \in Players |-> {}]
    /\ lost = [p \in Players |-> {}]
    /\ forced = 0

(* A game a result may still come for: it is active, or its action waits.  *)
Open(p) ==
    IF p \in DOMAIN games /\ (games[p].status = "active" \/ games[p].id \in DOMAIN actions)
    THEN {games[p].id} ELSE {}

(* transfer: p stakes quantity on a new game, which takes the row of his   *)
(* last one; the first cards wait for resolve.                             *)
MayStart(p) == p \in DOMAIN games => games[p].status = "closed"

(* gm.result is not assigned: it is whatever the memory holds.             *)
OldResult(p, unset) ==                         \* fault: the last game's result stays
    IF p \in DOMAIN games THEN games[p].result ELSE unset
FirstResult(p, unset) == unset

Transfer(p, quantity) ==
    LET id == NextGlobal(globals, "game")
    IN  /\ quantity >= MinBet /\ quantity <= MaxPayout
        /\ MayStart(p)
        /\ id \notin DOMAIN actions
        /\ id <= MaxGames
        /\ globals' = Put(globals, "game", id)
        /\ \E unset \in UnsetResults :
               games' = Put(games, p, [id |-> id, left |-> GameMaxTime, bet |-> quantity,
                                       status |-> "active", result |-> FirstResult(p, unset),
                                       player_cards |-> <<>>, banker_cards |-> <<>>])
        /\ actions' = Put(actions, id, "new")
        /\ lost' = [lost EXCEPT ![p] = @ \cup Open(p)]
        /\ UNCHANGED <<results, deferred, paid, forced>>

(* playeraction: p names the game he means and what he plays.              *)
PlayerAction(p, id, move) ==
    /\ p \in DOMAIN games
    /\ games[p].status = "active" /\ games[p].id = id
    /\ id \notin DOMAIN actions
    /\ actions' = Put(actions, id, move)
    /\ UNCHANGED <<games, globals, results, deferred, ghosts>>

-----------------------------------------------------------------------------
StandsAbove(points) == points > MaxPoints      \* fault: a hand of 21 plays on
StandsAt(points) == points >= MaxPoints

(* The rows a game may have after an action; none when resolve aborts.     *)
Deal(gm, bank, player) ==
    Row(gm, player, bank, IF CalPoints(player) = MaxPoints THEN "stood" ELSE gm.status, gm.result)
Hit(gm, player) ==
    Row(gm, player, gm.banker_cards,
        IF StandsAt(CalPoints(player)) THEN "stood" ELSE gm.status, gm.result)
Stood(gm, result) == Row(gm, gm.player_cards, gm.banker_cards, "stood", result)

Played(gm, action) ==
    CASE action = "new" ->
            {Deal(gm, Append(gm.banker_cards, c[1]), gm.player_cards \o <<c[2], c[3]>>) :
                c \in [1 .. 3 -> CardPoints]}
      [] action = "hit" -> {Hit(gm, Append(gm.player_cards, c)) : c \in CardPoints}
      [] action = "stand" -> {Stood(gm, gm.result)}
      [] action = "surrender" /\ Len(gm.player_cards) = 2 -> {Stood(gm, "surrender")}
      [] OTHER -> {}

(* close: the bank draws, the row is closed, the result goes to the ring   *)
(* and the payout to the deferred pay, which no other call of this player  *)
(* may have under its sender id.                                           *)
HistorySlot == NextGlobalMod(globals, "history", HistorySize)
SenderAlways(p) == TRUE                        \* fault: payments overwrite each other
SenderFree(p) == p \notin DOMAIN deferred

Close(p, gm) ==
    \E bank \in BankerHands(gm) :
        LET verdict == Verdict(gm, bank)
        IN  /\ SenderFree(p)
            /\ games' = Put(games, p, Row(gm, gm.player_cards, bank, "closed", verdict.result))
            /\ globals' = Put(globals, "history", HistorySlot)
            /\ results' = Put(results, HistorySlot, [player |-> p, bet |-> gm.bet,
                                  payout |-> verdict.payout, result |-> verdict.result])
            /\ deferred' = Put(deferred, p, [to |-> "pay", id |-> gm.id, bet |-> gm.bet,
                                             payout |-> verdict.payout])
            /\ UNCHANGED ghosts

(* The game goes on; one that was closed by hand stays closed, for good.   *)
GoOn(p, gm) ==
    /\ games' = Put(games, p, gm)
    /\ lost' = IF gm.status = "closed" THEN [lost EXCEPT ![p] = @ \cup {gm.id}] ELSE lost
    /\ UNCHANGED <<globals, results, deferred, paid, forced>>

(* resolve erases the action, with its game or without one.                *)
KeepResolved(id) == actions                    \* fault: a resolved action stays
EraseFound(id) ==                              \* fault: erased only with its game
    IF \E p \in DOMAIN games : games[p].id = id THEN Erase(actions, {id}) ELSE actions
EraseResolved(id) == Erase(actions, {id})

Resolve(id) ==
    /\ id \in DOMAIN actions
    /\ actions' = EraseResolved(id)
    /\ \/ \E p \in DOMAIN games :
              /\ games[p].id = id
              /\ \E gm \in Played(games[p], actions[id]) :
                     \/ gm.status = "stood" /\ Close(p, gm)
                     \/ gm.status # "stood" /\ GoOn(p, gm)
       \/ /\ \A p \in DOMAIN games : games[p].id # id
          /\ UNCHANGED <<games, globals, results, deferred, ghosts>>

-----------------------------------------------------------------------------
(* hardclose: the operator closes a game whatever its state, and leaves    *)
(* the action that waits for it.                                           *)
HardClose(id) ==
    \E p \in DOMAIN games :
        LET gm == games[p]
        IN  /\ gm.id = id
            /\ forced < MaxHardCloses
            /\ games' = Put(games, p, Row(gm, gm.player_cards, gm.banker_cards, "closed", gm.result))
            /\ lost' = IF gm.status = "active" /\ id \notin DOMAIN actions
                       THEN [lost EXCEPT ![p] = @ \cup {id}] ELSE lost
            /\ forced' = forced + 1
            /\ UNCHANGED <<actions, globals, results, deferred, paid>>

(* cleargames erases the num oldest games among those whose time is up,    *)
(* which may be any of them here, in whatever state they are.              *)
Expired == {p \in DOMAIN games : games[p].left = 0}
ClearGames(S) ==
    /\ S \subseteq Expired /\ S # {}
    /\ games' = Erase(games, S)
    /\ lost' = [p \in Players |-> IF p \in S THEN lost[p] \cup Open(p) ELSE lost[p]]
    /\ UNCHANGED <<actions, globals, results, deferred, paid, forced>>

SetGlobal(key, value) ==
    /\ globals' = Put(globals, key, value)
    /\ UNCHANGED <<games, actions, results, deferred, ghosts>>

-----------------------------------------------------------------------------
(* The platform.  The contract's pay sends the house's under the same      *)
(* sender id, which its own run has set free.                              *)
RunPay(p) ==
    /\ p \in DOMAIN deferred /\ deferred[p].to = "pay"
    /\ deferred' = Put(deferred, p, [to |-> "house", id |-> deferred[p].id,
                                     bet |-> deferred[p].bet, payout |-> deferred[p].payout])
    /\ UNCHANGED <<rows, ghosts>>

RunHousePay(p) ==
    /\ p \in DOMAIN deferred /\ deferred[p].to = "house"
    /\ deferred' = Erase(deferred, {p})
    /\ paid' = [paid EXCEPT ![p] = @ \cup {deferred[p].id}]
    /\ UNCHANGED <<rows, lost, forced>>

FailDeferred(p) ==
    /\ p \in DOMAIN deferred
    /\ deferred' = Erase(deferred, {p})
    /\ lost' = [lost EXCEPT ![p] = @ \cup {deferred[p].id}]
    /\ UNCHANGED <<rows, paid, forced>>

Less(t, d) == IF t > d THEN t - d ELSE 0
Aged(gm, d) ==
    [id |-> gm.id, left |-> Less(gm.left, d), bet |-> gm.bet, status |-> gm.status,
     result |-> gm.result, player_cards |-> gm.player_cards, banker_cards |-> gm.banker_cards]
Tick(d) ==
    /\ games' = [p \in DOMAIN games |-> Aged(games[p], d)]
    /\ UNCHANGED <<actions, globals, results, deferred, ghosts>>

Play == \E p \in Players :
            \/ \E quantity \in Amounts : Transfer(p, quantity)
            \/ \E id \in 1 .. MaxGames, move \in Moves : PlayerAction(p, id, move)
Operate == \/ \E id \in 1 .. MaxGames : HardClose(id)
           \/ \E S \in SUBSET Players : ClearGames(S)
           \/ \E w \in GlobalWrites : SetGlobal(w[1], w[2])
Deliver == \E p \in Players : RunPay(p) \/ RunHousePay(p) \/ FailDeferred(p)

Next ==
    \/ Play
    \/ \E id \in 1 .. MaxGames : Resolve(id)
    \/ Operate
    \/ Deliver
    \/ \E d \in TimeSteps : Tick(d)

Spec == Init /\ [][Next]_vars

(* The backend resolves what waits, the platform disposes of every         *)
(* deferred call.  Nobody has to play, and no operator has to help.        *)
Fairness ==
    /\ \A id \in 1 .. MaxGames : WF_vars(Resolve(id))
    /\ \A p \in Players : WF_vars(RunPay(p) \/ RunHousePay(p) \/ FailDeferred(p))
FairSpec == Spec /\ Fairness

-----------------------------------------------------------------------------
(* A game that is active and waits for nothing can be played: both sides   *)
(* have their cards and the player's hand is under 21.  A game with 21 was *)
(* closed by the step that dealt it.                                       *)
HandsInPlay ==
    \A p \in DOMAIN games :
        games[p].status = "active" /\ games[p].id \notin DOMAIN actions =>
            /\ Len(games[p].player_cards) >= 2 /\ Len(games[p].banker_cards) = 1
            /\ CalPoints(games[p].player_cards) < MaxPoints

(* The bank draws to 17 and stops there, unless the player's hand decides  *)
(* the game alone.                                                         *)
BankStopsAt17 ==
    \A p \in DOMAIN games :
        LET bank == games[p].banker_cards
        IN  Len(bank) > 1 /\ ~Natural(games[p].player_cards) =>
                CalPoints(bank) >= BankerStands /\ CalPoints(Front(bank)) < BankerStands

(* The hands of both sides are such as the rules let them draw.            *)
HandsByTheRules == HandsInPlay /\ BankStopsAt17

(* The rules of the game, told by comparing ranks: a bust hand is worth    *)
(* nothing, a blackjack beats every other 21.                              *)
Rank(cards) == CASE CalPoints(cards) > MaxPoints -> 0
                 [] CalPoints(cards) = MaxPoints /\ Len(cards) = 2 -> MaxPoints + 1
                 [] OTHER -> CalPoints(cards)
RulesPay(gm) ==
    LET player == Rank(gm.player_cards)
        bank == Rank(gm.banker_cards)
    IN  IF gm.result = "surrender" THEN gm.bet \div 2
        ELSE IF player = 0 \/ player < bank THEN 0
        ELSE IF player = bank THEN gm.bet
        ELSE IF player = MaxPoints + 1 THEN (gm.bet * 25) \div 10
        ELSE 2 * gm.bet

(* The payment on its way is what the rules of blackjack give for the      *)
(* hands the game ended with.                                              *)
PaidByTheRules ==
    \A p \in DOMAIN deferred \cap DOMAIN games :
        deferred[p].id = games[p].id =>
            games[p].status = "closed" /\ deferred[p].payout = RulesPay(games[p])

(* Half the stake goes back only for a surrender the player played, if the *)
(* result that nothing assigns does not happen to be one                   *)
(* (blackjack.cpp:108, :205).                                              *)
Surrenders(p) ==
    /\ p \in DOMAIN games /\ games[p].status = "active"
    /\ games'[p].status = "closed" /\ games'[p].result = "surrender" /\ deferred' # deferred
HalfForSurrender ==
    [][\A p \in DOMAIN games' : Surrenders(p) => actions[games[p].id] = "surrender"]_vars

(* Whatever the memory held: a game in play has the result its transfer    *)
(* left, never one of an earlier game of the row, a failed surrender or a  *)
(* deal, and half the stake goes back for that result or for a surrender   *)
(* that was played, and for nothing else (blackjack.cpp:91-117, :166-238). *)
HalfAsRecorded ==
    [][\A p \in DOMAIN games' :
          /\ games'[p].status = "active" => games'[p].result \in UnsetResults
          /\ Surrenders(p) => \/ actions[games[p].id] = "surrender"
                              \/ games[p].result = "surrender"]_vars

(* No action of a player waits for ever, whatever the operator does with   *)
(* his game meanwhile, if it is one that resolve knows: a hit or a stand.  *)
ActionsAnswered == \A id \in 1 .. MaxGames : id \in DOMAIN actions ~> id \notin DOMAIN actions

(* What the contract promises for each game: a game is open while a result *)
(* may come for it, due while its payment is on the way.                   *)
Due(p) == IF p \in DOMAIN deferred THEN {deferred[p].id} ELSE {}
W == INSTANCE Wager WITH
        Bets <- 1 .. MaxGames,
        open <- [p \in Players |-> Open(p)],
        due <- [p \in Players |-> Due(p)]

(* A game is settled once and paid at most once, and never comes back      *)
(* after it was given up, hard closes and erased rows included.            *)
WagerSpec == W!Spec

(* Every game is open, due, paid or lost, one of them, and of one player.  *)
OneStage == W!OnePlace
=============================================================================
