------------------------------ MODULE RoundGame ------------------------------
(***************************************************************************)
(* The round based games (redblack, baccarat, cbaccarat, roulette,         *)
(* bullfight, quick3): one contract text, the macros of                    *)
(* common/round_based_contract.hpp, around one table of odds per game.     *)
(*                                                                         *)
(* A round collects bets until GAME_REVEAL_PRESET seconds before its end;  *)
(* from then on the operator may reveal it, which settles all bets, sends  *)
(* one deferred payment per player and a deferred newround.                *)
(*                                                                         *)
(* Times are kept as the seconds left.  The contract has one game row, for *)
(* EOS: init is the only caller of initsymbol.  init comes before any      *)
(* other action.  Left out: seed and signature, referers, the largest      *)
(* winner shown to the players, cards, receipts, the type, the result and  *)
(* the time of a history row.                                              *)
(***************************************************************************)
EXTENDS Tables, FiniteSetsExt, SequencesExt

CONSTANTS
    Players,      \* accounts that bet
    BetTypes,     \* what can be bet on
    Outcomes,     \* what a reveal can draw
    Rate,         \* the odds: percent of the stake paid, by outcome and type
    GameLength,   \* GAME_LENGTH, seconds a round lasts (code: 40 to 60)
    ResolveTime,  \* GAME_RESOLVE_TIME, seconds between rounds (12 to 25)
    HistorySize,  \* HISTORY_SIZE, length of the ring of bets (40 to 100)
    ResultSize,   \* RESULT_SIZE, length of the ring of results (60 or 100)
    MinBet, MaxPayout, \* the limits in the house's token row of the game
    Slips,        \* the lists of bets a transfer's memo can hold
    GlobalWrites, \* the pairs <<key, value>> the operator passes to setglobal
    TimeSteps,    \* how far the clock may move in one step
    MaxRound, MaxBets, MaxHardCloses \* bounds of the state space

ASSUME GameAssumption ==
    /\ GameLength \in Nat /\ ResolveTime \in Nat
    /\ HistorySize \in Nat \ {0} /\ ResultSize \in Nat \ {0, 1}
    /\ MinBet \in Nat /\ MaxPayout \in Nat
    /\ \A o \in Outcomes, t \in BetTypes : Rate[o][t] \in Nat
    /\ Slips \subseteq Seq([type : BetTypes, amount : Nat])
    /\ GlobalWrites \subseteq {"game", "bet", "history", "result"} \X Nat
    /\ TimeSteps \subseteq Nat
    /\ MaxRound \in Nat /\ MaxBets \in Nat

VARIABLES
    game,       \* the row of table activegame: [id, left, status]
    globals,    \* table globals: the four counters
    bets,       \* table bets: id -> [game_id, player, bet, bet_type]
    bet_amount, \* table betamount: player -> what he staked this round
    history,    \* table histories: slot -> [history_id, player, bet, payout]
    results,    \* table results: slot -> [game_id, result]
    payments,   \* the pending deferred pay transactions, by sender id
    restart,    \* seconds until the deferred newround, Idle when none pending
    paid, lost, \* history: bets whose payment ran, and whose payment failed
    forced      \* history: rounds that were closed without a reveal

rows == <<game, globals, bets, bet_amount, history, results>>
ghosts == <<paid, lost, forced>>
vars == <<rows, payments, restart, ghosts>>

GameRevealPreset == 5
Idle == -1

-----------------------------------------------------------------------------
(* The tests of the code on the state of the round.                        *)
Standby == game.status = "standby"
Active == game.status = "active"
CanStartAgain == game.left = 0                 \* fault: the status is not tested
CanStart == Standby /\ game.left = 0
BetsOpenLate == game.left >= GameRevealPreset  \* fault: both tests include the instant
BetsOpen == game.left > GameRevealPreset
RevealEarly == game.left >= GameRevealPreset   \* fault: the comparison turned around
RevealOpen == game.left <= GameRevealPreset

BetsOf(p) == {b \in DOMAIN bets : bets[b].player = p}
Bettors == {bets[b].player : b \in DOMAIN bets}

Init ==
    /\ game = [id |-> 0, left |-> 0, status |-> "none"]
    /\ globals = EmptyTable
    /\ bets = EmptyTable
    /\ bet_amount = EmptyTable
    /\ history = EmptyTable
    /\ results = EmptyTable
    /\ payments = EmptyTable
    /\ restart = Idle
    /\ paid = [p \in Players |-> {}]
    /\ lost = [p \in Players |-> {}]
    /\ forced = {}

(* init: the game row is created once.                                     *)
InitSymbol ==
    /\ game.status = "none"
    /\ globals' = Put(globals, "game", NextGlobal(globals, "game"))
    /\ game' = [id |-> NextGlobal(globals, "game"), left |-> 0, status |-> "standby"]
    /\ UNCHANGED <<bets, bet_amount, history, results, payments, restart, ghosts>>

(* The round that newround starts.                                         *)
Started == [id |-> game.id, left |-> GameLength, status |-> "active"]

(* newround, called by the operator.                                       *)
NewRound ==
    /\ CanStart /\ game.id < MaxRound
    /\ game' = Started
    /\ UNCHANGED <<globals, bets, bet_amount, history, results, payments, restart, ghosts>>

(* The stake of player p in this round after a transfer of quantity.       *)
LastQuantity(p, quantity) == quantity          \* fault: earlier transfers are forgotten
TotalBet(p, quantity) == quantity + IF p \in DOMAIN bet_amount THEN bet_amount[p] ELSE 0

LimitPerTransfer(quantity, total) ==           \* fault: tests the transfer, not the total
    quantity >= MinBet /\ quantity <= MaxPayout
WithinLimit(quantity, total) == quantity >= MinBet /\ total <= MaxPayout

IsSomeId(id) == id <= game.id                  \* fault: an older round will do
IsActiveId(id) == game.id = id

(* The ids and rows of the bets on a slip.                                 *)
CountedBets == Cardinality(DOMAIN bets)        \* fault: ids start over every round
LastBetId == Global(globals, "bet")
FreshIds(n) == LastBetId + 1 .. LastBetId + n
NewBets(p, id, slip) ==
    [b \in FreshIds(Len(slip)) |->
        LET line == slip[b - LastBetId]
        IN [game_id |-> id, player |-> p, bet |-> line.amount, bet_type |-> line.type]]

SlipTotal(slip) == SumFunction([i \in DOMAIN slip |-> slip[i].amount])

(* transfer: player p bets quantity, split over the lines of the slip, on  *)
(* the round with this id.  The first bet after a break starts the round.  *)
Transfer(p, id, slip, quantity) ==
    LET total == TotalBet(p, quantity)
        ids == FreshIds(Len(slip))
    IN  /\ game.status # "none" /\ quantity > 0
        /\ WithinLimit(quantity, total)
        /\ IsActiveId(id)
        /\ \/ CanStart /\ game' = Started
           \/ Active /\ BetsOpen /\ UNCHANGED game
        /\ \A i \in DOMAIN slip : slip[i].amount > 0
        /\ quantity = SlipTotal(slip)
        /\ ids \cap DOMAIN bets = {}
        /\ game.id < MaxRound /\ LastBetId + Len(slip) <= MaxBets
        /\ bets' = PutAll(bets, NewBets(p, id, slip))
        /\ bet_amount' = Put(bet_amount, p, total)
        /\ globals' = Put(globals, "bet", LastBetId + Len(slip))
        /\ UNCHANGED <<history, results, payments, restart, ghosts>>

-----------------------------------------------------------------------------
(* get_payout of every game.                                               *)
Payout(b, outcome) == (bets[b].bet * Rate[outcome][bets[b].bet_type]) \div 100

(* What p has at stake on the round.                                       *)
AtStake(p) == SumFunction([b \in BetsOf(p) |-> bets[b].bet])

(* The one payment a player gets: all his bets, the losing ones included.  *)
(* Every game has a REFERRAL_FACTOR of 1: the house hears the whole stake. *)
Payment(p, outcome) ==
    [bets |-> BetsOf(p),
     bet |-> AtStake(p),
     payout |-> SumFunction([b \in BetsOf(p) |-> Payout(b, outcome)])]

(* reveal walks the bets by game id, then by id.                           *)
UpTo(b) == {c \in DOMAIN bets : \/ bets[c].game_id < bets[b].game_id
                                \/ bets[c].game_id = bets[b].game_id /\ c <= b}

(* The history number a bet gets, and the number the last one gets.        *)
HistoryId(b) == Global(globals, "history") + Cardinality(UpTo(b))
LastHistoryIdByRound == Global(globals, "history") + 1  \* fault: one per reveal
LastHistoryId == Global(globals, "history") + Cardinality(DOMAIN bets)

(* Every bet is written in its slot; the last one written there stays.     *)
SlotFromOne(b) == (HistoryId(b) % HistorySize) + 1      \* fault: slots 1 to HISTORY_SIZE
Slot(b) == HistoryId(b) % HistorySize
HistoryRows(outcome) ==
    [s \in {Slot(b) : b \in DOMAIN bets} |->
        LET b == CHOOSE c \in DOMAIN bets :
                    /\ Slot(c) = s
                    /\ \A d \in DOMAIN bets : Slot(d) = s => HistoryId(d) <= HistoryId(c)
        IN [history_id |-> HistoryId(b), player |-> bets[b].player,
            bet |-> bets[b].bet, payout |-> Payout(b, outcome)]]

(* Two pending transactions of a contract cannot share a sender id: sender *)
(* ids are the bettors' names and, for newround, the contract's own.       *)
RestartFree == restart = Idle                  \* fault: payments overwrite each other
SendersFree == Bettors \cap DOMAIN payments = {} /\ restart = Idle

(* What hardclose and reveal leave: the next round's row, on standby.      *)
Between(wait) == [id |-> NextGlobal(globals, "game"), left |-> wait, status |-> "standby"]

LongResultSlot == NextGlobalMod(globals, "result", ResultSize + 1)  \* fault: off by one
ResultSlot == NextGlobalMod(globals, "result", ResultSize)

Reveal(outcome) ==
    /\ Active /\ RevealOpen
    /\ SendersFree
    /\ payments' = PutAll(payments, [p \in Bettors |-> Payment(p, outcome)])
    /\ history' = PutAll(history, HistoryRows(outcome))
    /\ globals' = Put(Put(Put(globals, "history", LastHistoryId),
                          "game", NextGlobal(globals, "game")), "result", ResultSlot)
    /\ results' = Put(results, ResultSlot, [game_id |-> game.id, result |-> outcome])
    /\ game' = Between(ResolveTime)
    /\ bets' = EmptyTable
    /\ bet_amount' = EmptyTable
    /\ restart' = ResolveTime
    /\ UNCHANGED ghosts

(* hardclose: the operator ends the round; its bets stay in the table.     *)
HardClose ==
    /\ game.status # "none"
    /\ game.id + 1 < MaxRound /\ Cardinality(forced) < MaxHardCloses
    /\ globals' = Put(globals, "game", NextGlobal(globals, "game"))
    /\ game' = Between(0)
    /\ forced' = forced \cup {game.id}
    /\ UNCHANGED <<bets, bet_amount, history, results, payments, restart, paid, lost>>

(* setglobal: the operator overwrites a counter.                           *)
SetGlobal(key, value) ==
    /\ globals' = Put(globals, key, value)
    /\ UNCHANGED <<game, bets, bet_amount, history, results, payments, restart, ghosts>>

-----------------------------------------------------------------------------
(* The platform: deferred transactions run or fail, time passes.  No       *)
(* contract handles onerror, so a failed one is gone.                      *)
RunPayment(p) ==
    /\ p \in DOMAIN payments
    /\ payments' = Erase(payments, {p})
    /\ paid' = [paid EXCEPT ![p] = @ \cup payments[p].bets]
    /\ UNCHANGED <<rows, restart, lost, forced>>

FailPayment(p) ==
    /\ p \in DOMAIN payments
    /\ payments' = Erase(payments, {p})
    /\ lost' = [lost EXCEPT ![p] = @ \cup payments[p].bets]
    /\ UNCHANGED <<rows, restart, paid, forced>>

RunRestart ==
    /\ restart = 0
    /\ restart' = Idle
    /\ CanStart /\ game.id < MaxRound
    /\ game' = Started
    /\ UNCHANGED <<globals, bets, bet_amount, history, results, payments, ghosts>>

(* The deferred newround found the round started or not resolved, or       *)
(* failed for a reason of the platform's.                                  *)
FailRestart ==
    /\ restart = 0
    /\ restart' = Idle
    /\ UNCHANGED <<rows, payments, ghosts>>

Less(t, d) == IF t > d THEN t - d ELSE 0

Tick(d) ==
    /\ game' = [id |-> game.id, left |-> Less(game.left, d), status |-> game.status]
    /\ restart' = IF restart = Idle THEN Idle ELSE Less(restart, d)
    /\ UNCHANGED <<globals, bets, bet_amount, history, results, payments, ghosts>>

Operate == NewRound \/ HardClose \/ \E w \in GlobalWrites : SetGlobal(w[1], w[2])
Bet == \E p \in Players, id \in 0 .. MaxRound, slip \in Slips, quantity \in 1 .. MaxPayout :
           Transfer(p, id, slip, quantity)
Deliver == \/ \E p \in Players : RunPayment(p) \/ FailPayment(p)
           \/ RunRestart \/ FailRestart

Next ==
    \/ InitSymbol
    \/ Operate
    \/ Bet
    \/ \E o \in Outcomes : Reveal(o)
    \/ Deliver
    \/ \E d \in TimeSteps : Tick(d)

Spec == Init /\ [][Next]_vars

(* Time passes, the platform disposes of every deferred transaction, and   *)
(* the operator reveals a round that can be revealed.                      *)
Fairness ==
    /\ WF_vars(\E d \in TimeSteps : Tick(d))
    /\ WF_vars(\E o \in Outcomes : Reveal(o))
    /\ WF_vars(RunRestart \/ FailRestart)
    /\ \A p \in Players : WF_vars(RunPayment(p) \/ FailPayment(p))
FairSpec == Spec /\ Fairness

-----------------------------------------------------------------------------
Counters == {"game", "bet", "history", "result"}
GameType == [id : Nat, left : Nat, status : {"none", "standby", "active"}]
BetType == [game_id : Nat, player : Players, bet : Nat, bet_type : BetTypes]
ResultType == [game_id : Nat, result : Outcomes]

(* The types of the tables, of the calls under way and of the history.     *)
Shape ==
    /\ game \in GameType
    /\ IsTable(globals, Counters, Nat)
    /\ IsTable(bets, 1 .. MaxBets, BetType)
    /\ IsTable(bet_amount, Players, Nat)
    /\ IsTable(results, Nat, ResultType)
    /\ IsTable(payments, Players, [bets : SUBSET Nat, bet : Nat, payout : Nat])
    /\ restart \in Nat \cup {Idle}
    /\ paid \in [Players -> SUBSET Nat] /\ lost \in [Players -> SUBSET Nat]
    /\ forced \subseteq Nat

(* The per-player total that the bet limit is tested with is the sum of    *)
(* the player's bets that are not settled, through hard closes too.        *)
StakesMatch ==
    \A p \in Players : (IF p \in DOMAIN bet_amount THEN bet_amount[p] ELSE 0) = AtStake(p)

(* No player has more at stake in a round than the house's limit, however  *)
(* he splits it over transfers.                                            *)
ExposureLimited == \A p \in Players : AtStake(p) <= MaxPayout

(* A bet waits for the result of the round it was placed on, unless the    *)
(* operator closed that round.                                             *)
OwnRound == \A b \in DOMAIN bets : bets[b].game_id \in {game.id} \cup forced

(* Once the operator may reveal, and so may know the result, no bet comes  *)
(* in or goes until the reveal settles them all.                           *)
BetsFrozen == [][Active /\ RevealOpen => bets' \in {bets, EmptyTable}]_vars

(* A newround that comes late, or twice, does not restart a round: while a *)
(* round is active its end does not move.                                  *)
RoundEndsOnTime == [][Active /\ Active' => game'.id = game.id /\ game'.left <= game.left]_vars

(* The history holds the last HISTORY_SIZE settled bets and no others.     *)
Least(m, n) == IF m < n THEN m ELSE n
HistoryRecent ==
    LET last == Global(globals, "history")
    IN  /\ IsTable(history, 0 .. HistorySize - 1,
                   [history_id : Nat, player : Players, bet : Nat, payout : Nat])
        /\ {history[s].history_id : s \in DOMAIN history}
               = last - Least(last, HistorySize) + 1 .. last

(* The ring of results holds the last RESULT_SIZE rounds: going back from  *)
(* the newest slot the rounds get older, over the wrap too.                *)
ResultsRecent ==
    LET age(s) == (Global(globals, "result") - s) % ResultSize
    IN /\ Cardinality(DOMAIN results) <= ResultSize
       /\ \A s, t \in DOMAIN results :
              age(s) < age(t) => results[s].game_id > results[t].game_id

(* Both rings, which wrap at different times, show what happened last.     *)
RingsRecent == HistoryRecent /\ ResultsRecent

(* Every bet is paid, or its payment fails, unless the operator closes a  *)
(* round by hand: late or failed deferred calls only delay the reveal.     *)
EveryBetAnswered ==
    \A p \in Players, b \in 1 .. MaxBets :
        b \in BetsOf(p) ~> (b \in paid[p] \cup lost[p] \/ forced # {})

(* What the game promises for each bet: open bets are those in the table,  *)
(* due ones those of the pending payment of their player.                  *)
Due(p) == IF p \in DOMAIN payments THEN payments[p].bets ELSE {}
W == INSTANCE Wager WITH
        Bets <- 1 .. MaxBets,
        open <- [p \in Players |-> BetsOf(p)],
        due <- [p \in Players |-> Due(p)]

(* Reveals, payments and their failures, hard closes and resets of the     *)
(* other counters keep the promise of Wager: a bet is settled once, with   *)
(* all the others, and paid at most once.                                  *)
WagerSpec == W!Spec

(* Every bet is open, due, paid or lost, one of them, and of one player.   *)
OneStage == W!OnePlace
=============================================================================
