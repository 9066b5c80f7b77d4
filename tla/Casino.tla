-------------------------------- MODULE Casino --------------------------------
(***************************************************************************)
(* The house and a game of its own, dice, from the stake to the payment.   *)
(* The contracts share transactions and read each other's tables:          *)
(*   - a bet is taken by dice, which reads its token row of the house and  *)
(*     sends the stake on inline, so that both take it or neither;         *)
(*   - the last of a bet's two deferred calls is an action of the house,   *)
(*     which pays now or leaves the payment to the operator;               *)
(*   - the init of dice is a deferred call of the house.                   *)
(* House and Dice are composed by the conjunction of their actions.        *)
(*                                                                         *)
(* Left out: other games, whose rows are their own, tokens other than EOS, *)
(* rewards and chests, which are paid for no bet, and the clock.           *)
(***************************************************************************)
EXTENDS House

CONSTANTS
    DiceGame,    \* the account of dice
    GameId,      \* the id it is registered with
    Numbers,     \* roll predictions the players name
    Told,        \* names in the memos of the bets
    Chosen,     \* referers the players choose for themselves
    Faces,       \* rolls the revealed signature can give
    HistorySize, \* BET_HISTORY_LEN of dice
    MaxBets      \* bound of the state space

ASSUME CasinoNames ==
    /\ DiceGame \in Games /\ GameId \in GameIds
    /\ Told \cup Chosen \subseteq Players \cup Names \cup {Nobody}

VARIABLES
    globals, active, history, calls, paid, lost, \* of Dice
    terms,   \* what else the row of a bet and its calls carry: [bet, referer]
    queue,   \* history: the bet a row of unpaid is the payment of
    dropped  \* history: the bets whose queued payment the operator dropped

diceVars == <<globals, active, history, calls, paid, lost>>
ours == <<terms, queue, dropped>>
casinoVars == <<vars, diceVars, ours>>

(* The limits of the row are tested here, at the value they have now.      *)
D == INSTANCE Dice WITH Amounts <- Stakes, Rolls <- Faces, MinBet <- 0, MaxPayout <- Width

ASSUME CasinoDice == D!DiceAssumption

Row == <<DiceGame, EOS>>

CasinoInit ==
    /\ Init /\ D!Init
    /\ terms = EmptyTable /\ queue = EmptyTable /\ dropped = {}

(* transfer_to_house: the row's limits at this moment.                     *)
InLimits(amount, max) == amount >= tokens[Row].min /\ max <= tokens[Row].max_payout

(* get_referer: an account other than the player, or else the house.       *)
RefererTold(p, name) == IF name \in Accounts \ {p} THEN name ELSE Self

(* transfer of dice, with the transfer of the house it sends inline.       *)
Bet(p, amount, number, name) ==
    /\ Row \in DOMAIN tokens
    /\ InLimits(amount, D!Reward(amount, number))
    /\ D!Transfer(p, amount, number)
    /\ Stake(DiceGame, p, EOS, amount)
    /\ terms' = Put(terms, D!BetId, [bet |-> amount, referer |-> RefererTold(p, name)])
    /\ UNCHANGED <<queue, dropped>>

(* What dice does alone: reveal, and the first deferred call.              *)
DiceStep ==
    /\ \/ \E id \in 1 .. MaxBets, roll \in Faces : D!Reveal(id, roll)
       \/ \E p \in Players : D!Pay(p)
    /\ UNCHANGED <<vars, ours>>

(* The second deferred call: the house pays, or queues the payment.        *)
RunPayment(p) ==
    /\ D!RunPayment(p)
    /\ \E id \in calls[p].bets :
          \/ /\ PayNow(DiceGame, p, EOS, terms[id].bet, calls[p].payout, terms[id].referer)
             /\ UNCHANGED queue
          \/ /\ PayLater(DiceGame, p, EOS, terms[id].bet, calls[p].payout, terms[id].referer)
             /\ \E u \in 0 .. MaxUnpaid - 1 : IsNextId(u) /\ queue' = Put(queue, u, id)
    /\ UNCHANGED <<terms, dropped>>

(* A call expires, or aborts as the house refuses the payment.             *)
FailCall(p) == D!FailCall(p) /\ UNCHANGED <<vars, ours>>

(* settleunpaid, either way.                                               *)
Settle(u) ==
    /\ SettleUnpaid(u)
    /\ queue' = Erase(queue, {u})
    /\ UNCHANGED <<diceVars, terms, dropped>>
Discard(u) ==
    /\ DropUnpaid(u)
    /\ dropped' = dropped \cup {queue[u]} /\ queue' = Erase(queue, {u})
    /\ UNCHANGED <<diceVars, terms>>

(* addgame, and the init of dice that the house has put off.               *)
Register == AddGame(DiceGame, GameId) /\ UNCHANGED <<diceVars, ours>>
InitGame ==
    /\ RunInit
    /\ D!InitGlobals \/ UNCHANGED diceVars
    /\ UNCHANGED ours

(* What else the house does meanwhile.                                     *)
HouseStep ==
    /\ \/ \E on \in BOOLEAN : SetActive(DiceGame, on)
       \/ \E min \in Mins, max \in Maxes, balance \in Balances :
             UpdateToken(DiceGame, EOS, min, max, balance)
       \/ \E amount \in Deposits : Deposit(DiceGame, EOS, amount)
       \/ \E p \in Players, referer \in Chosen : SetReferer(p, referer)
    /\ UNCHANGED <<diceVars, ours>>

CasinoNext ==
    \/ \E p \in Players, amount \in Stakes, number \in Numbers, name \in Told :
          Bet(p, amount, number, name)
    \/ DiceStep
    \/ \E p \in Players : RunPayment(p) \/ FailCall(p)
    \/ \E u \in DOMAIN unpaid : Settle(u) \/ Discard(u)
    \/ Register \/ InitGame
    \/ HouseStep

CasinoSpec == CasinoInit /\ [][CasinoNext]_casinoVars

-----------------------------------------------------------------------------
(* Where the money of each bet is.  What is owed is read from where it     *)
(* waits: the call under way, then the row of the queue.                   *)
Staked == {[bet |-> id, player |-> active[id].player, amount |-> active[id].bet] : id \in DOMAIN active}

OfCall(p) == {[bet |-> id, player |-> p, amount |-> calls[p].payout] : id \in calls[p].bets}
OfRow(u) == [bet |-> queue[u], player |-> unpaid[u].player, amount |-> unpaid[u].payout]
Owed == (UNION {OfCall(p) : p \in DOMAIN calls}) \cup {OfRow(u) : u \in DOMAIN queue}

Queued == {queue[u] : u \in DOMAIN queue}
Everyone(f) == UNION {f[p] : p \in Players}

L == INSTANCE Ledger WITH
        Bets <- 1 .. MaxBets,
        open <- Staked,
        owed <- Owed,
        paid <- Everyone(paid) \ (Queued \cup dropped),
        void <- Everyone(lost) \cup dropped,
        staked <- [p \in Players |-> Player(p).in],
        booked <- [p \in Players |-> Player(p).out],
        sent <- [p \in Players |-> sent[p][EOS]]

(* The casino keeps the promise of Ledger: what dice decided for a bet is  *)
(* sent by the house to its player, in that amount, once or never; and the *)
(* house's books of stakes and payouts are those of the bets.  Between the *)
(* two lie deferred calls that are late, fail or stand in the way, queued  *)
(* payments settled in any order or dropped, reused ids, and an operator   *)
(* who moves limits and balances or stops the game.                        *)
KeepsLedger == L!Spec
=============================================================================
