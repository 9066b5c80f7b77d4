-------------------------------- MODULE Dice --------------------------------
(***************************************************************************)
(* dice: a player bets that a roll of 0 to 99 is below the number he       *)
(* names.  The stake goes to the house at once.  The backend reveals the   *)
(* roll; what it wins travels over two deferred transactions in a row,     *)
(* dice's own pay and then the house's, both under the player's name.      *)
(*                                                                         *)
(* Left out: seed and signature (the roll is any number), the referer, the *)
(* time, and the stray letters at dice.cpp:92 that keep the file from      *)
(* compiling.  The contract does not export its setglobal.                 *)
(***************************************************************************)
EXTENDS Tables, FiniteSetsExt

CONSTANTS
    Players,     \* accounts that bet
    Amounts,     \* stakes the players transfer
    Numbers,     \* roll predictions the players name
    Rolls,       \* rolls the revealed signature can give
    MinBet, MaxPayout, \* the limits in the house's token row of the game
    HistorySize, \* BET_HISTORY_LEN, length of the ring of past bets (40)
    MaxBets      \* bound of the state space

\* what the constants have to be
DiceAssumption ==
    /\ Amounts \subseteq Nat \ {0} /\ Numbers \subseteq 0 .. 255 /\ Rolls \subseteq 0 .. 99
    /\ MinBet \in Nat /\ MaxPayout \in Nat
    /\ HistorySize \in Nat \ {0} /\ MaxBets \in Nat

VARIABLES
    globals, \* table globals: the bet counter and the history index
    active,  \* table activebets: id -> [player, bet, number]
    history, \* table games: slot -> [id, player, bet, payout]
    calls,   \* the pending deferred transactions, by sender id, the player's name
    paid, lost \* history: bets whose payment ran, and whose calls failed

rows == <<globals, active, history>>
vars == <<rows, calls, paid, lost>>

Counters == {"bet", "history"}

-----------------------------------------------------------------------------
(* reward_amount: the stake times 98 over the number, rounded down.        *)
HouseEdge == 2
RewardOfBonus(bet, number) == (bet * (100 + HouseEdge)) \div number \* fault: the edge added
Reward(bet, number) == (bet * (100 - HouseEdge)) \div number
Payout(bet, number, roll) == IF roll < number THEN Reward(bet, number) ELSE 0

BetId == NextGlobal(globals, "bet")
BetOf(p, quantity, number) == [player |-> p, bet |-> quantity, number |-> number]

Init ==
    /\ globals = EmptyTable /\ active = EmptyTable /\ history = EmptyTable
    /\ calls = EmptyTable
    /\ paid = [p \in Players |-> {}] /\ lost = [p \in Players |-> {}]

(* init writes a zero to every counter that is missing.                    *)
InitGlobals ==
    /\ globals' = [k \in Counters |-> Global(globals, k)]
    /\ UNCHANGED <<active, history, calls, paid, lost>>

(* transfer: p bets quantity on a number.                                  *)
Transfer(p, quantity, number) ==
    /\ number >= 1 /\ number <= 97
    /\ quantity >= MinBet /\ Reward(quantity, number) <= MaxPayout
    /\ BetId \notin DOMAIN active /\ BetId <= MaxBets
    /\ globals' = Put(globals, "bet", BetId)
    /\ active' = Put(active, BetId, BetOf(p, quantity, number))
    /\ UNCHANGED <<history, calls, paid, lost>>

(* A deferred transaction is refused while one of the same sender waits.   *)
SenderAlways(p) == TRUE                        \* fault: it replaces the one that waits
SenderFree(p) == p \notin DOMAIN calls

(* reveal: the roll decides what the bet pays, and the bet is erased.      *)
RevealedOf(id) == {}                           \* fault: the bet is not erased
Revealed(id) == {id}
HistorySlot == NextGlobalMod(globals, "history", HistorySize)
Reveal(id, roll) ==
    /\ id \in DOMAIN active
    /\ SenderFree(active[id].player)
    /\ LET a == active[id]
           payout == Payout(a.bet, a.number, roll)
       IN  /\ history' = Put(history, HistorySlot,
                             [id |-> id, player |-> a.player, bet |-> a.bet, payout |-> payout])
           /\ calls' = Put(calls, a.player, [step |-> "pay", bets |-> {id}, payout |-> payout])
    /\ globals' = Put(globals, "history", HistorySlot)
    /\ active' = Erase(active, Revealed(id))
    /\ UNCHANGED <<paid, lost>>

(* pay, the first deferred call, sends the second, to the house.           *)
Pay(p) ==
    /\ p \in DOMAIN calls /\ calls[p].step = "pay"
    /\ calls' = Put(calls, p, [step |-> "payment", bets |-> calls[p].bets, payout |-> calls[p].payout])
    /\ UNCHANGED <<rows, paid, lost>>

(* The house pays.                                                         *)
RunPayment(p) ==
    /\ p \in DOMAIN calls /\ calls[p].step = "payment"
    /\ calls' = Erase(calls, {p})
    /\ paid' = [paid EXCEPT ![p] = @ \cup calls[p].bets]
    /\ UNCHANGED <<rows, lost>>

(* Either call fails or expires; nothing sends it again.                   *)
FailCall(p) ==
    /\ p \in DOMAIN calls
    /\ calls' = Erase(calls, {p})
    /\ lost' = [lost EXCEPT ![p] = @ \cup calls[p].bets]
    /\ UNCHANGED <<rows, paid>>

Deliver(p) == Pay(p) \/ RunPayment(p) \/ FailCall(p)
Next ==
    \/ InitGlobals
    \/ \E p \in Players, quantity \in Amounts, number \in Numbers : Transfer(p, quantity, number)
    \/ \E id \in 1 .. MaxBets, roll \in Rolls : Reveal(id, roll)
    \/ \E p \in Players : Deliver(p)

Spec == Init /\ [][Next]_vars

-----------------------------------------------------------------------------
(* Whatever number he names, the hundred rolls together pay the player of  *)
(* an open bet at most 98 of a hundred stakes: the rounding of             *)
(* reward_amount never turns the edge over.                                *)
Wins(a) == {Payout(a.bet, a.number, roll) : roll \in 0 .. 99}
AllRolls(a) ==
    MapThenSumSet(LAMBDA x : x * Cardinality({roll \in 0 .. 99 : Payout(a.bet, a.number, roll) = x}), Wins(a))
HouseKeepsEdge == \A id \in DOMAIN active : AllRolls(active[id]) <= 98 * active[id].bet

(* What the contract promises for each bet.                                *)
Open(p) == {id \in DOMAIN active : active[id].player = p}
Due(p) == IF p \in DOMAIN calls THEN calls[p].bets ELSE {}
W == INSTANCE Wager WITH
        Bets <- 1 .. MaxBets,
        open <- [p \in Players |-> Open(p)],
        due <- [p \in Players |-> Due(p)]

(* Every bet is revealed once and paid at most once, over two calls that   *)
(* may be late, fail, or stand in the way of the player's next reveal.     *)
WagerSpec == W!Spec
=============================================================================
