-------------------------------- MODULE Slots --------------------------------
(***************************************************************************)
(* slots: one spin per player at a time.  The stake goes to the house, the *)
(* backend reveals the spin, and a deferred pay of the contract's own,     *)
(* under the player's name, has the house pay it.  The row of a revealed   *)
(* spin stays until the player's next one overwrites it.                   *)
(*                                                                         *)
(* Left out: seed and signature (the value drawn is any number), the       *)
(* referer and the time.                                                   *)
(***************************************************************************)
EXTENDS Tables, Sequences, FiniteSetsExt

CONSTANTS
    Players,     \* accounts that play
    Amounts,     \* stakes the players transfer
    Values,      \* values the revealed signature can give, of 0 to 9999
    GlobalWrites, \* the pairs <<key, value>> the operator passes to setglobal
    MinBet, MaxPayout, \* the limits in the house's token row of the game
    HistorySize, \* BET_HISTORY_LEN, length of the ring of past spins (40)
    MaxBets      \* bound of the state space

Counters == {"bet", "history"}

\* what the constants have to be
SlotsAssumption ==
    /\ Amounts \subseteq Nat \ {0} /\ Values \subseteq 0 .. 9999
    /\ GlobalWrites \subseteq Counters \X Nat
    /\ MinBet \in Nat /\ MaxPayout \in Nat
    /\ HistorySize \in Nat \ {0} /\ MaxBets \in Nat

VARIABLES
    globals, \* table globals: the spin counter and the history index
    active,  \* table activegame: player -> [id, price, result]
    history, \* table history: slot -> [id, player, price, result]
    calls,   \* the pending deferred pay transactions, by sender id, the player
    paid, lost \* history: spins whose payment ran, and whose payment failed

rows == <<globals, active, history>>
vars == <<rows, calls, paid, lost>>

Empty == 65535 \* EMPTY_RESULT

-----------------------------------------------------------------------------
(* rewards: the stake is multiplied by result if the value drawn is below  *)
(* winNumber, the first that holds.                                        *)
Reward(result, winNumber) == [result |-> result, winNumber |-> winNumber]
WiderRewards == <<Reward(2, 3000), Reward(3, 6000), Reward(5, 6300), Reward(18, 6310), Reward(88, 6311)>> \* fault: the numbers taken for widths
Rewards == <<Reward(2, 2000), Reward(3, 3000), Reward(5, 3300), Reward(18, 3310), Reward(88, 3311)>>
Hits(value) == {i \in DOMAIN Rewards : value < Rewards[i].winNumber}
Result(value) == IF Hits(value) = {} THEN 0 ELSE Rewards[Min(Hits(value))].result

Init ==
    /\ globals = EmptyTable /\ active = EmptyTable /\ history = EmptyTable
    /\ calls = EmptyTable
    /\ paid = [p \in Players |-> {}] /\ lost = [p \in Players |-> {}]

InitGlobals ==
    /\ globals' = [k \in Counters |-> Global(globals, k)]
    /\ UNCHANGED <<active, history, calls, paid, lost>>

SetGlobal(key, value) ==
    /\ globals' = Put(globals, key, value)
    /\ UNCHANGED <<active, history, calls, paid, lost>>

(* transfer: a spin starts unless one is under way.                        *)
SpinId == NextGlobal(globals, "bet")
NothingOpen(p) == TRUE                         \* fault: a spin under way is overwritten
NotInProgress(p) == p \in DOMAIN active => active[p].result # Empty
Transfer(p, quantity) ==
    /\ NotInProgress(p)
    /\ quantity >= MinBet /\ quantity <= MaxPayout
    /\ SpinId <= MaxBets
    /\ globals' = Put(globals, "bet", SpinId)
    /\ active' = Put(active, p, [id |-> SpinId, price |-> quantity, result |-> Empty])
    /\ UNCHANGED <<history, calls, paid, lost>>

(* reveal: the row with this id, by the secondary index, once.             *)
MayRevealAgain(p) == TRUE                      \* fault: a revealed spin is revealed again
MayReveal(p) == active[p].result = Empty
SenderFree(p) == p \notin DOMAIN calls
HistorySlot == NextGlobalMod(globals, "history", HistorySize)
Reveal(p, value) ==
    LET a == active[p]
        result == Result(value)
    IN  /\ p \in DOMAIN active
        /\ MayReveal(p)
        /\ SenderFree(p)
        /\ calls' = Put(calls, p, [bets |-> {a.id}, reward |-> a.price * result])
        /\ active' = Put(active, p, [id |-> a.id, price |-> a.price, result |-> result])
        /\ globals' = Put(globals, "history", HistorySlot)
        /\ history' = Put(history, HistorySlot,
                          [id |-> a.id, player |-> p, price |-> a.price, result |-> result])
        /\ UNCHANGED <<paid, lost>>

(* pay runs and has the house pay, in one transaction; or it fails.        *)
Pay(p) ==
    /\ p \in DOMAIN calls
    /\ calls' = Erase(calls, {p})
    /\ paid' = [paid EXCEPT ![p] = @ \cup calls[p].bets]
    /\ UNCHANGED <<rows, lost>>

FailPay(p) ==
    /\ p \in DOMAIN calls
    /\ calls' = Erase(calls, {p})
    /\ lost' = [lost EXCEPT ![p] = @ \cup calls[p].bets]
    /\ UNCHANGED <<rows, paid>>

Deliver(p) == Pay(p) \/ FailPay(p)
Next ==
    \/ InitGlobals
    \/ \E w \in GlobalWrites : SetGlobal(w[1], w[2])
    \/ \E p \in Players :
          \/ \E quantity \in Amounts : Transfer(p, quantity)
          \/ \E value \in Values : Reveal(p, value)
          \/ Deliver(p)

Spec == Init /\ [][Next]_vars

-----------------------------------------------------------------------------
(* What the ten thousand values together pay, in stakes, the table of      *)
(* rewards read as thresholds.                                             *)
AllValues ==
    MapThenSumSet(LAMBDA i : Rewards[i].result * Cardinality({v \in 0 .. 9999 : Result(v) = Rewards[i].result}),
                  DOMAIN Rewards)

(* What the contract promises for each spin.                               *)
Open(p) == IF p \in DOMAIN active /\ active[p].result = Empty THEN {active[p].id} ELSE {}
Due(p) == IF p \in DOMAIN calls THEN calls[p].bets ELSE {}
W == INSTANCE Wager WITH
        Bets <- 1 .. MaxBets,
        open <- [p \in Players |-> Open(p)],
        due <- [p \in Players |-> Due(p)]

(* Every spin is revealed once and paid at most once, although its row     *)
(* outlives it and the next spin may start before the payment has run.     *)
WagerSpec == W!Spec
=============================================================================
