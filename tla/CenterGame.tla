----------------------------- MODULE CenterGame -----------------------------
(***************************************************************************)
(* centergame: bets on games that are decided elsewhere.  The contract     *)
(* keeps the bets; the operator passes lists of bets with the prize of     *)
(* each, and every player in the list gets one payment, over two deferred  *)
(* transactions in a row under his name.                                   *)
(*                                                                         *)
(* Left out: the messages and the times.  Every payment is sent without a  *)
(* referer, whatever the bets say, so referers are left out too.           *)
(***************************************************************************)
EXTENDS Tables, FiniteSetsExt

CONSTANTS
    Players,      \* accounts that bet
    Tokens,       \* tokens the house takes for the game
    Amounts,      \* stakes the players transfer
    Games,        \* ids of games a bet's memo may name
    Prizes,       \* prizes the operator passes
    GlobalWrites, \* the pairs <<key, value>> the operator passes to setglobal
    MinBet, MaxPayout, \* the limits in the house's token rows of the game
    MaxBets       \* bound of the state space

\* what the constants have to be
CenterAssumption ==
    /\ Amounts \subseteq Nat \ {0} /\ Prizes \subseteq Nat
    /\ GlobalWrites \subseteq {"bet", "other"} \X Nat
    /\ MinBet \in Nat /\ MaxPayout \in Nat /\ MaxBets \in Nat

VARIABLES
    globals, \* table globals: the bet counter, and keys that are not read
    active,  \* table bets: id -> [player, game_id, token, bet]
    calls,   \* the pending deferred transactions, by sender id, the player's name
    paid, lost \* history: bets whose payment ran; bets cleared, or whose calls failed

rows == <<globals, active>>
vars == <<rows, calls, paid, lost>>

BetId == NextGlobal(globals, "bet")

Init ==
    /\ globals = EmptyTable /\ active = EmptyTable /\ calls = EmptyTable
    /\ paid = [p \in Players |-> {}] /\ lost = [p \in Players |-> {}]

InitGlobals ==
    /\ globals' = Put(globals, "bet", Global(globals, "bet"))
    /\ UNCHANGED <<active, calls, paid, lost>>

(* setglobal.  Of the keys there may be, only the bet counter is read.     *)
SetGlobal(key, value) ==
    /\ globals' = Put(globals, key, value)
    /\ UNCHANGED <<active, calls, paid, lost>>

(* transfer: the stake goes to the house, the bet waits for its game.      *)
Transfer(p, token, quantity, game) ==
    /\ quantity >= MinBet /\ quantity <= MaxPayout
    /\ BetId \notin DOMAIN active /\ BetId <= MaxBets
    /\ globals' = Put(globals, "bet", BetId)
    /\ active' = Put(active, BetId, [player |-> p, game_id |-> game, token |-> token, bet |-> quantity])
    /\ UNCHANGED <<calls, paid, lost>>

-----------------------------------------------------------------------------
(* payment_map: one payment per player in the list, with the sums of his   *)
(* stakes and of his prizes.  Sums of different tokens abort.              *)
Bettors(S) == {active[id].player : id \in S}
BetsOf(p, S) == {id \in S : active[id].player = p}
SumOf(p, S, amount) == MapThenSumSet(LAMBDA id : amount[id], BetsOf(p, S))
OneToken(S, prize) ==
    \A b, c \in S : active[b].player = active[c].player =>
        active[b].token = active[c].token /\ prize[b].token = prize[c].token
Payment(p, S, prize) ==
    [step |-> "payment", bets |-> BetsOf(p, S),
     bet |-> SumOf(p, S, [id \in S |-> active[id].bet]),
     payout |-> SumOf(p, S, [id \in S |-> prize[id].amount])]

(* reveal: the operator settles the bets S with these prizes.  An id that  *)
(* is not there, or is there twice, aborts it; the game each bet was made  *)
(* on is not looked at.  The list of prizes is not measured either: what a *)
(* longer one has more is not used, for what a shorter one lacks memory is *)
(* read, which any prize stands for.                                       *)
SettledLosers(S, prize) == {id \in S : prize[id].amount = 0} \* fault: winning bets stay
Settled(S, prize) == S
AnySender(S) == TRUE                           \* fault: payments overwrite each other
SendersFree(S) == Bettors(S) \cap DOMAIN calls = {}
Reveal(S, prize) ==
    /\ S \subseteq DOMAIN active
    /\ OneToken(S, prize)
    /\ SendersFree(S)
    /\ calls' = PutAll(calls, [p \in Bettors(S) |-> Payment(p, S, prize)])
    /\ active' = Erase(active, Settled(S, prize))
    /\ UNCHANGED <<globals, paid, lost>>

(* clear: every bet is erased, decided or not; nothing is paid back.       *)
Clear ==
    /\ active' = EmptyTable
    /\ lost' = [p \in Players |-> lost[p] \cup BetsOf(p, DOMAIN active)]
    /\ UNCHANGED <<globals, calls, paid>>

(* payment, the first deferred call, sends the second, to the house.       *)
SendPayment(p) ==
    /\ p \in DOMAIN calls /\ calls[p].step = "payment"
    /\ calls' = Put(calls, p, [step |-> "pay", bets |-> calls[p].bets, bet |-> calls[p].bet,
                               payout |-> calls[p].payout])
    /\ UNCHANGED <<rows, paid, lost>>

RunPayment(p) ==
    /\ p \in DOMAIN calls /\ calls[p].step = "pay"
    /\ calls' = Erase(calls, {p})
    /\ paid' = [paid EXCEPT ![p] = @ \cup calls[p].bets]
    /\ UNCHANGED <<rows, lost>>

FailCall(p) ==
    /\ p \in DOMAIN calls
    /\ calls' = Erase(calls, {p})
    /\ lost' = [lost EXCEPT ![p] = @ \cup calls[p].bets]
    /\ UNCHANGED <<rows, paid>>

Deliver(p) == SendPayment(p) \/ RunPayment(p) \/ FailCall(p)
Operate ==
    \/ InitGlobals \/ Clear
    \/ \E w \in GlobalWrites : SetGlobal(w[1], w[2])
    \/ \E S \in SUBSET DOMAIN active : \E prize \in [S -> [token : Tokens, amount : Prizes]] : Reveal(S, prize)
Next ==
    \/ Operate
    \/ \E p \in Players, token \in Tokens, quantity \in Amounts, game \in Games : Transfer(p, token, quantity, game)
    \/ \E p \in Players : Deliver(p)

Spec == Init /\ [][Next]_vars

-----------------------------------------------------------------------------
(* What the contract promises for each bet.                                *)
Open(p) == {id \in DOMAIN active : active[id].player = p}
Due(p) == IF p \in DOMAIN calls THEN calls[p].bets ELSE {}
W == INSTANCE Wager WITH
        Bets <- 1 .. MaxBets,
        open <- [p \in Players |-> Open(p)],
        due <- [p \in Players |-> Due(p)]

(* Every bet is settled once, in one list, and paid at most once; a        *)
(* cleared bet is given up.                                                *)
WagerSpec == W!Spec
=============================================================================
