-------------------------------- MODULE Event --------------------------------
(***************************************************************************)
(* event: bets on the outcome of events that the operator opens, closes    *)
(* and resolves.  The contract keeps the stakes itself and pays from its   *)
(* own account, over one deferred payment per player.                      *)
(*                                                                         *)
(* Bet types and results are the positions of an event's rates, from 1.    *)
(* Times are kept as the seconds left to bet.  Left out: the names and     *)
(* memos, and the time of a bet.                                           *)
(***************************************************************************)
EXTENDS Tables, FiniteSetsExt, SequencesExt

CONSTANTS
    Players,       \* accounts that bet
    Rates,         \* the lists of rates the operator opens events with, in percent
    Amounts,       \* stakes the players transfer
    BettingTimes,  \* how long an event may take bets, in seconds
    GlobalWrites,  \* the pairs <<key, value>> the operator passes to setglobal
    TimeSteps,     \* how far the clock may move in one step
    DefaultMaxBet, \* the limit while GLOBAL_ID_MAX_BET is not set (1000000)
    MaxEvents, MaxBets \* bounds of the state space

Counters == {"event", "bet", "max"}

ASSUME EventAssumption ==
    /\ Rates \subseteq Seq(Nat) /\ Amounts \subseteq Nat \ {0}
    /\ BettingTimes \subseteq Nat /\ TimeSteps \subseteq Nat
    /\ GlobalWrites \subseteq Counters \X Nat
    /\ DefaultMaxBet \in Nat /\ MaxEvents \in Nat /\ MaxBets \in Nat

VARIABLES
    events,   \* table eventstable: id -> [rates, bets, left, active, payout, result]
    bets,     \* table activebets: id -> [game_id, player, bet_type, bet]
    globals,  \* table globals: the two counters and the limit
    payments, \* the pending deferred payments, by sender id, the player's name
    paid, lost, \* history: bets whose payment ran, and whose payment failed
    written   \* history: the keys the operator passed to setglobal

rows == <<events, bets, globals>>
ghosts == <<paid, lost, written>>
vars == <<rows, payments, ghosts>>

NoResult == 0 \* code: 255

-----------------------------------------------------------------------------
BetsOn(id) == {b \in DOMAIN bets : bets[b].game_id = id}
BetsOf(p, id) == {b \in BetsOn(id) : bets[b].player = p}
Staked(S) == SumFunction([b \in S |-> bets[b].bet])

(* An event's row with some of its fields written.                         *)
Row(e, totals, active, payout, result) ==
    [rates |-> e.rates, left |-> e.left, bets |-> totals, active |-> active,
     payout |-> payout, result |-> result]

Init ==
    /\ events = EmptyTable
    /\ bets = EmptyTable
    /\ globals = EmptyTable
    /\ payments = EmptyTable
    /\ paid = [p \in Players |-> {}]
    /\ lost = [p \in Players |-> {}]
    /\ written = {}

(* init writes a zero to every counter that is missing, the limit too.     *)
InitGlobals ==
    /\ globals' = [k \in Counters |-> Global(globals, k)]
    /\ UNCHANGED <<events, bets, payments, ghosts>>

SetGlobal(key, value) ==
    /\ globals' = Put(globals, key, value)
    /\ written' = written \cup {key}
    /\ UNCHANGED <<events, bets, payments, paid, lost>>

AddEvent(rates, time) ==
    LET id == NextGlobal(globals, "event")
    IN  /\ id \notin DOMAIN events /\ id <= MaxEvents
        /\ globals' = Put(globals, "event", id)
        /\ events' = Put(events, id, [rates |-> rates, left |-> time, bets |-> [t \in DOMAIN rates |-> 0],
                                      active |-> FALSE, payout |-> 0, result |-> NoResult])
        /\ UNCHANGED <<bets, payments, ghosts>>

(* setactive opens or closes an event for bets, whatever else happened.    *)
SetActive(id, active) ==
    /\ id \in DOMAIN events
    /\ events' = Put(events, id, Row(events[id], events[id].bets, active,
                                     events[id].payout, events[id].result))
    /\ UNCHANGED <<bets, globals, payments, ghosts>>

-----------------------------------------------------------------------------
(* transfer: p bets quantity on one type of an event; a second bet on the  *)
(* same type goes to the row of the first.                                 *)
MaxBet == IF "max" \in DOMAIN globals THEN globals["max"] ELSE DefaultMaxBet
TotalOfType(p, id, type, quantity) ==          \* fault: other types are forgotten
    quantity + Staked({b \in BetsOf(p, id) : bets[b].bet_type = type})
TotalBet(p, id, type, quantity) == quantity + Staked(BetsOf(p, id))

NoExisting(p, id, type) == {}                  \* fault: always a row of its own
Existing(p, id, type) == {b \in BetsOf(p, id) : bets[b].bet_type = type}

(* The row the bet goes to, its stake before, and the event's new totals.  *)
CountedBetId == Cardinality(DOMAIN bets)       \* fault: ids start at zero
NextBetId == NextGlobal(globals, "bet")
SameTotals(totals, type, quantity) == totals   \* fault: the totals are not kept
AddTotal(totals, type, quantity) ==
    [t \in DOMAIN totals |-> IF t = type THEN totals[t] + quantity ELSE totals[t]]
AddStake(p, id, type, quantity) ==
    \E b \in Existing(p, id, type) :
        /\ bets' = Put(bets, b, [game_id |-> id, player |-> p, bet_type |-> type,
                                 bet |-> bets[b].bet + quantity])
        /\ UNCHANGED globals
NewStake(p, id, type, quantity) ==
    /\ Existing(p, id, type) = {}
    /\ NextBetId \notin DOMAIN bets /\ NextBetId <= MaxBets
    /\ globals' = Put(globals, "bet", NextBetId)
    /\ bets' = Put(bets, NextBetId, [game_id |-> id, player |-> p, bet_type |-> type, bet |-> quantity])

Transfer(p, id, type, quantity) ==
    /\ id \in DOMAIN events
    /\ events[id].active /\ events[id].left > 0
    /\ type \in DOMAIN events[id].rates
    /\ TotalBet(p, id, type, quantity) <= MaxBet
    /\ AddStake(p, id, type, quantity) \/ NewStake(p, id, type, quantity)
    /\ events' = Put(events, id, Row(events[id], AddTotal(events[id].bets, type, quantity),
                                     events[id].active, events[id].payout, events[id].result))
    /\ UNCHANGED <<payments, ghosts>>

-----------------------------------------------------------------------------
(* closeevent fixes what the event will pay if this is its result.         *)
CloseEvent(id, result) ==
    /\ id \in DOMAIN events
    /\ result \in DOMAIN events[id].rates
    /\ events' = Put(events, id, Row(events[id], events[id].bets, FALSE,
                       (events[id].rates[result] * events[id].bets[result]) \div 100, events[id].result))
    /\ UNCHANGED <<bets, globals, payments, ghosts>>

(* resolve: what a bet wins, what a player gets, and what all get.         *)
Won(b, result) ==
    IF bets[b].bet_type = result
    THEN (bets[b].bet * events[bets[b].game_id].rates[result]) \div 100 ELSE 0
WonBy(S, result) == SumFunction([b \in S |-> Won(b, result)])

Bettors(id) == {bets[b].player : b \in BetsOn(id)}
AnySender(id) == TRUE                          \* fault: payments overwrite each other
SendersFree(id) == Bettors(id) \cap DOMAIN payments = {}

Undecided(id) == events[id].result = NoResult
AlwaysMayResolve(id) == TRUE                   \* fault: the result is not looked at
MayResolve(id) == Undecided(id)

NoMatch(id, result) == TRUE                    \* fault: what was closed is not looked at
PayoutMatches(id, result) == events[id].payout = WonBy(BetsOn(id), result)

Resolve(id, result) ==
    /\ id \in DOMAIN events
    /\ MayResolve(id)
    /\ result \in DOMAIN events[id].rates
    /\ PayoutMatches(id, result)
    /\ SendersFree(id)
    /\ payments' = PutAll(payments, [p \in Bettors(id) |->
                       [bets |-> BetsOf(p, id), payout |-> WonBy(BetsOf(p, id), result)]])
    /\ events' = Put(events, id, Row(events[id], events[id].bets, events[id].active,
                                     events[id].payout, result))
    /\ UNCHANGED <<bets, globals, ghosts>>

-----------------------------------------------------------------------------
(* The platform: the deferred payment runs, transfers what was won, or it  *)
(* fails and is gone.  Time passes.                                        *)
RunPayment(p) ==
    /\ p \in DOMAIN payments
    /\ payments' = Erase(payments, {p})
    /\ paid' = [paid EXCEPT ![p] = @ \cup payments[p].bets]
    /\ UNCHANGED <<rows, lost, written>>

FailPayment(p) ==
    /\ p \in DOMAIN payments
    /\ payments' = Erase(payments, {p})
    /\ lost' = [lost EXCEPT ![p] = @ \cup payments[p].bets]
    /\ UNCHANGED <<rows, paid, written>>

Less(t, d) == IF t > d THEN t - d ELSE 0
Aged(e, d) == [rates |-> e.rates, left |-> Less(e.left, d), bets |-> e.bets, active |-> e.active,
               payout |-> e.payout, result |-> e.result]
Tick(d) ==
    /\ events' = [id \in DOMAIN events |-> Aged(events[id], d)]
    /\ UNCHANGED <<bets, globals, payments, ghosts>>

Types == UNION {DOMAIN rates : rates \in Rates}
Operate ==
    \/ InitGlobals
    \/ \E w \in GlobalWrites : SetGlobal(w[1], w[2])
    \/ \E rates \in Rates, time \in BettingTimes : AddEvent(rates, time)
    \/ \E id \in 1 .. MaxEvents :
          \/ \E active \in BOOLEAN : SetActive(id, active)
          \/ \E result \in Types : CloseEvent(id, result) \/ Resolve(id, result)
Bet == \E p \in Players, id \in 1 .. MaxEvents, type \in Types, quantity \in Amounts :
           Transfer(p, id, type, quantity)
Deliver == \E p \in Players : RunPayment(p) \/ FailPayment(p)

Next == Operate \/ Bet \/ Deliver \/ \E d \in TimeSteps : Tick(d)

Spec == Init /\ [][Next]_vars

-----------------------------------------------------------------------------
(* A player has one row per event and type, so the row that a second bet   *)
(* goes to is the only one.                                                *)
OneRow ==
    \A b, c \in DOMAIN bets :
        bets[b].game_id = bets[c].game_id /\ bets[b].player = bets[c].player
            /\ bets[b].bet_type = bets[c].bet_type => b = c

(* The totals of an event, from which closeevent computes what it will     *)
(* pay, are those of its bets, one row for each player and type, through   *)
(* second bets and reopenings.                                             *)
BetsOnType(id, t) == {b \in BetsOn(id) : bets[b].bet_type = t}
TotalsMatch ==
    /\ OneRow
    /\ \A id \in DOMAIN events : \A t \in DOMAIN events[id].rates :
          events[id].bets[t] = Staked(BetsOnType(id, t))

(* No player has more than the limit on an event, over all its types,      *)
(* while the operator leaves the limit as it is.                           *)
StakesLimited ==
    "max" \notin written =>
        \A p \in Players, id \in DOMAIN events : Staked(BetsOf(p, id)) <= DefaultMaxBet

(* What closeevent fixes is what resolve adds up, so that an event closed  *)
(* with a result can be resolved with it.                                  *)
ClosePaysWhatResolveAdds ==
    [][\A id \in DOMAIN events : \A result \in DOMAIN events[id].rates :
          CloseEvent(id, result) => events'[id].payout = WonBy(BetsOn(id), result)]_vars

(* What the contract promises for each bet: it is open until the payment   *)
(* that settles it is due.  One on an event that was reopened after it was *)
(* resolved stays open, nothing ever settles it (event.cpp:161).           *)
Due(p) == IF p \in DOMAIN payments THEN payments[p].bets ELSE {}
Done(p) == Due(p) \cup paid[p] \cup lost[p]
OwnBets(p) == {b \in DOMAIN bets : bets[b].player = p}
Open(p) == OwnBets(p) \ Done(p)
W == INSTANCE Wager WITH
        Bets <- 1 .. MaxBets,
        open <- [p \in Players |-> Open(p)],
        due <- [p \in Players |-> Due(p)]

(* A bet is settled once, with all those on its event, and paid at most    *)
(* once, whatever the operator closes, reopens and resolves.               *)
WagerSpec == W!Spec

(* Every bet in the table, one on a decided event included, is open, due,  *)
(* paid or lost, one of them and for its player alone; only a player's own *)
(* bets are, and what is not open any more is on a decided event           *)
(* (event.cpp:49-72, :121-180).                                            *)
OneStage ==
    /\ W!OnePlace
    /\ \A p \in Players :
          /\ OwnBets(p) = W!Placed(p)
          /\ \A b \in OwnBets(p) : b \in Open(p) \/ ~Undecided(bets[b].game_id)

(* The payments that decide an event give its players together what        *)
(* closeevent has fixed for it, and for the bets there are now: not for a  *)
(* set of bets that was added to since (event.cpp:111, :130, :153).        *)
PaysWhatWasClosed ==
    [][\A id \in DOMAIN events :
          Undecided(id) /\ events'[id].result # NoResult =>
              /\ SumFunction([p \in Bettors(id) |-> payments'[p].payout]) = events[id].payout
              /\ UNION {payments'[p].bets : p \in Bettors(id)} = BetsOn(id)]_vars
=============================================================================
