----------------------------- MODULE EventProofs -----------------------------
(***************************************************************************)
(* Theorems about Event: the contract keeps the promise of Wager for every *)
(* number of players, events and bets and whatever the rates, however the  *)
(* operator opens, closes, reopens and resolves events and payments fail.  *)
(***************************************************************************)
EXTENDS Event, TableLemmas, SequenceTheorems, TLAPS

(* The operator does not write the counter the ids of bets come from.      *)
NoBetWrites == \A w \in GlobalWrites : w[1] # "bet"
LastBetId == Global(globals, "bet")

(* The part of the type that the ids and the payments need.                *)
Shape ==
    /\ DOMAIN bets \subseteq 1 .. MaxBets
    /\ \A b \in DOMAIN bets : bets[b].player \in Players /\ bets[b].game_id \in DOMAIN events
    /\ DOMAIN payments \subseteq Players
    /\ \A p \in DOMAIN payments : payments[p].bets \in SUBSET Nat
    /\ LastBetId \in Nat
    /\ paid \in [Players -> SUBSET Nat] /\ lost \in [Players -> SUBSET Nat]

(* The counter has passed every id in use.                                 *)
IdsGiven == \A p \in Players : \A b \in W!Placed(p) : b <= LastBetId

(* A bet that is settled is its player's, and on an event that is decided. *)
SettledOnce ==
    \A p \in Players : \A b \in Done(p) :
        b \in DOMAIN bets /\ bets[b].player = p /\ ~Undecided(bets[b].game_id)

IInv == Shape /\ IdsGiven /\ SettledOnce

(* What every step of the contract has to be shown to do.                  *)
StepOK == [W!Next]_W!vars /\ IInv'

-----------------------------------------------------------------------------
LEMMA InitOK == Init => W!Init /\ IInv
<1> SUFFICES ASSUME Init PROVE W!Init /\ IInv
  OBVIOUS
<1>1. \A p \in Players : Open(p) = {} /\ Due(p) = {} /\ Done(p) = {}
  BY DEF Init, Open, OwnBets, Due, Done, EmptyTable
<1>2. W!Init
  BY <1>1 DEF Init, W!Init
<1>3. \A p \in Players : W!Placed(p) = {}
  BY <1>1 DEF Init, W!Placed
<1>4. LastBetId = 0
  BY DEF Init, LastBetId, Global, EmptyTable
<1> QED BY <1>1, <1>2, <1>3, <1>4 DEF Init, IInv, Shape, IdsGiven, SettledOnce, EmptyTable

(* An action that keeps every event's result, every bet's owner and event, *)
(* and the payments is a stutter of Wager.                                 *)
LEMMA StutterOK ==
    ASSUME IInv, LastBetId' = LastBetId,
           DOMAIN bets' = DOMAIN bets,
           \A b \in DOMAIN bets : bets'[b].player = bets[b].player /\ bets'[b].game_id = bets[b].game_id,
           DOMAIN events \subseteq DOMAIN events',
           \A id \in DOMAIN events : events'[id].result = events[id].result,
           UNCHANGED <<payments, paid, lost>>
    PROVE  StepOK
<1> USE DEF IInv, Shape
<1>1. \A p \in Players : Open(p)' = Open(p) /\ Due(p)' = Due(p) /\ Done(p)' = Done(p)
  BY DEF Open, OwnBets, Due, Done
<1>2. UNCHANGED W!vars
  BY <1>1 DEF W!vars
<1>3. \A p \in Players : W!Placed(p)' = W!Placed(p)
  BY <1>1 DEF W!Placed
<1>4. Shape'
  OBVIOUS
<1>5. SettledOnce'
  BY <1>1 DEF SettledOnce, Undecided
<1> QED BY <1>2, <1>3, <1>4, <1>5 DEF StepOK, IdsGiven

LEMMA OtherCounter ==
    ASSUME NEW k, k # "bet", NEW v, NEW t
    PROVE  Global(Put(t, k, v), "bet") = Global(t, "bet")
  BY DEF Global, Put

(* A row of an event that is written anew, and keeps its result or not.    *)
LEMMA RowWritten ==
    ASSUME NEW id \in DOMAIN events, NEW totals, NEW active, NEW payout, NEW result,
           events' = Put(events, id, Row(events[id], totals, active, payout, result))
    PROVE  /\ DOMAIN events' = DOMAIN events
           /\ events'[id].result = result
           /\ \A other \in DOMAIN events \ {id} : events'[other].result = events[other].result
  BY DEF Put, Row

LEMMA ResultKept ==
    ASSUME NEW id \in DOMAIN events, NEW totals, NEW active, NEW payout,
           events' = Put(events, id, Row(events[id], totals, active, payout, events[id].result))
    PROVE  DOMAIN events' = DOMAIN events /\ \A e \in DOMAIN events : events'[e].result = events[e].result
  BY DEF Put, Row

-----------------------------------------------------------------------------
LEMMA InitGlobalsOK == ASSUME IInv, InitGlobals PROVE StepOK
<1>1. UNCHANGED <<events, bets, payments, paid, lost>>
  BY DEF InitGlobals, ghosts
<1>2. LastBetId' = LastBetId
  BY DEF InitGlobals, LastBetId, Global, Counters
<1> QED BY <1>1, <1>2, StutterOK

LEMMA SetGlobalOK ==
    ASSUME IInv, NEW key, key # "bet", NEW value, SetGlobal(key, value)
    PROVE  StepOK
<1>1. UNCHANGED <<events, bets, payments, paid, lost>>
  BY DEF SetGlobal
<1>2. LastBetId' = LastBetId
  BY OtherCounter DEF SetGlobal, LastBetId
<1> QED BY <1>1, <1>2, StutterOK

LEMMA AddEventOK ==
    ASSUME IInv, NEW rates, NEW time, AddEvent(rates, time)
    PROVE  StepOK
<1> DEFINE id == NextGlobal(globals, "event")
<1>1. /\ UNCHANGED <<bets, payments, paid, lost>>
      /\ id \notin DOMAIN events
  BY DEF AddEvent, ghosts
<1>2. LastBetId' = LastBetId
  BY OtherCounter DEF AddEvent, LastBetId
<1>3. /\ DOMAIN events \subseteq DOMAIN events'
      /\ \A e \in DOMAIN events : events'[e] = events[e]
  <2>1. PICK row : events' = Put(events, id, row)
    BY DEF AddEvent
  <2> HIDE DEF id
  <2> QED BY <1>1, <2>1 DEF Put
<1> QED BY <1>1, <1>2, <1>3, StutterOK

LEMMA SetActiveOK ==
    ASSUME IInv, NEW id, NEW active, SetActive(id, active)
    PROVE  StepOK
<1>1. UNCHANGED <<bets, globals, payments, paid, lost>> /\ id \in DOMAIN events
  BY DEF SetActive, ghosts
<1>2. DOMAIN events' = DOMAIN events /\ \A e \in DOMAIN events : events'[e].result = events[e].result
  BY <1>1, ResultKept, Zenon DEF SetActive
<1> QED BY <1>1, <1>2, StutterOK DEF LastBetId

LEMMA CloseEventOK ==
    ASSUME IInv, NEW id, NEW result, CloseEvent(id, result)
    PROVE  StepOK
<1>1. UNCHANGED <<bets, globals, payments, paid, lost>> /\ id \in DOMAIN events
  BY DEF CloseEvent, ghosts
<1>2. DOMAIN events' = DOMAIN events /\ \A e \in DOMAIN events : events'[e].result = events[e].result
  <2>1. PICK payout : events' = Put(events, id, Row(events[id], events[id].bets, FALSE, payout,
                                                    events[id].result))
    BY DEF CloseEvent
  <2> QED BY <1>1, <2>1, ResultKept, Zenon
<1> QED BY <1>1, <1>2, StutterOK DEF LastBetId

LEMMA TickOK == ASSUME IInv, NEW d, Tick(d) PROVE StepOK
<1>1. UNCHANGED <<bets, globals, payments, paid, lost>>
  BY DEF Tick, ghosts
<1>2. DOMAIN events' = DOMAIN events /\ \A e \in DOMAIN events : events'[e].result = events[e].result
  BY DEF Tick, Aged
<1> QED BY <1>1, <1>2, StutterOK DEF LastBetId
-----------------------------------------------------------------------------
(* A first bet takes an id nobody had, also on an event that is decided.   *)
LEMMA NewStakeOK ==
    ASSUME IInv, NEW p \in Players, NEW id \in DOMAIN events, NEW type, NEW quantity,
           NewStake(p, id, type, quantity),
           DOMAIN events' = DOMAIN events,
           \A e \in DOMAIN events : events'[e].result = events[e].result,
           UNCHANGED <<payments, paid, lost>>
    PROVE  StepOK
<1> USE DEF IInv, Shape
<1> DEFINE new == LastBetId + 1
<1>1. new \in 1 .. MaxBets /\ new \notin DOMAIN bets
  BY EventAssumption DEF NewStake, NextBetId, NextGlobal, LastBetId
<1>2. LastBetId' = new
  BY DEF NewStake, NextBetId, NextGlobal, LastBetId, Global, Put
<1>3. /\ DOMAIN bets' = DOMAIN bets \cup {new}
      /\ bets'[new].player = p /\ bets'[new].game_id = id
      /\ \A b \in DOMAIN bets : bets'[b] = bets[b]
  <2>1. bets' = Put(bets, new, [game_id |-> id, player |-> p, bet_type |-> type, bet |-> quantity])
    BY DEF NewStake, NextBetId, NextGlobal, LastBetId
  <2> HIDE DEF new
  <2> QED BY <1>1, <2>1 DEF Put
<1> HIDE DEF new
<1>4. \A q \in Players : Due(q)' = Due(q) /\ Done(q)' = Done(q) /\ new \notin Done(q)
  BY <1>1 DEF Due, Done, SettledOnce
<1>5. /\ \A q \in Players \ {p} : Open(q)' = Open(q)
      /\ Open(p)' = Open(p) \cup {new}
  BY <1>1, <1>3, <1>4 DEF Open, OwnBets
<1>6. Shape'
  BY <1>1, <1>2, <1>3
<1>7. SettledOnce'
  BY <1>3, <1>4 DEF SettledOnce, Undecided
<1>8. \A q \in Players : \A b \in W!Placed(q) : b \in Nat /\ b <= LastBetId
  BY DEF IdsGiven, W!Placed, Open, OwnBets, Due
<1>9. \A q \in Players : W!Placed(q)' \subseteq W!Placed(q) \cup {new}
  BY <1>4, <1>5 DEF W!Placed
<1>10. IdsGiven'
  <2>1. new \in Nat /\ LastBetId <= new
    BY <1>1 DEF new
  <2> QED BY <1>2, <1>8, <1>9, <2>1 DEF IdsGiven
<1>11. {new} \cap W!Known = {}
  BY <1>8 DEF W!Known, new
<1>12. [q \in Players |-> Open(q)]' = [[q \in Players |-> Open(q)] EXCEPT ![p] = (@ \ {}) \cup {new}]
  BY <1>5
<1>13. [q \in Players |-> Due(q)]' = [q \in Players |-> Due(q)]
  BY <1>4
<1>14. lost' = [lost EXCEPT ![p] = @ \cup {}]
  OBVIOUS
<1>15. W!Place(p, {new}, {})
  BY <1>11, <1>12, <1>13, <1>14 DEF W!Place
<1> QED BY <1>1, <1>6, <1>7, <1>10, <1>15 DEF StepOK, W!Next

LEMMA TransferOK ==
    ASSUME IInv, NEW p \in Players, NEW id, NEW type, NEW quantity, Transfer(p, id, type, quantity)
    PROVE  StepOK
<1>1. id \in DOMAIN events /\ UNCHANGED <<payments, paid, lost>>
  BY DEF Transfer, ghosts
<1>2. DOMAIN events' = DOMAIN events /\ \A e \in DOMAIN events : events'[e].result = events[e].result
  BY <1>1, ResultKept, Zenon DEF Transfer
<1>3. CASE AddStake(p, id, type, quantity)
  <2>1. PICK b, stake :
            /\ b \in Existing(p, id, type)
            /\ bets' = Put(bets, b, [game_id |-> id, player |-> p, bet_type |-> type, bet |-> stake])
    BY <1>3 DEF AddStake
  <2>2. b \in DOMAIN bets /\ bets[b].player = p /\ bets[b].game_id = id
    BY <2>1 DEF Existing, BetsOf, BetsOn
  <2>3. /\ DOMAIN bets' = DOMAIN bets
        /\ \A c \in DOMAIN bets : bets'[c].player = bets[c].player /\ bets'[c].game_id = bets[c].game_id
    BY <2>1, <2>2 DEF Put
  <2>4. LastBetId' = LastBetId
    BY <1>3 DEF AddStake, LastBetId
  <2> QED BY <1>1, <1>2, <2>3, <2>4, StutterOK
<1>4. CASE NewStake(p, id, type, quantity)
  BY <1>1, <1>2, <1>4, NewStakeOK
<1> QED BY <1>3, <1>4 DEF Transfer

-----------------------------------------------------------------------------
(* resolve settles the bets on its event: they were open, no payment of    *)
(* their players is under way, and each becomes due to its player.         *)
LEMMA ResolveOK ==
    ASSUME IInv, NEW id, NEW result, result # NoResult, Resolve(id, result)
    PROVE  StepOK
<1> USE DEF IInv, Shape
<1> DEFINE S == BetsOn(id)
<1>1. /\ id \in DOMAIN events /\ Undecided(id)
      /\ Bettors(id) \cap DOMAIN payments = {}
      /\ UNCHANGED <<bets, globals, paid, lost>>
  BY DEF Resolve, MayResolve, SendersFree, ghosts
<1>2. DOMAIN events' = DOMAIN events /\ events'[id].result = result
      /\ \A e \in DOMAIN events \ {id} : events'[e].result = events[e].result
  BY <1>1, RowWritten DEF Resolve
<1>3. /\ DOMAIN payments' = DOMAIN payments \cup Bettors(id)
      /\ \A p \in Bettors(id) : payments'[p].bets = BetsOf(p, id)
      /\ \A p \in DOMAIN payments : payments'[p] = payments[p]
  <2> DEFINE new == [p \in Bettors(id) |-> [bets |-> BetsOf(p, id), payout |-> WonBy(BetsOf(p, id), result)]]
  <2>1. payments' = PutAll(payments, new)
    BY DEF Resolve
  <2>2. DOMAIN new = Bettors(id) /\ \A p \in Bettors(id) : new[p].bets = BetsOf(p, id)
    OBVIOUS
  <2> HIDE DEF new
  <2>3. /\ DOMAIN payments' = DOMAIN payments \cup DOMAIN new
        /\ \A p \in DOMAIN new : payments'[p] = new[p]
        /\ \A p \in DOMAIN payments \ DOMAIN new : payments'[p] = payments[p]
    BY <2>1, PutAllLookup, Zenon
  <2> QED BY <1>1, <2>2, <2>3
<1>4. S \subseteq DOMAIN bets /\ Bettors(id) \subseteq Players
      /\ \A b \in S : bets[b].player \in Bettors(id)
  BY DEF BetsOn, Bettors
<1>5. \A p \in Players : Open(p) \cap S = BetsOf(p, id) /\ Done(p) \cap S = {}
  BY <1>1 DEF Open, OwnBets, BetsOf, BetsOn, SettledOnce
<1>6. \A p \in Players \ Bettors(id) : Open(p) \cap S = {}
  BY <1>4, <1>5 DEF BetsOf
<1>7. \A p \in Players : Due(p)' = Due(p) \cup (Open(p) \cap S)
  <2>1. ASSUME NEW p \in Bettors(id) PROVE Due(p) = {} /\ Due(p)' = BetsOf(p, id)
    BY <1>1, <1>3 DEF Due
  <2>2. ASSUME NEW p \in Players \ Bettors(id) PROVE Due(p)' = Due(p)
    BY <1>3 DEF Due
  <2> QED BY <1>4, <1>5, <1>6, <2>1, <2>2
<1>8. \A p \in Players : Open(p)' = Open(p) \ S
  BY <1>1, <1>7 DEF Open, OwnBets, Done
<1>9. \A p \in Players : Open(p) \cap S = {} \/ Due(p) = {}
  BY <1>1, <1>6 DEF Due
<1>10. S \in SUBSET (1 .. MaxBets)
  BY <1>4
<1> HIDE DEF S
<1>11. W!Settle(S)
  <2>1. [p \in Players |-> Due(p)]' = [p \in Players |-> Due(p) \cup (Open(p) \cap S)]
    BY <1>7
  <2>2. [p \in Players |-> Open(p)]' = [p \in Players |-> Open(p) \ S]
    BY <1>8
  <2> QED BY <1>1, <1>9, <2>1, <2>2 DEF W!Settle
<1>12. \A p \in Players : W!Placed(p)' = W!Placed(p)
  BY <1>1, <1>7, <1>8 DEF W!Placed
<1>13. Shape'
  <2>1. \A p \in Players : BetsOf(p, id) \in SUBSET Nat
    BY DEF BetsOf, BetsOn
  <2>2. \A p \in DOMAIN payments' : payments'[p].bets \in SUBSET Nat
    BY <1>3, <1>4, <2>1
  <2> QED BY <1>1, <1>2, <1>3, <1>4, <2>2 DEF LastBetId
<1>14. LastBetId' = LastBetId
  BY <1>1 DEF LastBetId
<1>15. SettledOnce'
  <2>1. \A p \in Players : Done(p)' = Done(p) \cup BetsOf(p, id)
    BY <1>1, <1>5, <1>7 DEF Done
  <2>2. \A p \in Players : \A b \in BetsOf(p, id) :
            b \in DOMAIN bets /\ bets[b].player = p /\ bets[b].game_id = id
    BY DEF BetsOf, BetsOn
  <2>3. \A e \in DOMAIN events : ~Undecided(e) \/ e = id => ~Undecided(e)'
    BY <1>2 DEF Undecided
  <2> QED BY <1>1, <2>1, <2>2, <2>3 DEF SettledOnce
<1> QED BY <1>10, <1>11, <1>12, <1>13, <1>14, <1>15 DEF StepOK, IdsGiven, W!Next

-----------------------------------------------------------------------------
(* A payment that runs or fails ends what is due to its player.            *)
LEMMA EndOK ==
    ASSUME IInv, NEW p \in Players, RunPayment(p) \/ FailPayment(p)
    PROVE  StepOK
<1> USE DEF IInv, Shape
<1>1. /\ p \in DOMAIN payments /\ Due(p) = payments[p].bets
      /\ UNCHANGED <<events, bets, globals>>
      /\ payments' = Erase(payments, {p})
  BY DEF RunPayment, FailPayment, rows, Due
<1>2. /\ DOMAIN payments' = DOMAIN payments \ {p}
      /\ \A q \in DOMAIN payments' : payments'[q] = payments[q]
  BY <1>1 DEF Erase
<1>3. Due(p)' = {} /\ \A q \in Players \ {p} : Due(q)' = Due(q)
  BY <1>1, <1>2 DEF Due
<1>9. /\ \A q \in Players : Done(q)' = Done(q)
      /\ \A q \in Players : Open(q)' = Open(q)
      /\ SettledOnce'
  <2>1. \A q \in Players : Done(q)' = Done(q)
    BY <1>1, <1>3 DEF Done, RunPayment, FailPayment
  <2>2. \A q \in Players : Open(q)' = Open(q)
    BY <1>1, <2>1 DEF Open, OwnBets
  <2> QED BY <1>1, <2>1, <2>2 DEF SettledOnce, Undecided
<1>4. [q \in Players |-> Due(q)]' = [[q \in Players |-> Due(q)] EXCEPT ![p] = {}]
  BY <1>3
<1>5. Due(p) \in SUBSET Nat
  BY <1>1
<1>6. LastBetId' = LastBetId
  BY <1>1 DEF LastBetId
<1>7. CASE RunPayment(p)
  <2>1. paid' = [paid EXCEPT ![p] = @ \cup Due(p)] /\ lost' = lost
    BY <1>1, <1>7 DEF RunPayment
  <2>2. W!Pay(p)
    BY <1>4, <1>9, <2>1 DEF W!Pay
  <2>3. \A q \in Players : W!Placed(q)' = W!Placed(q)
    BY <1>3, <1>9, <2>1 DEF W!Placed
  <2>4. Shape'
    BY <1>1, <1>2, <1>5, <1>6, <2>1
  <2> QED BY <1>6, <1>9, <2>2, <2>3, <2>4 DEF StepOK, IdsGiven, W!Next
<1>8. CASE FailPayment(p)
  <2>1. lost' = [lost EXCEPT ![p] = @ \cup Due(p)] /\ paid' = paid
    BY <1>1, <1>8 DEF FailPayment
  <2>2. W!Lose(p)
    BY <1>4, <1>9, <2>1 DEF W!Lose
  <2>3. \A q \in Players : W!Placed(q)' = W!Placed(q)
    BY <1>3, <1>9, <2>1 DEF W!Placed
  <2>4. Shape'
    BY <1>1, <1>2, <1>5, <1>6, <2>1
  <2> QED BY <1>6, <1>9, <2>2, <2>3, <2>4 DEF StepOK, IdsGiven, W!Next
<1> QED BY <1>7, <1>8

(* The positions of rates start at 1, so no result is the mark of none.    *)
LEMMA TypesNotNone == NoResult \notin Types
<1> SUFFICES ASSUME NEW rates \in Rates PROVE 0 \notin DOMAIN rates
  BY DEF Types, NoResult
<1> QED BY EventAssumption

LEMMA NextOK == ASSUME NoBetWrites, IInv, [Next]_vars PROVE StepOK
<1>1. CASE Operate
  <2>1. CASE InitGlobals
    BY <2>1, InitGlobalsOK
  <2>2. CASE \E w \in GlobalWrites : SetGlobal(w[1], w[2])
    BY <2>2, SetGlobalOK DEF NoBetWrites
  <2>3. CASE \E rates \in Rates, time \in BettingTimes : AddEvent(rates, time)
    BY <2>3, AddEventOK
  <2>4. ASSUME NEW id \in 1 .. MaxEvents, NEW active \in BOOLEAN, SetActive(id, active) PROVE StepOK
    BY <2>4, SetActiveOK
  <2>5. ASSUME NEW id \in 1 .. MaxEvents, NEW result \in Types,
               CloseEvent(id, result) \/ Resolve(id, result)
        PROVE  StepOK
    BY <2>5, CloseEventOK, ResolveOK, TypesNotNone
  <2> QED BY <1>1, <2>1, <2>2, <2>3, <2>4, <2>5 DEF Operate
<1>2. CASE Bet
  BY <1>2, TransferOK DEF Bet
<1>3. CASE Deliver
  BY <1>3, EndOK DEF Deliver
<1>4. CASE \E d \in TimeSteps : Tick(d)
  BY <1>4, TickOK
<1>5. CASE UNCHANGED vars
  BY <1>5, StutterOK DEF vars, rows, ghosts, LastBetId
<1> QED BY <1>1, <1>2, <1>3, <1>4, <1>5 DEF Next

(* The event contract implements Wager: a bet is settled with all the bets *)
(* on its event, once, and paid at most once, whatever is reopened.        *)
THEOREM EventImplementsWager == ASSUME NoBetWrites PROVE Spec => WagerSpec
<1>1. IInv /\ [Next]_vars => [W!Next]_W!vars /\ IInv'
  BY NextOK, NoBetWrites DEF StepOK
<1> QED BY <1>1, InitOK, PTL DEF Spec, WagerSpec, W!Spec

(* Every bet in the table is open, due, paid or lost, exactly one of them, *)
(* and its player's; all bets on an undecided event are open.              *)
THEOREM EventBetInOneStage == ASSUME NoBetWrites PROVE Spec => []OneStage
<1>1. W!Spec => []W!OnePlace
  BY W!WagerOnePlace
<1>2. Spec => []IInv
  <2>1. IInv /\ [Next]_vars => IInv'
    BY NextOK, NoBetWrites DEF StepOK
  <2> QED BY <2>1, InitOK, PTL DEF Spec
<1>3. IInv /\ W!OnePlace => OneStage
  <2> SUFFICES ASSUME IInv, W!OnePlace, NEW p \in Players
               PROVE  /\ OwnBets(p) = W!Placed(p)
                      /\ \A b \in OwnBets(p) : b \in Open(p) \/ ~Undecided(bets[b].game_id)
    BY DEF OneStage
  <2>1. Done(p) \subseteq OwnBets(p) /\ \A b \in Done(p) : ~Undecided(bets[b].game_id)
    BY DEF IInv, SettledOnce, OwnBets
  <2>2. W!Placed(p) = Open(p) \cup Done(p)
    BY DEF W!Placed, Done
  <2> QED BY <2>1, <2>2 DEF Open
<1> QED BY <1>1, <1>2, <1>3, EventImplementsWager, PTL DEF WagerSpec

-----------------------------------------------------------------------------
(* The types of the tables, the calls under way and the history.           *)
BetType == [game_id : Nat, player : Players, bet_type : Nat, bet : Nat]
IsEvent(e) ==
    /\ e.rates \in Rates /\ e.left \in Nat /\ e.active \in BOOLEAN /\ e.payout \in Nat
    /\ e.bets \in [DOMAIN e.rates -> Nat]
    /\ e.result \in DOMAIN e.rates \cup {NoResult}

TypeOK ==
    /\ IsTable(globals, Counters, Nat)
    /\ IsTable(bets, 1 .. MaxBets, BetType)
    /\ \A b \in DOMAIN bets : bets[b].game_id \in DOMAIN events
    /\ DOMAIN events \subseteq Nat
    /\ \A id \in DOMAIN events : IsEvent(events[id])
    /\ IsTable(payments, Players, [bets : SUBSET (1 .. MaxBets), payout : Nat])
    /\ paid \in [Players -> SUBSET (1 .. MaxBets)]
    /\ lost \in [Players -> SUBSET (1 .. MaxBets)]
    /\ written \subseteq Counters

(* The ids are finitely many, and stakes and wins are numbers.             *)
LEMMA BetsAreFinite == ASSUME TypeOK PROVE \A S \in SUBSET (DOMAIN bets) : IsFiniteSet(S)
<1>1. MaxBets \in Int /\ 1 \in Int
  BY EventAssumption
<1>2. IsFiniteSet(1 .. MaxBets)
  BY ONLY <1>1, FS_Interval
<1>3. \A S \in SUBSET (DOMAIN bets) : S \in SUBSET (1 .. MaxBets)
  BY DEF TypeOK, IsTable
<1> QED BY <1>2, <1>3, FS_Subset

LEMMA RatesAreNat ==
    ASSUME TypeOK, NEW id \in DOMAIN events, NEW result \in DOMAIN events[id].rates
    PROVE  events[id].rates[result] \in Nat
<1>1. events[id].rates \in Seq(Nat)
  BY EventAssumption DEF TypeOK, IsEvent
<1>2. DOMAIN events[id].rates = 1 .. Len(events[id].rates)
  BY <1>1
<1> HIDE DEF IsEvent
<1> QED BY <1>1, <1>2, ElementOfSeq

LEMMA PercentIsNat == \A m, n \in Nat : (m * n) \div 100 \in Nat
<1>1. \A m, n \in Nat : m * n \in Nat
  OBVIOUS
<1>2. \A m \in Nat : m \div 100 \in Nat
  OBVIOUS
<1> QED BY <1>1, <1>2

LEMMA StakedIsNat == ASSUME TypeOK, NEW S \in SUBSET (DOMAIN bets) PROVE Staked(S) \in Nat
<1> DEFINE stake == [b \in S |-> bets[b].bet]
<1>1. DOMAIN stake = S /\ \A b \in S : stake[b] \in Nat
  BY DEF TypeOK, IsTable, BetType
<1>2. Staked(S) = SumFunctionOnSet(stake, DOMAIN stake)
  BY DEF Staked, SumFunction
<1> HIDE DEF stake
<1> QED BY <1>1, <1>2, BetsAreFinite, SumOfNaturals

LEMMA WonIsNat ==
    ASSUME TypeOK, NEW id \in DOMAIN events, NEW result \in DOMAIN events[id].rates,
           NEW S \in SUBSET BetsOn(id)
    PROVE  WonBy(S, result) \in Nat
<1> DEFINE won == [b \in S |-> Won(b, result)]
<1>1. \A b \in S : b \in DOMAIN bets /\ bets[b].game_id = id /\ bets[b].bet \in Nat
  BY DEF BetsOn, TypeOK, IsTable, BetType
<1>2. events[id].rates[result] \in Nat
  BY RatesAreNat
<1>3. \A b \in S : won[b] \in Nat
  BY <1>1, <1>2, PercentIsNat DEF Won
<1>4. DOMAIN won = S /\ S \in SUBSET (DOMAIN bets)
  BY DEF BetsOn
<1>5. WonBy(S, result) = SumFunctionOnSet(won, DOMAIN won)
  BY DEF WonBy, SumFunction
<1> HIDE DEF won
<1> QED BY <1>3, <1>4, <1>5, BetsAreFinite, SumOfNaturals

-----------------------------------------------------------------------------
(* The row with this id is new, or has grown by quantity.                  *)
IsStake(k, p, id, type, quantity) ==
    /\ DOMAIN bets' = DOMAIN bets \cup {k}
    /\ \A b \in DOMAIN bets \ {k} : bets'[b] = bets[b]
    /\ bets'[k] = [game_id |-> id, player |-> p, bet_type |-> type,
                   bet |-> (IF k \in DOMAIN bets THEN bets[k].bet ELSE 0) + quantity]
    /\ k \in DOMAIN bets =>
          bets[k].game_id = id /\ bets[k].player = p /\ bets[k].bet_type = type
    /\ k \notin DOMAIN bets => \A b \in DOMAIN bets :
          ~ (bets[b].game_id = id /\ bets[b].player = p /\ bets[b].bet_type = type)

(* What a transfer does to the bets: one row is new, or grows.             *)
LEMMA BetsAfterTransfer ==
    ASSUME TypeOK, NEW p \in Players, NEW id, NEW type, NEW quantity \in Amounts,
           Transfer(p, id, type, quantity)
    PROVE  \E k \in 1 .. MaxBets : IsStake(k, p, id, type, quantity)
<1>1. quantity \in Nat
  BY EventAssumption
<1>2. CASE AddStake(p, id, type, quantity)
  <2>1. PICK k \in Existing(p, id, type) :
            bets' = Put(bets, k, [game_id |-> id, player |-> p, bet_type |-> type,
                                  bet |-> bets[k].bet + quantity])
    BY <1>2 DEF AddStake
  <2>2. /\ k \in DOMAIN bets /\ k \in 1 .. MaxBets
        /\ bets[k].game_id = id /\ bets[k].player = p /\ bets[k].bet_type = type
    BY DEF Existing, BetsOf, BetsOn, TypeOK, IsTable
  <2>3. /\ DOMAIN bets' = DOMAIN bets \cup {k}
        /\ \A b \in DOMAIN bets \ {k} : bets'[b] = bets[b]
        /\ bets'[k] = [game_id |-> id, player |-> p, bet_type |-> type, bet |-> bets[k].bet + quantity]
    BY <2>1 DEF Put
  <2> QED BY <2>2, <2>3 DEF IsStake
<1>3. CASE NewStake(p, id, type, quantity)
  <2> DEFINE k == NextBetId
  <2>1. k \in 1 .. MaxBets /\ k \notin DOMAIN bets
    BY <1>3 DEF NewStake, NextBetId, NextGlobal, Global, TypeOK, IsTable
  <2>2. bets' = Put(bets, k, [game_id |-> id, player |-> p, bet_type |-> type, bet |-> quantity])
    BY <1>3 DEF NewStake
  <2>3. \A b \in DOMAIN bets : ~ (bets[b].game_id = id /\ bets[b].player = p /\ bets[b].bet_type = type)
    BY <1>3 DEF NewStake, Existing, BetsOf, BetsOn
  <2> HIDE DEF k
  <2>4. /\ DOMAIN bets' = DOMAIN bets \cup {k}
        /\ \A b \in DOMAIN bets \ {k} : bets'[b] = bets[b]
        /\ bets'[k] = [game_id |-> id, player |-> p, bet_type |-> type, bet |-> quantity]
    BY <2>1, <2>2 DEF Put
  <2>5. bets'[k] = [game_id |-> id, player |-> p, bet_type |-> type,
                    bet |-> (IF k \in DOMAIN bets THEN bets[k].bet ELSE 0) + quantity]
    BY <1>1, <2>1, <2>4
  <2> QED BY <2>1, <2>3, <2>4, <2>5 DEF IsStake
<1> QED BY <1>2, <1>3 DEF Transfer

(* What a transfer does to the events: one total grows.                    *)
LEMMA EventsAfterTransfer ==
    ASSUME TypeOK, NEW p, NEW id, NEW type, NEW quantity, Transfer(p, id, type, quantity)
    PROVE  /\ id \in DOMAIN events /\ DOMAIN events' = DOMAIN events
           /\ type \in DOMAIN events[id].rates
           /\ \A e \in DOMAIN events \ {id} : events'[e] = events[e]
           /\ events'[id] = [rates |-> events[id].rates, left |-> events[id].left,
                             bets |-> [t \in DOMAIN events[id].rates |->
                                          IF t = type THEN events[id].bets[t] + quantity
                                          ELSE events[id].bets[t]],
                             active |-> events[id].active, payout |-> events[id].payout,
                             result |-> events[id].result]
<1> DEFINE row == Row(events[id], AddTotal(events[id].bets, type, quantity),
                      events[id].active, events[id].payout, events[id].result)
<1>1. id \in DOMAIN events /\ type \in DOMAIN events[id].rates /\ events' = Put(events, id, row)
  BY DEF Transfer
<1>2. DOMAIN events[id].bets = DOMAIN events[id].rates
  BY <1>1 DEF TypeOK, IsEvent
<1>3. row = [rates |-> events[id].rates, left |-> events[id].left,
             bets |-> [t \in DOMAIN events[id].rates |->
                          IF t = type THEN events[id].bets[t] + quantity ELSE events[id].bets[t]],
             active |-> events[id].active, payout |-> events[id].payout,
             result |-> events[id].result]
  BY <1>2 DEF Row, AddTotal
<1> HIDE DEF row
<1>4. /\ DOMAIN events' = DOMAIN events \cup {id} /\ events'[id] = row
      /\ \A e \in DOMAIN events \ {id} : events'[e] = events[e]
  BY <1>1 DEF Put
<1> QED BY <1>1, <1>3, <1>4

-----------------------------------------------------------------------------
(* The type of the state, action by action.                                *)
LEMMA InitType == Init => TypeOK
  BY EmptyIsTable DEF Init, TypeOK, EmptyTable, IsTable

LEMMA InitGlobalsType == TypeOK /\ InitGlobals => TypeOK'
  BY DEF TypeOK, InitGlobals, IsTable, Global, ghosts

LEMMA SetGlobalType ==
    ASSUME TypeOK, NEW w \in GlobalWrites, SetGlobal(w[1], w[2]) PROVE TypeOK'
<1>1. w[1] \in Counters /\ w[2] \in Nat
  BY EventAssumption
<1>2. IsTable(globals', Counters, Nat)
  BY <1>1, PutIsTable DEF SetGlobal, TypeOK
<1> QED BY <1>1, <1>2 DEF SetGlobal, TypeOK

LEMMA AddEventType ==
    ASSUME TypeOK, NEW rates \in Rates, NEW time \in BettingTimes, AddEvent(rates, time) PROVE TypeOK'
<1> DEFINE id == NextGlobal(globals, "event")
           row == [rates |-> rates, left |-> time, bets |-> [t \in DOMAIN rates |-> 0],
                   active |-> FALSE, payout |-> 0, result |-> NoResult]
<1>1. id \in Nat
  BY DEF NextGlobal, Global, TypeOK, IsTable
<1>2. IsEvent(row)
  BY EventAssumption DEF IsEvent
<1>3. globals' = Put(globals, "event", id) /\ events' = Put(events, id, row)
      /\ UNCHANGED <<bets, payments, ghosts>>
  BY DEF AddEvent
<1> HIDE DEF id, row
<1>4. IsTable(globals', Counters, Nat)
  BY <1>1, <1>3, PutIsTable DEF TypeOK, Counters
<1>5. /\ DOMAIN events \subseteq DOMAIN events' /\ DOMAIN events' \subseteq Nat
      /\ \A e \in DOMAIN events' : IsEvent(events'[e])
  <2>1. DOMAIN events' = DOMAIN events \cup {id} /\ events'[id] = row
        /\ \A e \in DOMAIN events \ {id} : events'[e] = events[e]
    BY <1>3 DEF Put
  <2> QED BY <1>1, <1>2, <2>1 DEF TypeOK
<1> QED BY <1>3, <1>4, <1>5 DEF TypeOK, ghosts

(* A row of an event written anew.                                         *)
LEMMA RowType ==
    ASSUME TypeOK, NEW id \in DOMAIN events, NEW row, IsEvent(row), events' = Put(events, id, row),
           UNCHANGED <<bets, globals, ghosts>>,
           IsTable(payments', Players, [bets : SUBSET (1 .. MaxBets), payout : Nat])
    PROVE  TypeOK'
<1>1. DOMAIN events' = DOMAIN events /\ \A e \in DOMAIN events : IsEvent(events'[e])
  <2>1. DOMAIN events' = DOMAIN events \cup {id} /\ events'[id] = row
        /\ \A e \in DOMAIN events \ {id} : events'[e] = events[e]
    BY DEF Put
  <2> QED BY <2>1 DEF TypeOK
<1> QED BY <1>1 DEF TypeOK, ghosts

LEMMA SetActiveType ==
    ASSUME TypeOK, NEW id, NEW active \in BOOLEAN, SetActive(id, active) PROVE TypeOK'
<1> DEFINE row == Row(events[id], events[id].bets, active, events[id].payout, events[id].result)
<1>1. id \in DOMAIN events /\ events' = Put(events, id, row) /\ UNCHANGED <<bets, globals, payments, ghosts>>
  BY DEF SetActive
<1>2. IsEvent(row)
  BY <1>1 DEF TypeOK, IsEvent, Row
<1> HIDE DEF row
<1> QED BY <1>1, <1>2, RowType DEF TypeOK

LEMMA CloseEventType == ASSUME TypeOK, NEW id, NEW result, CloseEvent(id, result) PROVE TypeOK'
<1> DEFINE payout == (events[id].rates[result] * events[id].bets[result]) \div 100
           row == Row(events[id], events[id].bets, FALSE, payout, events[id].result)
<1>1. /\ id \in DOMAIN events /\ result \in DOMAIN events[id].rates
      /\ events' = Put(events, id, row) /\ UNCHANGED <<bets, globals, payments, ghosts>>
  BY DEF CloseEvent
<1>2. payout \in Nat
  BY <1>1, RatesAreNat, PercentIsNat DEF TypeOK, IsEvent
<1>3. IsEvent(row)
  <2> HIDE DEF payout
  <2> QED BY <1>1, <1>2 DEF TypeOK, IsEvent, Row
<1> HIDE DEF row
<1> QED BY <1>1, <1>3, RowType DEF TypeOK

LEMMA ResolveType == ASSUME TypeOK, NEW id, NEW result, Resolve(id, result) PROVE TypeOK'
<1> DEFINE row == Row(events[id], events[id].bets, events[id].active, events[id].payout, result)
           new == [p \in Bettors(id) |->
                     [bets |-> BetsOf(p, id), payout |-> WonBy(BetsOf(p, id), result)]]
<1>1. /\ id \in DOMAIN events /\ result \in DOMAIN events[id].rates
      /\ payments' = PutAll(payments, new)
      /\ events' = Put(events, id, row) /\ UNCHANGED <<bets, globals, ghosts>>
  BY DEF Resolve
<1>2. IsEvent(row)
  BY <1>1 DEF TypeOK, IsEvent, Row
<1>3. \A p : BetsOf(p, id) \in SUBSET BetsOn(id) /\ BetsOf(p, id) \in SUBSET (1 .. MaxBets)
  BY DEF BetsOf, BetsOn, TypeOK, IsTable
<1>4. \A p : WonBy(BetsOf(p, id), result) \in Nat
  BY <1>1, <1>3, WonIsNat
<1>5. Bettors(id) \subseteq Players
  BY DEF Bettors, BetsOn, TypeOK, IsTable, BetType
<1>6. IsTable(new, Players, [bets : SUBSET (1 .. MaxBets), payout : Nat])
  BY <1>3, <1>4, <1>5 DEF IsTable
<1> HIDE DEF new, row
<1>7. IsTable(payments', Players, [bets : SUBSET (1 .. MaxBets), payout : Nat])
  BY <1>1, <1>6, PutAllIsTable DEF TypeOK
<1> QED BY <1>1, <1>2, <1>7, RowType

LEMMA TransferType ==
    ASSUME TypeOK, NEW p \in Players, NEW id \in 1 .. MaxEvents, NEW type, NEW quantity \in Amounts,
           Transfer(p, id, type, quantity)
    PROVE  TypeOK'
<1>1. quantity \in Nat /\ UNCHANGED <<payments, ghosts>>
  BY EventAssumption DEF Transfer
<1>2. /\ id \in DOMAIN events /\ type \in DOMAIN events[id].rates
      /\ DOMAIN events' = DOMAIN events
      /\ \A e \in DOMAIN events : IsEvent(events'[e])
  <2> DEFINE old == events[id]
             totals == [t \in DOMAIN old.rates |->
                          IF t = type THEN old.bets[t] + quantity ELSE old.bets[t]]
  <2>1. /\ id \in DOMAIN events /\ type \in DOMAIN old.rates /\ DOMAIN events' = DOMAIN events
        /\ \A e \in DOMAIN events \ {id} : events'[e] = events[e]
        /\ events'[id] = [rates |-> old.rates, left |-> old.left, bets |-> totals,
                          active |-> old.active, payout |-> old.payout, result |-> old.result]
    BY EventsAfterTransfer
  <2>2. \A e \in DOMAIN events : IsEvent(events[e])
    BY DEF TypeOK
  <2>3. totals \in [DOMAIN old.rates -> Nat]
    BY <1>1, <2>1, <2>2 DEF IsEvent
  <2> HIDE DEF totals
  <2>4. IsEvent(events'[id])
    BY <2>1, <2>2, <2>3 DEF IsEvent
  <2> QED BY <2>1, <2>2, <2>4
<1>3. id \in Nat /\ type \in Nat
  <2>1. events[id].rates \in Seq(Nat)
    BY <1>2, EventAssumption DEF TypeOK, IsEvent
  <2> QED BY <1>2, <2>1 DEF TypeOK
<1>4. IsTable(bets', 1 .. MaxBets, BetType) /\ \A b \in DOMAIN bets' : bets'[b].game_id \in DOMAIN events
  <2>1. PICK k \in 1 .. MaxBets : IsStake(k, p, id, type, quantity)
    BY BetsAfterTransfer
  <2>2. bets'[k] \in BetType
    BY <1>1, <1>3, <2>1 DEF TypeOK, IsTable, BetType, IsStake
  <2>3. bets' = [b \in DOMAIN bets' |-> bets'[b]]
    BY DEF Transfer, AddStake, NewStake, Put
  <2> QED BY <1>2, <2>1, <2>2, <2>3 DEF TypeOK, IsTable, IsStake
<1>5. IsTable(globals', Counters, Nat)
  <2>1. CASE AddStake(p, id, type, quantity)
    BY <2>1 DEF AddStake, TypeOK
  <2>2. CASE NewStake(p, id, type, quantity)
    <3>1. NextBetId \in Nat
      BY DEF NextBetId, NextGlobal, Global, TypeOK, IsTable
    <3> QED BY <2>2, <3>1, PutIsTable DEF NewStake, TypeOK, Counters
  <2> QED BY <2>1, <2>2 DEF Transfer
<1> QED BY <1>1, <1>2, <1>4, <1>5 DEF TypeOK, ghosts

LEMMA DeliverType == ASSUME TypeOK, NEW p \in Players, RunPayment(p) \/ FailPayment(p) PROVE TypeOK'
<1>1. /\ payments' = Erase(payments, {p}) /\ p \in DOMAIN payments
      /\ UNCHANGED <<events, bets, globals, written>>
  BY DEF RunPayment, FailPayment, rows
<1>2. payments[p].bets \in SUBSET (1 .. MaxBets)
  BY <1>1 DEF TypeOK, IsTable
<1>3. IsTable(payments', Players, [bets : SUBSET (1 .. MaxBets), payout : Nat])
  BY <1>1, EraseIsTable DEF TypeOK
<1>4. paid' \in [Players -> SUBSET (1 .. MaxBets)] /\ lost' \in [Players -> SUBSET (1 .. MaxBets)]
  BY <1>2 DEF RunPayment, FailPayment, TypeOK
<1> QED BY <1>1, <1>3, <1>4 DEF TypeOK

LEMMA TickType == ASSUME TypeOK, NEW d \in TimeSteps, Tick(d) PROVE TypeOK'
<1>1. d \in Nat
  BY EventAssumption
<1>2. DOMAIN events' = DOMAIN events /\ \A id \in DOMAIN events : IsEvent(events'[id])
  BY <1>1 DEF Tick, Aged, TypeOK, IsEvent, Less
<1> QED BY <1>2 DEF Tick, TypeOK, ghosts

(* The tables, the payments under way and the history are well formed in   *)
(* every reachable state.                                                  *)
THEOREM EventTypeCorrect == Spec => []TypeOK
<1>1. TypeOK /\ [Next]_vars => TypeOK'
  <2> SUFFICES ASSUME TypeOK, [Next]_vars PROVE TypeOK'
    OBVIOUS
  <2>1. CASE Operate
    <3>1. CASE InitGlobals
      BY <3>1, InitGlobalsType
    <3>2. CASE \E w \in GlobalWrites : SetGlobal(w[1], w[2])
      BY <3>2, SetGlobalType
    <3>3. CASE \E rates \in Rates, time \in BettingTimes : AddEvent(rates, time)
      BY <3>3, AddEventType
    <3>4. ASSUME NEW id \in 1 .. MaxEvents, NEW active \in BOOLEAN, SetActive(id, active) PROVE TypeOK'
      BY <3>4, SetActiveType
    <3>5. ASSUME NEW id \in 1 .. MaxEvents, NEW result \in Types,
                 CloseEvent(id, result) \/ Resolve(id, result)
          PROVE  TypeOK'
      BY <3>5, CloseEventType, ResolveType
    <3> QED BY <2>1, <3>1, <3>2, <3>3, <3>4, <3>5 DEF Operate
  <2>2. CASE Bet
    BY <2>2, TransferType DEF Bet
  <2>3. CASE Deliver
    BY <2>3, DeliverType DEF Deliver
  <2>4. CASE \E d \in TimeSteps : Tick(d)
    BY <2>4, TickType
  <2>5. CASE UNCHANGED vars
    BY <2>5 DEF vars, rows, ghosts, TypeOK
  <2> QED BY <2>1, <2>2, <2>3, <2>4, <2>5 DEF Next
<1> QED BY <1>1, InitType, PTL DEF Spec
-----------------------------------------------------------------------------
(* What a set of bets is worth after a step.                               *)
StakedAfter(S) == SumFunction([b \in S |-> bets'[b].bet])

(* Bets that are not touched are worth what they were.                     *)
LEMMA SameStake ==
    ASSUME NEW S, IsFiniteSet(S), \A b \in S : bets'[b].bet = bets[b].bet
    PROVE  StakedAfter(S) = Staked(S)
<1> DEFINE old == [b \in S |-> bets[b].bet]
           new == [b \in S |-> bets'[b].bet]
<1>1. Staked(S) = SumFunctionOnSet(old, S) /\ StakedAfter(S) = SumFunctionOnSet(new, S)
  BY DEF Staked, StakedAfter, SumFunction
<1>2. \A b \in S : old[b] = new[b]
  OBVIOUS
<1> HIDE DEF old, new
<1> QED BY <1>1, <1>2, SumsEqual

(* A transfer adds its quantity to a set that its row is in.               *)
LEMMA StakeAdded ==
    ASSUME TypeOK, NEW k \in 1 .. MaxBets, NEW p, NEW id, NEW type, NEW quantity \in Amounts,
           IsStake(k, p, id, type, quantity),
           NEW S \in SUBSET (DOMAIN bets), k \in DOMAIN bets => k \in S
    PROVE  StakedAfter(S \cup {k}) = quantity + Staked(S)
<1> DEFINE T == S \ {k}
           old == [b \in S |-> bets[b].bet]
           new == [b \in S \cup {k} |-> bets'[b].bet]
<1>1. quantity \in Nat /\ IsFiniteSet(S) /\ IsFiniteSet(T) /\ k \notin T /\ T \cup {k} = S \cup {k}
  BY EventAssumption, BetsAreFinite
<1>2. \A b \in S : old[b] = bets[b].bet /\ old[b] \in Nat
  BY DEF TypeOK, IsTable, BetType
<1>3. \A b \in T : new[b] = old[b]
  BY DEF IsStake
<1>4. new[k] = (IF k \in S THEN old[k] ELSE 0) + quantity
  BY DEF IsStake
<1>5. Staked(S) = SumFunctionOnSet(old, S) /\ StakedAfter(S \cup {k}) = SumFunctionOnSet(new, S \cup {k})
  BY DEF Staked, StakedAfter, SumFunction
<1>6. S \cup {k} = T \cup {k} /\ (k \in S => S = T \cup {k}) /\ (k \notin S => S = T)
  OBVIOUS
<1>7. \A b \in T : b \in S
  OBVIOUS
<1> HIDE DEF old, new, T
<1>8. new[k] \in Nat /\ (k \in S => old[k] \in Nat)
  BY <1>1, <1>2, <1>4
<1>9. SumFunctionOnSet(new, T) = SumFunctionOnSet(old, T) /\ SumFunctionOnSet(old, T) \in Int
  BY <1>1, <1>2, <1>3, <1>7, SumsEqual, SumIsInt
<1>10. SumFunctionOnSet(new, T \cup {k}) = SumFunctionOnSet(new, T) + new[k]
  <2>1. \A b \in T \cup {k} : new[b] \in Int
    BY <1>2, <1>3, <1>7, <1>8
  <2> QED BY <1>1, <2>1, SumWith
<1>11. CASE k \in S
  <2>1. SumFunctionOnSet(old, T \cup {k}) = SumFunctionOnSet(old, T) + old[k]
    <3>1. \A b \in T \cup {k} : old[b] \in Int
      BY <1>2, <1>7, <1>8, <1>11
    <3> QED BY <1>1, <3>1, SumWith
  <2>2. SumFunctionOnSet(new, T \cup {k}) = quantity + SumFunctionOnSet(old, T \cup {k})
    BY <1>1, <1>4, <1>8, <1>9, <1>10, <1>11, <2>1
  <2> QED BY <1>5, <1>6, <1>11, <2>2
<1>12. CASE k \notin S
  <2>1. SumFunctionOnSet(new, T \cup {k}) = quantity + SumFunctionOnSet(old, T)
    BY <1>1, <1>4, <1>8, <1>9, <1>10, <1>12
  <2> QED BY <1>5, <1>6, <1>12, <2>1
<1> QED BY <1>11, <1>12

(* One row per player, event and type, and the totals.                     *)
TotalsInv ==
    \A id \in DOMAIN events : \A t \in DOMAIN events[id].rates :
        events[id].bets[t] = Staked(BetsOnType(id, t))

LEMMA TransferKeepsTotals ==
    ASSUME TypeOK, OneRow, TotalsInv, NEW p \in Players, NEW id \in 1 .. MaxEvents, NEW type,
           NEW quantity \in Amounts, Transfer(p, id, type, quantity)
    PROVE  OneRow' /\ TotalsInv'
<1>1. PICK k \in 1 .. MaxBets : IsStake(k, p, id, type, quantity)
  BY BetsAfterTransfer
<1>2. OneRow'
  BY <1>1 DEF OneRow, IsStake
<1>3. /\ id \in DOMAIN events /\ DOMAIN events' = DOMAIN events
      /\ type \in DOMAIN events[id].rates
      /\ \A e \in DOMAIN events \ {id} : events'[e] = events[e]
      /\ events'[id].rates = events[id].rates
      /\ \A t \in DOMAIN events[id].rates :
           events'[id].bets[t] = IF t = type THEN events[id].bets[t] + quantity ELSE events[id].bets[t]
  <2> DEFINE totals == [t \in DOMAIN events[id].rates |->
                          IF t = type THEN events[id].bets[t] + quantity ELSE events[id].bets[t]]
  <2>1. events'[id] = [rates |-> events[id].rates, left |-> events[id].left, bets |-> totals,
                       active |-> events[id].active, payout |-> events[id].payout,
                       result |-> events[id].result]
    BY EventsAfterTransfer
  <2>2. /\ id \in DOMAIN events /\ DOMAIN events' = DOMAIN events
        /\ type \in DOMAIN events[id].rates
        /\ \A e \in DOMAIN events \ {id} : events'[e] = events[e]
    BY EventsAfterTransfer
  <2>3. \A t \in DOMAIN events[id].rates :
          totals[t] = IF t = type THEN events[id].bets[t] + quantity ELSE events[id].bets[t]
    OBVIOUS
  <2> HIDE DEF totals
  <2>4. events'[id].rates = events[id].rates /\ events'[id].bets = totals
    BY <2>1
  <2> QED BY <2>2, <2>3, <2>4
<1>4. \A e, t : BetsOnType(e, t) \in SUBSET (DOMAIN bets) /\ IsFiniteSet(BetsOnType(e, t))
  BY BetsAreFinite DEF BetsOnType, BetsOn
<1>5. ASSUME NEW e, NEW t, e # id \/ t # type
      PROVE  Staked(BetsOnType(e, t))' = Staked(BetsOnType(e, t))
  <2>1. k \notin BetsOnType(e, t) /\ BetsOnType(e, t)' = BetsOnType(e, t)
    BY <1>1, <1>5 DEF BetsOnType, BetsOn, IsStake
  <2>2. Staked(BetsOnType(e, t))' = StakedAfter(BetsOnType(e, t))
    BY <2>1 DEF Staked, StakedAfter
  <2>3. \A b \in BetsOnType(e, t) : bets'[b].bet = bets[b].bet
    BY <1>1, <1>4, <2>1 DEF IsStake
  <2> QED BY <1>4, <2>2, <2>3, SameStake
<1>6. Staked(BetsOnType(id, type))' = quantity + Staked(BetsOnType(id, type))
  <2> DEFINE S == BetsOnType(id, type)
  <2>1. /\ BetsOnType(id, type)' = S \cup {k}
        /\ k \in DOMAIN bets => k \in S
    BY <1>1 DEF BetsOnType, BetsOn, IsStake
  <2>2. Staked(BetsOnType(id, type))' = StakedAfter(S \cup {k})
    BY <2>1 DEF Staked, StakedAfter
  <2> HIDE DEF S
  <2>3. StakedAfter(S \cup {k}) = quantity + Staked(S)
    BY <1>1, <1>4, <2>1, StakeAdded DEF S
  <2> QED BY <2>2, <2>3 DEF S
<1>7. quantity \in Nat /\ Staked(BetsOnType(id, type)) \in Nat
  BY <1>4, StakedIsNat, EventAssumption
<1>8. ASSUME NEW e \in DOMAIN events, NEW t \in DOMAIN events'[e].rates
      PROVE  events'[e].bets[t] = Staked(BetsOnType(e, t))'
  <2>1. t \in DOMAIN events[e].rates
    BY <1>3, <1>8
  <2>2. events[e].bets[t] = Staked(BetsOnType(e, t))
    BY <2>1 DEF TotalsInv
  <2>3. CASE e = id /\ t = type
    BY <1>3, <1>6, <1>7, <2>1, <2>2, <2>3
  <2>4. CASE e # id \/ t # type
    BY <1>3, <1>5, <2>1, <2>2, <2>4
  <2> QED BY <2>3, <2>4
<1> QED BY <1>2, <1>3, <1>8 DEF TotalsInv

(* The actions that change no bet, no rate and no total of an event.       *)
LEMMA TotalsStay ==
    ASSUME OneRow, TotalsInv, UNCHANGED bets, DOMAIN events' = DOMAIN events,
           \A id \in DOMAIN events : events'[id].rates = events[id].rates /\ events'[id].bets = events[id].bets
    PROVE  OneRow' /\ TotalsInv'
<1>1. OneRow'
  BY DEF OneRow
<1>2. \A id, t : Staked(BetsOnType(id, t))' = Staked(BetsOnType(id, t))
  BY DEF Staked, BetsOnType, BetsOn
<1> QED BY <1>1, <1>2 DEF TotalsInv

LEMMA RowKeepsTotals ==
    ASSUME NEW id \in DOMAIN events, NEW active, NEW payout, NEW result,
           events' = Put(events, id, Row(events[id], events[id].bets, active, payout, result))
    PROVE  /\ DOMAIN events' = DOMAIN events
           /\ \A e \in DOMAIN events :
                events'[e].rates = events[e].rates /\ events'[e].bets = events[e].bets
  BY DEF Put, Row

LEMMA AddEventKeepsTotals ==
    ASSUME TypeOK, OneRow, TotalsInv, NEW rates, NEW time, AddEvent(rates, time)
    PROVE  OneRow' /\ TotalsInv'
<1> DEFINE id == NextGlobal(globals, "event")
           row == [rates |-> rates, left |-> time, bets |-> [t \in DOMAIN rates |-> 0],
                   active |-> FALSE, payout |-> 0, result |-> NoResult]
<1>1. id \notin DOMAIN events /\ events' = Put(events, id, row) /\ UNCHANGED bets
  BY DEF AddEvent
<1>2. row.rates = rates /\ \A t \in DOMAIN rates : row.bets[t] = 0
  OBVIOUS
<1> HIDE DEF id, row
<1>3. /\ DOMAIN events' = DOMAIN events \cup {id} /\ events'[id] = row
      /\ \A e \in DOMAIN events : events'[e] = events[e]
  BY <1>1 DEF Put
<1>4. OneRow'
  BY <1>1 DEF OneRow
<1>5. \A e, t : Staked(BetsOnType(e, t))' = Staked(BetsOnType(e, t))
  BY <1>1 DEF Staked, BetsOnType, BetsOn
<1>6. ASSUME NEW t PROVE Staked(BetsOnType(id, t)) = 0
  <2>1. BetsOnType(id, t) = {}
    BY <1>1 DEF BetsOnType, BetsOn, TypeOK
  <2>2. Staked(BetsOnType(id, t)) = SumFunctionOnSet([b \in BetsOnType(id, t) |-> bets[b].bet], {})
    BY <2>1 DEF Staked, SumFunction
  <2> QED BY <2>2, SumOfNone
<1> QED BY <1>2, <1>3, <1>4, <1>5, <1>6 DEF TotalsInv

(* A player has one row per event and type, and the totals that closeevent *)
(* pays from are those of the bets, for any number of events, bets and     *)
(* types, through second bets, closings, reopenings and resolutions.       *)
THEOREM EventTotalsMatch == Spec => []TotalsMatch
<1>1. Init => OneRow /\ TotalsInv
  BY DEF Init, OneRow, TotalsInv, EmptyTable
<1>2. TypeOK /\ OneRow /\ TotalsInv /\ [Next]_vars => OneRow' /\ TotalsInv'
  <2> SUFFICES ASSUME TypeOK, OneRow, TotalsInv, [Next]_vars PROVE OneRow' /\ TotalsInv'
    OBVIOUS
  <2>1. CASE Operate
    <3>1. CASE InitGlobals
      BY <3>1, TotalsStay DEF InitGlobals
    <3>2. CASE \E w \in GlobalWrites : SetGlobal(w[1], w[2])
      BY <3>2, TotalsStay DEF SetGlobal
    <3>3. CASE \E rates \in Rates, time \in BettingTimes : AddEvent(rates, time)
      BY <3>3, AddEventKeepsTotals
    <3>4. ASSUME NEW id, NEW active, SetActive(id, active) PROVE OneRow' /\ TotalsInv'
      <4>1. /\ id \in DOMAIN events /\ UNCHANGED bets
            /\ events' = Put(events, id, Row(events[id], events[id].bets, active,
                                             events[id].payout, events[id].result))
        BY <3>4 DEF SetActive
      <4> QED BY <4>1, RowKeepsTotals, TotalsStay
    <3>5. ASSUME NEW id, NEW result, CloseEvent(id, result) PROVE OneRow' /\ TotalsInv'
      <4>1. id \in DOMAIN events /\ UNCHANGED bets
        BY <3>5 DEF CloseEvent
      <4>2. PICK payout : events' = Put(events, id, Row(events[id], events[id].bets, FALSE, payout,
                                                        events[id].result))
        BY <3>5 DEF CloseEvent
      <4> QED BY <4>1, <4>2, RowKeepsTotals, TotalsStay
    <3>6. ASSUME NEW id, NEW result, Resolve(id, result) PROVE OneRow' /\ TotalsInv'
      <4>1. /\ id \in DOMAIN events /\ UNCHANGED bets
            /\ events' = Put(events, id, Row(events[id], events[id].bets, events[id].active,
                                             events[id].payout, result))
        BY <3>6 DEF Resolve
      <4> QED BY <4>1, RowKeepsTotals, TotalsStay
    <3> QED BY <2>1, <3>1, <3>2, <3>3, <3>4, <3>5, <3>6 DEF Operate
  <2>2. CASE Bet
    BY <2>2, TransferKeepsTotals DEF Bet
  <2>3. CASE Deliver
    BY <2>3, TotalsStay DEF Deliver, RunPayment, FailPayment, rows
  <2>4. CASE \E d \in TimeSteps : Tick(d)
    BY <2>4, TotalsStay DEF Tick, Aged
  <2>5. CASE UNCHANGED vars
    BY <2>5, TotalsStay DEF vars, rows
  <2> QED BY <2>1, <2>2, <2>3, <2>4, <2>5 DEF Next
<1>3. OneRow /\ TotalsInv => TotalsMatch
  BY DEF TotalsMatch, TotalsInv
<1> QED BY <1>1, <1>2, <1>3, EventTypeCorrect, PTL DEF Spec

-----------------------------------------------------------------------------
(* While the operator leaves the limit alone it is at most the default,    *)
(* even when init has written a zero over it.                              *)
LimitKept == "max" \notin written => MaxBet <= DefaultMaxBet
LimitInv ==
    "max" \notin written =>
        \A p \in Players, id \in DOMAIN events : Staked(BetsOf(p, id)) <= DefaultMaxBet

LEMMA LimitAfter ==
    ASSUME LimitKept, UNCHANGED written,
           \A k \in DOMAIN globals' : \/ k \in DOMAIN globals /\ globals'[k] = globals[k]
                                      \/ k # "max" \/ globals'[k] = 0,
           "max" \in DOMAIN globals => "max" \in DOMAIN globals'
    PROVE  LimitKept'
  BY EventAssumption DEF LimitKept, MaxBet

LEMMA TransferKeepsLimit ==
    ASSUME TypeOK, LimitKept, LimitInv, NEW p \in Players, NEW id \in 1 .. MaxEvents, NEW type,
           NEW quantity \in Amounts, Transfer(p, id, type, quantity)
    PROVE  LimitInv'
<1>1. PICK k \in 1 .. MaxBets : IsStake(k, p, id, type, quantity)
  BY BetsAfterTransfer
<1>2. id \in DOMAIN events /\ DOMAIN events' = DOMAIN events
  BY EventsAfterTransfer
<1>3. \A q, e : BetsOf(q, e) \in SUBSET (DOMAIN bets) /\ IsFiniteSet(BetsOf(q, e))
  BY BetsAreFinite DEF BetsOf, BetsOn
<1>4. ASSUME NEW q, NEW e, q # p \/ e # id
      PROVE  Staked(BetsOf(q, e))' = Staked(BetsOf(q, e))
  <2>1. k \notin BetsOf(q, e) /\ BetsOf(q, e)' = BetsOf(q, e)
    BY <1>1, <1>4 DEF BetsOf, BetsOn, IsStake
  <2>2. Staked(BetsOf(q, e))' = StakedAfter(BetsOf(q, e))
    BY <2>1 DEF Staked, StakedAfter
  <2>3. \A b \in BetsOf(q, e) : bets'[b].bet = bets[b].bet
    BY <1>1, <1>3, <2>1 DEF IsStake
  <2> QED BY <1>3, <2>2, <2>3, SameStake
<1>5. Staked(BetsOf(p, id))' = TotalBet(p, id, type, quantity)
  <2> DEFINE S == BetsOf(p, id)
  <2>1. /\ BetsOf(p, id)' = S \cup {k}
        /\ k \in DOMAIN bets => k \in S
    BY <1>1 DEF BetsOf, BetsOn, IsStake
  <2>2. Staked(BetsOf(p, id))' = StakedAfter(S \cup {k})
    BY <2>1 DEF Staked, StakedAfter
  <2> HIDE DEF S
  <2>3. StakedAfter(S \cup {k}) = quantity + Staked(S)
    BY <1>1, <1>3, <2>1, StakeAdded DEF S
  <2> QED BY <2>2, <2>3 DEF S, TotalBet
<1>6. TotalBet(p, id, type, quantity) <= MaxBet /\ written' = written
  BY DEF Transfer, ghosts
<1>7. /\ TotalBet(p, id, type, quantity) \in Int /\ MaxBet \in Int /\ DefaultMaxBet \in Int
  BY <1>3, StakedIsNat, EventAssumption DEF TotalBet, MaxBet, TypeOK, IsTable
<1>8. "max" \notin written => Staked(BetsOf(p, id))' <= DefaultMaxBet
  BY <1>5, <1>6, <1>7 DEF LimitKept
<1> QED BY <1>2, <1>4, <1>6, <1>8 DEF LimitInv

LEMMA LimitStays ==
    ASSUME LimitInv, UNCHANGED bets, written \subseteq written', DOMAIN events' = DOMAIN events
    PROVE  LimitInv'
<1>1. \A p, id : Staked(BetsOf(p, id))' = Staked(BetsOf(p, id))
  BY DEF Staked, BetsOf, BetsOn
<1> QED BY <1>1 DEF LimitInv

LEMMA AddEventKeepsLimit ==
    ASSUME TypeOK, LimitInv, NEW rates, NEW time, AddEvent(rates, time)
    PROVE  LimitInv'
<1> DEFINE id == NextGlobal(globals, "event")
<1>1. id \notin DOMAIN events /\ DOMAIN events' = DOMAIN events \cup {id} /\ UNCHANGED <<bets, written>>
  BY DEF AddEvent, Put, ghosts
<1> HIDE DEF id
<1>2. \A p, e : Staked(BetsOf(p, e))' = Staked(BetsOf(p, e))
  BY <1>1 DEF Staked, BetsOf, BetsOn
<1>3. ASSUME NEW p PROVE Staked(BetsOf(p, id)) = 0
  <2>1. BetsOf(p, id) = {}
    BY <1>1 DEF BetsOf, BetsOn, TypeOK
  <2>2. Staked(BetsOf(p, id)) = SumFunctionOnSet([b \in BetsOf(p, id) |-> bets[b].bet], {})
    BY <2>1 DEF Staked, SumFunction
  <2> QED BY <2>2, SumOfNone
<1> QED BY <1>1, <1>2, <1>3, EventAssumption DEF LimitInv

(* No player stakes more than the default limit on an event, over all its  *)
(* types and however he splits it, until the operator changes the limit.   *)
THEOREM EventStakesLimited == Spec => []StakesLimited
<1>1. Init => LimitKept /\ LimitInv
  BY EventAssumption DEF Init, LimitKept, LimitInv, MaxBet, EmptyTable
<1>2. TypeOK /\ LimitKept /\ LimitInv /\ [Next]_vars => LimitKept' /\ LimitInv'
  <2> SUFFICES ASSUME TypeOK, LimitKept, LimitInv, [Next]_vars PROVE LimitKept' /\ LimitInv'
    OBVIOUS
  <2>1. ASSUME UNCHANGED <<globals, written>> PROVE LimitKept'
    BY <2>1 DEF LimitKept, MaxBet
  <2>2. CASE Operate
    <3>1. CASE InitGlobals
      <4>1. LimitKept'
        BY <3>1, LimitAfter DEF InitGlobals, Counters, Global, ghosts
      <4> QED BY <3>1, <4>1, LimitStays DEF InitGlobals, ghosts
    <3>2. CASE \E w \in GlobalWrites : SetGlobal(w[1], w[2])
      <4>1. PICK w \in GlobalWrites : SetGlobal(w[1], w[2])
        BY <3>2
      <4>2. LimitKept'
        BY <4>1 DEF SetGlobal, LimitKept, MaxBet, Put
      <4> QED BY <4>1, <4>2, LimitStays DEF SetGlobal
    <3>3. CASE \E rates \in Rates, time \in BettingTimes : AddEvent(rates, time)
      <4>1. PICK rates \in Rates, time \in BettingTimes : AddEvent(rates, time)
        BY <3>3
      <4>2. LimitKept'
        BY <4>1 DEF AddEvent, LimitKept, MaxBet, Put, ghosts
      <4> QED BY <4>1, <4>2, AddEventKeepsLimit
    <3>4. ASSUME NEW id, NEW active, SetActive(id, active) PROVE LimitKept' /\ LimitInv'
      BY <3>4, <2>1, LimitStays DEF SetActive, Put, ghosts
    <3>5. ASSUME NEW id, NEW result, CloseEvent(id, result) \/ Resolve(id, result)
          PROVE  LimitKept' /\ LimitInv'
      BY <3>5, <2>1, LimitStays DEF CloseEvent, Resolve, Put, ghosts
    <3> QED BY <2>2, <3>1, <3>2, <3>3, <3>4, <3>5 DEF Operate
  <2>3. CASE Bet
    <3>1. PICK p \in Players, id \in 1 .. MaxEvents, type \in Types, quantity \in Amounts :
            Transfer(p, id, type, quantity)
      BY <2>3 DEF Bet
    <3>2. LimitKept'
      BY <2>1, <3>1 DEF Transfer, AddStake, NewStake, LimitKept, MaxBet, Put, ghosts
    <3> QED BY <3>1, <3>2, TransferKeepsLimit
  <2>4. CASE Deliver
    BY <2>1, <2>4, LimitStays DEF Deliver, RunPayment, FailPayment, rows
  <2>5. CASE \E d \in TimeSteps : Tick(d)
    BY <2>1, <2>5, LimitStays DEF Tick, ghosts
  <2>6. CASE UNCHANGED vars
    BY <2>1, <2>6, LimitStays DEF vars, rows, ghosts
  <2> QED BY <2>2, <2>3, <2>4, <2>5, <2>6 DEF Next
<1>3. LimitInv => StakesLimited
  BY DEF LimitInv, StakesLimited
<1> QED BY <1>1, <1>2, <1>3, EventTypeCorrect, PTL DEF Spec
=============================================================================
