--------------------------- MODULE RoundGameProofs ---------------------------
(***************************************************************************)
(* Theorems about RoundGame for every choice of players, odds, sizes,      *)
(* limits and bounds.                                                      *)
(***************************************************************************)
EXTENDS RoundGame, TableLemmas, FiniteSetTheorems, SequenceTheorems, TLAPS

LEMMA NoRows == DOMAIN EmptyTable = {}
  BY DEF EmptyTable

(* A counter is a number, before and after it is counted up.               *)
LEMMA CounterIsNat ==
    ASSUME IsTable(globals, Counters, Nat), NEW k
    PROVE  Global(globals, k) \in Nat /\ NextGlobal(globals, k) \in Nat
  BY DEF IsTable, Global, NextGlobal

LEMMA ResultSlotIsNat ==
    ASSUME IsTable(globals, Counters, Nat)
    PROVE  ResultSlot \in Nat
  BY GameAssumption DEF IsTable, ResultSlot, NextGlobalMod

(* The rows a transfer adds are typed, and no line is lost.                *)
LEMMA NewBetsAreTable ==
    ASSUME IsTable(globals, Counters, Nat), NEW p \in Players, NEW id \in Nat,
           NEW slip \in Slips
    PROVE  /\ IsTable(NewBets(p, id, slip), FreshIds(Len(slip)), BetType)
           /\ Len(slip) \in Nat
<1>1. LastBetId \in Nat
  BY CounterIsNat DEF LastBetId
<1>2. slip \in Seq([type : BetTypes, amount : Nat])
  BY GameAssumption
<1>3. Len(slip) \in Nat
  BY <1>2
<1>4. \A b \in FreshIds(Len(slip)) : b \in Nat /\ b - LastBetId \in 1 .. Len(slip)
  BY <1>1, <1>3 DEF FreshIds
<1>5. \A b \in FreshIds(Len(slip)) : slip[b - LastBetId] \in [type : BetTypes, amount : Nat]
  BY <1>2, <1>4, ElementOfSeq
<1>6. \A b \in FreshIds(Len(slip)) :
        [game_id |-> id, player |-> p, bet |-> slip[b - LastBetId].amount,
         bet_type |-> slip[b - LastBetId].type] \in BetType
  BY <1>5 DEF BetType
<1> QED BY <1>3, <1>4, <1>6 DEF IsTable, NewBets

(* The rows of the round's table that the actions write.                   *)
LEMMA GameRowsAreTyped ==
    ASSUME Shape
    PROVE  /\ Started \in GameType
           /\ \A w \in Nat : Between(w) \in GameType
           /\ game.id \in Nat /\ game.left \in Nat
<1>1. game.id \in Nat /\ game.left \in Nat
  BY DEF Shape, GameType
<1>2. Started \in GameType
  BY <1>1, GameAssumption DEF Started, GameType
<1>3. \A w \in Nat : Between(w) \in GameType
  BY CounterIsNat DEF Between, GameType, Shape
<1> QED BY <1>1, <1>2, <1>3

(* The sums over a player's bets.                                          *)
LEMMA BetsAreFinite ==
    ASSUME Shape
    PROVE  IsFiniteSet(DOMAIN bets) /\ \A p : IsFiniteSet(BetsOf(p))
<1>1. MaxBets \in Int /\ 1 \in Int
  BY GameAssumption
<1>2. IsFiniteSet(1 .. MaxBets)
  BY ONLY <1>1, FS_Interval
<1>3. DOMAIN bets \in SUBSET (1 .. MaxBets)
  BY DEF Shape, IsTable
<1>4. IsFiniteSet(DOMAIN bets)
  BY <1>2, <1>3, FS_Subset
<1>5. \A p : BetsOf(p) \in SUBSET (DOMAIN bets)
  BY DEF BetsOf
<1> QED BY <1>4, <1>5, FS_Subset

LEMMA StakesAreNat == ASSUME Shape PROVE \A p : AtStake(p) \in Nat
<1> SUFFICES ASSUME NEW p PROVE AtStake(p) \in Nat
  OBVIOUS
<1> DEFINE stake == [b \in BetsOf(p) |-> bets[b].bet]
<1>1. \A b \in BetsOf(p) : bets[b].bet \in Nat
  BY DEF Shape, IsTable, BetType, BetsOf
<1>2. DOMAIN stake = BetsOf(p) /\ \A b \in BetsOf(p) : stake[b] \in Nat
  BY <1>1
<1>3. AtStake(p) = SumFunctionOnSet(stake, DOMAIN stake)
  BY DEF AtStake, SumFunction
<1> HIDE DEF stake
<1> QED BY <1>2, <1>3, BetsAreFinite, SumOfNaturals

LEMMA PayoutIsNat ==
    ASSUME Shape, NEW o \in Outcomes
    PROVE  \A b \in DOMAIN bets : Payout(b, o) \in Nat
<1> SUFFICES ASSUME NEW b \in DOMAIN bets PROVE Payout(b, o) \in Nat
  OBVIOUS
<1>1. bets[b].bet \in Nat /\ bets[b].bet_type \in BetTypes
  BY DEF Shape, IsTable, BetType
<1>2. Rate[o][bets[b].bet_type] \in Nat
  BY <1>1, GameAssumption
<1>3. \A m, n \in Nat : (m * n) \div 100 \in Nat
  <2>1. \A m, n \in Nat : m * n \in Nat
    OBVIOUS
  <2>2. \A m \in Nat : m \div 100 \in Nat
    OBVIOUS
  <2> QED BY <2>1, <2>2
<1> QED BY <1>1, <1>2, <1>3 DEF Payout

LEMMA PaymentIsTyped ==
    ASSUME Shape, NEW o \in Outcomes, NEW p
    PROVE  Payment(p, o) \in [bets : SUBSET Nat, bet : Nat, payout : Nat]
<1> DEFINE pays == [b \in BetsOf(p) |-> Payout(b, o)]
<1>1. DOMAIN pays = BetsOf(p) /\ \A b \in BetsOf(p) : pays[b] \in Nat
  BY PayoutIsNat DEF BetsOf
<1>2. BetsOf(p) \in SUBSET Nat
  BY DEF BetsOf, Shape, IsTable
<1>3. Payment(p, o) = [bets |-> BetsOf(p), bet |-> AtStake(p),
                       payout |-> SumFunctionOnSet(pays, BetsOf(p))]
  BY DEF Payment, SumFunction
<1> HIDE DEF pays
<1>4. SumFunctionOnSet(pays, BetsOf(p)) \in Nat
  BY <1>1, BetsAreFinite, SumOfNaturals
<1> QED BY <1>2, <1>3, <1>4, StakesAreNat

-----------------------------------------------------------------------------
(* The shape of the state, action by action.                               *)
LEMMA InitShape == Init => Shape
  BY NoRows, EmptyIsTable DEF Init, Shape, GameType, Idle

LEMMA InitSymbolShape == Shape /\ InitSymbol => Shape'
<1> SUFFICES ASSUME Shape, InitSymbol PROVE Shape'
  OBVIOUS
<1>1. NextGlobal(globals, "game") \in Nat
  BY CounterIsNat DEF Shape
<1>2. IsTable(globals', Counters, Nat)
  BY <1>1, PutIsTable DEF InitSymbol, Shape, Counters
<1>3. game' \in GameType
  BY <1>1 DEF InitSymbol, GameType
<1> QED BY <1>2, <1>3 DEF InitSymbol, Shape, ghosts

LEMMA StartShape ==
    ASSUME Shape, game' = Started, restart' \in {restart, Idle},
           UNCHANGED <<globals, bets, bet_amount, history, results, payments, ghosts>>
    PROVE  Shape'
  BY GameRowsAreTyped DEF Shape, ghosts

LEMMA TransferShape ==
    ASSUME Shape, NEW p \in Players, NEW id \in 0 .. MaxRound, NEW slip \in Slips,
           NEW quantity \in 1 .. MaxPayout, Transfer(p, id, slip, quantity)
    PROVE  Shape'
<1>1. id \in Nat /\ quantity \in Nat
  BY GameAssumption
<1>2. IsTable(bets', 1 .. MaxBets, BetType)
  <2>1. FreshIds(Len(slip)) \subseteq 1 .. MaxBets
    BY <1>1, NewBetsAreTable, CounterIsNat, GameAssumption
       DEF Transfer, FreshIds, LastBetId, Shape
  <2>2. IsTable(NewBets(p, id, slip), 1 .. MaxBets, BetType)
    BY <1>1, <2>1, NewBetsAreTable DEF Shape, IsTable
  <2> QED BY <2>2, PutAllIsTable DEF Transfer, Shape
<1>3. TotalBet(p, quantity) \in Nat
  BY <1>1 DEF TotalBet, Shape, IsTable
<1>4. IsTable(bet_amount', Players, Nat)
  BY <1>3, PutIsTable DEF Transfer, Shape
<1>5. LastBetId + Len(slip) \in Nat
  BY <1>1, NewBetsAreTable, CounterIsNat DEF Shape, LastBetId
<1>6. IsTable(globals', Counters, Nat)
  BY <1>5, PutIsTable DEF Transfer, Shape, Counters
<1>7. game' \in GameType
  BY GameRowsAreTyped DEF Transfer, Shape
<1> QED BY <1>2, <1>4, <1>6, <1>7 DEF Transfer, Shape, ghosts

(* What a reveal does to the payments.                                     *)
LEMMA PaymentsAfterReveal ==
    ASSUME Shape, NEW o, Reveal(o)
    PROVE  /\ DOMAIN payments' = Bettors \cup DOMAIN payments
           /\ Bettors \subseteq Players
           /\ \A p \in Bettors : payments'[p] = Payment(p, o) /\ payments'[p].bets = BetsOf(p)
           /\ \A p \in DOMAIN payments : payments'[p] = payments[p] /\ p \notin Bettors
<1> DEFINE new == [p \in Bettors |-> Payment(p, o)]
<1>1. payments' = PutAll(payments, new)
  BY DEF Reveal
<1>2. Bettors \cap DOMAIN payments = {}
  BY DEF Reveal, SendersFree
<1>3. Bettors \subseteq Players
  BY DEF Bettors, Shape, IsTable, BetType
<1>4. \A p \in Bettors : new[p] = Payment(p, o) /\ new[p].bets = BetsOf(p)
  BY DEF Payment
<1>5. DOMAIN new = Bettors
  OBVIOUS
<1> HIDE DEF new
<1>6. /\ DOMAIN payments' = DOMAIN payments \cup Bettors
      /\ \A p \in Bettors : payments'[p] = new[p]
      /\ \A p \in DOMAIN payments \ Bettors : payments'[p] = payments[p]
  BY <1>1, <1>5, PutAllLookup
<1> QED BY <1>2, <1>3, <1>4, <1>6

LEMMA RevealShape == ASSUME Shape, NEW o \in Outcomes, Reveal(o) PROVE Shape'
<1>1. LastHistoryId \in Nat
  BY BetsAreFinite, FS_CardinalityType, CounterIsNat DEF LastHistoryId, Shape
<1>2. ResultSlot \in Nat /\ NextGlobal(globals, "game") \in Nat
  BY ResultSlotIsNat, CounterIsNat DEF Shape
<1>3. IsTable(globals', Counters, Nat)
  <2>1. IsTable(Put(globals, "history", LastHistoryId), Counters, Nat)
    BY <1>1, PutIsTable DEF Shape, Counters
  <2>2. IsTable(Put(Put(globals, "history", LastHistoryId), "game", NextGlobal(globals, "game")),
                Counters, Nat)
    BY <2>1, <1>2, PutIsTable DEF Counters
  <2> QED BY <2>2, <1>2, PutIsTable DEF Reveal, Counters
<1>4. IsTable(results', Nat, ResultType)
  <2>1. [game_id |-> game.id, result |-> o] \in ResultType
    BY GameRowsAreTyped DEF ResultType
  <2> QED BY <2>1, <1>2, PutIsTable DEF Reveal, Shape
<1>5. game' \in GameType
  BY GameRowsAreTyped, GameAssumption DEF Reveal
<1>6. IsTable(bets', 1 .. MaxBets, BetType) /\ IsTable(bet_amount', Players, Nat)
  BY EmptyIsTable DEF Reveal
<1>7. IsTable(payments', Players, [bets : SUBSET Nat, bet : Nat, payout : Nat])
  <2> DEFINE new == [p \in Bettors |-> Payment(p, o)]
  <2>1. IsTable(new, Players, [bets : SUBSET Nat, bet : Nat, payout : Nat])
    BY PaymentIsTyped, PaymentsAfterReveal DEF IsTable
  <2> QED BY <2>1, PutAllIsTable DEF Reveal, Shape
<1>8. restart' \in Nat /\ UNCHANGED ghosts
  BY GameAssumption DEF Reveal
<1> QED BY <1>3, <1>4, <1>5, <1>6, <1>7, <1>8 DEF Shape, ghosts

LEMMA HardCloseShape == Shape /\ HardClose => Shape'
<1> SUFFICES ASSUME Shape, HardClose PROVE Shape'
  OBVIOUS
<1>1. NextGlobal(globals, "game") \in Nat
  BY CounterIsNat DEF Shape
<1>2. IsTable(globals', Counters, Nat)
  BY <1>1, PutIsTable DEF HardClose, Shape, Counters
<1>3. game' \in GameType /\ forced' \subseteq Nat
  BY GameRowsAreTyped DEF HardClose, Shape
<1> QED BY <1>2, <1>3 DEF HardClose, Shape

LEMMA SetGlobalShape ==
    ASSUME Shape, NEW w \in GlobalWrites, SetGlobal(w[1], w[2])
    PROVE  Shape'
<1>1. w[1] \in Counters /\ w[2] \in Nat
  BY GameAssumption DEF Counters
<1>2. IsTable(globals', Counters, Nat)
  BY <1>1, PutIsTable DEF SetGlobal, Shape
<1> QED BY <1>2 DEF SetGlobal, Shape, ghosts

(* What a deferred payment leaves, run or failed.                          *)
LEMMA PaymentsAfterOne ==
    ASSUME NEW p, payments' = Erase(payments, {p})
    PROVE  /\ DOMAIN payments' = DOMAIN payments \ {p}
           /\ \A q \in DOMAIN payments' : payments'[q] = payments[q]
  BY DEF Erase

LEMMA PaymentShape ==
    ASSUME Shape, NEW p \in Players, RunPayment(p) \/ FailPayment(p)
    PROVE  Shape'
<1>1. payments' = Erase(payments, {p}) /\ p \in DOMAIN payments
  BY DEF RunPayment, FailPayment
<1>2. IsTable(payments', Players, [bets : SUBSET Nat, bet : Nat, payout : Nat])
  BY <1>1, EraseIsTable DEF Shape
<1>3. paid' \in [Players -> SUBSET Nat] /\ lost' \in [Players -> SUBSET Nat]
  BY <1>1 DEF IsTable, RunPayment, FailPayment, Shape
<1> QED BY <1>2, <1>3 DEF RunPayment, FailPayment, Shape, rows

LEMMA TickShape == ASSUME Shape, NEW d \in TimeSteps, Tick(d) PROVE Shape'
<1>1. d \in Nat
  BY GameAssumption
<1>2. game' \in GameType
  BY <1>1 DEF Tick, Shape, GameType, Less
<1>3. restart' \in Nat \cup {Idle}
  BY <1>1 DEF Tick, Shape, Less, Idle
<1> QED BY <1>2, <1>3 DEF Tick, Shape, ghosts

(* The tables, counters and calls of the contract are well formed in every *)
(* reachable state.                                                        *)
THEOREM ShapeCorrect == Spec => []Shape
<1>1. Shape /\ [Next]_vars => Shape'
  <2> SUFFICES ASSUME Shape, [Next]_vars PROVE Shape'
    OBVIOUS
  <2>1. CASE InitSymbol
    BY <2>1, InitSymbolShape
  <2>2. CASE Operate
    <3>1. CASE NewRound
      BY <3>1, StartShape DEF NewRound
    <3>2. CASE HardClose
      BY <3>2, HardCloseShape
    <3>3. CASE \E w \in GlobalWrites : SetGlobal(w[1], w[2])
      BY <3>3, SetGlobalShape
    <3> QED BY <2>2, <3>1, <3>2, <3>3 DEF Operate
  <2>3. CASE Bet
    BY <2>3, TransferShape DEF Bet
  <2>4. CASE \E o \in Outcomes : Reveal(o)
    BY <2>4, RevealShape
  <2>5. CASE Deliver
    <3>1. CASE \E p \in Players : RunPayment(p) \/ FailPayment(p)
      BY <3>1, PaymentShape
    <3>2. CASE RunRestart
      BY <3>2, StartShape DEF RunRestart
    <3>3. CASE FailRestart
      BY <3>3 DEF FailRestart, Shape, rows, ghosts
    <3> QED BY <2>5, <3>1, <3>2, <3>3 DEF Deliver
  <2>6. CASE \E d \in TimeSteps : Tick(d)
    BY <2>6, TickShape
  <2>7. CASE UNCHANGED vars
    BY <2>7 DEF vars, rows, ghosts, Shape
  <2> QED BY <2>1, <2>2, <2>3, <2>4, <2>5, <2>6, <2>7 DEF Next
<1> QED BY <1>1, InitShape, PTL DEF Spec

-----------------------------------------------------------------------------
(* What a transfer does to the open bets.                                  *)
LEMMA BetsAfterTransfer ==
    ASSUME Shape, NEW p \in Players, NEW id, NEW slip \in Slips, NEW quantity,
           Transfer(p, id, slip, quantity)
    PROVE  /\ DOMAIN bets' = DOMAIN bets \cup FreshIds(Len(slip))
           /\ \A b \in FreshIds(Len(slip)) :
                  b \notin DOMAIN bets /\ bets'[b].player = p /\ bets'[b].game_id = game.id
           /\ \A b \in DOMAIN bets : bets'[b] = bets[b]
<1> DEFINE new == NewBets(p, id, slip)
<1>1. bets' = PutAll(bets, new) /\ FreshIds(Len(slip)) \cap DOMAIN bets = {} /\ id = game.id
  BY DEF Transfer, IsActiveId
<1>2. DOMAIN new = FreshIds(Len(slip))
  BY DEF NewBets
<1>3. \A b \in DOMAIN new : new[b].player = p /\ new[b].game_id = id
  BY DEF NewBets
<1> HIDE DEF new
<1>4. /\ DOMAIN bets' = DOMAIN bets \cup DOMAIN new
      /\ \A b \in DOMAIN new : bets'[b] = new[b]
      /\ \A b \in DOMAIN bets \ DOMAIN new : bets'[b] = bets[b]
  BY <1>1, PutAllLookup
<1> QED BY <1>1, <1>2, <1>3, <1>4

(* A bet waits for the round it names, unless the operator closed that     *)
(* round; before init there are no bets.                                   *)
BeforeInit == game.status = "none" => DOMAIN bets = {}

THEOREM BetsKeepTheirRound == Spec => []OwnRound
<1>1. Init => OwnRound /\ BeforeInit
  BY NoRows DEF Init, OwnRound, BeforeInit
<1>2. Shape /\ OwnRound /\ BeforeInit /\ [Next]_vars => (OwnRound /\ BeforeInit)'
  <2> SUFFICES ASSUME Shape, OwnRound, BeforeInit, [Next]_vars
               PROVE  (OwnRound /\ BeforeInit)'
    OBVIOUS
  <2> USE DEF OwnRound, BeforeInit
  <2>1. CASE InitSymbol
    BY <2>1 DEF InitSymbol
  <2>2. CASE Operate
    <3>1. CASE NewRound
      BY <3>1 DEF NewRound, Started, ghosts
    <3>2. CASE HardClose
      BY <3>2 DEF HardClose, Between
    <3>3. CASE \E w \in GlobalWrites : SetGlobal(w[1], w[2])
      BY <3>3 DEF SetGlobal, ghosts
    <3> QED BY <2>2, <3>1, <3>2, <3>3 DEF Operate
  <2>3. CASE Bet
    <3>1. PICK p \in Players, id \in 0 .. MaxRound, slip \in Slips, quantity \in 1 .. MaxPayout :
            Transfer(p, id, slip, quantity)
      BY <2>3 DEF Bet
    <3>2. game'.id = game.id /\ game'.status # "none" /\ forced' = forced
      BY <3>1 DEF Transfer, Started, ghosts
    <3> QED BY <3>1, <3>2, BetsAfterTransfer
  <2>4. CASE \E o \in Outcomes : Reveal(o)
    BY <2>4, NoRows DEF Reveal
  <2>5. CASE Deliver
    <3>1. CASE \E p \in Players : RunPayment(p) \/ FailPayment(p)
      BY <3>1 DEF RunPayment, FailPayment, rows
    <3>2. CASE RunRestart
      BY <3>2 DEF RunRestart, Started, ghosts
    <3>3. CASE FailRestart
      BY <3>3 DEF FailRestart, rows, ghosts
    <3> QED BY <2>5, <3>1, <3>2, <3>3 DEF Deliver
  <2>6. CASE \E d \in TimeSteps : Tick(d)
    BY <2>6 DEF Tick, ghosts
  <2>7. CASE UNCHANGED vars
    BY <2>7 DEF vars, rows, ghosts
  <2> QED BY <2>1, <2>2, <2>3, <2>4, <2>5, <2>6, <2>7 DEF Next
<1> QED BY <1>1, <1>2, ShapeCorrect, PTL DEF Spec

(* The tests of transfer and reveal exclude each other to the second: once *)
(* a round can be revealed, its bets do not change before they are settled.*)
THEOREM NoBetAfterReveal == Spec => BetsFrozen
<1>1. Shape /\ [Next]_vars => [Active /\ RevealOpen => bets' \in {bets, EmptyTable}]_vars
  <2> SUFFICES ASSUME Shape, Next, Active, RevealOpen PROVE bets' \in {bets, EmptyTable}
    OBVIOUS
  <2>1. ~Bet
    BY GameRowsAreTyped DEF Bet, Transfer, CanStart, Standby, Active, BetsOpen, RevealOpen,
                            GameRevealPreset
  <2>2. CASE Operate
    BY <2>2 DEF Operate, NewRound, HardClose, SetGlobal
  <2>3. CASE Deliver
    BY <2>3 DEF Deliver, RunPayment, FailPayment, RunRestart, FailRestart, rows
  <2> QED BY <2>1, <2>2, <2>3 DEF Next, InitSymbol, Reveal, Tick
<1> QED BY <1>1, ShapeCorrect, PTL DEF Spec, BetsFrozen

(* No call, late or repeated, moves the end of an active round.            *)
THEOREM ActiveRoundKeepsItsEnd == Spec => RoundEndsOnTime
<1> DEFINE Step == Active /\ Active' => game'.id = game.id /\ game'.left <= game.left
<1>1. Shape /\ [Next]_vars => [Step]_vars
  <2> SUFFICES ASSUME Shape, Next, Active, Active'
               PROVE  game'.id = game.id /\ game'.left <= game.left
    OBVIOUS
  <2> USE DEF Active
  <2>1. game.left \in Nat
    BY GameRowsAreTyped
  <2>2. ~InitSymbol
    BY DEF InitSymbol
  <2>3. CASE Operate
    BY <2>1, <2>3 DEF Operate, NewRound, CanStart, Standby, HardClose, Between, SetGlobal
  <2>4. CASE Bet
    BY <2>1, <2>4 DEF Bet, Transfer, CanStart, Standby
  <2>5. ~\E o \in Outcomes : Reveal(o)
    <3>1. ASSUME NEW o, Reveal(o) PROVE game'.status = "standby"
      BY <3>1 DEF Reveal, Between
    <3> QED BY <3>1
  <2>6. CASE Deliver
    <3>1. CASE \E p \in Players : RunPayment(p) \/ FailPayment(p)
      BY <2>1, <3>1 DEF RunPayment, FailPayment, rows
    <3>2. ~RunRestart
      BY DEF RunRestart, CanStart, Standby
    <3>3. CASE FailRestart
      BY <2>1, <3>3 DEF FailRestart, rows
    <3> QED BY <2>6, <3>1, <3>2, <3>3 DEF Deliver
  <2>7. CASE \E d \in TimeSteps : Tick(d)
    BY <2>1, <2>7, GameAssumption DEF Tick, Less
  <2> QED BY <2>2, <2>3, <2>4, <2>5, <2>6, <2>7 DEF Next
<1> QED BY <1>1, ShapeCorrect, PTL DEF Spec, RoundEndsOnTime

-----------------------------------------------------------------------------
(* The total the bet limit is tested with, and what it counts.             *)
Counted(p) == IF p \in DOMAIN bet_amount THEN bet_amount[p] ELSE 0

(* Bets that stay as they are are worth what they were.                    *)
LEMMA SameBetsSameStake ==
    ASSUME NEW p, IsFiniteSet(BetsOf(p)), BetsOf(p)' = BetsOf(p),
           \A b \in BetsOf(p) : bets'[b] = bets[b]
    PROVE  AtStake(p)' = AtStake(p)
<1> DEFINE old == [b \in BetsOf(p) |-> bets[b].bet]
           new == [b \in BetsOf(p) |-> bets'[b].bet]
<1>1. AtStake(p) = SumFunctionOnSet(old, BetsOf(p))
  BY DEF AtStake, SumFunction
<1>2. AtStake(p)' = SumFunctionOnSet(new, BetsOf(p))
  BY DEF AtStake, SumFunction
<1>3. \A b \in BetsOf(p) : old[b] = new[b]
  OBVIOUS
<1> HIDE DEF old, new
<1> QED BY <1>1, <1>2, <1>3, SumsEqual

(* The bets of a slip are worth the slip's total.                          *)
LEMMA SlipIsStaked ==
    ASSUME Shape, NEW p \in Players, NEW id \in Nat, NEW slip \in Slips
    PROVE  LET new == NewBets(p, id, slip)
               ids == FreshIds(Len(slip))
           IN  /\ IsFiniteSet(ids)
               /\ \A b \in ids : new[b].bet \in Nat
               /\ SlipTotal(slip) = SumFunctionOnSet([b \in ids |-> new[b].bet], ids)
<1> DEFINE new == NewBets(p, id, slip)
           ids == FreshIds(Len(slip))
           stake == [b \in ids |-> new[b].bet]
           amount == [i \in DOMAIN slip |-> slip[i].amount]
           idOf == [i \in DOMAIN slip |-> LastBetId + i]
<1>1. slip \in Seq([type : BetTypes, amount : Nat]) /\ LastBetId \in Nat
  BY GameAssumption, CounterIsNat DEF LastBetId, Shape
<1>2. DOMAIN slip = 1 .. Len(slip) /\ Len(slip) \in Nat
  BY <1>1
<1>3. \A i \in DOMAIN slip : slip[i] \in [type : BetTypes, amount : Nat]
  BY <1>1, <1>2, ElementOfSeq
<1>4. ids = {idOf[i] : i \in DOMAIN slip}
  <2>1. ASSUME NEW b \in ids PROVE \E i \in DOMAIN slip : b = idOf[i]
    <3>1. b - LastBetId \in DOMAIN slip /\ idOf[b - LastBetId] = b
      BY <1>1, <1>2 DEF FreshIds
    <3> QED BY <3>1
  <2>2. ASSUME NEW i \in DOMAIN slip PROVE idOf[i] \in ids
    BY <1>1, <1>2 DEF FreshIds
  <2> QED BY <2>1, <2>2
<1>5. \A i, j \in DOMAIN slip : idOf[i] = idOf[j] => i = j
  BY <1>1, <1>2
<1>6. \A i \in DOMAIN slip : amount[i] = stake[idOf[i]] /\ amount[i] \in Nat
  <2> SUFFICES ASSUME NEW i \in DOMAIN slip
               PROVE  amount[i] = stake[idOf[i]] /\ amount[i] \in Nat
    OBVIOUS
  <2>1. idOf[i] \in ids /\ idOf[i] - LastBetId = i
    BY <1>1, <1>2 DEF FreshIds
  <2> QED BY <1>3, <2>1 DEF NewBets
<1>7. IsFiniteSet(DOMAIN slip) /\ IsFiniteSet(ids)
  <2>1. 1 \in Int /\ Len(slip) \in Int /\ LastBetId + 1 \in Int /\ LastBetId + Len(slip) \in Int
    BY <1>1, <1>2
  <2>2. IsFiniteSet(1 .. Len(slip)) /\ IsFiniteSet(LastBetId + 1 .. LastBetId + Len(slip))
    BY ONLY <2>1, FS_Interval
  <2> QED BY <1>2, <2>2 DEF FreshIds
<1>8. \A b \in ids : new[b].bet \in Nat
  BY <1>4, <1>6
<1>9. SlipTotal(slip) = SumFunctionOnSet(amount, DOMAIN slip)
  BY DEF SlipTotal, SumFunction
<1> HIDE DEF new, amount, idOf, ids, stake
<1>10. SumFunctionOnSet(stake, {idOf[i] : i \in DOMAIN slip}) = SumFunctionOnSet(amount, DOMAIN slip)
  BY <1>5, <1>6, <1>7, SumRenamed
<1> QED BY <1>4, <1>7, <1>8, <1>9, <1>10 DEF new, ids, stake

(* A transfer adds its quantity to what the player has at stake.           *)
LEMMA TransferAddsStake ==
    ASSUME Shape, Shape', NEW p \in Players, NEW id \in 0 .. MaxRound, NEW slip \in Slips,
           NEW quantity \in 1 .. MaxPayout, Transfer(p, id, slip, quantity)
    PROVE  /\ AtStake(p)' = AtStake(p) + quantity
           /\ \A q \in Players \ {p} : AtStake(q)' = AtStake(q)
<1> DEFINE ids == FreshIds(Len(slip))
           new == NewBets(p, id, slip)
           fresh == [b \in ids |-> new[b].bet]
           mine == BetsOf(p)
           old == [b \in mine |-> bets[b].bet]
           all == [b \in mine \cup ids |-> bets'[b].bet]
<1>1. /\ BetsOf(p)' = mine \cup ids /\ mine \cap ids = {}
      /\ \A q \in Players \ {p} : BetsOf(q)' = BetsOf(q)
      /\ \A b \in DOMAIN bets : bets'[b] = bets[b]
  BY BetsAfterTransfer DEF BetsOf
<1>2. \A b \in ids : bets'[b] = new[b]
  <2>1. bets' = PutAll(bets, new) /\ DOMAIN new = ids
    BY DEF Transfer, NewBets
  <2> HIDE DEF new
  <2> QED BY <2>1, PutAllLookup
<1>3. \A q \in Players \ {p} : AtStake(q)' = AtStake(q)
  BY <1>1, BetsAreFinite, SameBetsSameStake DEF BetsOf
<1>4. /\ IsFiniteSet(mine) /\ IsFiniteSet(ids)
      /\ SlipTotal(slip) = SumFunctionOnSet(fresh, ids)
      /\ quantity = SlipTotal(slip)
  BY BetsAreFinite, SlipIsStaked, GameAssumption DEF Transfer
<1>5. /\ AtStake(p) = SumFunctionOnSet(old, mine)
      /\ AtStake(p)' = SumFunctionOnSet(all, mine \cup ids)
  BY <1>1 DEF AtStake, SumFunction
<1>6. \A b \in mine \cup ids : all[b] \in Int
  BY <1>1 DEF Shape, IsTable, BetType, BetsOf
<1>7. (\A b \in mine : all[b] = old[b]) /\ (\A b \in ids : all[b] = fresh[b])
  BY <1>1, <1>2 DEF BetsOf
<1> HIDE DEF ids, new, fresh, mine, old, all
<1>8. SumFunctionOnSet(all, mine \cup ids) = SumFunctionOnSet(all, mine) + SumFunctionOnSet(all, ids)
  BY <1>1, <1>4, <1>6, SumOfBoth
<1>9. /\ SumFunctionOnSet(all, mine) = SumFunctionOnSet(old, mine)
      /\ SumFunctionOnSet(all, ids) = SumFunctionOnSet(fresh, ids)
  BY <1>4, <1>7, SumsEqual
<1> QED BY <1>3, <1>4, <1>5, <1>8, <1>9

(* The total is counted up with the transfer, and within the limit.        *)
LEMMA TransferCounts ==
    ASSUME Shape, NEW p \in Players, NEW id, NEW slip, NEW quantity, Transfer(p, id, slip, quantity)
    PROVE  /\ Counted(p)' = quantity + Counted(p) /\ Counted(p)' <= MaxPayout
           /\ \A q \in Players \ {p} : Counted(q)' = Counted(q)
<1>1. bet_amount' = Put(bet_amount, p, TotalBet(p, quantity)) /\ TotalBet(p, quantity) <= MaxPayout
  BY DEF Transfer, WithinLimit
<1> QED BY <1>1 DEF Counted, TotalBet, Put

(* With no bet there is nothing at stake.                                  *)
LEMMA NoBetNoStake == ASSUME bets = EmptyTable PROVE \A p : AtStake(p) = 0
<1> SUFFICES ASSUME NEW p PROVE AtStake(p) = 0
  OBVIOUS
<1>1. BetsOf(p) = {}
  BY NoRows DEF BetsOf
<1>2. AtStake(p) = SumFunctionOnSet([b \in BetsOf(p) |-> bets[b].bet], {})
  BY <1>1 DEF AtStake, SumFunction
<1> QED BY <1>2, SumOfNone

(* What both properties need: the total counts the bets, and no player's   *)
(* total is above the limit.                                               *)
StakesInv == \A p \in Players : Counted(p) = AtStake(p) /\ Counted(p) <= MaxPayout

LEMMA StakesStay ==
    ASSUME Shape, StakesInv, UNCHANGED <<bets, bet_amount>>
    PROVE  StakesInv'
<1>1. \A p \in Players : AtStake(p)' = AtStake(p)
  BY BetsAreFinite, SameBetsSameStake DEF BetsOf
<1> QED BY <1>1 DEF StakesInv, Counted

LEMMA StakesCounted == Spec => []StakesInv
<1>1. Init => StakesInv
  BY NoBetNoStake, NoRows, GameAssumption DEF Init, StakesInv, Counted
<1>2. Shape /\ Shape' /\ StakesInv /\ [Next]_vars => StakesInv'
  <2> SUFFICES ASSUME Shape, Shape', StakesInv, [Next]_vars PROVE StakesInv'
    OBVIOUS
  <2>1. CASE InitSymbol
    BY <2>1, StakesStay DEF InitSymbol
  <2>2. CASE Operate
    BY <2>2, StakesStay DEF Operate, NewRound, HardClose, SetGlobal
  <2>3. CASE Bet
    <3>1. PICK p \in Players, id \in 0 .. MaxRound, slip \in Slips, quantity \in 1 .. MaxPayout :
            Transfer(p, id, slip, quantity)
      BY <2>3 DEF Bet
    <3>2. AtStake(p) \in Nat /\ Counted(p) = AtStake(p)
      BY StakesAreNat DEF StakesInv
    <3>3. /\ AtStake(p)' = AtStake(p) + quantity
          /\ \A q \in Players \ {p} : AtStake(q)' = AtStake(q)
      BY <3>1, TransferAddsStake
    <3>4. /\ Counted(p)' = quantity + Counted(p) /\ Counted(p)' <= MaxPayout
          /\ \A q \in Players \ {p} : Counted(q)' = Counted(q)
      BY <3>1, TransferCounts
    <3>5. Counted(p)' = AtStake(p)'
      BY <3>2, <3>3, <3>4
    <3> QED BY <3>3, <3>4, <3>5 DEF StakesInv
  <2>4. CASE \E o \in Outcomes : Reveal(o)
    <3>1. bets' = EmptyTable /\ bet_amount' = EmptyTable
      BY <2>4 DEF Reveal
    <3>2. \A p : AtStake(p)' = 0
      <4> SUFFICES ASSUME NEW p PROVE AtStake(p)' = 0
        OBVIOUS
      <4>1. BetsOf(p)' = {}
        BY <3>1, NoRows DEF BetsOf
      <4>2. AtStake(p)' = SumFunctionOnSet([b \in {} |-> bets'[b].bet], {})
        BY <4>1 DEF AtStake, SumFunction
      <4> QED BY <4>2, SumOfNone
    <3>3. \A p : Counted(p)' = 0
      BY <3>1, NoRows DEF Counted
    <3> QED BY <3>2, <3>3, GameAssumption DEF StakesInv
  <2>5. CASE Deliver
    BY <2>5, StakesStay DEF Deliver, RunPayment, FailPayment, RunRestart, FailRestart, rows
  <2>6. CASE \E d \in TimeSteps : Tick(d)
    BY <2>6, StakesStay DEF Tick
  <2>7. CASE UNCHANGED vars
    BY <2>7, StakesStay DEF vars, rows
  <2> QED BY <2>1, <2>2, <2>3, <2>4, <2>5, <2>6, <2>7 DEF Next
<1> QED BY <1>1, <1>2, ShapeCorrect, PTL DEF Spec

(* The per-player total that the bet limit is tested with is always the    *)
(* sum of the player's unsettled bets, for any number of bets and however  *)
(* they are split over slips, transfers and rounds closed by hand.         *)
THEOREM TotalsAreStakes == Spec => []StakesMatch
<1>1. StakesInv => StakesMatch
  BY DEF StakesInv, StakesMatch, Counted
<1> QED BY <1>1, StakesCounted, PTL

(* No player has more at stake than the house's limit, however he splits   *)
(* his bets.                                                               *)
THEOREM StakesWithinLimit == Spec => []ExposureLimited
<1>1. StakesInv => ExposureLimited
  BY DEF StakesInv, ExposureLimited
<1> QED BY <1>1, StakesCounted, PTL

-----------------------------------------------------------------------------
(* The rings, which setglobal can break: the operator writes no counter    *)
(* but that of the bets.                                                   *)
NoRingWrites == \A w \in GlobalWrites : w[1] = "bet"

HistoryType == [history_id : Nat, player : Players, bet : Nat, payout : Nat]

(* The numbers of the bets a ring of this size still holds.                *)
Window(last) == last - Least(last, HistorySize) + 1 .. last

(* Every number of the window is in its slot, and no other slot is used.   *)
HistoryInv ==
    LET last == Global(globals, "history")
    IN  /\ IsTable(history, 0 .. HistorySize - 1, HistoryType)
        /\ DOMAIN history = {i % HistorySize : i \in Window(last)}
        /\ \A i \in Window(last) : history[i % HistorySize].history_id = i

(* A counter after another one was written.                                *)
LEMMA OtherKey ==
    ASSUME NEW t, NEW k, NEW v, NEW j, j # k
    PROVE  Global(Put(t, k, v), j) = Global(t, j)
  BY DEF Global, Put

LEMMA SameKey == ASSUME NEW t, NEW k, NEW v PROVE Global(Put(t, k, v), k) = v
  BY DEF Global, Put

(* A reveal numbers its bets without gaps from the last number used.       *)
LEMMA HistoryIds ==
    ASSUME Shape
    PROVE  LET last == Global(globals, "history")
               n == Cardinality(DOMAIN bets)
           IN  /\ last \in Nat /\ n \in Nat
               /\ \A b \in DOMAIN bets : HistoryId(b) \in last + 1 .. last + n
               /\ \A i \in last + 1 .. last + n : \E b \in DOMAIN bets : HistoryId(b) = i
<1> DEFINE S == DOMAIN bets
           last == Global(globals, "history")
           n == Cardinality(S)
           place == [b \in S |-> Cardinality(UpTo(b))]
<1>1. IsFiniteSet(S) /\ n \in Nat /\ last \in Nat
  BY BetsAreFinite, FS_CardinalityType, CounterIsNat DEF Shape
<1>2. \A b \in S : b \in Nat /\ bets[b].game_id \in Nat
  BY DEF Shape, IsTable, BetType
<1>3. \A b \in S : UpTo(b) \in SUBSET S /\ b \in UpTo(b)
  BY <1>2 DEF UpTo
<1>4. \A b \in S : IsFiniteSet(UpTo(b)) /\ Cardinality(UpTo(b)) \in 1 .. n
  <2> SUFFICES ASSUME NEW b \in S
               PROVE  IsFiniteSet(UpTo(b)) /\ Cardinality(UpTo(b)) \in 1 .. n
    OBVIOUS
  <2>1. IsFiniteSet(UpTo(b)) /\ Cardinality(UpTo(b)) <= n
    BY <1>1, <1>3, FS_Subset
  <2>2. Cardinality(UpTo(b)) \in Nat /\ Cardinality(UpTo(b)) # 0
    BY <1>3, <2>1, FS_CardinalityType, FS_EmptySet
  <2> QED BY <1>1, <2>1, <2>2
<1>5. ASSUME NEW b \in S, NEW c \in S, b # c, place[b] = place[c] PROVE FALSE
  <2>1. UpTo(b) \in SUBSET UpTo(c) \/ UpTo(c) \in SUBSET UpTo(b)
    BY <1>2 DEF UpTo
  <2>2. UpTo(b) = UpTo(c)
    BY <2>1, <1>4, <1>5, FS_Subset
  <2>3. b \in UpTo(c) /\ c \in UpTo(b)
    BY <1>3, <2>2
  <2> QED BY <1>2, <1>5, <2>3 DEF UpTo
<1>6. place \in Injection(S, 1 .. n)
  <2>1. place \in [S -> 1 .. n]
    BY <1>4
  <2>2. \A b, c \in S : place[b] = place[c] => b = c
    BY <1>5
  <2> HIDE DEF place, S, n
  <2> QED BY <2>1, <2>2 DEF Injection, IsInjective
<1>7. place \in Surjection(S, 1 .. n)
  <2>1. 1 \in Int /\ n \in Int /\ ~(1 > n) => n - 1 + 1 = n
    BY <1>1
  <2>2. IsFiniteSet(1 .. n) /\ Cardinality(1 .. n) = n
    BY <1>1, FS_Interval
  <2> HIDE DEF place, S
  <2> QED BY <1>6, <2>2, FS_Injection
<1>8. \A i \in 1 .. n : \E b \in S : place[b] = i
  <2> HIDE DEF place, S, n
  <2> QED BY <1>7 DEF Surjection
<1>9. \A b \in S : HistoryId(b) = last + place[b] /\ place[b] \in 1 .. n
  BY <1>4 DEF HistoryId
<1>10. \A b \in S : HistoryId(b) \in last + 1 .. last + n
  BY <1>1, <1>9
<1>11. ASSUME NEW i \in last + 1 .. last + n PROVE \E b \in S : HistoryId(b) = i
  <2>1. i - last \in 1 .. n
    BY <1>1
  <2>2. PICK b \in S : place[b] = i - last
    BY <1>8, <2>1
  <2>3. HistoryId(b) = i
    BY <1>1, <1>9, <2>2
  <2> QED BY <2>3
<1> QED BY <1>1, <1>10, <1>11

(* Of the bets of a reveal that share a slot, the last one stays.          *)
LEMMA LastOfSlot ==
    ASSUME Shape, NEW o \in Outcomes
    PROVE  LET new == HistoryRows(o)
           IN  /\ DOMAIN new = {Slot(b) : b \in DOMAIN bets}
               /\ \A s \in DOMAIN new :
                     \E c \in DOMAIN bets :
                        /\ Slot(c) = s
                        /\ \A d \in DOMAIN bets : Slot(d) = s => HistoryId(d) <= HistoryId(c)
                        /\ new[s].history_id = HistoryId(c)
                        /\ new[s] \in HistoryType
<1> DEFINE new == HistoryRows(o)
           IsLast(c, s) == /\ Slot(c) = s
                           /\ \A d \in DOMAIN bets : Slot(d) = s => HistoryId(d) <= HistoryId(c)
           row(b) == [history_id |-> HistoryId(b), player |-> bets[b].player,
                      bet |-> bets[b].bet, payout |-> Payout(b, o)]
<1>1. DOMAIN new = {Slot(b) : b \in DOMAIN bets}
  BY DEF HistoryRows
<1>2. \A s \in DOMAIN new : new[s] = row(CHOOSE c \in DOMAIN bets : IsLast(c, s))
  BY DEF HistoryRows
<1>3. \A b \in DOMAIN bets : HistoryId(b) \in Nat
  BY HistoryIds
<1>4. \A b \in DOMAIN bets : row(b) \in HistoryType
  BY <1>3, PayoutIsNat DEF Shape, IsTable, BetType, HistoryType
<1>5. ASSUME NEW s \in DOMAIN new PROVE \E c \in DOMAIN bets : IsLast(c, s)
  <2> DEFINE T == {b \in DOMAIN bets : Slot(b) = s}
             number == [b \in DOMAIN bets |-> HistoryId(b)]
  <2>1. IsFiniteSet(T)
    BY BetsAreFinite, FS_Subset
  <2>2. T # {} /\ \A b \in T : number[b] \in Int
    BY <1>1, <1>3
  <2>3. \E c \in T : \A d \in T : number[d] <= number[c]
    <3> HIDE DEF T, number
    <3> QED BY <2>1, <2>2, HasLargest
  <2> QED BY <2>3
<1>6. ASSUME NEW s \in DOMAIN new
      PROVE  \E c \in DOMAIN bets : /\ IsLast(c, s)
                                    /\ new[s].history_id = HistoryId(c) /\ new[s] \in HistoryType
  <2> DEFINE c == CHOOSE b \in DOMAIN bets : IsLast(b, s)
  <2>1. c \in DOMAIN bets /\ IsLast(c, s)
    BY <1>5
  <2>2. new[s] = row(c)
    BY <1>2
  <2> HIDE DEF c
  <2>3. new[s].history_id = HistoryId(c) /\ new[s] \in HistoryType
    BY <1>4, <2>1, <2>2
  <2> QED BY <2>1, <2>3
<1> HIDE DEF new
<1> QED BY <1>1, <1>6 DEF new

(* A reveal moves the window over the ring.                                *)
LEMMA RevealMovesWindow ==
    ASSUME Shape, HistoryInv, NEW o \in Outcomes, Reveal(o)
    PROVE  HistoryInv'
<1> DEFINE last == Global(globals, "history")
           n == Cardinality(DOMAIN bets)
           new == HistoryRows(o)
           H == HistorySize
           In(i, top) == i \in Int /\ 0 < i /\ top - H < i /\ i <= top
<1>1. H \in Nat \ {0} /\ last \in Nat /\ n \in Nat
  BY HistoryIds, GameAssumption
<1>2. \A i, top : top \in Nat => (i \in Window(top) <=> In(i, top))
  BY <1>1 DEF Window, Least
<1>3. Global(globals', "history") = last + n
  BY OtherKey, SameKey DEF Reveal, LastHistoryId
<1>4. /\ DOMAIN history' = DOMAIN history \cup DOMAIN new
      /\ \A s \in DOMAIN new : history'[s] = new[s]
      /\ \A s \in DOMAIN history \ DOMAIN new : history'[s] = history[s]
  <2>1. history' = PutAll(history, new)
    BY DEF Reveal
  <2> HIDE DEF new
  <2> QED BY <2>1 DEF PutAll
<1>5. \A b \in DOMAIN bets : HistoryId(b) \in Int /\ last < HistoryId(b) /\ HistoryId(b) <= last + n
  BY <1>1, HistoryIds
<1>6. \A i \in Int : last < i /\ i <= last + n => \E b \in DOMAIN bets : HistoryId(b) = i
  BY <1>1, HistoryIds
<1>7. /\ DOMAIN new = {Slot(b) : b \in DOMAIN bets}
      /\ \A b \in DOMAIN bets : Slot(b) = HistoryId(b) % H
  BY LastOfSlot DEF Slot
<1>8. \A s \in DOMAIN new :
         \E c \in DOMAIN bets :
            /\ HistoryId(c) % H = s
            /\ \A d \in DOMAIN bets : HistoryId(d) % H = s => HistoryId(d) <= HistoryId(c)
            /\ new[s].history_id = HistoryId(c)
            /\ new[s] \in HistoryType
  BY LastOfSlot DEF Slot
<1>9. /\ IsTable(history, 0 .. H - 1, HistoryType)
      /\ \A s \in DOMAIN history : \E i \in Int : In(i, last) /\ s = i % H
      /\ \A i \in Int : In(i, last) => i % H \in DOMAIN history /\ history[i % H].history_id = i
  BY <1>1, <1>2 DEF HistoryInv
<1> HIDE DEF last, n, new, H
<1>10. ASSUME NEW i \in Int, In(i, last + n)
       PROVE  i % H \in DOMAIN history' /\ history'[i % H].history_id = i
  <2>1. CASE last < i
    <3>1. PICK b \in DOMAIN bets : HistoryId(b) = i
      BY <1>6, <1>10, <2>1
    <3>2. i % H \in DOMAIN new
      BY <1>7, <3>1
    <3>3. PICK c \in DOMAIN bets :
            /\ HistoryId(c) % H = i % H
            /\ HistoryId(b) % H = i % H => HistoryId(b) <= HistoryId(c)
            /\ new[i % H].history_id = HistoryId(c)
      BY <1>8, <3>1, <3>2
    <3>4. HistoryId(c) \in Int /\ i <= HistoryId(c) /\ HistoryId(c) < i + H
      BY <1>1, <1>5, <1>10, <3>1, <3>3
    <3>5. HistoryId(c) = i
      <4>1. i < HistoryId(c) => i % H # HistoryId(c) % H
        BY <1>1, <3>4, ModApart
      <4> QED BY <3>3, <3>4, <4>1
    <3> QED BY <1>4, <3>2, <3>3, <3>5
  <2>2. CASE i <= last
    <3>1. In(i, last)
      BY <1>1, <1>10, <2>2
    <3>2. i % H \notin DOMAIN new
      <4>1. ASSUME NEW b \in DOMAIN bets PROVE HistoryId(b) % H # i % H
        <5>1. HistoryId(b) \in Int /\ i < HistoryId(b) /\ HistoryId(b) < i + H
          BY <1>1, <1>5, <1>10, <2>2
        <5> QED BY <1>1, <5>1, ModApart
      <4> QED BY <1>7, <4>1
    <3> QED BY <1>4, <1>9, <3>1, <3>2
  <2> QED BY <1>1, <2>1, <2>2
<1>11. ASSUME NEW s \in DOMAIN history' PROVE \E i \in Int : In(i, last + n) /\ s = i % H
  <2>1. CASE s \in DOMAIN new
    <3>1. PICK c \in DOMAIN bets :
            /\ HistoryId(c) % H = s
            /\ \A d \in DOMAIN bets : HistoryId(d) % H = s => HistoryId(d) <= HistoryId(c)
      BY <1>8, <2>1
    <3>2. HistoryId(c) \in Int /\ last < HistoryId(c) /\ HistoryId(c) <= last + n
      BY <1>5
    <3>3. last + n - H < HistoryId(c)
      <4> SUFFICES ASSUME HistoryId(c) + H <= last + n PROVE FALSE
        BY <1>1, <3>2
      <4>1. PICK d \in DOMAIN bets : HistoryId(d) = HistoryId(c) + H
        BY <1>1, <1>6, <3>2
      <4>2. HistoryId(d) % H = s
        BY <1>1, <3>1, <3>2, <4>1, ModShift
      <4> QED BY <1>1, <3>1, <3>2, <4>1, <4>2
    <3> QED BY <1>1, <3>1, <3>2, <3>3
  <2>2. CASE s \notin DOMAIN new
    <3>1. PICK i \in Int : In(i, last) /\ s = i % H
      BY <1>4, <1>9, <2>2
    <3>2. last + n - H < i
      <4> SUFFICES ASSUME i + H <= last + n PROVE FALSE
        BY <1>1, <3>1
      <4>1. PICK b \in DOMAIN bets : HistoryId(b) = i + H
        BY <1>1, <1>6, <3>1
      <4>2. HistoryId(b) % H = s
        BY <1>1, <3>1, <4>1, ModShift
      <4> QED BY <1>7, <2>2, <4>2
    <3> QED BY <1>1, <3>1, <3>2
  <2> QED BY <2>1, <2>2
<1>12. IsTable(history', 0 .. H - 1, HistoryType)
  <2>1. DOMAIN new \subseteq 0 .. H - 1
    <3>1. \A b \in DOMAIN bets : HistoryId(b) % H \in 0 .. H - 1
      BY <1>1, <1>5, Division
    <3> QED BY <1>7, <3>1
  <2>2. IsTable(new, 0 .. H - 1, HistoryType)
    <3>1. \A s \in DOMAIN new : new[s] \in HistoryType
      BY <1>8
    <3>2. new = [s \in DOMAIN new |-> new[s]]
      BY DEF new, HistoryRows
    <3> QED BY <2>1, <3>1, <3>2 DEF IsTable
  <2>3. history' = PutAll(history, new)
    BY DEF Reveal, new
  <2> QED BY <1>9, <2>2, <2>3, PutAllIsTable
<1>13. DOMAIN history' = {i % H : i \in Window(last + n)}
  <2>1. \A i : i \in Window(last + n) <=> In(i, last + n)
    BY <1>1, <1>2
  <2> HIDE DEF In
  <2>2. \A i : In(i, last + n) => i \in Int
    BY DEF In
  <2> QED BY <1>10, <1>11, <2>1, <2>2
<1>14. \A i \in Window(last + n) : history'[i % H].history_id = i
  BY <1>1, <1>2, <1>10
<1> QED BY <1>3, <1>12, <1>13, <1>14 DEF HistoryInv, H, last, n

(* The results: slots and rounds, the round not yet played among them.     *)
Newest == Global(globals, "result")
Age(s) == (Newest - s) % ResultSize

ResultsInv ==
    /\ game.id = Global(globals, "game")
    /\ Newest \in 0 .. ResultSize - 1
    /\ DOMAIN results \subseteq 0 .. ResultSize - 1
    /\ \A s \in DOMAIN results : results[s].game_id < game.id
    /\ \A s, t \in DOMAIN results : Age(s) < Age(t) => results[s].game_id > results[t].game_id

(* The next slot is one further, the first one too.                        *)
LEMMA NextSlot ==
    ASSUME Shape, ResultsInv
    PROVE  ResultSlot = IF Newest + 1 = ResultSize THEN 0 ELSE Newest + 1
<1> DEFINE n == ResultSize
<1>1. n \in Nat \ {0} /\ 1 < n /\ Newest \in Int /\ 0 <= Newest /\ Newest < n
  BY GameAssumption DEF ResultsInv
<1>2. ResultSlot = IF "result" \in DOMAIN globals THEN (Newest + 1) % n ELSE 1
  BY DEF ResultSlot, NextGlobalMod, Newest, Global
<1>3. "result" \notin DOMAIN globals => Newest = 0
  BY DEF Newest, Global
<1> HIDE DEF n
<1>4. Newest + 1 < n => (Newest + 1) % n = Newest + 1
  BY <1>1, ModSmall
<1>5. Newest + 1 = n => (Newest + 1) % n = 0
  <2>1. (0 + n) % n = 0 % n /\ 0 % n = 0
    BY <1>1, ModShift, ModSmall
  <2>2. 0 + n = n
    BY <1>1
  <2> QED BY <2>1, <2>2
<1>6. Newest + 1 < n \/ Newest + 1 = n
  BY <1>1
<1> QED BY <1>1, <1>2, <1>3, <1>4, <1>5, <1>6 DEF n

(* How old a slot is, without the modulus.                                 *)
LEMMA AgeOf ==
    ASSUME NEW r \in 0 .. ResultSize - 1, NEW s \in 0 .. ResultSize - 1
    PROVE  (r - s) % ResultSize = IF s <= r THEN r - s ELSE r - s + ResultSize
<1> DEFINE n == ResultSize
           a == r - s
<1>1. n \in Nat \ {0} /\ a \in Int /\ -n <= a /\ a < n
  BY GameAssumption
<1> HIDE DEF n, a
<1>2. (0 <= a => a % n = a) /\ (a < 0 => a % n = a + n)
  BY <1>1, ModSmall
<1> QED BY <1>1, <1>2 DEF n, a

LEMMA RevealMovesResults ==
    ASSUME Shape, ResultsInv, NEW o \in Outcomes, Reveal(o)
    PROVE  ResultsInv'
<1> DEFINE slot == ResultSlot
           n == ResultSize
<1>1. game.id \in Nat /\ n \in Nat /\ n >= 2
  BY GameRowsAreTyped, GameAssumption
<1>2. /\ Newest \in 0 .. n - 1 /\ slot \in 0 .. n - 1
      /\ slot = IF Newest + 1 = n THEN 0 ELSE Newest + 1
  BY <1>1, NextSlot DEF ResultsInv
<1>3. Newest' = slot /\ Global(globals, "game")' = game.id + 1 /\ game'.id = game.id + 1
  <2>1. Newest' = slot
    BY SameKey DEF Reveal, Newest
  <2>2. Global(globals', "game") = NextGlobal(globals, "game")
    BY SameKey, OtherKey DEF Reveal
  <2>3. game'.id = NextGlobal(globals, "game") /\ NextGlobal(globals, "game") = game.id + 1
    BY DEF Reveal, Between, ResultsInv, NextGlobal
  <2> QED BY <2>1, <2>2, <2>3
<1>4. /\ DOMAIN results' = DOMAIN results \cup {slot}
      /\ results'[slot].game_id = game.id
      /\ \A s \in DOMAIN results \ {slot} : results'[s] = results[s]
  <2>1. results' = Put(results, slot, [game_id |-> game.id, result |-> o])
    BY DEF Reveal
  <2> HIDE DEF slot
  <2> QED BY <2>1 DEF Put
<1> HIDE DEF slot, n
<1>5. /\ DOMAIN results \subseteq 0 .. n - 1
      /\ \A s \in DOMAIN results : results[s].game_id \in Nat /\ results[s].game_id < game.id
      /\ \A s, t \in DOMAIN results : Age(s) < Age(t) => results[s].game_id > results[t].game_id
  BY DEF ResultsInv, Shape, IsTable, ResultType, n
<1>6. \A s \in 0 .. n - 1 :
         /\ Age(s) = IF s <= Newest THEN Newest - s ELSE Newest - s + n
         /\ Age(s)' = IF s <= slot THEN slot - s ELSE slot - s + n
  <2> SUFFICES ASSUME NEW s \in 0 .. n - 1
               PROVE  /\ Age(s) = IF s <= Newest THEN Newest - s ELSE Newest - s + n
                      /\ Age(s)' = IF s <= slot THEN slot - s ELSE slot - s + n
    OBVIOUS
  <2>1. (Newest - s) % ResultSize = IF s <= Newest THEN Newest - s ELSE Newest - s + ResultSize
    BY <1>2, AgeOf DEF n
  <2>2. (slot - s) % ResultSize = IF s <= slot THEN slot - s ELSE slot - s + ResultSize
    BY <1>2, AgeOf DEF n
  <2> QED BY <1>3, <2>1, <2>2 DEF Age, n
<1>7. \A s \in 0 .. n - 1 : Age(s)' = IF s = slot THEN 0 ELSE Age(s) + 1
  BY <1>1, <1>2, <1>6
<1>8. \A s \in 0 .. n - 1 : Age(s) \in Nat
  BY <1>1, <1>2, <1>6
<1>9. \A s \in DOMAIN results' : results'[s].game_id < game'.id
  BY <1>1, <1>3, <1>4, <1>5
<1>10. ASSUME NEW s \in DOMAIN results', NEW t \in DOMAIN results', Age(s)' < Age(t)'
       PROVE  results'[s].game_id > results'[t].game_id
  <2>1. s \in 0 .. n - 1 /\ t \in 0 .. n - 1
    BY <1>2, <1>4, <1>5
  <2>2. t # slot
    BY <1>7, <1>8, <1>10, <2>1
  <2>3. CASE s = slot
    BY <1>1, <1>4, <1>5, <2>2, <2>3
  <2>4. CASE s # slot
    <3>1. Age(s) < Age(t)
      BY <1>7, <1>8, <1>10, <2>1, <2>2, <2>4
    <3> QED BY <1>4, <1>5, <2>2, <2>4, <3>1
  <2> QED BY <2>3, <2>4
<1>11. DOMAIN results' \subseteq 0 .. ResultSize - 1 /\ Newest' \in 0 .. ResultSize - 1
  BY <1>2, <1>3, <1>4, <1>5 DEF n
<1> QED BY <1>3, <1>9, <1>10, <1>11 DEF ResultsInv

(* An action that leaves the rings alone, and counts the rounds.           *)
LEMMA RingsStay ==
    ASSUME Shape, HistoryInv, ResultsInv, UNCHANGED <<history, results>>,
           \A k \in {"history", "result"} : Global(globals', k) = Global(globals, k),
           game'.id = Global(globals', "game"), game.id <= game'.id, game'.id \in Nat
    PROVE  HistoryInv' /\ ResultsInv'
<1>1. Newest' = Newest /\ \A s : Age(s)' = Age(s)
  BY DEF Newest, Age
<1>2. \A s \in DOMAIN results : results[s].game_id < game'.id
  <2>1. \A s \in DOMAIN results : results[s].game_id \in Nat
    BY DEF Shape, IsTable, ResultType
  <2> QED BY <2>1, GameRowsAreTyped DEF ResultsInv
<1>3. ResultsInv'
  BY <1>1, <1>2 DEF ResultsInv
<1> QED BY <1>3 DEF HistoryInv

(* Both rings hold the last entries, in order and at their places: the     *)
(* history of bets after every reveal, whatever its number of bets, and    *)
(* the results of the rounds, over the wrap.                               *)
THEOREM RingsShowTheLast == ASSUME NoRingWrites PROVE Spec => []RingsRecent
<1> DEFINE Inv == HistoryInv /\ ResultsInv
<1>1. Init => Inv
  <2> SUFFICES ASSUME Init PROVE Inv
    OBVIOUS
  <2>1. Global(globals, "history") = 0 /\ Global(globals, "game") = 0 /\ Newest = 0
    BY NoRows DEF Init, Global, Newest
  <2>2. Window(0) = {}
    BY GameAssumption DEF Window, Least
  <2>3. IsTable(history, 0 .. HistorySize - 1, HistoryType) /\ DOMAIN history = {}
    BY EmptyIsTable, NoRows DEF Init
  <2>4. HistoryInv
    BY <2>1, <2>2, <2>3 DEF HistoryInv
  <2>5. ResultsInv
    BY <2>1, NoRows, GameAssumption DEF Init, ResultsInv
  <2> QED BY <2>4, <2>5
<1>2. Shape /\ Shape' /\ Inv /\ [Next]_vars => Inv'
  <2> SUFFICES ASSUME Shape, Shape', Inv, [Next]_vars PROVE Inv'
    OBVIOUS
  <2>1. game.id \in Nat /\ game'.id \in Nat /\ game.id = Global(globals, "game")
    BY GameRowsAreTyped DEF ResultsInv, Shape, GameType
  <2>2. ASSUME UNCHANGED <<history, results, globals>>, game'.id = game.id PROVE Inv'
    BY <2>1, <2>2, RingsStay
  <2>3. ASSUME UNCHANGED <<history, results>>, game'.id = NextGlobal(globals, "game"),
               globals' = Put(globals, "game", NextGlobal(globals, "game"))
        PROVE  Inv'
    <3>1. /\ \A k \in {"history", "result"} : Global(globals', k) = Global(globals, k)
          /\ Global(globals', "game") = game'.id
      BY <2>3, OtherKey, SameKey
    <3>2. game.id <= game'.id
      BY <2>1, <2>3 DEF NextGlobal
    <3> QED BY <2>1, <2>3, <3>1, <3>2, RingsStay
  <2>4. ASSUME NEW v, UNCHANGED <<history, results>>, game'.id = game.id,
               globals' = Put(globals, "bet", v)
        PROVE  Inv'
    <3>1. /\ \A k \in {"history", "result"} : Global(globals', k) = Global(globals, k)
          /\ Global(globals', "game") = game'.id
      BY <2>1, <2>4, OtherKey
    <3> QED BY <2>1, <2>4, <3>1, RingsStay
  <2> HIDE DEF Inv
  <2>5. CASE InitSymbol
    BY <2>3, <2>5 DEF InitSymbol
  <2>6. CASE Operate
    <3>1. CASE NewRound
      BY <2>2, <3>1 DEF NewRound, Started
    <3>2. CASE HardClose
      BY <2>3, <3>2 DEF HardClose, Between
    <3>3. CASE \E w \in GlobalWrites : SetGlobal(w[1], w[2])
      BY <2>4, <3>3, NoRingWrites DEF NoRingWrites, SetGlobal
    <3> QED BY <2>6, <3>1, <3>2, <3>3 DEF Operate
  <2>7. CASE Bet
    <3>1. PICK p \in Players, id \in 0 .. MaxRound, slip \in Slips, quantity \in 1 .. MaxPayout :
            Transfer(p, id, slip, quantity)
      BY <2>7 DEF Bet
    <3> QED BY <2>4, <3>1 DEF Transfer, Started
  <2>8. CASE \E o \in Outcomes : Reveal(o)
    BY <2>8, RevealMovesWindow, RevealMovesResults DEF Inv
  <2>9. CASE Deliver
    <3>1. CASE \E p \in Players : RunPayment(p) \/ FailPayment(p)
      BY <2>2, <3>1 DEF RunPayment, FailPayment, rows
    <3>2. CASE RunRestart
      BY <2>2, <3>2 DEF RunRestart, Started
    <3>3. CASE FailRestart
      BY <2>2, <3>3 DEF FailRestart, rows
    <3> QED BY <2>9, <3>1, <3>2, <3>3 DEF Deliver
  <2>10. CASE \E d \in TimeSteps : Tick(d)
    BY <2>2, <2>10 DEF Tick
  <2>11. CASE UNCHANGED vars
    BY <2>2, <2>11 DEF vars, rows
  <2> QED BY <2>5, <2>6, <2>7, <2>8, <2>9, <2>10, <2>11 DEF Next
<1>3. Shape /\ Inv => RingsRecent
  <2> SUFFICES ASSUME Shape, Inv PROVE RingsRecent
    OBVIOUS
  <2>1. HistoryRecent
    <3> DEFINE last == Global(globals, "history")
    <3>1. {history[s].history_id : s \in DOMAIN history} = Window(last)
      BY DEF HistoryInv
    <3> QED BY <3>1 DEF HistoryRecent, HistoryInv, Window, HistoryType
  <2>2. Cardinality(DOMAIN results) <= ResultSize
    <3>1. 0 \in Int /\ ResultSize - 1 \in Int /\ ResultSize \in Nat /\ ~(0 > ResultSize - 1)
      BY GameAssumption
    <3>2. IsFiniteSet(0 .. ResultSize - 1) /\ Cardinality(0 .. ResultSize - 1) = ResultSize - 1 - 0 + 1
      BY <3>1, FS_Interval
    <3>3. Cardinality(DOMAIN results) <= ResultSize - 1 - 0 + 1
      BY <3>2, FS_Subset DEF ResultsInv
    <3> QED BY <3>1, <3>3
  <2>3. \A s, t \in DOMAIN results : Age(s) < Age(t) => results[s].game_id > results[t].game_id
    BY DEF ResultsInv
  <2>4. ResultsRecent
    BY <2>2, <2>3 DEF ResultsRecent, Age, Newest
  <2> QED BY <2>1, <2>4 DEF RingsRecent
<1> QED BY <1>1, <1>2, <1>3, ShapeCorrect, PTL DEF Spec

-----------------------------------------------------------------------------
(* The game keeps the promise of Wager as long as the operator leaves the  *)
(* counter of the bets alone: then every bet placed so far has an id that  *)
(* the counter has passed, and new ids are fresh.                          *)
NoBetWrites == \A w \in GlobalWrites : w[1] # "bet"
IdsGiven == \A p \in Players : \A b \in W!Placed(p) : b <= LastBetId

LEMMA InitWager == Init => W!Init /\ IdsGiven
<1> SUFFICES ASSUME Init PROVE W!Init /\ IdsGiven
  OBVIOUS
<1>1. \A p \in Players : BetsOf(p) = {} /\ Due(p) = {}
  BY NoRows DEF Init, BetsOf, Due
<1>2. W!Init
  BY <1>1 DEF Init, W!Init
<1>3. \A p \in Players : W!Placed(p) = {}
  BY <1>1 DEF Init, W!Placed
<1> QED BY <1>2, <1>3 DEF IdsGiven

(* An action that changes neither bets nor payments is a stutter of Wager. *)
LEMMA WagerStutter ==
    ASSUME UNCHANGED <<bets, payments, paid, lost>>
    PROVE  /\ UNCHANGED W!vars
           /\ \A p \in Players : W!Placed(p)' = W!Placed(p)
  BY DEF W!vars, W!Placed, BetsOf, Due

(* The counter of the bets after a counter with another name is written.   *)
LEMMA OtherCounter ==
    ASSUME NEW k, k # "bet", NEW v, NEW t
    PROVE  Global(Put(t, k, v), "bet") = Global(t, "bet")
  BY DEF Global, Put

LEMMA TransferIsPlace ==
    ASSUME Shape, IdsGiven, NEW p \in Players, NEW id \in 0 .. MaxRound,
           NEW slip \in Slips, NEW quantity \in 1 .. MaxPayout, Transfer(p, id, slip, quantity)
    PROVE  W!Next /\ IdsGiven'
<1> DEFINE ids == FreshIds(Len(slip))
<1>1. LastBetId \in Nat /\ Len(slip) \in Nat
  BY CounterIsNat, NewBetsAreTable, GameAssumption DEF Shape, LastBetId
<1>2. ids \subseteq 1 .. MaxBets
  BY <1>1, GameAssumption DEF Transfer, FreshIds
<1>3. /\ BetsOf(p)' = BetsOf(p) \cup ids
      /\ \A q \in Players \ {p} : BetsOf(q)' = BetsOf(q)
  BY BetsAfterTransfer DEF BetsOf
<1>4. /\ \A q \in Players : Due(q)' = Due(q)
      /\ paid' = paid /\ lost' = lost
  BY DEF Due, Transfer, ghosts
<1>5. \A q \in Players : ids \cap W!Placed(q) = {}
  <2>1. \A q \in Players : \A b \in W!Placed(q) : b \in Nat
    BY DEF W!Placed, BetsOf, Due, Shape, IsTable
  <2> QED BY <1>1, <2>1 DEF IdsGiven, FreshIds
<1>6. W!Place(p, ids, {})
  <2>1. ids \cap W!Known = {}
    BY <1>5 DEF W!Known
  <2>2. lost' = [lost EXCEPT ![p] = @ \cup {}]
    BY <1>4 DEF Shape
  <2> QED BY <1>3, <1>4, <2>1, <2>2 DEF W!Place
<1>7. LastBetId' = LastBetId + Len(slip)
  <2>1. globals' = Put(globals, "bet", LastBetId + Len(slip))
    BY DEF Transfer
  <2>2. "bet" \in DOMAIN globals' /\ globals'["bet"] = LastBetId + Len(slip)
    BY <2>1 DEF Put
  <2> QED BY <2>2 DEF LastBetId, Global
<1>8. IdsGiven'
  <2>1. /\ W!Placed(p)' = W!Placed(p) \cup ids
        /\ \A q \in Players \ {p} : W!Placed(q)' = W!Placed(q)
    BY <1>3, <1>4 DEF W!Placed
  <2>2. \A q \in Players : \A b \in W!Placed(q) : b \in Nat
    BY DEF W!Placed, BetsOf, Due, Shape, IsTable
  <2>3. \A b \in ids : b <= LastBetId + Len(slip)
    BY <1>1 DEF FreshIds
  <2> QED BY <1>1, <1>7, <2>1, <2>2, <2>3 DEF IdsGiven
<1> HIDE DEF ids
<1> QED BY <1>2, <1>6, <1>8 DEF W!Next

LEMMA RevealIsSettle ==
    ASSUME Shape, IdsGiven, NEW o \in Outcomes, Reveal(o)
    PROVE  W!Next /\ IdsGiven'
<1>1. \A p \in Players : BetsOf(p)' = {}
  BY NoRows DEF Reveal, BetsOf
<1>2. \A p \in Players : Due(p)' = Due(p) \cup BetsOf(p)
  <2>1. \A p \in Players \ Bettors : BetsOf(p) = {}
    BY DEF Bettors, BetsOf
  <2> QED BY <2>1, PaymentsAfterReveal DEF Due
<1>3. \A p \in Players : BetsOf(p) = {} \/ Due(p) = {}
  BY DEF Reveal, SendersFree, Bettors, BetsOf, Due
<1>4. paid' = paid /\ lost' = lost
  BY DEF Reveal, ghosts
<1>5. W!Settle(DOMAIN bets)
  <2>1. \A p \in Players : BetsOf(p) \cap DOMAIN bets = BetsOf(p) /\ BetsOf(p) \ DOMAIN bets = {}
    BY DEF BetsOf
  <2> QED BY <1>1, <1>2, <1>3, <1>4, <2>1 DEF W!Settle
<1>6. LastBetId' = LastBetId
  BY OtherCounter DEF Reveal, LastBetId
<1>7. \A p \in Players : W!Placed(p)' = W!Placed(p)
  BY <1>1, <1>2, <1>4 DEF W!Placed
<1>8. DOMAIN bets \subseteq 1 .. MaxBets
  BY DEF Shape, IsTable
<1> QED BY <1>5, <1>6, <1>7, <1>8 DEF W!Next, IdsGiven

LEMMA PaymentIsPayOrLose ==
    ASSUME Shape, IdsGiven, NEW p \in Players, RunPayment(p) \/ FailPayment(p)
    PROVE  W!Next /\ IdsGiven'
<1>1. payments' = Erase(payments, {p}) /\ p \in DOMAIN payments
  BY DEF RunPayment, FailPayment
<1>2. /\ Due(p) = payments[p].bets /\ Due(p)' = {}
      /\ \A q \in Players \ {p} : Due(q)' = Due(q)
  BY <1>1, PaymentsAfterOne DEF Due
<1>3. /\ \A q \in Players : BetsOf(q)' = BetsOf(q)
      /\ LastBetId' = LastBetId
  BY DEF RunPayment, FailPayment, rows, BetsOf, LastBetId
<1>4. CASE RunPayment(p)
  <2>1. paid' = [paid EXCEPT ![p] = @ \cup Due(p)] /\ lost' = lost
    BY <1>2, <1>4 DEF RunPayment
  <2>2. W!Pay(p)
    BY <1>2, <1>3, <2>1 DEF W!Pay
  <2>3. \A q \in Players : W!Placed(q)' = W!Placed(q)
    BY <1>2, <1>3, <2>1 DEF W!Placed, Shape
  <2> QED BY <1>3, <2>2, <2>3 DEF W!Next, IdsGiven
<1>5. CASE FailPayment(p)
  <2>1. lost' = [lost EXCEPT ![p] = @ \cup Due(p)] /\ paid' = paid
    BY <1>2, <1>5 DEF FailPayment
  <2>2. W!Lose(p)
    BY <1>2, <1>3, <2>1 DEF W!Lose
  <2>3. \A q \in Players : W!Placed(q)' = W!Placed(q)
    BY <1>2, <1>3, <2>1 DEF W!Placed, Shape
  <2> QED BY <1>3, <2>2, <2>3 DEF W!Next, IdsGiven
<1> QED BY <1>4, <1>5

(* The actions on the rows of rounds and counters are stutters.            *)
LEMMA OtherIsStutter ==
    ASSUME Shape, IdsGiven, UNCHANGED <<bets, payments, paid, lost>>, LastBetId' = LastBetId
    PROVE  UNCHANGED W!vars /\ IdsGiven'
  BY WagerStutter DEF IdsGiven

(* A round based game implements Wager.                                    *)
THEOREM ImplementsWager == ASSUME NoBetWrites PROVE Spec => WagerSpec
<1>1. Shape /\ IdsGiven /\ [Next]_vars => [W!Next]_W!vars /\ IdsGiven'
  <2> SUFFICES ASSUME Shape, IdsGiven, [Next]_vars PROVE [W!Next]_W!vars /\ IdsGiven'
    OBVIOUS
  <2>1. CASE InitSymbol
    BY <2>1, OtherIsStutter, OtherCounter DEF InitSymbol, LastBetId, ghosts
  <2>2. CASE Operate
    <3>1. CASE NewRound
      BY <3>1, OtherIsStutter DEF NewRound, LastBetId, ghosts
    <3>2. CASE HardClose
      BY <3>2, OtherIsStutter, OtherCounter DEF HardClose, LastBetId
    <3>3. CASE \E w \in GlobalWrites : SetGlobal(w[1], w[2])
      BY <3>3, NoBetWrites, OtherIsStutter, OtherCounter DEF NoBetWrites, SetGlobal, LastBetId, ghosts
    <3> QED BY <2>2, <3>1, <3>2, <3>3 DEF Operate
  <2>3. CASE Bet
    BY <2>3, TransferIsPlace DEF Bet
  <2>4. CASE \E o \in Outcomes : Reveal(o)
    BY <2>4, RevealIsSettle
  <2>5. CASE Deliver
    <3>1. CASE \E p \in Players : RunPayment(p) \/ FailPayment(p)
      BY <3>1, PaymentIsPayOrLose
    <3>2. CASE RunRestart
      BY <3>2, OtherIsStutter DEF RunRestart, LastBetId, ghosts
    <3>3. CASE FailRestart
      BY <3>3, OtherIsStutter DEF FailRestart, LastBetId, rows, ghosts
    <3> QED BY <2>5, <3>1, <3>2, <3>3 DEF Deliver
  <2>6. CASE \E d \in TimeSteps : Tick(d)
    BY <2>6, OtherIsStutter DEF Tick, LastBetId, ghosts
  <2>7. CASE UNCHANGED vars
    BY <2>7, OtherIsStutter DEF vars, LastBetId, rows, ghosts
  <2> QED BY <2>1, <2>2, <2>3, <2>4, <2>5, <2>6, <2>7 DEF Next
<1> QED BY <1>1, InitWager, ShapeCorrect, PTL DEF Spec, WagerSpec, W!Spec

(* No bet is settled twice, paid twice, paid to another player, or paid    *)
(* after its payment was lost.                                             *)
THEOREM EveryBetInOneStage == ASSUME NoBetWrites PROVE Spec => []OneStage
<1>1. W!Spec => []W!OnePlace
  BY W!WagerOnePlace
<1> QED BY <1>1, ImplementsWager, PTL DEF WagerSpec, OneStage
=============================================================================
