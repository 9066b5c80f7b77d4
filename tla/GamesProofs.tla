----------------------------- MODULE GamesProofs -----------------------------
(***************************************************************************)
(* Theorems about the four single player games: each keeps the promise of  *)
(* Wager for every number of players and bets, whatever is staked, drawn   *)
(* and revealed, and whichever deferred calls fail; scratch keeps account  *)
(* of its cards; and the games that draw keep the edge of the house.       *)
(***************************************************************************)
EXTENDS MCGames, TableLemmas, TLAPS

LastBetId == Global(globals, "bet")

(* What the four have in common: the counter has passed every id in use.   *)
IdsGiven == \A p \in Players : \A b \in W!Placed(p) : b \in Nat /\ b <= LastBetId
Books ==
    /\ LastBetId \in Nat
    /\ paid \in [Players -> SUBSET Nat] /\ lost \in [Players -> SUBSET Nat]
    /\ IdsGiven

(* What every step has to be shown to do.                                  *)
StepOK == [W!Next]_W!vars /\ Books'

-----------------------------------------------------------------------------
(* The steps of Wager, from what an action does to each player's bets.     *)
LEMMA StutterStep ==
    ASSUME Books, UNCHANGED <<paid, lost>>, LastBetId' \in Nat, LastBetId <= LastBetId',
           \A p \in Players : Open(p)' = Open(p) /\ Due(p)' = Due(p)
    PROVE  StepOK
<1>1. UNCHANGED W!vars
  BY DEF W!vars
<1>2. \A p \in Players : W!Placed(p)' = W!Placed(p)
  BY DEF W!Placed
<1>3. IdsGiven'
  BY <1>2 DEF IdsGiven, Books
<1> QED BY <1>1, <1>3 DEF StepOK, Books

LEMMA PlaceStep ==
    ASSUME Books, UNCHANGED <<paid, lost>>, NEW p \in Players,
           LastBetId' = LastBetId + 1, LastBetId' \in 1 .. MaxBets,
           Open(p)' = Open(p) \cup {LastBetId'},
           \A q \in Players \ {p} : Open(q)' = Open(q),
           \A q \in Players : Due(q)' = Due(q)
    PROVE  StepOK
<1>0. PICK new : new = LastBetId'
  OBVIOUS
<1>1. /\ new = LastBetId + 1 /\ new \in 1 .. MaxBets /\ new \in Nat
      /\ Open(p)' = Open(p) \cup {new}
  BY <1>0 DEF Books
<1>2. W!Place(p, {new}, {})
  <2>1. {new} \cap W!Known = {}
    BY <1>1 DEF W!Known, Books, IdsGiven
  <2>2. [q \in Players |-> Open(q)]' = [[q \in Players |-> Open(q)] EXCEPT ![p] = (@ \ {}) \cup {new}]
    BY <1>1
  <2>3. [q \in Players |-> Due(q)]' = [q \in Players |-> Due(q)]
    OBVIOUS
  <2>4. lost' = [lost EXCEPT ![p] = @ \cup {}]
    BY DEF Books
  <2> QED BY <2>1, <2>2, <2>3, <2>4 DEF W!Place
<1>3. IdsGiven'
  <2>1. \A q \in Players : W!Placed(q)' \subseteq W!Placed(q) \cup {new}
    BY <1>1 DEF W!Placed
  <2> QED BY <1>0, <1>1, <2>1 DEF IdsGiven, Books
<1> QED BY <1>0, <1>1, <1>2, <1>3 DEF StepOK, Books, W!Next

LEMMA RenewStep ==
    ASSUME Books, NEW p \in Players, lost' = lost, paid' = [paid EXCEPT ![p] = @ \cup Due(p)],
           LastBetId' = LastBetId + 1, LastBetId' \in 1 .. MaxBets,
           Open(p)' = Open(p) \cup {LastBetId'}, Due(p)' = {},
           \A q \in Players \ {p} : Open(q)' = Open(q) /\ Due(q)' = Due(q)
    PROVE  StepOK
<1>0. PICK new : new = LastBetId'
  OBVIOUS
<1>1. /\ new = LastBetId + 1 /\ new \in 1 .. MaxBets /\ new \in Nat
      /\ Open(p)' = Open(p) \cup {new}
  BY <1>0 DEF Books
<1>2. W!Renew(p, {new})
  <2>1. {new} \cap W!Known = {}
    BY <1>1 DEF W!Known, Books, IdsGiven
  <2>2. [q \in Players |-> Open(q)]' = [[q \in Players |-> Open(q)] EXCEPT ![p] = @ \cup {new}]
    BY <1>1
  <2>3. [q \in Players |-> Due(q)]' = [[q \in Players |-> Due(q)] EXCEPT ![p] = {}]
    OBVIOUS
  <2>4. paid' = [paid EXCEPT ![p] = @ \cup [q \in Players |-> Due(q)][p]]
    OBVIOUS
  <2> QED BY <2>1, <2>2, <2>3, <2>4 DEF W!Renew
<1>3. IdsGiven'
  <2>1. \A q \in Players : W!Placed(q)' \subseteq W!Placed(q) \cup {new}
    BY <1>1 DEF W!Placed, Books
  <2> QED BY <1>0, <1>1, <2>1 DEF IdsGiven, Books
<1>4. Due(p) \in SUBSET Nat
  BY DEF Books, IdsGiven, W!Placed
<1>5. paid' \in [Players -> SUBSET Nat]
  BY <1>4 DEF Books
<1> QED BY <1>0, <1>1, <1>2, <1>3, <1>5 DEF StepOK, Books, W!Next

LEMMA SettleStep ==
    ASSUME Books, UNCHANGED <<paid, lost>>, LastBetId' = LastBetId, NEW Ids \in SUBSET (1 .. MaxBets),
           \A q \in Players : Open(q) \cap Ids = {} \/ Due(q) = {},
           \A q \in Players : Due(q)' = Due(q) \cup (Open(q) \cap Ids),
           \A q \in Players : Open(q)' = Open(q) \ Ids
    PROVE  StepOK
<1>1. W!Settle(Ids)
  <2>1. [q \in Players |-> Due(q)]' = [q \in Players |-> Due(q) \cup (Open(q) \cap Ids)]
    OBVIOUS
  <2>2. [q \in Players |-> Open(q)]' = [q \in Players |-> Open(q) \ Ids]
    OBVIOUS
  <2> QED BY <2>1, <2>2 DEF W!Settle
<1>2. \A q \in Players : W!Placed(q)' \subseteq W!Placed(q)
  BY DEF W!Placed
<1>3. IdsGiven'
  BY <1>2 DEF IdsGiven, Books
<1> QED BY <1>1, <1>3 DEF StepOK, Books, W!Next

LEMMA DropStep ==
    ASSUME Books, paid' = paid, LastBetId' = LastBetId, NEW Ids \in SUBSET (1 .. MaxBets),
           lost' = [q \in Players |-> lost[q] \cup (Open(q) \cap Ids)],
           \A q \in Players : Due(q)' = Due(q),
           \A q \in Players : Open(q)' = Open(q) \ Ids
    PROVE  StepOK
<1>1. W!Drop(Ids)
  <2>1. [q \in Players |-> Due(q)]' = [q \in Players |-> Due(q)]
    OBVIOUS
  <2>2. [q \in Players |-> Open(q)]' = [q \in Players |-> Open(q) \ Ids]
    OBVIOUS
  <2> QED BY <2>1, <2>2 DEF W!Drop
<1>2. \A q \in Players : W!Placed(q)' \subseteq W!Placed(q)
  BY DEF W!Placed
<1>3. IdsGiven'
  BY <1>2 DEF IdsGiven, Books
<1>4. lost' \in [Players -> SUBSET Nat]
  <2>1. ASSUME NEW q \in Players PROVE lost[q] \cup (Open(q) \cap Ids) \in SUBSET Nat
    BY DEF Books, IdsGiven, W!Placed
  <2> QED BY <2>1
<1> QED BY <1>1, <1>3, <1>4 DEF StepOK, Books, W!Next

(* What is due for a player is paid, or lost.                              *)
LEMMA EndStep ==
    ASSUME Books, LastBetId' = LastBetId, NEW p \in Players,
           \/ paid' = [paid EXCEPT ![p] = @ \cup Due(p)] /\ lost' = lost
           \/ lost' = [lost EXCEPT ![p] = @ \cup Due(p)] /\ paid' = paid,
           Due(p)' = {}, \A q \in Players \ {p} : Due(q)' = Due(q),
           \A q \in Players : Open(q)' = Open(q)
    PROVE  StepOK
<1>1. Due(p) \in SUBSET Nat
  BY DEF Books, IdsGiven, W!Placed
<1>2. paid' \in [Players -> SUBSET Nat] /\ lost' \in [Players -> SUBSET Nat]
  BY <1>1 DEF Books
<1>3. [q \in Players |-> Due(q)]' = [[q \in Players |-> Due(q)] EXCEPT ![p] = {}]
  OBVIOUS
<1>4. [q \in Players |-> Open(q)]' = [q \in Players |-> Open(q)]
  OBVIOUS
<1>5. W!Pay(p) \/ W!Lose(p)
  <2>1. CASE paid' = [paid EXCEPT ![p] = @ \cup Due(p)] /\ lost' = lost
    BY <1>3, <1>4, <2>1 DEF W!Pay
  <2>2. CASE lost' = [lost EXCEPT ![p] = @ \cup Due(p)] /\ paid' = paid
    BY <1>3, <1>4, <2>2 DEF W!Lose
  <2> QED BY <2>1, <2>2
<1>6. \A q \in Players : W!Placed(q)' \subseteq W!Placed(q)
  BY DEF W!Placed, Books
<1>7. IdsGiven'
  BY <1>6 DEF IdsGiven, Books
<1> QED BY <1>2, <1>5, <1>7 DEF StepOK, Books, W!Next
-----------------------------------------------------------------------------
(* dice.                                                                   *)
DiceShape ==
    /\ DOMAIN active \subseteq 1 .. MaxBets
    /\ \A id \in DOMAIN active :
          /\ active[id].player \in Players
          /\ active[id].bet \in DiceAmounts /\ active[id].number \in 1 .. 97
    /\ DOMAIN calls \subseteq Players

DiceStep == game = "dice" /\ game' = game /\ Books /\ DiceShape
DiceOK == StepOK /\ DiceShape'

LEMMA DiceStutter ==
    ASSUME DiceStep, LastBetId' = LastBetId, UNCHANGED <<active, paid, lost>>,
           DOMAIN calls' = DOMAIN calls, \A p \in DOMAIN calls : calls'[p].bets = calls[p].bets
    PROVE  DiceOK
<1>1. \A p \in Players : Open(p)' = Open(p) /\ Due(p)' = Due(p)
  BY DEF DiceStep, Open, Due, D!Open, D!Due
<1>2. StepOK
  BY <1>1, StutterStep DEF DiceStep, Books
<1>3. DiceShape'
  BY DEF DiceStep, DiceShape
<1> QED BY <1>2, <1>3 DEF DiceOK

LEMMA DiceInitGlobals == ASSUME DiceStep, D!InitGlobals PROVE DiceOK
<1>1. UNCHANGED <<active, calls, paid, lost>>
  BY DEF D!InitGlobals
<1>2. LastBetId' = LastBetId
  BY DEF D!InitGlobals, LastBetId, Global, D!Global, D!Counters
<1> QED BY <1>1, <1>2, DiceStutter

(* A new bet takes an id nobody had.                                       *)
LEMMA DiceTransfer ==
    ASSUME DiceStep, D!DiceAssumption, NEW p \in Players, NEW quantity \in DiceAmounts, NEW number \in Numbers,
           D!Transfer(p, quantity, number)
    PROVE  DiceOK
<1>0. PICK new : new = LastBetId + 1
  OBVIOUS
<1>1. /\ new \in 1 .. MaxBets /\ new \notin DOMAIN active
      /\ UNCHANGED <<calls, paid, lost>>
  BY <1>0 DEF D!DiceAssumption, D!Transfer, D!BetId, D!NextGlobal, D!Global, LastBetId, Global, DiceStep, Books
<1>2. LastBetId' = new
  BY <1>0 DEF D!Transfer, D!BetId, D!NextGlobal, D!Global, LastBetId, Global, D!Put
<1>3. active' = D!Put(active, new, D!BetOf(p, quantity, number))
  BY <1>0 DEF D!Transfer, D!BetId, D!NextGlobal, D!Global, LastBetId, Global
<1>4. /\ DOMAIN active' = DOMAIN active \cup {new} /\ active'[new] = D!BetOf(p, quantity, number)
      /\ \A id \in DOMAIN active : active'[id] = active[id]
  BY <1>1, <1>3 DEF D!Put
<1>5. /\ Open(p)' = Open(p) \cup {new}
      /\ \A q \in Players \ {p} : Open(q)' = Open(q)
      /\ \A q \in Players : Due(q)' = Due(q)
  BY <1>1, <1>4 DEF DiceStep, Open, Due, D!Open, D!Due, D!BetOf
<1>6. StepOK
  BY <1>0, <1>1, <1>2, <1>5, PlaceStep DEF DiceStep
<1>7. number \in 1 .. 97
  BY DEF D!DiceAssumption, D!Transfer
<1>8. DiceShape'
  BY <1>1, <1>4, <1>7 DEF DiceStep, DiceShape, D!BetOf
<1> QED BY <1>6, <1>8 DEF DiceOK

(* reveal settles one bet, whose player no call is under way for.          *)
LEMMA DiceReveal ==
    ASSUME DiceStep, NEW id, NEW roll, D!Reveal(id, roll)
    PROVE  DiceOK
<1>0. PICK p : p = active[id].player
  OBVIOUS
<1>1. /\ id \in DOMAIN active /\ p \notin DOMAIN calls /\ p \in Players
      /\ DOMAIN active' = DOMAIN active \ {id}
      /\ \A other \in DOMAIN active' : active'[other] = active[other]
      /\ UNCHANGED <<paid, lost>>
  BY <1>0 DEF D!Reveal, D!SenderFree, D!Revealed, D!Erase, DiceStep, DiceShape
<1>2. LastBetId' = LastBetId
  BY DEF D!Reveal, LastBetId, Global, D!Put
<1>3. /\ DOMAIN calls' = DOMAIN calls \cup {p} /\ calls'[p].bets = {id}
      /\ \A q \in DOMAIN calls : calls'[q] = calls[q]
  <2>1. PICK payout : calls' = D!Put(calls, p, [step |-> "pay", bets |-> {id}, payout |-> payout])
    BY <1>0 DEF D!Reveal
  <2> QED BY <1>1, <2>1 DEF D!Put
<1>4. /\ \A q \in Players : Open(q) \cap {id} = (IF q = p THEN {id} ELSE {})
      /\ \A q \in Players : Open(q)' = Open(q) \ {id}
  BY <1>0, <1>1 DEF DiceStep, Open, D!Open
<1>5. /\ Due(p) = {} /\ Due(p)' = {id}
      /\ \A q \in Players \ {p} : Due(q)' = Due(q)
  BY <1>1, <1>3 DEF DiceStep, Due, D!Due
<1>6. /\ \A q \in Players : Open(q) \cap {id} = {} \/ Due(q) = {}
      /\ \A q \in Players : Due(q)' = Due(q) \cup (Open(q) \cap {id})
  BY <1>4, <1>5
<1>7. {id} \in SUBSET (1 .. MaxBets)
  BY <1>1 DEF DiceStep, DiceShape
<1>8. StepOK
  BY <1>1, <1>2, <1>4, <1>6, <1>7, SettleStep DEF DiceStep
<1>9. DiceShape'
  BY <1>1, <1>3 DEF DiceStep, DiceShape
<1> QED BY <1>8, <1>9 DEF DiceOK

(* pay only sends the call to the house; that one pays, or either fails.   *)
LEMMA DiceDeliver ==
    ASSUME DiceStep, NEW p \in Players, D!Deliver(p)
    PROVE  DiceOK
<1>1. UNCHANGED <<active, globals>>
  BY DEF D!Deliver, D!Pay, D!RunPayment, D!FailCall, D!rows
<1>2. LastBetId' = LastBetId
  BY <1>1 DEF LastBetId
<1>3. CASE D!Pay(p)
  <2>1. DOMAIN calls' = DOMAIN calls /\ \A q \in DOMAIN calls : calls'[q].bets = calls[q].bets
    BY <1>3 DEF D!Pay, D!Put
  <2> QED BY <1>1, <1>2, <1>3, <2>1, DiceStutter DEF D!Pay
<1>4. CASE D!RunPayment(p) \/ D!FailCall(p)
  <2>1. p \in DOMAIN calls /\ Due(p) = calls[p].bets /\ calls' = D!Erase(calls, {p})
    BY <1>4 DEF D!RunPayment, D!FailCall, DiceStep, Due, D!Due
  <2>2. DOMAIN calls' = DOMAIN calls \ {p} /\ \A q \in DOMAIN calls' : calls'[q] = calls[q]
    BY <2>1 DEF D!Erase
  <2>3. /\ Due(p)' = {} /\ \A q \in Players \ {p} : Due(q)' = Due(q)
        /\ \A q \in Players : Open(q)' = Open(q)
    BY <1>1, <2>2 DEF DiceStep, Open, Due, D!Open, D!Due
  <2>4. \/ paid' = [paid EXCEPT ![p] = @ \cup Due(p)] /\ lost' = lost
        \/ lost' = [lost EXCEPT ![p] = @ \cup Due(p)] /\ paid' = paid
    BY <1>4, <2>1 DEF D!RunPayment, D!FailCall
  <2>5. StepOK
    BY <1>2, <2>3, <2>4, EndStep DEF DiceStep
  <2>6. DiceShape'
    BY <1>1, <2>2 DEF DiceStep, DiceShape
  <2> QED BY <2>5, <2>6 DEF DiceOK
<1> QED BY <1>3, <1>4 DEF D!Deliver

LEMMA DiceNext == ASSUME DiceStep, D!DiceAssumption, D!Next PROVE DiceOK
<1>1. CASE D!InitGlobals
  BY <1>1, DiceInitGlobals
<1>2. CASE \E p \in Players, quantity \in DiceAmounts, number \in Numbers : D!Transfer(p, quantity, number)
  BY <1>2, DiceTransfer
<1>3. CASE \E id \in 1 .. MaxBets, roll \in Rolls : D!Reveal(id, roll)
  BY <1>3, DiceReveal
<1>4. CASE \E p \in Players : D!Deliver(p)
  BY <1>4, DiceDeliver
<1> QED BY <1>1, <1>2, <1>3, <1>4 DEF D!Next
-----------------------------------------------------------------------------
(* slots.  The row of a revealed spin stays, so ids are told apart by row. *)
SlotsShape ==
    /\ DOMAIN active \subseteq Players /\ DOMAIN calls \subseteq Players
    /\ \A p \in DOMAIN active : active[p].id \in 1 .. MaxBets /\ active[p].id <= LastBetId
    /\ \A p, q \in DOMAIN active : p # q => active[p].id # active[q].id

SlotsStep == game = "slots" /\ game' = game /\ Books /\ SlotsShape
SlotsOK == StepOK /\ SlotsShape'

(* The operator leaves the counter of the ids alone.                       *)
NoSpinIdWrites == \A w \in SpinWrites : w[1] # "bet"

LEMMA SlotsStutter ==
    ASSUME SlotsStep, LastBetId' = LastBetId, UNCHANGED <<active, calls, paid, lost>>
    PROVE  SlotsOK
<1>1. \A p \in Players : Open(p)' = Open(p) /\ Due(p)' = Due(p)
  BY DEF SlotsStep, Open, Due, S!Open, S!Due
<1>2. StepOK
  BY <1>1, StutterStep DEF SlotsStep, Books
<1>3. SlotsShape'
  BY DEF SlotsStep, SlotsShape
<1> QED BY <1>2, <1>3 DEF SlotsOK

LEMMA SlotsOperate ==
    ASSUME SlotsStep, NoSpinIdWrites, S!InitGlobals \/ \E w \in SpinWrites : S!SetGlobal(w[1], w[2])
    PROVE  SlotsOK
<1>1. UNCHANGED <<active, calls, paid, lost>>
  BY DEF S!InitGlobals, S!SetGlobal
<1>2. LastBetId' = LastBetId
  <2>1. CASE S!InitGlobals
    BY <2>1 DEF S!InitGlobals, LastBetId, Global, S!Global, S!Counters
  <2>2. CASE \E w \in SpinWrites : S!SetGlobal(w[1], w[2])
    BY <2>2 DEF S!SetGlobal, NoSpinIdWrites, LastBetId, Global, S!Put
  <2> QED BY <2>1, <2>2
<1> QED BY <1>1, <1>2, SlotsStutter

(* A new spin takes an id nobody had, in the row of the last one, which    *)
(* was revealed.                                                           *)
LEMMA SlotsTransfer ==
    ASSUME SlotsStep, NEW p \in Players, NEW quantity, S!Transfer(p, quantity)
    PROVE  SlotsOK
<1>0. PICK new : new = LastBetId + 1
  OBVIOUS
<1>1. /\ new \in 1 .. MaxBets /\ UNCHANGED <<calls, paid, lost>>
      /\ p \in DOMAIN active => active[p].result # S!Empty
  BY <1>0 DEF S!Transfer, S!SpinId, S!NextGlobal, S!Global, LastBetId, Global, S!NotInProgress, SlotsStep, Books
<1>2. LastBetId' = new
  BY <1>0 DEF S!Transfer, S!SpinId, S!NextGlobal, S!Global, LastBetId, Global, S!Put
<1>3. /\ DOMAIN active' = DOMAIN active \cup {p} /\ active'[p].id = new /\ active'[p].result = S!Empty
      /\ \A q \in DOMAIN active \ {p} : active'[q] = active[q]
  <2>1. active' = S!Put(active, p, [id |-> new, price |-> quantity, result |-> S!Empty])
    BY <1>0 DEF S!Transfer, S!SpinId, S!NextGlobal, S!Global, LastBetId, Global
  <2> QED BY <2>1 DEF S!Put
<1>4. /\ Open(p)' = Open(p) \cup {new}
      /\ \A q \in Players \ {p} : Open(q)' = Open(q)
      /\ \A q \in Players : Due(q)' = Due(q)
  BY <1>1, <1>3 DEF SlotsStep, Open, Due, S!Open, S!Due
<1>5. StepOK
  BY <1>0, <1>1, <1>2, <1>4, PlaceStep DEF SlotsStep
<1>6. SlotsShape'
  <2>1. \A q \in DOMAIN active \ {p} : active'[q].id \in 1 .. MaxBets /\ active'[q].id < new
    BY <1>0, <1>3 DEF SlotsStep, SlotsShape, Books
  <2> QED BY <1>0, <1>1, <1>2, <1>3, <2>1 DEF SlotsStep, SlotsShape, Books
<1> QED BY <1>5, <1>6 DEF SlotsOK

(* A value that hits nothing, or no value, gives the mark of a spin that   *)
(* waits.                                                                  *)
LEMMA ResultNotEmpty == ASSUME NEW value PROVE S!Result(value) # S!Empty
<1>1. CASE S!Hits(value) = {}
  BY <1>1 DEF S!Result, S!Empty
<1>2. CASE S!Hits(value) # {}
  <2>1. \A x \in S!Hits(value) : x \in 1 .. 5
    BY DEF S!Hits, S!Rewards
  <2>2. S!Min(S!Hits(value)) \in S!Hits(value)
    BY <1>2, <2>1 DEF S!Min
  <2> QED BY <1>2, <2>1, <2>2 DEF S!Result, S!Rewards, S!Reward, S!Empty
<1> QED BY <1>1, <1>2

(* reveal settles the player's spin, no payment of his being under way.    *)
LEMMA SlotsReveal ==
    ASSUME SlotsStep, NEW p \in Players, NEW value, S!Reveal(p, value)
    PROVE  SlotsOK
<1>0. PICK id : id = active[p].id
  OBVIOUS
<1>1. /\ p \in DOMAIN active /\ active[p].result = S!Empty /\ p \notin DOMAIN calls
      /\ id \in 1 .. MaxBets /\ UNCHANGED <<paid, lost>>
  BY <1>0 DEF S!Reveal, S!MayReveal, S!SenderFree, SlotsStep, SlotsShape
<1>2. LastBetId' = LastBetId
  BY DEF S!Reveal, LastBetId, Global, S!Put
<1>3. /\ DOMAIN calls' = DOMAIN calls \cup {p} /\ calls'[p].bets = {id}
      /\ \A q \in DOMAIN calls : calls'[q] = calls[q]
  <2>1. PICK reward : calls' = S!Put(calls, p, [bets |-> {id}, reward |-> reward])
    BY <1>0 DEF S!Reveal
  <2> QED BY <1>1, <2>1 DEF S!Put
<1>4. /\ DOMAIN active' = DOMAIN active /\ active'[p].id = id /\ active'[p].result # S!Empty
      /\ \A q \in DOMAIN active \ {p} : active'[q] = active[q]
  <2>1. PICK price : active' = S!Put(active, p, [id |-> id, price |-> price, result |-> S!Result(value)])
    BY <1>0 DEF S!Reveal
  <2> QED BY <1>1, <2>1, ResultNotEmpty DEF S!Put
<1>5. /\ \A q \in Players : Open(q) \cap {id} = (IF q = p THEN {id} ELSE {})
      /\ \A q \in Players : Open(q)' = Open(q) \ {id}
  <2>1. Open(p) = {id} /\ Open(p)' = {}
    BY <1>0, <1>1, <1>4 DEF SlotsStep, Open, S!Open
  <2>2. ASSUME NEW q \in Players \ {p} PROVE Open(q)' = Open(q) /\ id \notin Open(q)
    BY <1>0, <1>1, <1>4 DEF SlotsStep, SlotsShape, Open, S!Open
  <2> QED BY <2>1, <2>2
<1>6. /\ Due(p) = {} /\ Due(p)' = {id}
      /\ \A q \in Players \ {p} : Due(q)' = Due(q)
  BY <1>1, <1>3 DEF SlotsStep, Due, S!Due
<1>7. /\ \A q \in Players : Open(q) \cap {id} = {} \/ Due(q) = {}
      /\ \A q \in Players : Due(q)' = Due(q) \cup (Open(q) \cap {id})
  BY <1>5, <1>6
<1>8. StepOK
  BY <1>1, <1>2, <1>5, <1>7, SettleStep DEF SlotsStep
<1>9. SlotsShape'
  BY <1>0, <1>1, <1>2, <1>3, <1>4 DEF SlotsStep, SlotsShape
<1> QED BY <1>8, <1>9 DEF SlotsOK

LEMMA SlotsDeliver ==
    ASSUME SlotsStep, NEW p \in Players, S!Deliver(p)
    PROVE  SlotsOK
<1>1. /\ UNCHANGED <<active, globals>>
      /\ p \in DOMAIN calls /\ calls' = S!Erase(calls, {p})
  BY DEF S!Deliver, S!Pay, S!FailPay, S!rows
<1>2. LastBetId' = LastBetId
  BY <1>1 DEF LastBetId
<1>3. DOMAIN calls' = DOMAIN calls \ {p} /\ \A q \in DOMAIN calls' : calls'[q] = calls[q]
  BY <1>1 DEF S!Erase
<1>4. /\ Due(p) = calls[p].bets /\ Due(p)' = {} /\ \A q \in Players \ {p} : Due(q)' = Due(q)
      /\ \A q \in Players : Open(q)' = Open(q)
  BY <1>1, <1>3 DEF SlotsStep, Open, Due, S!Open, S!Due
<1>5. \/ paid' = [paid EXCEPT ![p] = @ \cup Due(p)] /\ lost' = lost
      \/ lost' = [lost EXCEPT ![p] = @ \cup Due(p)] /\ paid' = paid
  BY <1>4 DEF S!Deliver, S!Pay, S!FailPay
<1>6. StepOK
  BY <1>2, <1>4, <1>5, EndStep DEF SlotsStep
<1>7. SlotsShape'
  BY <1>1, <1>2, <1>3 DEF SlotsStep, SlotsShape
<1> QED BY <1>6, <1>7 DEF SlotsOK

LEMMA SlotsNext == ASSUME SlotsStep, NoSpinIdWrites, S!Next PROVE SlotsOK
<1>1. CASE S!InitGlobals \/ \E w \in SpinWrites : S!SetGlobal(w[1], w[2])
  BY <1>1, SlotsOperate
<1>2. CASE \E p \in Players, quantity \in SpinAmounts : S!Transfer(p, quantity)
  BY <1>2, SlotsTransfer
<1>3. CASE \E p \in Players, value \in Values : S!Reveal(p, value)
  BY <1>3, SlotsReveal
<1>4. CASE \E p \in Players : S!Deliver(p)
  BY <1>4, SlotsDeliver
<1> QED BY <1>1, <1>2, <1>3, <1>4 DEF S!Next
-----------------------------------------------------------------------------
(* centergame.                                                             *)
CenterShape ==
    /\ DOMAIN active \subseteq 1 .. MaxBets
    /\ \A id \in DOMAIN active : active[id].player \in Players
    /\ DOMAIN calls \subseteq Players

CenterStep == game = "centergame" /\ game' = game /\ Books /\ CenterShape
CenterOK == StepOK /\ CenterShape'

LEMMA CenterStutter ==
    ASSUME CenterStep, LastBetId' \in Nat, LastBetId <= LastBetId', UNCHANGED <<active, paid, lost>>,
           DOMAIN calls' = DOMAIN calls, \A p \in DOMAIN calls : calls'[p].bets = calls[p].bets
    PROVE  CenterOK
<1>1. \A p \in Players : Open(p)' = Open(p) /\ Due(p)' = Due(p)
  BY DEF CenterStep, Open, Due, C!Open, C!Due
<1>2. StepOK
  BY <1>1, StutterStep DEF CenterStep
<1>3. CenterShape'
  BY DEF CenterStep, CenterShape
<1> QED BY <1>2, <1>3 DEF CenterOK

(* The operator leaves centergame's bet counter alone.                     *)
NoBetIdWrites == \A w \in BetWrites : w[1] # "bet"

LEMMA CenterCounter ==
    ASSUME CenterStep, NoBetIdWrites,
           C!InitGlobals \/ \E w \in BetWrites : C!SetGlobal(w[1], w[2])
    PROVE  CenterOK
<1>1. UNCHANGED <<active, calls, paid, lost>>
  BY DEF C!InitGlobals, C!SetGlobal
<1>2. LastBetId' \in Nat /\ LastBetId <= LastBetId'
  <2>1. CASE C!InitGlobals
    BY <2>1 DEF C!InitGlobals, LastBetId, Global, C!Global, C!Put, CenterStep, Books
  <2>2. CASE \E w \in BetWrites : C!SetGlobal(w[1], w[2])
    <3>1. PICK w \in BetWrites : C!SetGlobal(w[1], w[2])
      BY <2>2
    <3>2. LastBetId' = LastBetId
      BY <3>1 DEF NoBetIdWrites, C!SetGlobal, LastBetId, Global, C!Put
    <3> QED BY <3>2 DEF CenterStep, Books
  <2> QED BY <2>1, <2>2
<1> QED BY <1>1, <1>2, CenterStutter

LEMMA CenterTransfer ==
    ASSUME CenterStep, NEW p \in Players, NEW token, NEW quantity, NEW on,
           C!Transfer(p, token, quantity, on)
    PROVE  CenterOK
<1>0. PICK new : new = LastBetId + 1
  OBVIOUS
<1>1. /\ new \in 1 .. MaxBets /\ new \notin DOMAIN active
      /\ UNCHANGED <<calls, paid, lost>>
  BY <1>0 DEF C!Transfer, C!BetId, C!NextGlobal, C!Global, LastBetId, Global, CenterStep, Books
<1>2. LastBetId' = new
  BY <1>0 DEF C!Transfer, C!BetId, C!NextGlobal, C!Global, LastBetId, Global, C!Put
<1>3. /\ DOMAIN active' = DOMAIN active \cup {new} /\ active'[new].player = p
      /\ \A id \in DOMAIN active : active'[id] = active[id]
  <2>1. active' = C!Put(active, new, [player |-> p, game_id |-> on, token |-> token, bet |-> quantity])
    BY <1>0 DEF C!Transfer, C!BetId, C!NextGlobal, C!Global, LastBetId, Global
  <2> QED BY <1>1, <2>1 DEF C!Put
<1>4. /\ Open(p)' = Open(p) \cup {new}
      /\ \A q \in Players \ {p} : Open(q)' = Open(q)
      /\ \A q \in Players : Due(q)' = Due(q)
  BY <1>1, <1>3 DEF CenterStep, Open, Due, C!Open, C!Due
<1>5. StepOK
  BY <1>0, <1>1, <1>2, <1>4, PlaceStep DEF CenterStep
<1>6. CenterShape'
  BY <1>1, <1>3 DEF CenterStep, CenterShape
<1> QED BY <1>5, <1>6 DEF CenterOK

(* reveal settles the bets of the list, each for the player who made it,   *)
(* who has no payment under way.                                           *)
LEMMA CenterReveal ==
    ASSUME CenterStep, NEW list \in SUBSET DOMAIN active, NEW prize, C!Reveal(list, prize)
    PROVE  CenterOK
<1>1. /\ UNCHANGED <<globals, paid, lost>>
      /\ DOMAIN active' = DOMAIN active \ list
      /\ \A id \in DOMAIN active' : active'[id] = active[id]
  BY DEF C!Reveal, C!Settled, C!Erase
<1>2. LastBetId' = LastBetId
  BY <1>1 DEF LastBetId
<1>3. /\ C!Bettors(list) \cap DOMAIN calls = {} /\ C!Bettors(list) \subseteq Players
      /\ DOMAIN calls' = DOMAIN calls \cup C!Bettors(list)
      /\ \A q \in C!Bettors(list) : calls'[q].bets = C!BetsOf(q, list)
      /\ \A q \in DOMAIN calls : calls'[q] = calls[q]
  <2>1. C!Bettors(list) \cap DOMAIN calls = {} /\ C!Bettors(list) \subseteq Players
    BY DEF C!Reveal, C!SendersFree, C!Bettors, CenterStep, CenterShape
  <2>2. calls' = C!PutAll(calls, [q \in C!Bettors(list) |-> C!Payment(q, list, prize)])
    BY DEF C!Reveal
  <2>3. \A q : C!Payment(q, list, prize).bets = C!BetsOf(q, list)
    BY DEF C!Payment
  <2> QED BY <2>1, <2>2, <2>3 DEF C!PutAll
<1>4. \A q \in Players : Open(q)' = Open(q) \ list
  BY <1>1 DEF CenterStep, Open, C!Open
<1>5. \A q \in Players : Open(q) \cap list = C!BetsOf(q, list)
  BY DEF CenterStep, Open, C!Open, C!BetsOf
<1>6. \A q \in Players : q \notin C!Bettors(list) => C!BetsOf(q, list) = {}
  BY DEF C!Bettors, C!BetsOf
<1>7. /\ \A q \in Players : q \in C!Bettors(list) => Due(q) = {} /\ Due(q)' = C!BetsOf(q, list)
      /\ \A q \in Players : q \notin C!Bettors(list) => Due(q)' = Due(q)
  BY <1>3 DEF CenterStep, Due, C!Due
<1>8. /\ \A q \in Players : Open(q) \cap list = {} \/ Due(q) = {}
      /\ \A q \in Players : Due(q)' = Due(q) \cup (Open(q) \cap list)
  <2>1. ASSUME NEW q \in Players
        PROVE  (Open(q) \cap list = {} \/ Due(q) = {}) /\ Due(q)' = Due(q) \cup (Open(q) \cap list)
    <3>1. CASE q \in C!Bettors(list)
      BY <1>5, <1>7, <3>1
    <3>2. CASE q \notin C!Bettors(list)
      BY <1>5, <1>6, <1>7, <3>2
    <3> QED BY <3>1, <3>2
  <2> QED BY <2>1
<1>9. list \in SUBSET (1 .. MaxBets)
  BY DEF CenterStep, CenterShape
<1>10. StepOK
  BY <1>1, <1>2, <1>4, <1>8, <1>9, SettleStep DEF CenterStep
<1>11. CenterShape'
  BY <1>1, <1>3 DEF CenterStep, CenterShape
<1> QED BY <1>10, <1>11 DEF CenterOK

(* clear gives every waiting bet up.                                       *)
LEMMA CenterClear == ASSUME CenterStep, C!Clear PROVE CenterOK
<1>1. UNCHANGED <<globals, calls, paid>> /\ DOMAIN active' = {}
  BY DEF C!Clear, C!EmptyTable
<1>2. LastBetId' = LastBetId
  BY <1>1 DEF LastBetId
<1>3. PICK ids : ids = DOMAIN active
  OBVIOUS
<1>4. \A q \in Players : C!BetsOf(q, ids) = Open(q) \cap ids
  BY <1>3 DEF CenterStep, Open, C!Open, C!BetsOf
<1>5. lost' = [q \in Players |-> lost[q] \cup (Open(q) \cap ids)]
  BY <1>3, <1>4 DEF C!Clear
<1>6. /\ \A q \in Players : Due(q)' = Due(q)
      /\ \A q \in Players : Open(q)' = Open(q) \ ids
  BY <1>1, <1>3 DEF CenterStep, Open, Due, C!Open, C!Due
<1>7. ids \in SUBSET (1 .. MaxBets)
  BY <1>3 DEF CenterStep, CenterShape
<1>8. StepOK
  BY <1>1, <1>2, <1>5, <1>6, <1>7, DropStep DEF CenterStep
<1>9. CenterShape'
  BY <1>1 DEF CenterStep, CenterShape
<1> QED BY <1>8, <1>9 DEF CenterOK

(* The first call sends the second; that one pays, or either fails.        *)
LEMMA CenterDeliver ==
    ASSUME CenterStep, NEW p \in Players, C!Deliver(p)
    PROVE  CenterOK
<1>1. UNCHANGED <<active, globals>>
  BY DEF C!Deliver, C!SendPayment, C!RunPayment, C!FailCall, C!rows
<1>2. LastBetId' = LastBetId /\ LastBetId \in Nat
  BY <1>1 DEF LastBetId, CenterStep, Books
<1>3. CASE C!SendPayment(p)
  <2>1. DOMAIN calls' = DOMAIN calls /\ \A q \in DOMAIN calls : calls'[q].bets = calls[q].bets
    BY <1>3 DEF C!SendPayment, C!Put
  <2> QED BY <1>1, <1>2, <1>3, <2>1, CenterStutter DEF C!SendPayment
<1>4. CASE C!RunPayment(p) \/ C!FailCall(p)
  <2>1. p \in DOMAIN calls /\ Due(p) = calls[p].bets /\ calls' = C!Erase(calls, {p})
    BY <1>4 DEF C!RunPayment, C!FailCall, CenterStep, Due, C!Due
  <2>2. DOMAIN calls' = DOMAIN calls \ {p} /\ \A q \in DOMAIN calls' : calls'[q] = calls[q]
    BY <2>1 DEF C!Erase
  <2>3. /\ Due(p)' = {} /\ \A q \in Players \ {p} : Due(q)' = Due(q)
        /\ \A q \in Players : Open(q)' = Open(q)
    BY <1>1, <2>2 DEF CenterStep, Open, Due, C!Open, C!Due
  <2>4. \/ paid' = [paid EXCEPT ![p] = @ \cup Due(p)] /\ lost' = lost
        \/ lost' = [lost EXCEPT ![p] = @ \cup Due(p)] /\ paid' = paid
    BY <1>4, <2>1 DEF C!RunPayment, C!FailCall
  <2>5. StepOK
    BY <1>2, <2>3, <2>4, EndStep DEF CenterStep
  <2>6. CenterShape'
    BY <1>1, <2>2 DEF CenterStep, CenterShape
  <2> QED BY <2>5, <2>6 DEF CenterOK
<1> QED BY <1>3, <1>4 DEF C!Deliver

LEMMA CenterNext == ASSUME CenterStep, NoBetIdWrites, C!Next PROVE CenterOK
<1>1. CASE C!InitGlobals \/ \E w \in BetWrites : C!SetGlobal(w[1], w[2])
  BY <1>1, CenterCounter
<1>2. CASE \E list \in SUBSET DOMAIN active :
              \E prize \in [list -> [token : Tokens, amount : Prizes]] : C!Reveal(list, prize)
  BY <1>2, CenterReveal
<1>3. CASE C!Clear
  BY <1>3, CenterClear
<1>4. CASE \E p \in Players, token \in Tokens, quantity \in BetAmounts, on \in Games :
              C!Transfer(p, token, quantity, on)
  BY <1>4, CenterTransfer
<1>5. CASE \E p \in Players : C!Deliver(p)
  BY <1>5, CenterDeliver
<1> QED BY <1>1, <1>2, <1>3, <1>4, <1>5 DEF C!Next, C!Operate
-----------------------------------------------------------------------------
(* scratch.  A revealed card is due until it is claimed, with no deferred  *)
(* call between.                                                           *)
ScratchShape ==
    /\ DOMAIN active \subseteq Players
    /\ \A p \in DOMAIN active : active[p].id \in 1 .. MaxOnTable /\ active[p].id <= LastBetId
    /\ \A p, q \in DOMAIN active : p # q => active[p].id # active[q].id

ScratchStep == game = "scratch" /\ game' = game /\ Books /\ ScratchShape
ScratchOK == StepOK /\ ScratchShape'

(* The operator leaves the counter of the ids alone.                       *)
NoCardIdWrites == \A w \in CardWrites : w[1] # "bet"

LEMMA ScratchStutter ==
    ASSUME ScratchStep, LastBetId' = LastBetId, UNCHANGED <<active, paid, lost>>
    PROVE  ScratchOK
<1>1. \A p \in Players : Open(p)' = Open(p) /\ Due(p)' = Due(p)
  BY DEF ScratchStep, Open, Due, K!Open, K!Due
<1>2. StepOK
  BY <1>1, StutterStep DEF ScratchStep, Books
<1>3. ScratchShape'
  BY DEF ScratchStep, ScratchShape
<1> QED BY <1>2, <1>3 DEF ScratchOK

(* The actions that touch no card on the table.                            *)
LEMMA ScratchOperate ==
    ASSUME ScratchStep, NoCardIdWrites,
           \/ K!InitGlobals
           \/ \E w \in CardWrites : K!SetGlobal(w[1], w[2])
           \/ \E p \in Players : K!SecretSend(p) \/ K!Receipt(p)
    PROVE  ScratchOK
<1>1. UNCHANGED <<active, paid, lost>>
  BY DEF K!InitGlobals, K!SetGlobal, K!SecretSend, K!Receipt, K!rows, K!ghosts
<1>2. LastBetId' = LastBetId
  <2>1. CASE K!InitGlobals
    BY <2>1 DEF K!InitGlobals, LastBetId, Global, K!Global, K!Counters
  <2>2. CASE \E w \in CardWrites : K!SetGlobal(w[1], w[2])
    BY <2>2 DEF K!SetGlobal, NoCardIdWrites, LastBetId, Global, K!Put
  <2>3. CASE \E p \in Players : K!SecretSend(p) \/ K!Receipt(p)
    BY <2>3 DEF K!SecretSend, K!Receipt, K!rows, LastBetId
  <2> QED BY <2>1, <2>2, <2>3
<1> QED BY <1>1, <1>2, ScratchStutter

(* What a player holds on the table is due to him once it may be claimed.  *)
LEMMA ClaimedIsDue ==
    ASSUME game = "scratch", NEW p, K!MayClaim(p)
    PROVE  Due(p) = K!Claimed(p) /\ Open(p) = {}
  BY DEF K!MayClaim, K!Claimed, Open, Due, K!Open, K!Due

(* The next card is put on the table as the last one is claimed.           *)
LEMMA ScratchNextCard ==
    ASSUME ScratchStep, MaxOnTable \in Nat, MaxBets \in Nat, MaxOnTable <= MaxBets,
           NEW p \in Players, NEW type, K!NextCard(p, type), lost' = lost
    PROVE  ScratchOK
<1>0. PICK new : new = LastBetId + 1
  OBVIOUS
<1>1. new \in 1 .. MaxOnTable /\ new \in 1 .. MaxBets /\ K!MayClaim(p)
  BY <1>0 DEF K!NextCard, K!CardId, K!NextGlobal, K!Global, LastBetId, Global, ScratchStep, Books
<1>2. LastBetId' = new
  BY <1>0 DEF K!NextCard, K!CardId, K!NextGlobal, K!Global, LastBetId, Global, K!Put
<1>3. /\ DOMAIN active' = DOMAIN active \cup {p} /\ active'[p].id = new /\ active'[p].result = 0
      /\ \A q \in DOMAIN active \ {p} : active'[q] = active[q]
  <2>1. PICK price : active' = K!Put(active, p, [id |-> new, card_type |-> type, price |-> price,
                                                 reward |-> 0, result |-> 0])
    BY <1>0 DEF K!NextCard, K!Card, K!CardId, K!NextGlobal, K!Global, LastBetId, Global
  <2> QED BY <2>1 DEF K!Put
<1>4. paid' = [paid EXCEPT ![p] = @ \cup Due(p)] /\ Open(p) = {}
  BY <1>1, ClaimedIsDue DEF K!NextCard, ScratchStep
<1>5. /\ Open(p)' = Open(p) \cup {new} /\ Due(p)' = {}
      /\ \A q \in Players \ {p} : Open(q)' = Open(q) /\ Due(q)' = Due(q)
  BY <1>3, <1>4 DEF ScratchStep, Open, Due, K!Open, K!Due
<1>6. StepOK
  BY <1>0, <1>1, <1>2, <1>4, <1>5, RenewStep DEF ScratchStep
<1>7. ScratchShape'
  <2>1. \A q \in DOMAIN active \ {p} : active'[q].id \in 1 .. MaxOnTable /\ active'[q].id < new
    BY <1>0, <1>3 DEF ScratchStep, ScratchShape, Books
  <2> QED BY <1>1, <1>2, <1>3, <2>1 DEF ScratchStep, ScratchShape, Books
<1> QED BY <1>6, <1>7 DEF ScratchOK

LEMMA ScratchClaim ==
    ASSUME ScratchStep, NEW p \in Players, K!Claim(p)
    PROVE  ScratchOK
<1>1. K!MayClaim(p) /\ UNCHANGED <<globals, lost>> /\ active' = K!Erase(active, {p})
  BY DEF K!Claim
<1>2. LastBetId' = LastBetId
  BY <1>1 DEF LastBetId
<1>3. DOMAIN active' = DOMAIN active \ {p} /\ \A q \in DOMAIN active' : active'[q] = active[q]
  BY <1>1 DEF K!Erase
<1>4. paid' = [paid EXCEPT ![p] = @ \cup Due(p)] /\ Open(p) = {}
  BY <1>1, ClaimedIsDue DEF K!Claim, ScratchStep
<1>5. /\ Due(p)' = {} /\ \A q \in Players \ {p} : Due(q)' = Due(q)
      /\ \A q \in Players : Open(q)' = Open(q)
  BY <1>3, <1>4 DEF ScratchStep, Open, Due, K!Open, K!Due
<1>6. StepOK
  BY <1>1, <1>2, <1>4, <1>5, EndStep DEF ScratchStep
<1>7. ScratchShape'
  BY <1>2, <1>3 DEF ScratchStep, ScratchShape
<1> QED BY <1>6, <1>7 DEF ScratchOK

(* reveal settles the card on the table.                                   *)
LEMMA ScratchReveal ==
    ASSUME ScratchStep, MaxOnTable \in Nat, MaxBets \in Nat, MaxOnTable <= MaxBets,
           NEW p \in Players, NEW draw, K!Reveal(p, draw)
    PROVE  ScratchOK
<1>0. PICK id : id = active[p].id
  OBVIOUS
<1>1. /\ p \in DOMAIN active /\ active[p].result = 0
      /\ id \in 1 .. MaxOnTable /\ id \in 1 .. MaxBets /\ UNCHANGED <<paid, lost>>
  BY <1>0 DEF K!Reveal, K!ghosts, ScratchStep, ScratchShape
<1>2. LastBetId' = LastBetId
  BY DEF K!Reveal, LastBetId, Global, K!Put
<1>3. /\ DOMAIN active' = DOMAIN active /\ active'[p].id = id
      /\ \A q \in DOMAIN active \ {p} : active'[q] = active[q]
  <2>1. PICK type, price, reward, result :
          active' = K!Put(active, p, [id |-> id, card_type |-> type, price |-> price,
                                      reward |-> reward, result |-> result])
    BY <1>0 DEF K!Reveal
  <2> QED BY <1>1, <2>1 DEF K!Put
<1>4. ScratchShape'
  BY <1>0, <1>1, <1>2, <1>3 DEF ScratchStep, ScratchShape
<1>5. \A q \in Players \ {p} : Open(q)' = Open(q) /\ Due(q)' = Due(q) /\ id \notin Open(q)
  BY <1>0, <1>1, <1>3 DEF ScratchStep, ScratchShape, Open, Due, K!Open, K!Due
<1>6. Open(p) = {id} /\ Due(p) = {}
  BY <1>0, <1>1 DEF ScratchStep, Open, Due, K!Open, K!Due
<1>7. CASE active'[p].result = 0
  <2>1. Open(p)' = {id} /\ Due(p)' = {}
    BY <1>1, <1>3, <1>7 DEF ScratchStep, Open, Due, K!Open, K!Due
  <2>2. \A q \in Players : Open(q)' = Open(q) /\ Due(q)' = Due(q)
    BY <1>5, <1>6, <2>1
  <2>3. StepOK
    BY <1>1, <1>2, <2>2, StutterStep DEF ScratchStep, Books
  <2> QED BY <1>4, <2>3 DEF ScratchOK
<1>8. CASE active'[p].result # 0
  <2>1. Open(p)' = {} /\ Due(p)' = {id}
    BY <1>1, <1>3, <1>8 DEF ScratchStep, Open, Due, K!Open, K!Due
  <2>2. \A q \in Players : Open(q)' = Open(q) \ {id}
    BY <1>5, <1>6, <2>1
  <2>3. \A q \in Players : Open(q) \cap {id} = {} \/ Due(q) = {}
    BY <1>5, <1>6
  <2>4. \A q \in Players : Due(q)' = Due(q) \cup (Open(q) \cap {id})
    BY <1>5, <1>6, <2>1
  <2>5. StepOK
    BY <1>1, <1>2, <2>2, <2>3, <2>4, SettleStep DEF ScratchStep
  <2> QED BY <1>4, <2>5 DEF ScratchOK
<1> QED BY <1>7, <1>8

LEMMA ScratchNext ==
    ASSUME ScratchStep, MaxOnTable \in Nat, MaxBets \in Nat, MaxOnTable <= MaxBets, NoCardIdWrites, K!Next
    PROVE  ScratchOK
<1>1. CASE \/ K!InitGlobals
           \/ \E w \in CardWrites : K!SetGlobal(w[1], w[2])
           \/ \E p \in Players : K!SecretSend(p) \/ K!Receipt(p)
  BY <1>1, ScratchOperate
<1>2. CASE \E p \in Players : K!Claim(p)
  BY <1>2, ScratchClaim
<1>3. CASE \E p \in Players, type \in K!CardTypes, count \in Counts : K!Transfer(p, type, count)
  BY <1>3, ScratchNextCard DEF K!Transfer
<1>4. CASE \E p \in Players, type \in K!CardTypes : K!Play(p, type)
  BY <1>4, ScratchNextCard DEF K!Play
<1>5. CASE \E p \in Players, draw \in Draws : K!Reveal(p, draw)
  BY <1>5, ScratchReveal
<1> QED BY <1>1, <1>2, <1>3, <1>4, <1>5 DEF K!Next

-----------------------------------------------------------------------------
(* The four together.                                                      *)
IInv ==
    /\ Books
    /\ game \in {"dice", "slots", "centergame", "scratch"}
    /\ game = "dice" => DiceShape
    /\ game = "slots" => SlotsShape
    /\ game = "centergame" => CenterShape
    /\ game = "scratch" => ScratchShape

LEMMA InitOK == Init => W!Init /\ IInv
<1> SUFFICES ASSUME Init PROVE W!Init /\ IInv
  OBVIOUS
<1>1. /\ game \in {"dice", "slots", "centergame", "scratch"}
      /\ DOMAIN globals = {} /\ DOMAIN active = {} /\ DOMAIN calls = {}
      /\ paid = [p \in Players |-> {}] /\ lost = [p \in Players |-> {}]
  BY DEF Init, D!Init, S!Init, C!Init, K!Init, D!EmptyTable, S!EmptyTable, C!EmptyTable, K!EmptyTable
<1>2. \A p \in Players : Open(p) = {} /\ Due(p) = {}
  BY <1>1 DEF Open, Due, D!Open, D!Due, S!Open, S!Due, C!Open, C!Due, K!Open, K!Due
<1>3. W!Init
  BY <1>1, <1>2 DEF W!Init
<1>4. LastBetId = 0
  BY <1>1 DEF LastBetId, Global
<1>5. \A p \in Players : W!Placed(p) = {}
  BY <1>1, <1>2 DEF W!Placed
<1>6. Books
  BY <1>1, <1>4, <1>5 DEF Books, IdsGiven
<1> QED BY <1>1, <1>3, <1>6 DEF IInv, DiceShape, SlotsShape, CenterShape, ScratchShape

LEMMA NextOK ==
    ASSUME NoSpinIdWrites, NoBetIdWrites, NoCardIdWrites, IInv, [Next]_all
    PROVE  StepOK /\ IInv'
<1>0. /\ D!DiceAssumption
      /\ MaxOnTable \in Nat /\ MaxBets \in Nat /\ MaxOnTable <= MaxBets
  <2>1. D!DiceAssumption /\ MaxOnTable \in 0 .. MaxBets
    BY GamesAssumption
  <2>2. MaxBets \in Nat
    BY <2>1 DEF D!DiceAssumption
  <2> QED BY <2>1, <2>2
<1>1. CASE game = "dice" /\ D!Next /\ Idle
  <2>1. DiceStep
    BY <1>1 DEF DiceStep, IInv, Idle
  <2>2. DiceOK
    BY <1>0, <1>1, <2>1, DiceNext
  <2> QED BY <1>1, <2>1, <2>2 DEF DiceStep, DiceOK, StepOK, IInv
<1>2. CASE game = "slots" /\ S!Next /\ Idle
  <2>1. SlotsStep
    BY <1>2 DEF SlotsStep, IInv, Idle
  <2>2. SlotsOK
    BY <1>2, <2>1, SlotsNext
  <2> QED BY <1>2, <2>1, <2>2 DEF SlotsStep, SlotsOK, StepOK, IInv
<1>3. CASE game = "centergame" /\ C!Next /\ Idle
  <2>1. CenterStep
    BY <1>3 DEF CenterStep, IInv, Idle
  <2>2. CenterOK
    BY <1>0, <1>3, <2>1, CenterNext
  <2> QED BY <1>3, <2>1, <2>2 DEF CenterStep, CenterOK, StepOK, IInv
<1>4. CASE game = "scratch" /\ K!Next /\ game' = game
  <2>1. ScratchStep
    BY <1>4 DEF ScratchStep, IInv
  <2>2. ScratchOK
    BY <1>0, <1>4, <2>1, ScratchNext
  <2> QED BY <1>4, <2>1, <2>2 DEF ScratchStep, ScratchOK, StepOK, IInv
<1>5. CASE UNCHANGED all
  <2>1. /\ UNCHANGED <<game, globals, active, calls, paid, lost>>
        /\ LastBetId' = LastBetId
    BY <1>5 DEF all, LastBetId
  <2>2. \A p \in Players : Open(p)' = Open(p) /\ Due(p)' = Due(p)
    BY <2>1 DEF Open, Due, D!Open, D!Due, S!Open, S!Due, C!Open, C!Due, K!Open, K!Due
  <2>3. StepOK
    BY <2>1, <2>2, StutterStep DEF IInv, Books
  <2> QED BY <2>1, <2>3 DEF StepOK, IInv, DiceShape, SlotsShape, CenterShape, ScratchShape
<1> QED BY <1>1, <1>2, <1>3, <1>4, <1>5 DEF Next

(* Dice, slots, centergame and scratch implement Wager: a bet, spin or     *)
(* card is revealed once and paid at most once, over calls that may be     *)
(* late, fail, or stand in each other's way, while the operator does not   *)
(* write the counter of the ids.                                           *)
THEOREM GamesImplementWager ==
    ASSUME NoSpinIdWrites, NoBetIdWrites, NoCardIdWrites
    PROVE  Spec => GamesKeepWager
<1>1. IInv /\ [Next]_all => [W!Next]_W!vars /\ IInv'
  BY NextOK DEF StepOK
<1> QED BY <1>1, InitOK, PTL DEF Spec, GamesKeepWager, W!Spec

(* A bet is waiting, on its way, paid or lost, and of one player: no       *)
(* player is paid for a roll, a spin or a card twice, or for another's.    *)
THEOREM GamesBetInOneStage ==
    ASSUME NoSpinIdWrites, NoBetIdWrites, NoCardIdWrites
    PROVE  Spec => []W!OnePlace
<1>1. W!Spec => []W!OnePlace
  BY W!WagerOnePlace
<1> QED BY <1>1, GamesImplementWager, PTL DEF GamesKeepWager

-----------------------------------------------------------------------------
(* The cards a player keeps, as a sum over the four types.                 *)
LEMMA HeldIsSum == ASSUME NEW cards PROVE K!Held(cards) = SumFunctionOnSet(cards, K!CardTypes)
  BY SumIsChosen DEF K!Held, K!FoldSet, K!MapThenFoldSet, IsSumOn, FirstOf

LEMMA FourCardTypes == IsFiniteSet(K!CardTypes)
<1>1. K!CardTypes = 0 .. 3 /\ 0 \in Int /\ 3 \in Int
  BY DEF K!CardTypes
<1> QED BY ONLY <1>1, FS_Interval

LEMMA HeldChanges ==
    ASSUME NEW cards \in [K!CardTypes -> Nat], NEW more \in [K!CardTypes -> Nat],
           NEW t \in K!CardTypes, NEW n \in Int, more[t] = cards[t] + n,
           \A u \in K!CardTypes \ {t} : more[u] = cards[u]
    PROVE  K!Held(more) = K!Held(cards) + n /\ K!Held(cards) \in Int
<1>1. IsFiniteSet(K!CardTypes)
  BY FourCardTypes
<1>2. \A u \in K!CardTypes : cards[u] \in Int /\ more[u] \in Int
  OBVIOUS
<1> DEFINE sum(f) == SumFunctionOnSet(f, K!CardTypes)
<1>3. sum(more) = sum(cards) - cards[t] + more[t]
  <2> HIDE DEF sum
  <2> QED BY <1>1, <1>2, SumChanged DEF sum
<1>4. sum(cards) \in Int
  BY <1>1, <1>2, SumIsInt
<1>5. K!Held(more) = sum(more) /\ K!Held(cards) = sum(cards)
  BY HeldIsSum
<1> HIDE DEF sum
<1>6. cards[t] \in Int
  OBVIOUS
<1> QED BY ONLY <1>3, <1>4, <1>5, <1>6, more[t] = cards[t] + n, n \in Int

LEMMA NoCardsHeld == K!Held(K!NoCards) = 0
<1> DEFINE none == K!NoCards
<1>1. \A t \in K!CardTypes : none[t] = 0
  BY DEF K!NoCards
<1> HIDE DEF none
<1>2. SumFunctionOnSet(none, K!CardTypes) = 0
  BY <1>1, FourCardTypes, SumOfZeros
<1> QED BY <1>2, HeldIsSum DEF none

(* What the count of cards needs: the card on the table is not among the   *)
(* claimed ones, and numbers are numbers.                                  *)
CardsShape ==
    /\ \A p \in DOMAIN active : active[p].id \notin paid[p]
    /\ \A p \in Players : IsFiniteSet(paid[p])
    /\ IsTable(available, Players, [K!CardTypes -> Nat])
    /\ granted \in [Players -> Nat]

(* The account of one player, as K!CardsAccounted has it.                  *)
Account(p) == granted[p] = K!Held(K!Kept(p)) + K!OnTable(p) + Cardinality(paid[p])
CardsInv == CardsShape /\ \A p \in Players : Account(p)

LEMMA SameCardinality == ASSUME NEW Set PROVE K!Cardinality(Set) = Cardinality(Set)
  BY DEF K!Cardinality, Cardinality

LEMMA Accounts == K!CardsAccounted <=> \A p \in Players : Account(p)
  BY SameCardinality DEF K!CardsAccounted, Account

LEMMA KeptTyped ==
    ASSUME CardsShape, NEW p \in Players
    PROVE  K!Kept(p) \in [K!CardTypes -> Nat]
  BY DEF CardsShape, K!Kept, K!NoCards, IsTable

LEMMA HeldTyped ==
    ASSUME NEW cards \in [K!CardTypes -> Nat]
    PROVE  K!Held(cards) \in Int
<1>1. \A t \in K!CardTypes : cards[t] \in Int
  OBVIOUS
<1> QED BY <1>1, FourCardTypes, SumIsInt, HeldIsSum

(* Nothing of the account is written.                                      *)
LEMMA CardsStutter ==
    ASSUME CardsInv, UNCHANGED <<available, granted, paid>>, DOMAIN active' = DOMAIN active,
           \A p \in DOMAIN active : active'[p].id = active[p].id
    PROVE  CardsInv'
  BY DEF CardsInv, CardsShape, Account, K!Kept, K!OnTable

(* What changes for one player only.                                       *)
LEMMA CardsOfOne ==
    ASSUME CardsInv, NEW p \in Players, CardsShape', Account(p)',
           \A q \in Players \ {p} : /\ K!Kept(q)' = K!Kept(q) /\ K!OnTable(q)' = K!OnTable(q)
                                    /\ paid'[q] = paid[q] /\ granted'[q] = granted[q]
    PROVE  CardsInv'
<1>1. ASSUME NEW q \in Players PROVE Account(q)'
  <2>1. CASE q = p BY <2>1
  <2>2. CASE q # p
    <3>1. Account(q) BY DEF CardsInv, Account
    <3> QED BY <2>2, <3>1 DEF Account
  <2> QED BY <2>1, <2>2
<1> QED BY <1>1 DEF CardsInv, Account

(* secretsend gives a card more.                                           *)
LEMMA CardsGiven ==
    ASSUME CardsInv, NEW p \in Players, K!SecretSend(p)
    PROVE  CardsInv'
<1> DEFINE cards == K!Kept(p)
           more == [cards EXCEPT ![0] = 1]
<1>0. PICK old, new : old = cards /\ new = more
  OBVIOUS
<1>1. /\ old \in [K!CardTypes -> Nat] /\ new \in [K!CardTypes -> Nat] /\ 0 \in K!CardTypes
      /\ new[0] = old[0] + 1 /\ \A u \in K!CardTypes \ {0} : new[u] = old[u]
  BY <1>0, KeptTyped DEF CardsInv, K!SecretSend, K!CardTypes
<1>2. K!Held(new) = K!Held(old) + 1 /\ K!Held(old) \in Int
  <2> HIDE DEF cards, more
  <2>1. 1 \in Int OBVIOUS
  <2> QED BY ONLY <1>1, <2>1, HeldChanges
<1>3. /\ available' = K!Put(available, p, new) /\ UNCHANGED <<active, paid>>
      /\ granted' = [granted EXCEPT ![p] = @ + 1]
  BY <1>0 DEF K!SecretSend
<1>4. K!Kept(p)' = new /\ \A q \in Players \ {p} : K!Kept(q)' = K!Kept(q)
  BY <1>3 DEF K!Kept, K!Put, K!NoCards
<1>5. \A q \in Players : K!OnTable(q)' = K!OnTable(q)
  BY <1>3 DEF K!OnTable
<1>6. CardsShape'
  BY <1>1, <1>3 DEF CardsInv, CardsShape, IsTable, K!Put
<1>7. Account(p)'
  <2>1. Account(p) /\ granted[p] \in Nat /\ granted'[p] = granted[p] + 1
    BY <1>3 DEF CardsInv, CardsShape
  <2>2. Cardinality(paid[p]) \in Nat /\ K!OnTable(p) \in Nat
    BY FS_CardinalityType DEF CardsInv, CardsShape, K!OnTable
  <2> QED BY <1>0, <1>2, <1>3, <1>4, <1>5, <2>1, <2>2 DEF Account
<1> QED BY <1>3, <1>4, <1>5, <1>6, <1>7, CardsOfOne DEF CardsInv, CardsShape

(* Claiming moves the card on the table, if any, to the claimed ones.      *)
LEMMA ClaimCounts ==
    ASSUME CardsShape, NEW p \in Players
    PROVE  /\ IsFiniteSet(paid[p] \cup K!Claimed(p))
           /\ Cardinality(paid[p] \cup K!Claimed(p)) = Cardinality(paid[p]) + K!OnTable(p)
           /\ Cardinality(paid[p]) \in Nat
<1>1. IsFiniteSet(paid[p]) /\ Cardinality(paid[p]) \in Nat
  BY FS_CardinalityType DEF CardsShape
<1>2. CASE p \in DOMAIN active
  <2>1. K!Claimed(p) = {active[p].id} /\ K!OnTable(p) = 1 /\ active[p].id \notin paid[p]
    BY <1>2 DEF K!Claimed, K!OnTable, CardsShape
  <2> QED BY <1>1, <2>1, FS_AddElement
<1>3. CASE p \notin DOMAIN active
  <2>1. K!Claimed(p) = {} /\ K!OnTable(p) = 0 /\ paid[p] \cup {} = paid[p]
    BY <1>3 DEF K!Claimed, K!OnTable
  <2> QED BY <1>1, <2>1
<1> QED BY <1>2, <1>3

(* The next card is counted with what the player keeps and was granted.    *)
LEMMA CardsNextCard ==
    ASSUME CardsInv, ScratchStep, NEW p \in Players, NEW type, K!NextCard(p, type), NEW n \in Int,
           IsTable(available', Players, [K!CardTypes -> Nat]),
           K!Held(K!Kept(p)') = K!Held(K!Kept(p)) + n,
           \A q \in Players \ {p} : K!Kept(q)' = K!Kept(q) /\ granted'[q] = granted[q],
           granted' \in [Players -> Nat], granted'[p] = granted[p] + n + 1
    PROVE  CardsInv'
<1>1. PICK new : new = LastBetId + 1
  OBVIOUS
<1>2. /\ DOMAIN active' = DOMAIN active \cup {p} /\ active'[p].id = new
      /\ \A q \in DOMAIN active \ {p} : active'[q] = active[q]
  <2>1. PICK price : active' = K!Put(active, p, [id |-> new, card_type |-> type, price |-> price,
                                                 reward |-> 0, result |-> 0])
    BY <1>1 DEF K!NextCard, K!Card, K!CardId, K!NextGlobal, K!Global, LastBetId, Global
  <2> QED BY <2>1 DEF K!Put
<1>3. /\ paid'[p] = paid[p] \cup K!Claimed(p)
      /\ \A q \in Players \ {p} : paid'[q] = paid[q]
  BY DEF K!NextCard, ScratchStep, Books
<1>4. new \notin paid'[p]
  <2>1. \A b \in paid[p] : b \in Nat /\ b < new
    BY <1>1 DEF ScratchStep, Books, IdsGiven, W!Placed
  <2>2. \A b \in K!Claimed(p) : b \in Nat /\ b < new
    BY <1>1 DEF ScratchStep, ScratchShape, Books, K!Claimed
  <2>3. new \in Nat
    BY <1>1 DEF ScratchStep, Books
  <2> QED BY <1>3, <2>1, <2>2, <2>3
<1>5. CardsShape'
  <2>1. ASSUME NEW q \in DOMAIN active' PROVE active'[q].id \notin paid'[q]
    <3>1. CASE q = p BY <1>2, <1>4, <3>1
    <3>2. CASE q # p
      <4>1. q \in Players \ {p} /\ q \in DOMAIN active
        BY <1>2, <2>1, <3>2 DEF ScratchStep, ScratchShape
      <4> QED BY <1>2, <1>3, <3>2, <4>1 DEF CardsInv, CardsShape
    <3> QED BY <3>1, <3>2
  <2>2. ASSUME NEW q \in Players PROVE IsFiniteSet(paid'[q])
    <3>1. CASE q = p BY <1>3, <3>1, ClaimCounts DEF CardsInv
    <3>2. CASE q # p BY <1>3, <3>2 DEF CardsInv, CardsShape
    <3> QED BY <3>1, <3>2
  <2> QED BY <2>1, <2>2 DEF CardsShape
<1>6. K!OnTable(p)' = 1 /\ \A q \in Players \ {p} : K!OnTable(q)' = K!OnTable(q)
  BY <1>2 DEF K!OnTable
<1>7. Account(p)'
  <2>1. Account(p) /\ granted[p] \in Nat
    BY DEF CardsInv, CardsShape
  <2>2. Cardinality(paid'[p]) = Cardinality(paid[p]) + K!OnTable(p) /\ Cardinality(paid[p]) \in Nat
    BY <1>3, ClaimCounts DEF CardsInv
  <2>3. K!OnTable(p) \in Nat
    BY DEF K!OnTable
  <2>4. K!Held(K!Kept(p)) \in Int
    BY KeptTyped, HeldTyped DEF CardsInv
  <2> QED BY <1>6, <2>1, <2>2, <2>3, <2>4 DEF Account
<1> QED BY <1>3, <1>5, <1>6, <1>7, CardsOfOne

(* transfer brings count cards, of which one goes to the table.            *)
LEMMA CardsBought ==
    ASSUME CardsInv, ScratchStep, NEW p \in Players, NEW type \in K!CardTypes, NEW count \in Nat,
           K!Transfer(p, type, count)
    PROVE  CardsInv'
<1>0. PICK rest, old, new : /\ rest = count - 1 /\ old = K!Kept(p)
                            /\ new = K!AddCards(K!Kept(p), type, count - 1)
  OBVIOUS
<1>1. rest \in Nat /\ count = rest + 1 /\ K!NextCard(p, type)
  BY <1>0 DEF K!Transfer
<1>2. old \in [K!CardTypes -> Nat]
  BY <1>0, KeptTyped DEF CardsInv
<1>3. /\ new \in [K!CardTypes -> Nat] /\ new[type] = old[type] + rest
      /\ \A u \in K!CardTypes \ {type} : new[u] = old[u]
  BY <1>0, <1>1, <1>2 DEF K!AddCards
<1>4. K!Held(new) = K!Held(old) + rest /\ K!Held(old) \in Int
  <2>1. rest \in Int BY <1>1
  <2> QED BY ONLY <1>2, <1>3, <2>1, type \in K!CardTypes, HeldChanges
<1>5. /\ granted' = [granted EXCEPT ![p] = @ + count]
      /\ IF rest > 0 THEN available' = K!Put(available, p, new) ELSE available' = available
  BY <1>0 DEF K!Transfer, K!KeepRest
<1>6. /\ granted' \in [Players -> Nat] /\ granted'[p] = granted[p] + rest + 1
      /\ \A q \in Players \ {p} : granted'[q] = granted[q]
  BY <1>1, <1>5 DEF CardsInv, CardsShape
<1>7. CASE rest > 0
  <2>1. available' = K!Put(available, p, new)
    BY <1>5, <1>7
  <2>2. K!Kept(p)' = new /\ \A q \in Players \ {p} : K!Kept(q)' = K!Kept(q)
    BY <2>1 DEF K!Kept, K!Put, K!NoCards
  <2>3. IsTable(available', Players, [K!CardTypes -> Nat])
    BY <1>3, <2>1 DEF CardsInv, CardsShape, IsTable, K!Put
  <2>4. rest \in Int /\ K!Held(K!Kept(p)') = K!Held(K!Kept(p)) + rest
    BY <1>0, <1>1, <1>4, <2>2
  <2> QED BY <1>1, <1>6, <2>2, <2>3, <2>4, CardsNextCard
<1>8. CASE rest = 0
  <2>1. available' = available
    BY <1>5, <1>8
  <2>2. \A q \in Players : K!Kept(q)' = K!Kept(q)
    BY <2>1 DEF K!Kept, K!NoCards
  <2>3. rest \in Int /\ K!Held(K!Kept(p)') = K!Held(K!Kept(p)) + rest
    BY <1>0, <1>4, <1>8, <2>2
  <2>4. IsTable(available', Players, [K!CardTypes -> Nat])
    BY <2>1 DEF CardsInv, CardsShape
  <2> QED BY <1>1, <1>6, <2>2, <2>3, <2>4, CardsNextCard
<1> QED BY <1>1, <1>7, <1>8

(* The card played is one the player keeps.                                *)
LEMMA PlayedIsKept ==
    ASSUME CardsInv, NEW p \in Players, NEW asked \in K!CardTypes, K!Play(p, asked)
    PROVE  K!Played(p, asked) \in K!CardTypes /\ K!Kept(p)[K!Played(p, asked)] > 0
<1>1. K!Kept(p) \in [K!CardTypes -> Nat]
  BY KeptTyped DEF CardsInv
<1>2. CASE K!Kept(p)[asked] > 0
  BY <1>2 DEF K!Played
<1>3. CASE ~ (K!Kept(p)[asked] > 0)
  <2>1. PICK some : some = K!Others(p, asked)
    OBVIOUS
  <2>2. some # {} /\ \A t \in some : t \in 0 .. 3 /\ K!Kept(p)[t] > 0
    BY <2>1 DEF K!Play, K!Others, K!CardTypes
  <2>3. K!Min(some) \in some
    BY <2>2 DEF K!Min
  <2> QED BY <1>3, <2>1, <2>2, <2>3 DEF K!Played, K!CardTypes
<1> QED BY <1>2, <1>3

(* play takes the card from those kept.                                    *)
LEMMA CardsPlayed ==
    ASSUME CardsInv, ScratchStep, NEW p \in Players, NEW asked \in K!CardTypes, K!Play(p, asked)
    PROVE  CardsInv'
<1>0. PICK type, old, new : /\ type = K!Played(p, asked) /\ old = K!Kept(p)
                            /\ new = K!AddCards(K!Kept(p), K!Played(p, asked), -1)
  OBVIOUS
<1>1. old \in [K!CardTypes -> Nat]
  BY <1>0, KeptTyped DEF CardsInv
<1>2. type \in K!CardTypes /\ old[type] > 0
  BY <1>0, PlayedIsKept
<1>3. /\ new \in [K!CardTypes -> Nat] /\ new[type] = old[type] + (-1)
      /\ \A u \in K!CardTypes \ {type} : new[u] = old[u]
  BY <1>0, <1>1, <1>2 DEF K!AddCards
<1>4. K!Held(new) = K!Held(old) + (-1) /\ K!Held(old) \in Int
  <2>1. -1 \in Int OBVIOUS
  <2> QED BY ONLY <1>1, <1>2, <1>3, <2>1, HeldChanges
<1>5. /\ K!NextCard(p, type) /\ UNCHANGED granted
      /\ available' = K!Put(available, p, new)
  BY <1>0 DEF K!Play
<1>6. granted' \in [Players -> Nat] /\ granted'[p] = granted[p] + (-1) + 1
  BY <1>5 DEF CardsInv, CardsShape
<1>7. K!Kept(p)' = new /\ \A q \in Players \ {p} : K!Kept(q)' = K!Kept(q)
  BY <1>5 DEF K!Kept, K!Put, K!NoCards
<1>8. IsTable(available', Players, [K!CardTypes -> Nat])
  BY <1>3, <1>5 DEF CardsInv, CardsShape, IsTable, K!Put
<1>9. -1 \in Int /\ K!Held(K!Kept(p)') = K!Held(K!Kept(p)) + (-1)
  BY <1>0, <1>4, <1>7
<1> QED BY <1>5, <1>6, <1>7, <1>8, <1>9, CardsNextCard

(* claim takes the card from the table.                                    *)
LEMMA CardsClaimed ==
    ASSUME CardsInv, ScratchStep, NEW p \in Players, K!Claim(p)
    PROVE  CardsInv'
<1>1. /\ UNCHANGED <<available, granted>>
      /\ DOMAIN active' = DOMAIN active \ {p} /\ \A q \in DOMAIN active' : active'[q] = active[q]
      /\ paid'[p] = paid[p] \cup K!Claimed(p)
      /\ \A q \in Players \ {p} : paid'[q] = paid[q]
  BY DEF K!Claim, K!Erase, ScratchStep, Books
<1>2. CardsShape'
  <2>1. ASSUME NEW q \in Players PROVE IsFiniteSet(paid'[q])
    <3>1. CASE q = p BY <1>1, <3>1, ClaimCounts DEF CardsInv
    <3>2. CASE q # p BY <1>1, <3>2 DEF CardsInv, CardsShape
    <3> QED BY <3>1, <3>2
  <2>2. ASSUME NEW q \in DOMAIN active' PROVE active'[q].id \notin paid'[q]
    <3>1. q \in DOMAIN active /\ q \in Players \ {p}
      BY <1>1, <2>2 DEF ScratchStep, ScratchShape
    <3> QED BY <1>1, <3>1 DEF CardsInv, CardsShape
  <2> QED BY <1>1, <2>1, <2>2 DEF CardsInv, CardsShape
<1>3. K!OnTable(p)' = 0 /\ \A q \in Players \ {p} : K!OnTable(q)' = K!OnTable(q)
  BY <1>1 DEF K!OnTable
<1>4. \A q \in Players : K!Kept(q)' = K!Kept(q)
  BY <1>1 DEF K!Kept, K!NoCards
<1>5. Account(p)'
  <2>1. Account(p)
    BY DEF CardsInv
  <2>2. Cardinality(paid'[p]) = Cardinality(paid[p]) + K!OnTable(p) /\ Cardinality(paid[p]) \in Nat
    BY <1>1, ClaimCounts DEF CardsInv
  <2>3. K!OnTable(p) \in Nat
    BY DEF K!OnTable
  <2>4. K!Held(K!Kept(p)) \in Int
    BY KeptTyped, HeldTyped DEF CardsInv
  <2> QED BY <1>1, <1>3, <1>4, <2>1, <2>2, <2>3, <2>4 DEF Account
<1> QED BY <1>1, <1>2, <1>3, <1>4, <1>5, CardsOfOne

LEMMA CardsNext ==
    ASSUME CardsInv, ScratchStep, Counts \subseteq Nat, K!Next
    PROVE  CardsInv'
<1>1. CASE \E p \in Players : K!SecretSend(p)
  BY <1>1, CardsGiven
<1>2. CASE \E p \in Players : K!Claim(p)
  BY <1>2, CardsClaimed
<1>3. CASE \E p \in Players, type \in K!CardTypes, count \in Counts : K!Transfer(p, type, count)
  BY <1>3, CardsBought
<1>4. CASE \E p \in Players, type \in K!CardTypes : K!Play(p, type)
  BY <1>4, CardsPlayed
<1>5. CASE \/ K!InitGlobals \/ \E w \in CardWrites : K!SetGlobal(w[1], w[2])
           \/ \E p \in Players : K!Receipt(p)
  <2>1. UNCHANGED <<available, granted, paid, active>>
    BY <1>5 DEF K!InitGlobals, K!SetGlobal, K!Receipt, K!rows, K!ghosts
  <2> QED BY <2>1, CardsStutter
<1>6. CASE \E p \in Players, draw \in Draws : K!Reveal(p, draw)
  <2>1. PICK p \in Players, draw \in Draws : K!Reveal(p, draw)
    BY <1>6
  <2>2. UNCHANGED <<available, granted, paid>> /\ p \in DOMAIN active
    BY <2>1 DEF K!Reveal, K!ghosts
  <2>3. PICK type, price, reward, result :
          active' = K!Put(active, p, [id |-> active[p].id, card_type |-> type, price |-> price,
                                      reward |-> reward, result |-> result])
    BY <2>1 DEF K!Reveal
  <2>4. DOMAIN active' = DOMAIN active /\ \A q \in DOMAIN active : active'[q].id = active[q].id
    BY <2>2, <2>3 DEF K!Put
  <2> QED BY <2>2, <2>4, CardsStutter
<1> QED BY <1>1, <1>2, <1>3, <1>4, <1>5, <1>6 DEF K!Next

CardsIInv ==
    /\ game \in {"dice", "slots", "centergame", "scratch"}
    /\ game = "scratch" => Books /\ ScratchShape /\ CardsInv

LEMMA CardsInit == Init => CardsIInv
<1> SUFFICES ASSUME Init, game = "scratch" PROVE Books /\ ScratchShape /\ CardsInv
  BY DEF Init, CardsIInv
<1>1. Books /\ ScratchShape
  BY InitOK DEF IInv
<1>2. /\ DOMAIN active = {} /\ DOMAIN available = {} /\ paid = [p \in Players |-> {}]
      /\ granted = [p \in Players |-> 0] /\ available = K!EmptyTable
  BY DEF Init, K!Init, K!EmptyTable
<1>3. CardsShape
  BY <1>2, FS_EmptySet DEF CardsShape, IsTable, K!EmptyTable
<1>4. ASSUME NEW p \in Players PROVE Account(p)
  BY <1>2, NoCardsHeld, FS_EmptySet DEF Account, K!Kept, K!OnTable
<1> QED BY <1>1, <1>3, <1>4 DEF CardsInv

LEMMA CardsStep ==
    ASSUME NoCardIdWrites, CardsIInv, [Next]_all
    PROVE  CardsIInv' /\ game' = game
<1>1. game' = game
  BY DEF Next, Idle, all
<1>2. CASE game = "scratch" /\ K!Next
  <2>1. ScratchStep /\ CardsInv
    BY <1>1, <1>2 DEF CardsIInv, ScratchStep
  <2>2. D!DiceAssumption /\ MaxOnTable \in 0 .. MaxBets /\ K!ScratchAssumption
    BY GamesAssumption
  <2>3. MaxBets \in Nat
    BY <2>2 DEF D!DiceAssumption
  <2>4. Counts \subseteq Nat
    BY <2>2 DEF K!ScratchAssumption
  <2>5. MaxOnTable \in Nat /\ MaxOnTable <= MaxBets
    BY <2>2, <2>3
  <2>6. ScratchOK
    BY <1>2, <2>1, <2>3, <2>5, ScratchNext
  <2>7. CardsInv'
    BY <1>2, <2>1, <2>4, CardsNext
  <2> QED BY <1>1, <1>2, <2>6, <2>7 DEF ScratchOK, StepOK, CardsIInv
<1>3. CASE game # "scratch"
  BY <1>1, <1>3 DEF CardsIInv
<1>4. CASE game = "scratch" /\ UNCHANGED all
  <2>1. UNCHANGED <<available, granted, paid, lost, active, globals, game, calls>>
    BY <1>4 DEF all
  <2>2. CardsInv'
    BY <1>4, <2>1, CardsStutter DEF CardsIInv
  <2>3. StepOK /\ ScratchShape'
    <3>1. ScratchStep /\ LastBetId' = LastBetId
      BY <1>4, <2>1 DEF CardsIInv, ScratchStep, LastBetId
    <3> QED BY <2>1, <3>1, ScratchStutter DEF ScratchOK
  <2> QED BY <1>1, <1>4, <2>2, <2>3 DEF StepOK, CardsIInv
<1> QED BY <1>1, <1>2, <1>3, <1>4 DEF Next

-----------------------------------------------------------------------------
(* What the hundred rolls of dice pay, as a sum over the winning amounts.  *)
LEMMA RollsAreSum ==
    ASSUME NEW a, NEW f, IsFiniteSet(D!Wins(a)),
           \A x \in D!Wins(a) : f[x] = x * D!Cardinality({roll \in 0 .. 99 : D!Payout(a.bet, a.number, roll) = x})
    PROVE  D!AllRolls(a) = SumFunctionOnSet(f, D!Wins(a))
<1> DEFINE wins == D!Wins(a)
           count(x) == D!Cardinality({roll \in 0 .. 99 : D!Payout(a.bet, a.number, roll) = x})
           Sums(g) == g = [s \in SUBSET wins |-> IF s = {} THEN 0 ELSE FirstOf(s) * count(FirstOf(s)) + g[s \ {FirstOf(s)}]]
<1>1. D!AllRolls(a) = (CHOOSE g : Sums(g))[wins]
  BY DEF D!AllRolls, D!MapThenSumSet, D!MapThenFoldSet, FirstOf
<1>2. \A x \in wins : f[x] = x * count(x)
  OBVIOUS
<1>3. ASSUME NEW g PROVE Sums(g) <=> IsSumOn(g, f, wins)
  <2> HIDE DEF wins, count
  <2>1. \A s \in SUBSET wins : s # {} => f[FirstOf(s)] = FirstOf(s) * count(FirstOf(s))
    BY <1>2, FirstIsIn
  <2> QED BY <2>1 DEF IsSumOn
<1> HIDE DEF wins, Sums
<1>4. PICK h : IsSumOn(h, f, wins)
  BY SumsExist DEF wins
<1>5. Sums(CHOOSE g : Sums(g))
  BY <1>3, <1>4
<1>6. PICK g : g = (CHOOSE k : Sums(k)) /\ IsSumOn(g, f, wins)
  BY <1>3, <1>5
<1> QED BY <1>1, <1>6, SumOfChosen DEF wins

(* What the values of slots pay that hit option i.                         *)
AllSpins == 0 .. 9999
SpinTerm(i) == S!Rewards[i].result * S!Cardinality({v \in AllSpins : S!Result(v) = S!Rewards[i].result})

LEMMA SpinsAreSum ==
    ASSUME NEW f, \A i \in 1 .. 5 : f[i] = SpinTerm(i)
    PROVE  SpinReturns = SumFunctionOnSet(f, 1 .. 5)
<1> DEFINE T == DOMAIN S!Rewards
           Sums(g) == g = [s \in SUBSET T |-> IF s = {} THEN 0 ELSE SpinTerm(FirstOf(s)) + g[s \ {FirstOf(s)}]]
<1>1. SpinReturns = (CHOOSE g : Sums(g))[T]
  BY DEF SpinReturns, S!AllValues, S!MapThenSumSet, S!MapThenFoldSet, FirstOf, SpinTerm, AllSpins
<1>2. T = 1 .. 5
  BY DEF S!Rewards
<1>3. \A i \in T : f[i] = SpinTerm(i)
  BY <1>2
<1>4. IsFiniteSet(T)
  <2>1. 1 \in Int /\ 5 \in Int
    OBVIOUS
  <2> HIDE DEF T
  <2> QED BY ONLY <1>2, <2>1, FS_Interval
<1>5. ASSUME NEW g PROVE Sums(g) <=> IsSumOn(g, f, T)
  <2> HIDE DEF T
  <2>1. \A s \in SUBSET T : s # {} => f[FirstOf(s)] = SpinTerm(FirstOf(s))
    BY <1>3, FirstIsIn
  <2> QED BY <2>1 DEF IsSumOn
<1> HIDE DEF T, Sums
<1>6. PICK h : IsSumOn(h, f, T)
  BY <1>4, SumsExist
<1>7. Sums(CHOOSE g : Sums(g))
  BY <1>5, <1>6
<1>8. PICK g : g = (CHOOSE k : Sums(k)) /\ IsSumOn(g, f, T)
  BY <1>5, <1>7
<1> QED BY <1>1, <1>2, <1>4, <1>8, SumOfChosen

(* A reward of so many rolls is at most 98 hundredths of the stake each.   *)
LEMMA RewardIsBounded ==
    ASSUME NEW bet \in Nat, NEW number \in 1 .. 97
    PROVE  /\ D!Reward(bet, number) \in Nat
           /\ D!Reward(bet, number) * number <= 98 * bet
<1>1. PICK r : r = D!Reward(bet, number)
  OBVIOUS
<1>2. PICK x : x = bet * 98 /\ x \in Nat
  OBVIOUS
<1>3. r = x \div number
  BY <1>1, <1>2 DEF D!Reward, D!HouseEdge
<1>4. /\ x = number * (x \div number) + (x % number) /\ x \div number \in Int
      /\ x % number \in 0 .. number - 1
  <2>1. number \in Nat \ {0} /\ x \in Int
    BY <1>2
  <2> QED BY <2>1, Division
<1>5. r \in Int /\ number * r <= x
  BY <1>3, <1>4
<1>6. r >= 0
  <2>1. SUFFICES ASSUME r <= -1 PROVE FALSE
    BY <1>5
  <2>2. number * r <= -number
    BY <1>5, <2>1, Multiples
  <2>3. x = number * r + (x % number)
    BY <1>3, <1>4
  <2>4. number * r \in Int
    BY <1>5
  <2> QED BY <1>2, <1>4, <2>2, <2>3, <2>4
<1>7. number * r = r * number
  BY <1>5
<1> QED BY <1>1, <1>2, <1>5, <1>6, <1>7

LEMMA DiceKeepsEdge ==
    ASSUME NEW a, a.bet \in Nat, a.number \in 1 .. 97
    PROVE  D!AllRolls(a) <= 98 * a.bet
<1> DEFINE R == D!Reward(a.bet, a.number)
           hit(x) == {roll \in 0 .. 99 : D!Payout(a.bet, a.number, roll) = x}
           f == [x \in {0, R} |-> x * D!Cardinality(hit(x))]
<1>1. R \in Nat /\ R * a.number <= 98 * a.bet
  BY RewardIsBounded
<1>2. \A roll \in 0 .. 99 : D!Payout(a.bet, a.number, roll) = (IF roll < a.number THEN R ELSE 0)
  BY DEF D!Payout
<1>3. D!Wins(a) = {0, R}
  <2>1. D!Wins(a) \subseteq {0, R}
    BY <1>2 DEF D!Wins
  <2>2. 0 \in 0 .. 99 /\ 99 \in 0 .. 99 /\ 0 < a.number /\ ~ (99 < a.number)
    OBVIOUS
  <2>3. D!Payout(a.bet, a.number, 0) = R /\ D!Payout(a.bet, a.number, 99) = 0
    BY <1>2, <2>2
  <2>4. R \in D!Wins(a) /\ 0 \in D!Wins(a)
    BY <2>2, <2>3 DEF D!Wins
  <2> QED BY <2>1, <2>4
<1>4. \A x : D!Cardinality(hit(x)) = Cardinality(hit(x))
  BY DEF D!Cardinality, Cardinality
<1>5. \A x : Cardinality(hit(x)) \in Nat
  <2>1. IsFiniteSet(0 .. 99)
    <3>1. 0 \in Int /\ 99 \in Int OBVIOUS
    <3> QED BY ONLY <3>1, FS_Interval
  <2>2. \A x : hit(x) \in SUBSET (0 .. 99)
    OBVIOUS
  <2> HIDE DEF hit
  <2>3. ASSUME NEW x PROVE Cardinality(hit(x)) \in Nat
    <3>1. IsFiniteSet(hit(x)) BY <2>1, <2>2, FS_Subset
    <3> QED BY <3>1, FS_CardinalityType
  <2> QED BY <2>3
<1>6. R # 0 => Cardinality(hit(R)) = a.number
  <2> SUFFICES ASSUME R # 0 PROVE Cardinality(hit(R)) = a.number
    OBVIOUS
  <2>1. hit(R) = 0 .. a.number - 1
    BY <1>1, <1>2
  <2>2. 0 \in Int /\ a.number - 1 \in Int /\ a.number \in Int /\ ~ (0 > a.number - 1)
        /\ (a.number - 1) - 0 + 1 = a.number
    OBVIOUS
  <2>3. Cardinality(0 .. a.number - 1) = a.number
    BY ONLY <2>2, FS_Interval
  <2> QED BY <2>1, <2>3
<1>7. f[0] = 0 /\ f[R] = R * Cardinality(hit(R)) /\ f[R] \in Int
  <2> HIDE DEF hit, R
  <2>1. f[0] = 0 * Cardinality(hit(0)) /\ f[R] = R * Cardinality(hit(R))
    BY <1>4
  <2>2. 0 * Cardinality(hit(0)) = 0
    BY <1>5
  <2>3. R * Cardinality(hit(R)) \in Int
    BY <1>1, <1>5
  <2> QED BY <2>1, <2>2, <2>3
<1>8. D!AllRolls(a) = SumFunctionOnSet(f, {0, R})
  <2>1. \A x \in D!Wins(a) : f[x] = x * D!Cardinality({roll \in 0 .. 99 : D!Payout(a.bet, a.number, roll) = x})
    BY <1>3
  <2>2. IsFiniteSet(D!Wins(a))
    <3>1. D!Wins(a) = ({} \cup {0}) \cup {R}
      BY <1>3
    <3> HIDE DEF R
    <3>2. IsFiniteSet({} \cup {0})
      BY FS_EmptySet, FS_AddElement
    <3>3. IsFiniteSet(({} \cup {0}) \cup {R})
      BY <3>2, FS_AddElement
    <3> QED BY ONLY <3>1, <3>3
  <2> HIDE DEF f, R, hit
  <2>3. D!AllRolls(a) = SumFunctionOnSet(f, D!Wins(a))
    BY <2>1, <2>2, RollsAreSum
  <2> QED BY <1>3, <2>3
<1> HIDE DEF f, hit, R
<1>9. SumFunctionOnSet(f, {0}) = 0
  <2>1. IsFiniteSet({0}) /\ \A x \in {0} : f[x] = 0
    BY <1>7, FS_EmptySet, FS_AddElement
  <2> QED BY <2>1, SumOfZeros
<1>10. CASE R = 0
  BY <1>8, <1>9, <1>10
<1>11. CASE R # 0
  <2>1. IsFiniteSet({0}) /\ R \notin {0} /\ {0} \cup {R} = {0, R} /\ \A y \in {0} \cup {R} : f[y] \in Int
    BY <1>7, <1>11, FS_EmptySet, FS_AddElement
  <2>2. SumFunctionOnSet(f, {0} \cup {R}) = SumFunctionOnSet(f, {0}) + f[R]
    BY <2>1, SumWith
  <2>3. f[R] = R * a.number
    BY <1>6, <1>7, <1>11
  <2>4. f[R] \in Int
    BY ONLY <2>1
  <2>5. SumFunctionOnSet(f, {0} \cup {R}) = f[R]
    BY ONLY <1>9, <2>2, <2>4
  <2> QED BY <1>1, <1>8, <2>1, <2>3, <2>5
<1> QED BY <1>10, <1>11

LEMMA SpinIsNumber == ASSUME NEW v PROVE v \in AllSpins <=> v \in Int /\ 0 <= v /\ v <= 9999
<1>1. ASSUME v \in AllSpins PROVE v \in Int /\ 0 <= v /\ v <= 9999
  BY <1>1 DEF AllSpins
<1>2. ASSUME v \in Int, 0 <= v, v <= 9999 PROVE v \in AllSpins
  BY <1>2 DEF AllSpins
<1> QED BY <1>1, <1>2

(* slots: which values hit which option.                                   *)
LEMMA SpinResult ==
    ASSUME NEW value \in AllSpins
    PROVE  S!Result(value) = IF value < 2000 THEN 2 ELSE IF value < 3000 THEN 3 ELSE
                             IF value < 3300 THEN 5 ELSE IF value < 3310 THEN 18 ELSE
                             IF value < 3311 THEN 88 ELSE 0
<1>0. value \in Nat
  BY SpinIsNumber
<1>1. PICK hits : hits = S!Hits(value)
  OBVIOUS
<1>2. \A i : i \in hits <=> /\ i \in 1 .. 5
                            /\ value < (IF i = 1 THEN 2000 ELSE IF i = 2 THEN 3000 ELSE
                                        IF i = 3 THEN 3300 ELSE IF i = 4 THEN 3310 ELSE 3311)
  BY <1>1 DEF S!Hits, S!Rewards, S!Reward
<1>3. S!Result(value) = IF hits = {} THEN 0 ELSE S!Rewards[S!Min(hits)].result
  BY <1>1 DEF S!Result
<1>4. S!Rewards[1].result = 2 /\ S!Rewards[2].result = 3 /\ S!Rewards[3].result = 5
      /\ S!Rewards[4].result = 18 /\ S!Rewards[5].result = 88
  BY DEF S!Rewards, S!Reward
<1>5. ASSUME hits # {}
      PROVE  S!Min(hits) \in hits /\ \A i \in hits : S!Min(hits) <= i
  <2>1. \E i \in hits : \A j \in hits : i <= j
    BY <1>2, <1>5
  <2> QED BY <2>1 DEF S!Min
<1>6. CASE hits = {}
  <2>1. 5 \notin hits BY <1>6
  <2>2. value >= 3311
    <3>1. ~ (value < 3311)
      BY <1>2, <2>1
    <3> QED BY ONLY <1>0, <3>1
  <2>3. S!Result(value) = 0 BY <1>3, <1>6
  <2>4. ~ (value < 2000) /\ ~ (value < 3000) /\ ~ (value < 3300) /\ ~ (value < 3310) /\ ~ (value < 3311)
    BY ONLY <1>0, <2>2
  <2> QED BY ONLY <2>3, <2>4
<1>7. CASE hits # {}
  <2>1. PICK least : least = S!Min(hits)
    OBVIOUS
  <2>2. least \in hits /\ \A i \in hits : least <= i
    BY <1>5, <1>7, <2>1
  <2>3. S!Result(value) = S!Rewards[least].result
    BY <1>3, <1>7, <2>1
  <2>4. least = (IF value < 2000 THEN 1 ELSE IF value < 3000 THEN 2 ELSE
                 IF value < 3300 THEN 3 ELSE IF value < 3310 THEN 4 ELSE 5) /\ value < 3311
    BY <1>0, <1>2, <2>2
  <2> QED BY <1>4, <2>3, <2>4
<1> QED BY <1>6, <1>7

LEMMA SpinCount ==
    ASSUME NEW n \in Nat, NEW low \in Nat, NEW up \in Nat, low < up,
           \A v \in AllSpins : S!Result(v) = n <=> low <= v /\ v < up, up <= 9999
    PROVE  S!Cardinality({v \in AllSpins : S!Result(v) = n}) = up - low
<1>1. {v \in AllSpins : S!Result(v) = n} = low .. up - 1
  <2>0. \A v : v \in AllSpins <=> v \in Int /\ 0 <= v /\ v <= 9999
    BY SpinIsNumber
  <2>1. ASSUME NEW v \in AllSpins, S!Result(v) = n PROVE v \in low .. up - 1
    <3>1. low <= v /\ v < up BY <2>1
    <3> QED BY <2>0, <3>1
  <2>2. ASSUME NEW v \in low .. up - 1 PROVE v \in AllSpins /\ S!Result(v) = n
    <3>1. v \in AllSpins /\ low <= v /\ v < up BY <2>0
    <3> QED BY <3>1
  <2> QED BY <2>1, <2>2
<1>2. low \in Int /\ up - 1 \in Int /\ ~ (low > up - 1) /\ (up - 1) - low + 1 = up - low
  OBVIOUS
<1>3. Cardinality(low .. up - 1) = up - low
  BY ONLY <1>2, FS_Interval
<1>4. S!Cardinality(low .. up - 1) = Cardinality(low .. up - 1)
  BY DEF S!Cardinality, Cardinality
<1> QED BY ONLY <1>1, <1>3, <1>4, Zenon

LEMMA SpinOf ==
    ASSUME NEW v \in AllSpins
    PROVE  /\ S!Result(v) = 2 <=> 0 <= v /\ v < 2000
           /\ S!Result(v) = 3 <=> 2000 <= v /\ v < 3000
           /\ S!Result(v) = 5 <=> 3000 <= v /\ v < 3300
           /\ S!Result(v) = 18 <=> 3300 <= v /\ v < 3310
           /\ S!Result(v) = 88 <=> 3310 <= v /\ v < 3311
<1>1. PICK r : r = S!Result(v)
  OBVIOUS
<1>2. r = IF v < 2000 THEN 2 ELSE IF v < 3000 THEN 3 ELSE
          IF v < 3300 THEN 5 ELSE IF v < 3310 THEN 18 ELSE
          IF v < 3311 THEN 88 ELSE 0
  BY <1>1, SpinResult
<1>3. v \in Nat
  BY SpinIsNumber
<1> QED BY ONLY <1>1, <1>2, <1>3

(* slots: the ten thousand values pay 8768 stakes.                         *)
LEMMA SlotsKeepsEdge == SpinReturns <= 10000
<1> DEFINE f == [i \in 1 .. 5 |-> SpinTerm(i)]
           count(n) == S!Cardinality({v \in AllSpins : S!Result(v) = n})
<1>1. \A v \in AllSpins : S!Result(v) = 2 <=> 0 <= v /\ v < 2000
  BY SpinOf
<1>2. \A v \in AllSpins : S!Result(v) = 3 <=> 2000 <= v /\ v < 3000
  BY SpinOf
<1>3. \A v \in AllSpins : S!Result(v) = 5 <=> 3000 <= v /\ v < 3300
  BY SpinOf
<1>4. \A v \in AllSpins : S!Result(v) = 18 <=> 3300 <= v /\ v < 3310
  BY SpinOf
<1>5. \A v \in AllSpins : S!Result(v) = 88 <=> 3310 <= v /\ v < 3311
  BY SpinOf
<1>6. count(2) = 2000 - 0
  BY <1>1, SpinCount
<1>7. count(3) = 3000 - 2000
  BY <1>2, SpinCount
<1>8. count(5) = 3300 - 3000
  BY <1>3, SpinCount
<1>9. count(18) = 3310 - 3300
  BY <1>4, SpinCount
<1>10. count(88) = 3311 - 3310
  BY <1>5, SpinCount
<1>11. \A i \in 1 .. 5 : f[i] = S!Rewards[i].result * count(S!Rewards[i].result)
  BY DEF SpinTerm
<1>12. S!Rewards[1].result = 2 /\ S!Rewards[2].result = 3 /\ S!Rewards[3].result = 5
       /\ S!Rewards[4].result = 18 /\ S!Rewards[5].result = 88
  BY DEF S!Rewards, S!Reward
<1>13. SpinReturns = SumFunctionOnSet(f, 1 .. 5)
  <2>1. \A i \in 1 .. 5 : f[i] = SpinTerm(i)
    OBVIOUS
  <2> HIDE DEF f
  <2> QED BY <2>1, SpinsAreSum
<1> HIDE DEF f, count
<1>14. f[1] = 4000 /\ f[2] = 3000 /\ f[3] = 1500 /\ f[4] = 180 /\ f[5] = 88
  BY <1>6, <1>7, <1>8, <1>9, <1>10, <1>11, <1>12
<1>15. SumFunctionOnSet(f, 1 .. 1 + 4) = f[1] + f[1 + 1] + f[1 + 2] + f[1 + 3] + f[1 + 4]
  <2>1. 1 \in Int /\ \A x \in 1 .. 1 + 4 : f[x] \in Int
    BY <1>14
  <2> QED BY ONLY <2>1, SumOfFive
<1> QED BY <1>13, <1>14, <1>15

(* scratch: what a digit of the type pays over all rolls, a line over all  *)
(* digits, a card over its lines.                                          *)
DigitPays(card, i, digit) == K!Returned(K!LineTable(card, i)[K!LineType(card, digit) + 1])
StepPays(i, k) == 2 * K!Steps[i][k].payout * K!Width(i, k)
LinePays(card, i) == IF card = 2 THEN K!StepReturn(i) ELSE K!TableReturn(card, i)

LEMMA DigitsAreSum ==
    ASSUME NEW card, NEW i, NEW f, \A x \in 0 .. 19 : f[x] = DigitPays(card, i, x), IsFiniteSet(0 .. 19)
    PROVE  K!TableReturn(card, i) = SumFunctionOnSet(f, 0 .. 19)
<1> DEFINE T == 0 .. 19
           Sums(g) == g = [s \in SUBSET T |-> IF s = {} THEN 0 ELSE DigitPays(card, i, FirstOf(s)) + g[s \ {FirstOf(s)}]]
<1>1. K!TableReturn(card, i) = (CHOOSE g : Sums(g))[T]
  BY DEF K!TableReturn, DigitPays, K!MapThenSumSet, K!MapThenFoldSet, FirstOf
<1>2. ASSUME NEW g PROVE Sums(g) <=> IsSumOn(g, f, T)
  <2> HIDE DEF T
  <2>1. \A s \in SUBSET T : s # {} => f[FirstOf(s)] = DigitPays(card, i, FirstOf(s))
    BY FirstIsIn DEF T
  <2> QED BY <2>1 DEF IsSumOn
<1> HIDE DEF T, Sums
<1>3. PICK h : IsSumOn(h, f, T)
  BY SumsExist DEF T
<1>4. Sums(CHOOSE g : Sums(g))
  BY <1>2, <1>3
<1>5. PICK g : g = (CHOOSE k : Sums(k)) /\ IsSumOn(g, f, T)
  BY <1>2, <1>4
<1> QED BY <1>1, <1>5, SumOfChosen DEF T

LEMMA StepsAreSum ==
    ASSUME NEW i, NEW f, \A x \in DOMAIN K!Steps[i] : f[x] = StepPays(i, x), IsFiniteSet(DOMAIN K!Steps[i])
    PROVE  K!StepReturn(i) = SumFunctionOnSet(f, DOMAIN K!Steps[i])
<1> DEFINE T == DOMAIN K!Steps[i]
           Sums(g) == g = [s \in SUBSET T |-> IF s = {} THEN 0 ELSE StepPays(i, FirstOf(s)) + g[s \ {FirstOf(s)}]]
<1>1. K!StepReturn(i) = (CHOOSE g : Sums(g))[T]
  BY DEF K!StepReturn, StepPays, K!MapThenSumSet, K!MapThenFoldSet, FirstOf
<1>2. ASSUME NEW g PROVE Sums(g) <=> IsSumOn(g, f, T)
  <2> HIDE DEF T
  <2>1. \A s \in SUBSET T : s # {} => f[FirstOf(s)] = StepPays(i, FirstOf(s))
    BY FirstIsIn DEF T
  <2> QED BY <2>1 DEF IsSumOn
<1> HIDE DEF T, Sums
<1>3. PICK h : IsSumOn(h, f, T)
  BY SumsExist DEF T
<1>4. Sums(CHOOSE g : Sums(g))
  BY <1>2, <1>3
<1>5. PICK g : g = (CHOOSE k : Sums(k)) /\ IsSumOn(g, f, T)
  BY <1>2, <1>4
<1> QED BY <1>1, <1>5, SumOfChosen DEF T

LEMMA LinesAreSum ==
    ASSUME NEW card, NEW f, \A x \in 1 .. 5 : f[x] = LinePays(card, x), IsFiniteSet(1 .. 5)
    PROVE  K!CardReturn(card) = SumFunctionOnSet(f, 1 .. 5)
<1> DEFINE T == 1 .. 5
           Sums(g) == g = [s \in SUBSET T |-> IF s = {} THEN 0 ELSE LinePays(card, FirstOf(s)) + g[s \ {FirstOf(s)}]]
<1>1. K!CardReturn(card) = (CHOOSE g : Sums(g))[T]
  BY DEF K!CardReturn, LinePays, K!MapThenSumSet, K!MapThenFoldSet, FirstOf
<1>2. ASSUME NEW g PROVE Sums(g) <=> IsSumOn(g, f, T)
  <2> HIDE DEF T
  <2>1. \A s \in SUBSET T : s # {} => f[FirstOf(s)] = LinePays(card, FirstOf(s))
    BY FirstIsIn DEF T
  <2> QED BY <2>1 DEF IsSumOn
<1> HIDE DEF T, Sums
<1>3. PICK h : IsSumOn(h, f, T)
  BY SumsExist DEF T
<1>4. Sums(CHOOSE g : Sums(g))
  BY <1>2, <1>3
<1>5. PICK g : g = (CHOOSE k : Sums(k)) /\ IsSumOn(g, f, T)
  BY <1>2, <1>4
<1> QED BY <1>1, <1>5, SumOfChosen DEF T

(* A line of a card of the first type, over all digits and rolls.          *)
LEMMA ReturnOfFirst ==
    ASSUME NEW i
    PROVE  K!TableReturn(0, i) = 320000
<1> DEFINE f == [d \in 0 .. 19 |-> DigitPays(0, i, d)]
<1>1. ASSUME NEW d \in 0 .. 19 PROVE f[d] = DigitPays(0, i, d)
  OBVIOUS
<1>2. /\ K!LineType(0, 0) = 0 /\ f[0] = 50000
      /\ K!LineType(0, 1) = 0 /\ f[1] = 50000
      /\ K!LineType(0, 2) = 1 /\ f[2] = 10000
      /\ K!LineType(0, 3) = 2 /\ f[3] = 10000
      /\ K!LineType(0, 4) = 3 /\ f[4] = 10000
  <2>1. K!LineType(0, 0) = 0 /\ K!LineType(0, 1) = 0 /\ K!LineType(0, 2) = 1 /\ K!LineType(0, 3) = 2 /\ K!LineType(0, 4) = 3
    BY DEF K!LineType, K!Max
  <2> QED BY <2>1 DEF DigitPays, K!Returned, K!LineTable, K!Rewards1, K!Option
<1>3. /\ K!LineType(0, 5) = 4 /\ f[5] = 10000
      /\ K!LineType(0, 6) = 5 /\ f[6] = 10000
      /\ K!LineType(0, 7) = 6 /\ f[7] = 10000
      /\ K!LineType(0, 8) = 7 /\ f[8] = 0
      /\ K!LineType(0, 9) = 8 /\ f[9] = 0
  <2>1. K!LineType(0, 5) = 4 /\ K!LineType(0, 6) = 5 /\ K!LineType(0, 7) = 6 /\ K!LineType(0, 8) = 7 /\ K!LineType(0, 9) = 8
    BY DEF K!LineType, K!Max
  <2> QED BY <2>1 DEF DigitPays, K!Returned, K!LineTable, K!Rewards1, K!Option
<1>4. /\ K!LineType(0, 10) = 0 /\ f[10] = 50000
      /\ K!LineType(0, 11) = 0 /\ f[11] = 50000
      /\ K!LineType(0, 12) = 1 /\ f[12] = 10000
      /\ K!LineType(0, 13) = 2 /\ f[13] = 10000
      /\ K!LineType(0, 14) = 3 /\ f[14] = 10000
  <2>1. K!LineType(0, 10) = 0 /\ K!LineType(0, 11) = 0 /\ K!LineType(0, 12) = 1 /\ K!LineType(0, 13) = 2 /\ K!LineType(0, 14) = 3
    BY DEF K!LineType, K!Max
  <2> QED BY <2>1 DEF DigitPays, K!Returned, K!LineTable, K!Rewards1, K!Option
<1>5. /\ K!LineType(0, 15) = 4 /\ f[15] = 10000
      /\ K!LineType(0, 16) = 5 /\ f[16] = 10000
      /\ K!LineType(0, 17) = 6 /\ f[17] = 10000
      /\ K!LineType(0, 18) = 7 /\ f[18] = 0
      /\ K!LineType(0, 19) = 8 /\ f[19] = 0
  <2>1. K!LineType(0, 15) = 4 /\ K!LineType(0, 16) = 5 /\ K!LineType(0, 17) = 6 /\ K!LineType(0, 18) = 7 /\ K!LineType(0, 19) = 8
    BY DEF K!LineType, K!Max
  <2> QED BY <2>1 DEF DigitPays, K!Returned, K!LineTable, K!Rewards1, K!Option
<1> HIDE DEF f
<1>6. \A d \in 0 .. 19 : f[d] \in Int
  BY <1>2, <1>3, <1>4, <1>5
<1>7. SumFunctionOnSet(f, 0 .. 0 + 4) = 130000
  <2>1. 0 \in Int /\ \A d \in 0 .. 0 + 4 : f[d] \in Int
    BY <1>6
  <2>2. SumFunctionOnSet(f, 0 .. 0 + 4) = f[0] + f[0 + 1] + f[0 + 2] + f[0 + 3] + f[0 + 4]
    BY ONLY <2>1, SumOfFive
  <2> QED BY <1>2, <2>2
<1>8. SumFunctionOnSet(f, 5 .. 5 + 4) = 30000
  <2>1. 5 \in Int /\ \A d \in 5 .. 5 + 4 : f[d] \in Int
    BY <1>6
  <2>2. SumFunctionOnSet(f, 5 .. 5 + 4) = f[5] + f[5 + 1] + f[5 + 2] + f[5 + 3] + f[5 + 4]
    BY ONLY <2>1, SumOfFive
  <2> QED BY <1>3, <2>2
<1>9. SumFunctionOnSet(f, 10 .. 10 + 4) = 130000
  <2>1. 10 \in Int /\ \A d \in 10 .. 10 + 4 : f[d] \in Int
    BY <1>6
  <2>2. SumFunctionOnSet(f, 10 .. 10 + 4) = f[10] + f[10 + 1] + f[10 + 2] + f[10 + 3] + f[10 + 4]
    BY ONLY <2>1, SumOfFive
  <2> QED BY <1>4, <2>2
<1>10. SumFunctionOnSet(f, 15 .. 15 + 4) = 30000
  <2>1. 15 \in Int /\ \A d \in 15 .. 15 + 4 : f[d] \in Int
    BY <1>6
  <2>2. SumFunctionOnSet(f, 15 .. 15 + 4) = f[15] + f[15 + 1] + f[15 + 2] + f[15 + 3] + f[15 + 4]
    BY ONLY <2>1, SumOfFive
  <2> QED BY <1>5, <2>2
<1>11. SumFunctionOnSet(f, 0 .. 19) = 320000
  <2>1. 0 + 4 = 4 /\ 5 + 4 = 9 /\ 10 + 4 = 14 /\ 15 + 4 = 19
    OBVIOUS
  <2> QED BY <1>6, <1>7, <1>8, <1>9, <1>10, <2>1, SumOfTwenty
<1>12. K!TableReturn(0, i) = SumFunctionOnSet(f, 0 .. 19)
  <2>1. 0 \in Int /\ 19 \in Int OBVIOUS
  <2>2. IsFiniteSet(0 .. 19) BY ONLY <2>1, FS_Interval
  <2> QED BY <1>1, <2>2, DigitsAreSum
<1> QED BY <1>11, <1>12

(* The first line of a card of the second type, and a later one.           *)
LEMMA ReturnOfSecond ==
    ASSUME NEW i, i = 1
    PROVE  K!TableReturn(1, i) = 799997
<1> DEFINE f == [d \in 0 .. 19 |-> DigitPays(1, i, d)]
<1>1. ASSUME NEW d \in 0 .. 19 PROVE f[d] = DigitPays(1, i, d)
  OBVIOUS
<1>2. /\ K!LineType(1, 0) = 0 /\ f[0] = 66667
      /\ K!LineType(1, 1) = 0 /\ f[1] = 66667
      /\ K!LineType(1, 2) = 0 /\ f[2] = 66667
      /\ K!LineType(1, 3) = 1 /\ f[3] = 66666
      /\ K!LineType(1, 4) = 1 /\ f[4] = 66666
  <2>1. K!LineType(1, 0) = 0 /\ K!LineType(1, 1) = 0 /\ K!LineType(1, 2) = 0 /\ K!LineType(1, 3) = 1 /\ K!LineType(1, 4) = 1
    BY DEF K!LineType, K!Card2Type
  <2> QED BY <2>1 DEF DigitPays, K!Returned, K!LineTable, K!Rewards2First, K!Option
<1>3. /\ K!LineType(1, 5) = 1 /\ f[5] = 66666
      /\ K!LineType(1, 6) = 1 /\ f[6] = 66666
      /\ K!LineType(1, 7) = 1 /\ f[7] = 66666
      /\ K!LineType(1, 8) = 1 /\ f[8] = 66666
      /\ K!LineType(1, 9) = 2 /\ f[9] = 20000
  <2>1. K!LineType(1, 5) = 1 /\ K!LineType(1, 6) = 1 /\ K!LineType(1, 7) = 1 /\ K!LineType(1, 8) = 1 /\ K!LineType(1, 9) = 2
    BY DEF K!LineType, K!Card2Type
  <2> QED BY <2>1 DEF DigitPays, K!Returned, K!LineTable, K!Rewards2First, K!Option
<1>4. /\ K!LineType(1, 10) = 2 /\ f[10] = 20000
      /\ K!LineType(1, 11) = 3 /\ f[11] = 20000
      /\ K!LineType(1, 12) = 3 /\ f[12] = 20000
      /\ K!LineType(1, 13) = 4 /\ f[13] = 20000
      /\ K!LineType(1, 14) = 4 /\ f[14] = 20000
  <2>1. K!LineType(1, 10) = 2 /\ K!LineType(1, 11) = 3 /\ K!LineType(1, 12) = 3 /\ K!LineType(1, 13) = 4 /\ K!LineType(1, 14) = 4
    BY DEF K!LineType, K!Card2Type
  <2> QED BY <2>1 DEF DigitPays, K!Returned, K!LineTable, K!Rewards2First, K!Option
<1>5. /\ K!LineType(1, 15) = 5 /\ f[15] = 40000
      /\ K!LineType(1, 16) = 6 /\ f[16] = 40000
      /\ K!LineType(1, 17) = 7 /\ f[17] = 0
      /\ K!LineType(1, 18) = 8 /\ f[18] = 0
      /\ K!LineType(1, 19) = 9 /\ f[19] = 0
  <2>1. K!LineType(1, 15) = 5 /\ K!LineType(1, 16) = 6 /\ K!LineType(1, 17) = 7 /\ K!LineType(1, 18) = 8 /\ K!LineType(1, 19) = 9
    BY DEF K!LineType, K!Card2Type
  <2> QED BY <2>1 DEF DigitPays, K!Returned, K!LineTable, K!Rewards2First, K!Option
<1> HIDE DEF f
<1>6. \A d \in 0 .. 19 : f[d] \in Int
  BY <1>2, <1>3, <1>4, <1>5
<1>7. SumFunctionOnSet(f, 0 .. 0 + 4) = 333333
  <2>1. 0 \in Int /\ \A d \in 0 .. 0 + 4 : f[d] \in Int
    BY <1>6
  <2>2. SumFunctionOnSet(f, 0 .. 0 + 4) = f[0] + f[0 + 1] + f[0 + 2] + f[0 + 3] + f[0 + 4]
    BY ONLY <2>1, SumOfFive
  <2> QED BY <1>2, <2>2
<1>8. SumFunctionOnSet(f, 5 .. 5 + 4) = 286664
  <2>1. 5 \in Int /\ \A d \in 5 .. 5 + 4 : f[d] \in Int
    BY <1>6
  <2>2. SumFunctionOnSet(f, 5 .. 5 + 4) = f[5] + f[5 + 1] + f[5 + 2] + f[5 + 3] + f[5 + 4]
    BY ONLY <2>1, SumOfFive
  <2> QED BY <1>3, <2>2
<1>9. SumFunctionOnSet(f, 10 .. 10 + 4) = 100000
  <2>1. 10 \in Int /\ \A d \in 10 .. 10 + 4 : f[d] \in Int
    BY <1>6
  <2>2. SumFunctionOnSet(f, 10 .. 10 + 4) = f[10] + f[10 + 1] + f[10 + 2] + f[10 + 3] + f[10 + 4]
    BY ONLY <2>1, SumOfFive
  <2> QED BY <1>4, <2>2
<1>10. SumFunctionOnSet(f, 15 .. 15 + 4) = 80000
  <2>1. 15 \in Int /\ \A d \in 15 .. 15 + 4 : f[d] \in Int
    BY <1>6
  <2>2. SumFunctionOnSet(f, 15 .. 15 + 4) = f[15] + f[15 + 1] + f[15 + 2] + f[15 + 3] + f[15 + 4]
    BY ONLY <2>1, SumOfFive
  <2> QED BY <1>5, <2>2
<1>11. SumFunctionOnSet(f, 0 .. 19) = 799997
  <2>1. 0 + 4 = 4 /\ 5 + 4 = 9 /\ 10 + 4 = 14 /\ 15 + 4 = 19
    OBVIOUS
  <2> QED BY <1>6, <1>7, <1>8, <1>9, <1>10, <2>1, SumOfTwenty
<1>12. K!TableReturn(1, i) = SumFunctionOnSet(f, 0 .. 19)
  <2>1. 0 \in Int /\ 19 \in Int OBVIOUS
  <2>2. IsFiniteSet(0 .. 19) BY ONLY <2>1, FS_Interval
  <2> QED BY <1>1, <2>2, DigitsAreSum
<1> QED BY <1>11, <1>12

(* A later line of it.                                                    *)
LEMMA ReturnOfSecondLater ==
    ASSUME NEW i, i # 1
    PROVE  K!TableReturn(1, i) = 199997
<1> DEFINE f == [d \in 0 .. 19 |-> DigitPays(1, i, d)]
<1>1. ASSUME NEW d \in 0 .. 19 PROVE f[d] = DigitPays(1, i, d)
  OBVIOUS
<1>2. /\ K!LineType(1, 0) = 0 /\ f[0] = 16667
      /\ K!LineType(1, 1) = 0 /\ f[1] = 16667
      /\ K!LineType(1, 2) = 0 /\ f[2] = 16667
      /\ K!LineType(1, 3) = 1 /\ f[3] = 16666
      /\ K!LineType(1, 4) = 1 /\ f[4] = 16666
  <2>1. K!LineType(1, 0) = 0 /\ K!LineType(1, 1) = 0 /\ K!LineType(1, 2) = 0 /\ K!LineType(1, 3) = 1 /\ K!LineType(1, 4) = 1
    BY DEF K!LineType, K!Card2Type
  <2> QED BY <2>1 DEF DigitPays, K!Returned, K!LineTable, K!Rewards2Later, K!Option
<1>3. /\ K!LineType(1, 5) = 1 /\ f[5] = 16666
      /\ K!LineType(1, 6) = 1 /\ f[6] = 16666
      /\ K!LineType(1, 7) = 1 /\ f[7] = 16666
      /\ K!LineType(1, 8) = 1 /\ f[8] = 16666
      /\ K!LineType(1, 9) = 2 /\ f[9] = 5000
  <2>1. K!LineType(1, 5) = 1 /\ K!LineType(1, 6) = 1 /\ K!LineType(1, 7) = 1 /\ K!LineType(1, 8) = 1 /\ K!LineType(1, 9) = 2
    BY DEF K!LineType, K!Card2Type
  <2> QED BY <2>1 DEF DigitPays, K!Returned, K!LineTable, K!Rewards2Later, K!Option
<1>4. /\ K!LineType(1, 10) = 2 /\ f[10] = 5000
      /\ K!LineType(1, 11) = 3 /\ f[11] = 5000
      /\ K!LineType(1, 12) = 3 /\ f[12] = 5000
      /\ K!LineType(1, 13) = 4 /\ f[13] = 5000
      /\ K!LineType(1, 14) = 4 /\ f[14] = 5000
  <2>1. K!LineType(1, 10) = 2 /\ K!LineType(1, 11) = 3 /\ K!LineType(1, 12) = 3 /\ K!LineType(1, 13) = 4 /\ K!LineType(1, 14) = 4
    BY DEF K!LineType, K!Card2Type
  <2> QED BY <2>1 DEF DigitPays, K!Returned, K!LineTable, K!Rewards2Later, K!Option
<1>5. /\ K!LineType(1, 15) = 5 /\ f[15] = 10000
      /\ K!LineType(1, 16) = 6 /\ f[16] = 10000
      /\ K!LineType(1, 17) = 7 /\ f[17] = 0
      /\ K!LineType(1, 18) = 8 /\ f[18] = 0
      /\ K!LineType(1, 19) = 9 /\ f[19] = 0
  <2>1. K!LineType(1, 15) = 5 /\ K!LineType(1, 16) = 6 /\ K!LineType(1, 17) = 7 /\ K!LineType(1, 18) = 8 /\ K!LineType(1, 19) = 9
    BY DEF K!LineType, K!Card2Type
  <2> QED BY <2>1 DEF DigitPays, K!Returned, K!LineTable, K!Rewards2Later, K!Option
<1> HIDE DEF f
<1>6. \A d \in 0 .. 19 : f[d] \in Int
  BY <1>2, <1>3, <1>4, <1>5
<1>7. SumFunctionOnSet(f, 0 .. 0 + 4) = 83333
  <2>1. 0 \in Int /\ \A d \in 0 .. 0 + 4 : f[d] \in Int
    BY <1>6
  <2>2. SumFunctionOnSet(f, 0 .. 0 + 4) = f[0] + f[0 + 1] + f[0 + 2] + f[0 + 3] + f[0 + 4]
    BY ONLY <2>1, SumOfFive
  <2> QED BY <1>2, <2>2
<1>8. SumFunctionOnSet(f, 5 .. 5 + 4) = 71664
  <2>1. 5 \in Int /\ \A d \in 5 .. 5 + 4 : f[d] \in Int
    BY <1>6
  <2>2. SumFunctionOnSet(f, 5 .. 5 + 4) = f[5] + f[5 + 1] + f[5 + 2] + f[5 + 3] + f[5 + 4]
    BY ONLY <2>1, SumOfFive
  <2> QED BY <1>3, <2>2
<1>9. SumFunctionOnSet(f, 10 .. 10 + 4) = 25000
  <2>1. 10 \in Int /\ \A d \in 10 .. 10 + 4 : f[d] \in Int
    BY <1>6
  <2>2. SumFunctionOnSet(f, 10 .. 10 + 4) = f[10] + f[10 + 1] + f[10 + 2] + f[10 + 3] + f[10 + 4]
    BY ONLY <2>1, SumOfFive
  <2> QED BY <1>4, <2>2
<1>10. SumFunctionOnSet(f, 15 .. 15 + 4) = 20000
  <2>1. 15 \in Int /\ \A d \in 15 .. 15 + 4 : f[d] \in Int
    BY <1>6
  <2>2. SumFunctionOnSet(f, 15 .. 15 + 4) = f[15] + f[15 + 1] + f[15 + 2] + f[15 + 3] + f[15 + 4]
    BY ONLY <2>1, SumOfFive
  <2> QED BY <1>5, <2>2
<1>11. SumFunctionOnSet(f, 0 .. 19) = 199997
  <2>1. 0 + 4 = 4 /\ 5 + 4 = 9 /\ 10 + 4 = 14 /\ 15 + 4 = 19
    OBVIOUS
  <2> QED BY <1>6, <1>7, <1>8, <1>9, <1>10, <2>1, SumOfTwenty
<1>12. K!TableReturn(1, i) = SumFunctionOnSet(f, 0 .. 19)
  <2>1. 0 \in Int /\ 19 \in Int OBVIOUS
  <2>2. IsFiniteSet(0 .. 19) BY ONLY <2>1, FS_Interval
  <2> QED BY <1>1, <2>2, DigitsAreSum
<1> QED BY <1>11, <1>12

(* A line of a card of the fourth type.                                    *)
LEMMA ReturnOfFourth ==
    ASSUME NEW i
    PROVE  K!TableReturn(3, i) = 324000
<1> DEFINE f == [d \in 0 .. 19 |-> DigitPays(3, i, d)]
<1>1. ASSUME NEW d \in 0 .. 19 PROVE f[d] = DigitPays(3, i, d)
  OBVIOUS
<1>2. /\ K!LineType(3, 0) = 0 /\ f[0] = 50000
      /\ K!LineType(3, 1) = 0 /\ f[1] = 50000
      /\ K!LineType(3, 2) = 0 /\ f[2] = 50000
      /\ K!LineType(3, 3) = 0 /\ f[3] = 50000
      /\ K!LineType(3, 4) = 1 /\ f[4] = 40000
  <2>1. K!LineType(3, 0) = 0 /\ K!LineType(3, 1) = 0 /\ K!LineType(3, 2) = 0 /\ K!LineType(3, 3) = 0 /\ K!LineType(3, 4) = 1
    BY DEF K!LineType, K!Card4Type
  <2> QED BY <2>1 DEF DigitPays, K!Returned, K!LineTable, K!Rewards4, K!Option
<1>3. /\ K!LineType(3, 5) = 1 /\ f[5] = 40000
      /\ K!LineType(3, 6) = 2 /\ f[6] = 20000
      /\ K!LineType(3, 7) = 2 /\ f[7] = 20000
      /\ K!LineType(3, 8) = 3 /\ f[8] = 600
      /\ K!LineType(3, 9) = 3 /\ f[9] = 600
  <2>1. K!LineType(3, 5) = 1 /\ K!LineType(3, 6) = 2 /\ K!LineType(3, 7) = 2 /\ K!LineType(3, 8) = 3 /\ K!LineType(3, 9) = 3
    BY DEF K!LineType, K!Card4Type
  <2> QED BY <2>1 DEF DigitPays, K!Returned, K!LineTable, K!Rewards4, K!Option
<1>4. /\ K!LineType(3, 10) = 4 /\ f[10] = 1000
      /\ K!LineType(3, 11) = 4 /\ f[11] = 1000
      /\ K!LineType(3, 12) = 5 /\ f[12] = 400
      /\ K!LineType(3, 13) = 5 /\ f[13] = 400
      /\ K!LineType(3, 14) = 6 /\ f[14] = 0
  <2>1. K!LineType(3, 10) = 4 /\ K!LineType(3, 11) = 4 /\ K!LineType(3, 12) = 5 /\ K!LineType(3, 13) = 5 /\ K!LineType(3, 14) = 6
    BY DEF K!LineType, K!Card4Type
  <2> QED BY <2>1 DEF DigitPays, K!Returned, K!LineTable, K!Rewards4, K!Option
<1>5. /\ K!LineType(3, 15) = 6 /\ f[15] = 0
      /\ K!LineType(3, 16) = 7 /\ f[16] = 0
      /\ K!LineType(3, 17) = 7 /\ f[17] = 0
      /\ K!LineType(3, 18) = 8 /\ f[18] = 0
      /\ K!LineType(3, 19) = 9 /\ f[19] = 0
  <2>1. K!LineType(3, 15) = 6 /\ K!LineType(3, 16) = 7 /\ K!LineType(3, 17) = 7 /\ K!LineType(3, 18) = 8 /\ K!LineType(3, 19) = 9
    BY DEF K!LineType, K!Card4Type
  <2> QED BY <2>1 DEF DigitPays, K!Returned, K!LineTable, K!Rewards4, K!Option
<1> HIDE DEF f
<1>6. \A d \in 0 .. 19 : f[d] \in Int
  BY <1>2, <1>3, <1>4, <1>5
<1>7. SumFunctionOnSet(f, 0 .. 0 + 4) = 240000
  <2>1. 0 \in Int /\ \A d \in 0 .. 0 + 4 : f[d] \in Int
    BY <1>6
  <2>2. SumFunctionOnSet(f, 0 .. 0 + 4) = f[0] + f[0 + 1] + f[0 + 2] + f[0 + 3] + f[0 + 4]
    BY ONLY <2>1, SumOfFive
  <2> QED BY <1>2, <2>2
<1>8. SumFunctionOnSet(f, 5 .. 5 + 4) = 81200
  <2>1. 5 \in Int /\ \A d \in 5 .. 5 + 4 : f[d] \in Int
    BY <1>6
  <2>2. SumFunctionOnSet(f, 5 .. 5 + 4) = f[5] + f[5 + 1] + f[5 + 2] + f[5 + 3] + f[5 + 4]
    BY ONLY <2>1, SumOfFive
  <2> QED BY <1>3, <2>2
<1>9. SumFunctionOnSet(f, 10 .. 10 + 4) = 2800
  <2>1. 10 \in Int /\ \A d \in 10 .. 10 + 4 : f[d] \in Int
    BY <1>6
  <2>2. SumFunctionOnSet(f, 10 .. 10 + 4) = f[10] + f[10 + 1] + f[10 + 2] + f[10 + 3] + f[10 + 4]
    BY ONLY <2>1, SumOfFive
  <2> QED BY <1>4, <2>2
<1>10. SumFunctionOnSet(f, 15 .. 15 + 4) = 0
  <2>1. 15 \in Int /\ \A d \in 15 .. 15 + 4 : f[d] \in Int
    BY <1>6
  <2>2. SumFunctionOnSet(f, 15 .. 15 + 4) = f[15] + f[15 + 1] + f[15 + 2] + f[15 + 3] + f[15 + 4]
    BY ONLY <2>1, SumOfFive
  <2> QED BY <1>5, <2>2
<1>11. SumFunctionOnSet(f, 0 .. 19) = 324000
  <2>1. 0 + 4 = 4 /\ 5 + 4 = 9 /\ 10 + 4 = 14 /\ 15 + 4 = 19
    OBVIOUS
  <2> QED BY <1>6, <1>7, <1>8, <1>9, <1>10, <2>1, SumOfTwenty
<1>12. K!TableReturn(3, i) = SumFunctionOnSet(f, 0 .. 19)
  <2>1. 0 \in Int /\ 19 \in Int OBVIOUS
  <2>2. IsFiniteSet(0 .. 19) BY ONLY <2>1, FS_Interval
  <2> QED BY <1>1, <2>2, DigitsAreSum
<1> QED BY <1>11, <1>12

(* A card of the third type pays by its steps.                             *)
LEMMA StepFunction ==
    ASSUME NEW i, NEW n \in 1 .. 8, DOMAIN K!Steps[i] = 1 .. n,
           NEW f, \A k \in 1 .. n : f[k] = StepPays(i, k)
    PROVE  K!StepReturn(i) = SumFunctionOnSet(f, 1 .. n)
<1>1. IsFiniteSet(1 .. n)
  <2>1. 1 \in Int /\ n \in Int OBVIOUS
  <2> QED BY ONLY <2>1, FS_Interval
<1> QED BY <1>1, StepsAreSum

LEMMA ReturnOfStep1 == K!StepReturn(1) = 400000
<1> DEFINE f == [k \in 1 .. 5 |-> StepPays(1, k)]
<1>1. DOMAIN K!Steps[1] = 1 .. 5
  BY DEF K!Steps
<1>2. /\ f[1] = 200000
      /\ f[2] = 0
      /\ f[3] = 80000
      /\ f[4] = 0
      /\ f[5] = 120000
  BY DEF StepPays, K!Steps, K!Step, K!Width
<1>3. K!StepReturn(1) = SumFunctionOnSet(f, 1 .. 5)
  <2>1. \A k \in 1 .. 5 : f[k] = StepPays(1, k)
    OBVIOUS
  <2>2. 5 \in 1 .. 8
    OBVIOUS
  <2> HIDE DEF f
  <2> QED BY ONLY <1>1, <2>1, <2>2, StepFunction
<1> HIDE DEF f
<1>4. SumFunctionOnSet(f, 1 .. 1) = 200000
  BY <1>2, SumOfOne
<1>5. SumFunctionOnSet(f, 1 .. 2) = 200000
  <2>1. 2 - 1 = 1 /\ 1 <= 2 /\ 1 \in Int /\ 2 \in Int /\ \A x \in 1 .. 2 : f[x] \in Int
    BY <1>2
  <2>2. SumFunctionOnSet(f, 1 .. 2) = SumFunctionOnSet(f, 1 .. 2 - 1) + f[2]
    BY ONLY <2>1, SumUpTo
  <2> QED BY <1>2, <1>4, <2>1, <2>2
<1>6. SumFunctionOnSet(f, 1 .. 3) = 280000
  <2>1. 3 - 1 = 2 /\ 1 <= 3 /\ 1 \in Int /\ 3 \in Int /\ \A x \in 1 .. 3 : f[x] \in Int
    BY <1>2
  <2>2. SumFunctionOnSet(f, 1 .. 3) = SumFunctionOnSet(f, 1 .. 3 - 1) + f[3]
    BY ONLY <2>1, SumUpTo
  <2> QED BY <1>2, <1>5, <2>1, <2>2
<1>7. SumFunctionOnSet(f, 1 .. 4) = 280000
  <2>1. 4 - 1 = 3 /\ 1 <= 4 /\ 1 \in Int /\ 4 \in Int /\ \A x \in 1 .. 4 : f[x] \in Int
    BY <1>2
  <2>2. SumFunctionOnSet(f, 1 .. 4) = SumFunctionOnSet(f, 1 .. 4 - 1) + f[4]
    BY ONLY <2>1, SumUpTo
  <2> QED BY <1>2, <1>6, <2>1, <2>2
<1>8. SumFunctionOnSet(f, 1 .. 5) = 400000
  <2>1. 5 - 1 = 4 /\ 1 <= 5 /\ 1 \in Int /\ 5 \in Int /\ \A x \in 1 .. 5 : f[x] \in Int
    BY <1>2
  <2>2. SumFunctionOnSet(f, 1 .. 5) = SumFunctionOnSet(f, 1 .. 5 - 1) + f[5]
    BY ONLY <2>1, SumUpTo
  <2> QED BY <1>2, <1>7, <2>1, <2>2
<1> QED BY <1>3, <1>8

LEMMA ReturnOfStep2 == K!StepReturn(2) = 600000
<1> DEFINE f == [k \in 1 .. 8 |-> StepPays(2, k)]
<1>1. DOMAIN K!Steps[2] = 1 .. 8
  BY DEF K!Steps
<1>2. /\ f[1] = 60000
      /\ f[2] = 0
      /\ f[3] = 180000
      /\ f[4] = 100000
      /\ f[5] = 0
      /\ f[6] = 100000
      /\ f[7] = 100000
      /\ f[8] = 60000
  BY DEF StepPays, K!Steps, K!Step, K!Width
<1>3. K!StepReturn(2) = SumFunctionOnSet(f, 1 .. 8)
  <2>1. \A k \in 1 .. 8 : f[k] = StepPays(2, k)
    OBVIOUS
  <2>2. 8 \in 1 .. 8
    OBVIOUS
  <2> HIDE DEF f
  <2> QED BY ONLY <1>1, <2>1, <2>2, StepFunction
<1> HIDE DEF f
<1>4. SumFunctionOnSet(f, 1 .. 1) = 60000
  BY <1>2, SumOfOne
<1>5. SumFunctionOnSet(f, 1 .. 2) = 60000
  <2>1. 2 - 1 = 1 /\ 1 <= 2 /\ 1 \in Int /\ 2 \in Int /\ \A x \in 1 .. 2 : f[x] \in Int
    BY <1>2
  <2>2. SumFunctionOnSet(f, 1 .. 2) = SumFunctionOnSet(f, 1 .. 2 - 1) + f[2]
    BY ONLY <2>1, SumUpTo
  <2> QED BY <1>2, <1>4, <2>1, <2>2
<1>6. SumFunctionOnSet(f, 1 .. 3) = 240000
  <2>1. 3 - 1 = 2 /\ 1 <= 3 /\ 1 \in Int /\ 3 \in Int /\ \A x \in 1 .. 3 : f[x] \in Int
    BY <1>2
  <2>2. SumFunctionOnSet(f, 1 .. 3) = SumFunctionOnSet(f, 1 .. 3 - 1) + f[3]
    BY ONLY <2>1, SumUpTo
  <2> QED BY <1>2, <1>5, <2>1, <2>2
<1>7. SumFunctionOnSet(f, 1 .. 4) = 340000
  <2>1. 4 - 1 = 3 /\ 1 <= 4 /\ 1 \in Int /\ 4 \in Int /\ \A x \in 1 .. 4 : f[x] \in Int
    BY <1>2
  <2>2. SumFunctionOnSet(f, 1 .. 4) = SumFunctionOnSet(f, 1 .. 4 - 1) + f[4]
    BY ONLY <2>1, SumUpTo
  <2> QED BY <1>2, <1>6, <2>1, <2>2
<1>8. SumFunctionOnSet(f, 1 .. 5) = 340000
  <2>1. 5 - 1 = 4 /\ 1 <= 5 /\ 1 \in Int /\ 5 \in Int /\ \A x \in 1 .. 5 : f[x] \in Int
    BY <1>2
  <2>2. SumFunctionOnSet(f, 1 .. 5) = SumFunctionOnSet(f, 1 .. 5 - 1) + f[5]
    BY ONLY <2>1, SumUpTo
  <2> QED BY <1>2, <1>7, <2>1, <2>2
<1>9. SumFunctionOnSet(f, 1 .. 6) = 440000
  <2>1. 6 - 1 = 5 /\ 1 <= 6 /\ 1 \in Int /\ 6 \in Int /\ \A x \in 1 .. 6 : f[x] \in Int
    BY <1>2
  <2>2. SumFunctionOnSet(f, 1 .. 6) = SumFunctionOnSet(f, 1 .. 6 - 1) + f[6]
    BY ONLY <2>1, SumUpTo
  <2> QED BY <1>2, <1>8, <2>1, <2>2
<1>10. SumFunctionOnSet(f, 1 .. 7) = 540000
  <2>1. 7 - 1 = 6 /\ 1 <= 7 /\ 1 \in Int /\ 7 \in Int /\ \A x \in 1 .. 7 : f[x] \in Int
    BY <1>2
  <2>2. SumFunctionOnSet(f, 1 .. 7) = SumFunctionOnSet(f, 1 .. 7 - 1) + f[7]
    BY ONLY <2>1, SumUpTo
  <2> QED BY <1>2, <1>9, <2>1, <2>2
<1>11. SumFunctionOnSet(f, 1 .. 8) = 600000
  <2>1. 8 - 1 = 7 /\ 1 <= 8 /\ 1 \in Int /\ 8 \in Int /\ \A x \in 1 .. 8 : f[x] \in Int
    BY <1>2
  <2>2. SumFunctionOnSet(f, 1 .. 8) = SumFunctionOnSet(f, 1 .. 8 - 1) + f[8]
    BY ONLY <2>1, SumUpTo
  <2> QED BY <1>2, <1>10, <2>1, <2>2
<1> QED BY <1>3, <1>11

LEMMA ReturnOfStep3 == K!StepReturn(3) = 200000
<1> DEFINE f == [k \in 1 .. 3 |-> StepPays(3, k)]
<1>1. DOMAIN K!Steps[3] = 1 .. 3
  BY DEF K!Steps
<1>2. /\ f[1] = 0
      /\ f[2] = 200000
      /\ f[3] = 0
  BY DEF StepPays, K!Steps, K!Step, K!Width
<1>3. K!StepReturn(3) = SumFunctionOnSet(f, 1 .. 3)
  <2>1. \A k \in 1 .. 3 : f[k] = StepPays(3, k)
    OBVIOUS
  <2>2. 3 \in 1 .. 8
    OBVIOUS
  <2> HIDE DEF f
  <2> QED BY ONLY <1>1, <2>1, <2>2, StepFunction
<1> HIDE DEF f
<1>4. SumFunctionOnSet(f, 1 .. 1) = 0
  BY <1>2, SumOfOne
<1>5. SumFunctionOnSet(f, 1 .. 2) = 200000
  <2>1. 2 - 1 = 1 /\ 1 <= 2 /\ 1 \in Int /\ 2 \in Int /\ \A x \in 1 .. 2 : f[x] \in Int
    BY <1>2
  <2>2. SumFunctionOnSet(f, 1 .. 2) = SumFunctionOnSet(f, 1 .. 2 - 1) + f[2]
    BY ONLY <2>1, SumUpTo
  <2> QED BY <1>2, <1>4, <2>1, <2>2
<1>6. SumFunctionOnSet(f, 1 .. 3) = 200000
  <2>1. 3 - 1 = 2 /\ 1 <= 3 /\ 1 \in Int /\ 3 \in Int /\ \A x \in 1 .. 3 : f[x] \in Int
    BY <1>2
  <2>2. SumFunctionOnSet(f, 1 .. 3) = SumFunctionOnSet(f, 1 .. 3 - 1) + f[3]
    BY ONLY <2>1, SumUpTo
  <2> QED BY <1>2, <1>5, <2>1, <2>2
<1> QED BY <1>3, <1>6

LEMMA ReturnOfStep4 == K!StepReturn(4) = 200000
<1> DEFINE f == [k \in 1 .. 2 |-> StepPays(4, k)]
<1>1. DOMAIN K!Steps[4] = 1 .. 2
  BY DEF K!Steps
<1>2. /\ f[1] = 0
      /\ f[2] = 200000
  BY DEF StepPays, K!Steps, K!Step, K!Width
<1>3. K!StepReturn(4) = SumFunctionOnSet(f, 1 .. 2)
  <2>1. \A k \in 1 .. 2 : f[k] = StepPays(4, k)
    OBVIOUS
  <2>2. 2 \in 1 .. 8
    OBVIOUS
  <2> HIDE DEF f
  <2> QED BY ONLY <1>1, <2>1, <2>2, StepFunction
<1> HIDE DEF f
<1>4. SumFunctionOnSet(f, 1 .. 1) = 0
  BY <1>2, SumOfOne
<1>5. SumFunctionOnSet(f, 1 .. 2) = 200000
  <2>1. 2 - 1 = 1 /\ 1 <= 2 /\ 1 \in Int /\ 2 \in Int /\ \A x \in 1 .. 2 : f[x] \in Int
    BY <1>2
  <2>2. SumFunctionOnSet(f, 1 .. 2) = SumFunctionOnSet(f, 1 .. 2 - 1) + f[2]
    BY ONLY <2>1, SumUpTo
  <2> QED BY <1>2, <1>4, <2>1, <2>2
<1> QED BY <1>3, <1>5

LEMMA ReturnOfStep5 == K!StepReturn(5) = 200000
<1> DEFINE f == [k \in 1 .. 3 |-> StepPays(5, k)]
<1>1. DOMAIN K!Steps[5] = 1 .. 3
  BY DEF K!Steps
<1>2. /\ f[1] = 0
      /\ f[2] = 80000
      /\ f[3] = 120000
  BY DEF StepPays, K!Steps, K!Step, K!Width
<1>3. K!StepReturn(5) = SumFunctionOnSet(f, 1 .. 3)
  <2>1. \A k \in 1 .. 3 : f[k] = StepPays(5, k)
    OBVIOUS
  <2>2. 3 \in 1 .. 8
    OBVIOUS
  <2> HIDE DEF f
  <2> QED BY ONLY <1>1, <2>1, <2>2, StepFunction
<1> HIDE DEF f
<1>4. SumFunctionOnSet(f, 1 .. 1) = 0
  BY <1>2, SumOfOne
<1>5. SumFunctionOnSet(f, 1 .. 2) = 80000
  <2>1. 2 - 1 = 1 /\ 1 <= 2 /\ 1 \in Int /\ 2 \in Int /\ \A x \in 1 .. 2 : f[x] \in Int
    BY <1>2
  <2>2. SumFunctionOnSet(f, 1 .. 2) = SumFunctionOnSet(f, 1 .. 2 - 1) + f[2]
    BY ONLY <2>1, SumUpTo
  <2> QED BY <1>2, <1>4, <2>1, <2>2
<1>6. SumFunctionOnSet(f, 1 .. 3) = 200000
  <2>1. 3 - 1 = 2 /\ 1 <= 3 /\ 1 \in Int /\ 3 \in Int /\ \A x \in 1 .. 3 : f[x] \in Int
    BY <1>2
  <2>2. SumFunctionOnSet(f, 1 .. 3) = SumFunctionOnSet(f, 1 .. 3 - 1) + f[3]
    BY ONLY <2>1, SumUpTo
  <2> QED BY <1>2, <1>5, <2>1, <2>2
<1> QED BY <1>3, <1>6

(* What a card of any type pays, 20 times 100000 for each of its lines.    *)
LEMMA CardsKeepEdge == ASSUME NEW card \in 0 .. 3 PROVE K!CardReturn(card) <= 20 * 100000
<1> DEFINE f == [i \in 1 .. 5 |-> LinePays(card, i)]
<1>1. K!CardReturn(card) = SumFunctionOnSet(f, 1 .. 5)
  <2>1. \A i \in 1 .. 5 : f[i] = LinePays(card, i)
    OBVIOUS
  <2>2. IsFiniteSet(1 .. 5)
    <3>1. 1 \in Int /\ 5 \in Int OBVIOUS
    <3> QED BY ONLY <3>1, FS_Interval
  <2> HIDE DEF f
  <2> QED BY <2>1, <2>2, LinesAreSum
<1>2. /\ \A i \in 1 .. 5 : f[i] \in Int
      /\ f[1] + f[2] + f[3] + f[4] + f[5] <= 20 * 100000
  <2>1. CASE card = 0
    <3>1. \A i \in 1 .. 5 : f[i] = 320000
      BY <2>1, ReturnOfFirst DEF LinePays
    <3> QED BY <3>1
  <2>2. CASE card = 1
    <3>1. f[1] = 799997 /\ \A i \in 2 .. 5 : f[i] = 199997
      BY <2>2, ReturnOfSecond, ReturnOfSecondLater DEF LinePays
    <3> QED BY <3>1
  <2>3. CASE card = 2
    <3>1. f[1] = 400000 /\ f[2] = 600000 /\ f[3] = 200000 /\ f[4] = 200000 /\ f[5] = 200000
      BY <2>3, ReturnOfStep1, ReturnOfStep2, ReturnOfStep3, ReturnOfStep4, ReturnOfStep5 DEF LinePays
    <3> QED BY <3>1
  <2>4. CASE card = 3
    <3>1. \A i \in 1 .. 5 : f[i] = 324000
      BY <2>4, ReturnOfFourth DEF LinePays
    <3> QED BY <3>1
  <2> QED BY <2>1, <2>2, <2>3, <2>4
<1> HIDE DEF f
<1>3. SumFunctionOnSet(f, 1 .. 1 + 4) = f[1] + f[1 + 1] + f[1 + 2] + f[1 + 3] + f[1 + 4]
  <2>1. 1 \in Int /\ \A x \in 1 .. 1 + 4 : f[x] \in Int
    BY <1>2
  <2> QED BY ONLY <2>1, SumOfFive
<1> QED BY <1>1, <1>2, <1>3

(* The card on the table is of one of the four types.                      *)
TypesKnown == \A p \in DOMAIN active : active[p].card_type \in K!CardTypes

LEMMA TypesStayKnown ==
    ASSUME CardsInv, ScratchStep, TypesKnown, K!Next
    PROVE  TypesKnown'
<1>1. ASSUME NEW p \in Players, NEW type \in K!CardTypes, K!NextCard(p, type) PROVE TypesKnown'
  <2>1. active' = K!Put(active, p, K!Card(type)) /\ K!Card(type).card_type = type
    BY <1>1 DEF K!NextCard, K!Card
  <2> QED BY <1>1, <2>1 DEF TypesKnown, K!Put
<1>2. CASE \E p \in Players, type \in K!CardTypes, count \in Counts : K!Transfer(p, type, count)
  BY <1>1, <1>2 DEF K!Transfer
<1>3. CASE \E p \in Players, type \in K!CardTypes : K!Play(p, type)
  <2>1. PICK p \in Players, type \in K!CardTypes : K!Play(p, type)
    BY <1>3
  <2>2. K!Played(p, type) \in K!CardTypes
    BY <2>1, PlayedIsKept
  <2> QED BY <1>1, <2>1, <2>2 DEF K!Play
<1>4. CASE \E p \in Players, draw \in Draws : K!Reveal(p, draw)
  <2>1. PICK p \in Players, draw \in Draws : K!Reveal(p, draw)
    BY <1>4
  <2>2. PICK price, reward, result : p \in DOMAIN active /\
          active' = K!Put(active, p, [id |-> active[p].id, card_type |-> active[p].card_type, price |-> price,
                                      reward |-> reward, result |-> result])
    BY <2>1 DEF K!Reveal
  <2> QED BY <2>2 DEF TypesKnown, K!Put
<1>5. CASE \E p \in Players : K!Claim(p)
  BY <1>5 DEF TypesKnown, K!Claim, K!Erase
<1>6. CASE \/ K!InitGlobals \/ \E w \in CardWrites : K!SetGlobal(w[1], w[2])
           \/ \E p \in Players : K!SecretSend(p) \/ K!Receipt(p)
  <2>1. active' = active
    BY <1>6 DEF K!InitGlobals, K!SetGlobal, K!SecretSend, K!Receipt, K!rows
  <2> QED BY <2>1 DEF TypesKnown
<1> QED BY <1>2, <1>3, <1>4, <1>5, <1>6 DEF K!Next

EdgeInv ==
    /\ CardsIInv
    /\ game = "dice" => Books /\ DiceShape
    /\ game = "scratch" => TypesKnown

LEMMA EdgeInit == Init => EdgeInv
<1> SUFFICES ASSUME Init PROVE EdgeInv
  OBVIOUS
<1>1. CardsIInv
  BY CardsInit
<1>2. game = "dice" => Books /\ DiceShape
  BY InitOK DEF IInv
<1>3. game = "scratch" => TypesKnown
  BY DEF Init, K!Init, K!EmptyTable, TypesKnown
<1> QED BY <1>1, <1>2, <1>3 DEF EdgeInv

LEMMA EdgeStep ==
    ASSUME NoCardIdWrites, EdgeInv, [Next]_all
    PROVE  EdgeInv'
<1>0. D!DiceAssumption
  BY GamesAssumption
<1>1. CardsIInv' /\ game' = game
  BY CardsStep DEF EdgeInv
<1>2. ASSUME game = "dice" PROVE Books' /\ DiceShape'
  <2>1. DiceStep
    BY <1>1, <1>2 DEF DiceStep, EdgeInv
  <2>2. CASE D!Next
    BY <1>0, <2>1, <2>2, DiceNext DEF DiceOK, StepOK
  <2>3. CASE UNCHANGED all
    <3>1. UNCHANGED <<active, calls, paid, lost>> /\ LastBetId' = LastBetId
      BY <2>3 DEF all, LastBetId
    <3> QED BY <2>1, <3>1, DiceStutter DEF DiceOK, StepOK
  <2> QED BY <1>2, <2>2, <2>3 DEF Next
<1>3. ASSUME game = "scratch" PROVE TypesKnown'
  <2>1. ScratchStep /\ CardsInv /\ TypesKnown
    BY <1>1, <1>3 DEF ScratchStep, EdgeInv, CardsIInv
  <2>2. CASE K!Next
    BY <2>1, <2>2, TypesStayKnown
  <2>3. CASE UNCHANGED all
    BY <2>1, <2>3 DEF all, TypesKnown
  <2> QED BY <1>3, <2>2, <2>3 DEF Next
<1> QED BY <1>1, <1>2, <1>3 DEF EdgeInv

(* Dice pays at most 98 of a hundred stakes over its hundred rolls,        *)
(* whatever is staked on whichever number; slots 8768 of ten thousand over *)
(* its values; a scratch card of any type less than its price, over all it *)
(* can draw.                                                               *)
THEOREM GamesKeepEdge ==
    ASSUME NoCardIdWrites
    PROVE  Spec => []HouseKeepsEdge
<1>0. D!DiceAssumption
  BY GamesAssumption
<1>2. EdgeInv /\ [Next]_all => EdgeInv'
  BY EdgeStep
<1>3. EdgeInv => HouseKeepsEdge
  <2> SUFFICES ASSUME EdgeInv PROVE HouseKeepsEdge
    OBVIOUS
  <2>1. CASE game = "dice"
    <3>1. ASSUME NEW id \in DOMAIN active PROVE D!AllRolls(active[id]) <= 98 * active[id].bet
      <4>1. active[id].bet \in Nat /\ active[id].number \in 1 .. 97
        BY <1>0, <2>1, <3>1 DEF EdgeInv, DiceShape, D!DiceAssumption
      <4> QED BY <4>1, DiceKeepsEdge
    <3> QED BY <2>1, <3>1 DEF HouseKeepsEdge, D!HouseKeepsEdge
  <2>2. CASE game = "slots"
    BY <2>2, SlotsKeepsEdge DEF HouseKeepsEdge
  <2>3. CASE game = "scratch"
    <3>1. ASSUME NEW p \in DOMAIN active PROVE CardReturns[active[p].card_type] <= 20 * 100000
      <4>1. active[p].card_type \in 0 .. 3
        BY <2>3, <3>1 DEF EdgeInv, TypesKnown, K!CardTypes
      <4> QED BY <4>1, CardsKeepEdge DEF CardReturns
    <3> QED BY <2>3, <3>1 DEF HouseKeepsEdge
  <2>4. CASE game = "centergame"
    BY <2>4 DEF HouseKeepsEdge
  <2> QED BY <2>1, <2>2, <2>3, <2>4 DEF EdgeInv, CardsIInv
<1> QED BY <1>2, <1>3, EdgeInit, PTL DEF Spec

-----------------------------------------------------------------------------
(* The packed result as a fold from the last line down.                    *)
IsPackOn(g, lines, set) ==
    g = [s \in SUBSET set |-> IF s = {} THEN 0
                            ELSE (g[s \ {K!Max(s)}] * 16 + lines[K!Max(s)].type) * 4 + lines[K!Max(s)].outcome]

LEMMA PackIsChosen ==
    ASSUME NEW lines
    PROVE  K!Pack(lines) = (CHOOSE g : IsPackOn(g, lines, DOMAIN lines))[DOMAIN lines]
  BY DEF K!Pack, K!FoldLeft, K!MapThenFoldSet, IsPackOn

LEMMA MaxIsIn ==
    ASSUME NEW s \in SUBSET (1 .. 5), s # {}
    PROVE  K!Max(s) \in s
<1>1. 1 \in Int /\ 5 \in Int
  OBVIOUS
<1>2. IsFiniteSet(1 .. 5)
  BY ONLY <1>1, FS_Interval
<1>3. IsFiniteSet(s)
  BY <1>2, FS_Subset
<1> DEFINE f == [x \in s |-> x]
<1>4. \A x \in s : f[x] \in Int
  OBVIOUS
<1>5. \E x \in s : \A y \in s : f[y] <= f[x]
  <2> HIDE DEF f
  <2> QED BY <1>3, <1>4, HasLargest
<1> QED BY <1>5 DEF K!Max

LEMMA MaxUpTo == ASSUME NEW k \in 1 .. 5 PROVE K!Max(1 .. k) = k
<1>1. K!Max(1 .. k) \in 1 .. k
  <2>1. (1 .. k) \in SUBSET (1 .. 5) /\ 1 .. k # {}
    OBVIOUS
  <2> QED BY <2>1, MaxIsIn
<1>2. \E x \in 1 .. k : \A y \in 1 .. k : x >= y
  OBVIOUS
<1>3. \A y \in 1 .. k : K!Max(1 .. k) >= y
  BY <1>2 DEF K!Max
<1> QED BY <1>1, <1>3

LEMMA PacksAgree ==
    ASSUME NEW lines, NEW A \in SUBSET (1 .. 5), NEW B, NEW g, NEW h,
           IsPackOn(g, lines, A), IsPackOn(h, lines, B)
    PROVE  \A T \in SUBSET A : T \subseteq B => g[T] = h[T]
<1> DEFINE Good == {T \in SUBSET A : T \subseteq B => g[T] = h[T]}
<1>0. IsFiniteSet(A)
  <2>1. 1 \in Int /\ 5 \in Int
    OBVIOUS
  <2>2. IsFiniteSet(1 .. 5)
    BY ONLY <2>1, FS_Interval
  <2> QED BY <2>2, FS_Subset
<1>1. ASSUME NEW T \in SUBSET A, \A U \in SUBSET T : U # T => U \in Good
      PROVE  T \in Good
  <2>1. CASE T = {} BY <2>1 DEF IsPackOn
  <2>2. CASE T # {} /\ T \subseteq B
    <3>1. K!Max(T) \in T BY <2>2, MaxIsIn
    <3>2. T \ {K!Max(T)} \in Good BY <3>1, <1>1
    <3>3. g[T] = (g[T \ {K!Max(T)}] * 16 + lines[K!Max(T)].type) * 4 + lines[K!Max(T)].outcome
      BY <2>2 DEF IsPackOn
    <3>4. h[T] = (h[T \ {K!Max(T)}] * 16 + lines[K!Max(T)].type) * 4 + lines[K!Max(T)].outcome
      BY <2>2 DEF IsPackOn
    <3>5. g[T \ {K!Max(T)}] = h[T \ {K!Max(T)}]
      BY <2>2, <3>2
    <3> QED BY <3>3, <3>4, <3>5, <2>2
  <2> QED BY <2>1, <2>2
<1>2. \A T \in SUBSET A : T \in Good
  <2> HIDE DEF Good
  <2> QED BY <1>0, <1>1, SubsetInduction
<1> QED BY <1>2

LEMMA PackExists ==
    ASSUME NEW lines
    PROVE  \E g : IsPackOn(g, lines, 1 .. 5)
<1> DEFINE Five == 1 .. 5
           Good == {T \in SUBSET Five : \E g : IsPackOn(g, lines, T)}
           Adding(v, U) == (v * 16 + lines[K!Max(U)].type) * 4 + lines[K!Max(U)].outcome
<1>0. IsFiniteSet(Five)
  <2>1. 1 \in Int /\ 5 \in Int
    OBVIOUS
  <2> QED BY ONLY <2>1, FS_Interval
<1>1. ASSUME NEW T \in SUBSET Five, \A U \in SUBSET T : U # T => U \in Good
      PROVE  T \in Good
  <2> DEFINE PackOf(U) == CHOOSE g : IsPackOn(g, lines, U)
             low == [U \in (SUBSET T) \ {T} |-> PackOf(U)[U]]
             g == [U \in SUBSET T |-> IF U = {} THEN 0 ELSE Adding(low[U \ {K!Max(U)}], U)]
  <2>1. \A U \in (SUBSET T) \ {T} : IsPackOn(PackOf(U), lines, U)
    BY <1>1
  <2>2. ASSUME NEW U \in (SUBSET T) \ {T} PROVE low[U] = g[U]
    <3>0. PackOf(U)[U] = IF U = {} THEN 0 ELSE Adding(PackOf(U)[U \ {K!Max(U)}], U)
      <4>1. IsPackOn(PackOf(U), lines, U) /\ U \in SUBSET U BY <2>1, <2>2
      <4> HIDE DEF PackOf
      <4> QED BY <4>1 DEF IsPackOn
    <3>1. CASE U = {} BY <3>0, <3>1, <2>2
    <3>2. CASE U # {}
      <4> DEFINE V == U \ {K!Max(U)}
      <4>1. K!Max(U) \in U BY <3>2, MaxIsIn
      <4>2. V \in (SUBSET T) \ {T} /\ V \in SUBSET U BY <4>1
      <4>3. PackOf(U)[U] = Adding(PackOf(U)[V], U) BY <3>0, <3>2
      <4>4. V \in SUBSET V /\ V \in SUBSET (1 .. 5) BY <4>2
      <4>5. IsPackOn(PackOf(V), lines, V) /\ IsPackOn(PackOf(U), lines, U) BY <2>1, <4>2
      <4>6. PackOf(V)[V] = PackOf(U)[V]
        <5> HIDE DEF V, PackOf
        <5> QED BY <4>2, <4>4, <4>5, PacksAgree
      <4>7. low[V] = PackOf(V)[V] BY <4>2
      <4>8. g[U] = Adding(low[V], U) BY <3>2
      <4>9. low[U] = PackOf(U)[U] BY <2>2
      <4> HIDE DEF V, low, g, PackOf, Adding
      <4> QED BY <4>3, <4>6, <4>7, <4>8, <4>9
    <3> QED BY <3>1, <3>2
  <2>3. ASSUME NEW U \in SUBSET T, U # {} PROVE low[U \ {K!Max(U)}] = g[U \ {K!Max(U)}]
    <3>1. K!Max(U) \in U BY <2>3, MaxIsIn
    <3>2. U \ {K!Max(U)} \in (SUBSET T) \ {T} BY <3>1
    <3> HIDE DEF g, low
    <3> QED BY <2>2, <3>2
  <2>4. IsPackOn(g, lines, T)
    <3> HIDE DEF low
    <3>1. \A U \in SUBSET T : U # {} => low[U \ {K!Max(U)}] = g[U \ {K!Max(U)}] BY <2>3
    <3> QED BY <3>1 DEF IsPackOn
  <2> QED BY <2>4
<1>2. Five \in Good
  <2> HIDE DEF Good, Five
  <2> QED BY <1>0, <1>1, SubsetInduction
<1> QED BY <1>2

(* The five lines, each in a place of its own.                             *)
Code(line) == line.type * 4 + line.outcome
Packed(a, b, c, d, e) == (((a * 64 + b) * 64 + c) * 64 + d) * 64 + e
LEMMA PackUnfolds ==
    ASSUME NEW lines, DOMAIN lines = 1 .. 5,
           \A i \in 1 .. 5 : lines[i].type \in 0 .. 15 /\ lines[i].outcome \in 1 .. 3
    PROVE  K!Pack(lines) = Packed(Code(lines[1]), Code(lines[2]), Code(lines[3]), Code(lines[4]), Code(lines[5]))
<1>1. PICK g : IsPackOn(g, lines, 1 .. 5) /\ K!Pack(lines) = g[1 .. 5]
  BY PackExists, PackIsChosen
<1>2. ASSUME NEW k \in 1 .. 5
      PROVE  g[1 .. k] = (g[1 .. k - 1] * 16 + lines[k].type) * 4 + lines[k].outcome
  <2>1. (1 .. k) \in SUBSET (1 .. 5) /\ 1 .. k # {} /\ (1 .. k) \ {k} = 1 .. k - 1
    OBVIOUS
  <2>2. K!Max(1 .. k) = k
    BY MaxUpTo
  <2> QED BY <1>1, <2>1, <2>2 DEF IsPackOn
<1>3. g[1 .. 0] = 0
  <2>1. 1 .. 0 = {} /\ {} \in SUBSET (1 .. 5)
    OBVIOUS
  <2> QED BY <1>1, <2>1 DEF IsPackOn
<1> DEFINE v(k) == g[1 .. k]
<1>4. v(0) = 0 /\ \A k \in 1 .. 5 : v(k) = (v(k - 1) * 16 + lines[k].type) * 4 + lines[k].outcome
  BY <1>2, <1>3
<1>5. K!Pack(lines) = v(5)
  BY <1>1
<1> HIDE DEF v
<1>6. ASSUME NEW k \in 1 .. 5, v(k - 1) \in Int PROVE v(k) \in Int /\ v(k) = v(k - 1) * 64 + Code(lines[k])
  <2>1. lines[k].type \in Int /\ lines[k].outcome \in Int /\ v(k) = (v(k - 1) * 16 + lines[k].type) * 4 + lines[k].outcome
    BY <1>4
  <2> QED BY <1>6, <2>1 DEF Code
<1>7. \A i \in 1 .. 5 : Code(lines[i]) \in Int
  BY DEF Code
<1>8. v(1) = Code(lines[1]) /\ v(1) \in Int
  <2>1. v(1) = v(0) * 64 + Code(lines[1])
    BY <1>4, <1>6
  <2> QED BY <1>4, <1>7, <2>1
<1>9. v(2) = v(1) * 64 + Code(lines[2]) /\ v(2) \in Int
  BY <1>6, <1>8
<1>10. v(3) = v(2) * 64 + Code(lines[3]) /\ v(3) \in Int
  BY <1>6, <1>9
<1>11. v(4) = v(3) * 64 + Code(lines[4]) /\ v(4) \in Int
  BY <1>6, <1>10
<1>12. v(5) = v(4) * 64 + Code(lines[5])
  BY <1>6, <1>11
<1> QED BY <1>5, <1>8, <1>9, <1>10, <1>11, <1>12 DEF Packed

(* Reading a line back from the packed result.                             *)
Codes == 0 .. 63
LEMMA FieldsRead ==
    ASSUME NEW a \in Codes, NEW b \in Codes, NEW c \in Codes, NEW d \in Codes, NEW e \in Codes,
           NEW r, r = Packed(a, b, c, d, e)
    PROVE  /\ K!Field(r, 1) = a /\ K!Field(r, 2) = b /\ K!Field(r, 3) = c
           /\ K!Field(r, 4) = d /\ K!Field(r, 5) = e
<1>0. /\ a \in 0 .. 63 /\ b \in 0 .. 63 /\ c \in 0 .. 63 /\ d \in 0 .. 63 /\ e \in 0 .. 63
      /\ r = (((a * 64 + b) * 64 + c) * 64 + d) * 64 + e
  BY DEF Packed, Codes
<1> DEFINE Digit(n) == (r \div n) % 64
<1>1. /\ K!Field(r, 1) = Digit(K!Places[1]) /\ K!Field(r, 2) = Digit(K!Places[2]) /\ K!Field(r, 3) = Digit(K!Places[3])
      /\ K!Field(r, 4) = Digit(K!Places[4]) /\ K!Field(r, 5) = Digit(K!Places[5])
  BY DEF K!Field
<1>2. /\ K!Places[1] = 64 * 64 * 64 * 64 /\ K!Places[2] = 64 * 64 * 64
      /\ K!Places[3] = 64 * 64 /\ K!Places[4] = 64 /\ K!Places[5] = 1
  BY SMT DEF K!Places
<1>3. Digit(1) = e
  BY <1>0, SMT
<1>4. Digit(64) = d
  <2> DEFINE x == (a * 64 + b) * 64 + c
  <2>1. x \in Int /\ r = (x * 64 + d) * 64 + e
    BY <1>0
  <2> HIDE DEF x
  <2>2. r \div 64 = x * 64 + d
    BY <1>0, <2>1, SMT
  <2> QED BY <1>0, <2>1, <2>2, SMT
<1>5. Digit(64 * 64) = c
  <2> DEFINE x == a * 64 + b
  <2>1. x \in Int /\ r = ((x * 64 + c) * 64 + d) * 64 + e
    BY <1>0
  <2> HIDE DEF x
  <2>2. r \div (64 * 64) = x * 64 + c
    BY <1>0, <2>1, SMT
  <2> QED BY <1>0, <2>1, <2>2, SMT
<1>6. Digit(64 * 64 * 64) = b
  <2>1. r \div (64 * 64 * 64) = a * 64 + b
    BY <1>0, SMT
  <2> QED BY <1>0, <2>1, SMT
<1>7. Digit(64 * 64 * 64 * 64) = a
  BY <1>0, SMT
<1> HIDE DEF Digit
<1> QED BY <1>1, <1>2, <1>3, <1>4, <1>5, <1>6, <1>7

(* The steps of the third card type: from each the square it leads to can  *)
(* be told from those before it, and back.                                 *)
StepsOf(i) == DOMAIN K!Steps[i]
LEMMA StepsKnown ==
    ASSUME NEW i \in 1 .. 5
    PROVE  /\ \A k \in StepsOf(i) : K!Steps[i][k].payout \in Nat /\ K!Steps[i][k].square \in 1 .. 26
           /\ \A k, l \in StepsOf(i) : K!Steps[i][k].square = K!Steps[i][l].square => k = l
           /\ i = 1 => \A k \in StepsOf(1) : K!Steps[1][k].square \in 1 .. 15
           /\ i # 1 => \A k \in StepsOf(i), l \in StepsOf(i - 1) :
                          K!Steps[i][k].square - K!Steps[i - 1][l].square \in 0 .. 15
           /\ StepsOf(i) \in {1 .. 2, 1 .. 3, 1 .. 5, 1 .. 8}
           /\ K!Steps[i] \in Seq([payout : Nat, square : Nat, win : Nat])
<1>1. CASE i = 1
  BY <1>1 DEF StepsOf, K!Steps, K!Step
<1>2. CASE i = 2
  BY <1>2 DEF StepsOf, K!Steps, K!Step
<1>3. CASE i = 3
  BY <1>3 DEF StepsOf, K!Steps, K!Step
<1>4. CASE i = 4
  BY <1>4 DEF StepsOf, K!Steps, K!Step
<1>5. CASE i = 5
  BY <1>5 DEF StepsOf, K!Steps, K!Step
<1> QED BY <1>1, <1>2, <1>3, <1>4, <1>5

(* The step a roll leads to is one of the table's.                         *)
LEMMA LastStep ==
    ASSUME NEW i \in 1 .. 5
    PROVE  \E k \in StepsOf(i) : K!Steps[i][k].win = 100000
<1>1. CASE i = 1
  <2>1. 5 \in StepsOf(1) /\ K!Steps[1][5].win = 100000
    BY SMT DEF StepsOf, K!Steps, K!Step
  <2> QED BY <1>1, <2>1
<1>2. CASE i = 2
  <2>1. 8 \in StepsOf(2) /\ K!Steps[2][8].win = 100000
    BY SMT DEF StepsOf, K!Steps, K!Step
  <2> QED BY <1>2, <2>1
<1>3. CASE i = 3
  <2>1. 3 \in StepsOf(3) /\ K!Steps[3][3].win = 100000
    BY SMT DEF StepsOf, K!Steps, K!Step
  <2> QED BY <1>3, <2>1
<1>4. CASE i = 4
  <2>1. 2 \in StepsOf(4) /\ K!Steps[4][2].win = 100000
    BY SMT DEF StepsOf, K!Steps, K!Step
  <2> QED BY <1>4, <2>1
<1>5. CASE i = 5
  <2>1. 3 \in StepsOf(5) /\ K!Steps[5][3].win = 100000
    BY SMT DEF StepsOf, K!Steps, K!Step
  <2> QED BY <1>5, <2>1
<1> QED BY <1>1, <1>2, <1>3, <1>4, <1>5

LEMMA StepsCounted == ASSUME NEW i \in 1 .. 5 PROVE IsFiniteSet(StepsOf(i)) /\ StepsOf(i) \subseteq Nat
<1>1. StepsOf(i) = 1 .. 2 \/ StepsOf(i) = 1 .. 3 \/ StepsOf(i) = 1 .. 5 \/ StepsOf(i) = 1 .. 8
  BY StepsKnown, Zenon
<1>2. \A n \in Int : IsFiniteSet(1 .. n)
  <2>1. 1 \in Int
    OBVIOUS
  <2> QED BY ONLY <2>1, FS_Interval
<1>3. \A n \in Int : 1 .. n \subseteq Nat
  OBVIOUS
<1>4. 2 \in Int /\ 3 \in Int /\ 5 \in Int /\ 8 \in Int
  OBVIOUS
<1> QED BY <1>1, <1>2, <1>3, <1>4, Zenon

LEMMA StepFound ==
    ASSUME NEW i \in 1 .. 5, NEW roll \in Int, NEW top, roll < top,
           \E k \in StepsOf(i) : K!Steps[i][k].win = top
    PROVE  \E k \in StepsOf(i) : K!StepOf(i, roll) = K!Steps[i][k]
<1> DEFINE T == {k \in StepsOf(i) : roll < K!Steps[i][k].win}
<1>3. T # {}
  OBVIOUS
<1>4. IsFiniteSet(T) /\ T \subseteq Int
  <2>3. IsFiniteSet(StepsOf(i)) /\ StepsOf(i) \subseteq Nat
    BY StepsCounted
  <2>4. T \subseteq StepsOf(i)
    OBVIOUS
  <2> QED BY <2>3, <2>4, FS_Subset
<1>5. K!StepOf(i, roll) = K!Steps[i][K!Min(T)]
  BY DEF K!StepOf, StepsOf
<1>6. T \subseteq StepsOf(i)
  OBVIOUS
<1> HIDE DEF T
<1> DEFINE f == [x \in T |-> -x]
<1>7. \A x \in T : f[x] \in Int
  BY <1>4
<1>8. \E x \in T : \A y \in T : f[y] <= f[x]
  <2> HIDE DEF f
  <2> QED BY <1>3, <1>4, <1>7, HasLargest
<1>9. \E x \in T : \A y \in T : x <= y
  BY <1>4, <1>8
<1>10. K!Min(T) \in T
  BY <1>9 DEF K!Min
<1> QED BY <1>5, <1>6, <1>10

(* A digit gives a type that is in the table of its card.                  *)
LEMMA TypeInTable ==
    ASSUME NEW card \in {0, 1, 3}, NEW i \in 1 .. 5, NEW digit \in 0 .. 19
    PROVE  /\ K!LineType(card, digit) \in 0 .. 9
           /\ K!LineType(card, digit) + 1 \in DOMAIN K!LineTable(card, i)
<1>1. CASE card = 0
  <2>1. K!LineType(card, digit) = K!Max({0, (digit % 10) - 1}) /\ K!LineTable(card, i) = K!Rewards1
    BY <1>1 DEF K!LineType, K!LineTable
  <2>2. K!Max({0, (digit % 10) - 1}) \in 0 .. 8
    <3>1. (digit % 10) - 1 \in -1 .. 8
      OBVIOUS
    <3>2. PICK n \in -1 .. 8 : n = (digit % 10) - 1
      BY <3>1
    <3>3. \E x \in {0, n} : \A y \in {0, n} : x >= y
      OBVIOUS
    <3>4. K!Max({0, n}) \in {0, n} /\ K!Max({0, n}) >= 0
      BY <3>3 DEF K!Max
    <3> QED BY <3>2, <3>4
  <2>3. DOMAIN K!Rewards1 = 1 .. 9
    BY SMT DEF K!Rewards1
  <2> QED BY <2>1, <2>2, <2>3
<1>2. CASE card = 1
  <2>1. K!LineType(card, digit) = K!Card2Type[digit + 1]
    BY <1>2 DEF K!LineType
  <2>2. K!Card2Type[digit + 1] \in 0 .. 9
    BY SMT DEF K!Card2Type
  <2>3. DOMAIN K!LineTable(card, i) = 1 .. 10
    BY <1>2, SMT DEF K!LineTable, K!Rewards2First, K!Rewards2Later
  <2> QED BY <2>1, <2>2, <2>3
<1>3. CASE card = 3
  <2>1. K!LineType(card, digit) = K!Card4Type[digit + 1]
    BY <1>3 DEF K!LineType
  <2>2. K!Card4Type[digit + 1] \in 0 .. 9
    BY SMT DEF K!Card4Type
  <2>3. DOMAIN K!LineTable(card, i) = 1 .. 10
    BY <1>3, SMT DEF K!LineTable, K!Rewards4
  <2> QED BY <2>1, <2>2, <2>3
<1> QED BY <1>1, <1>2, <1>3

(* The rewards of the lines, and what the result tells of them, as sums.   *)
LEMMA FiveIsFinite == IsFiniteSet(1 .. 5)
<1>1. 1 \in Int /\ 5 \in Int
  OBVIOUS
<1> QED BY ONLY <1>1, FS_Interval

LEMMA RewardIsSum ==
    ASSUME NEW lines, DOMAIN lines = 1 .. 5, NEW f, \A i \in 1 .. 5 : f[i] = lines[i].reward
    PROVE  K!RewardOf(lines) = SumFunctionOnSet(f, 1 .. 5)
<1> DEFINE Sums(g) == g = [s \in SUBSET (1 .. 5) |-> IF s = {} THEN 0 ELSE lines[FirstOf(s)].reward + g[s \ {FirstOf(s)}]]
<1>1. K!RewardOf(lines) = (CHOOSE g : Sums(g))[1 .. 5]
  BY DEF K!RewardOf, K!FoldSeq, K!FoldFunction, K!FoldFunctionOnSet, K!MapThenFoldSet, FirstOf
<1>2. \A s \in SUBSET (1 .. 5) : s # {} => f[FirstOf(s)] = lines[FirstOf(s)].reward
  BY FirstIsIn
<1>3. ASSUME NEW g PROVE Sums(g) <=> IsSumOn(g, f, 1 .. 5)
  BY <1>2 DEF IsSumOn
<1>4. PICK h : IsSumOn(h, f, 1 .. 5)
  BY FiveIsFinite, SumsExist
<1> HIDE DEF Sums
<1>5. PICK g : g = (CHOOSE k : Sums(k)) /\ IsSumOn(g, f, 1 .. 5)
  BY <1>3, <1>4
<1> QED BY <1>1, <1>5, FiveIsFinite, SumOfChosen

LEMMA ToldIsSum ==
    ASSUME NEW card, NEW result, NEW f, \A i \in 1 .. 5 : f[i] = K!ToldLine(card, result, i)
    PROVE  K!Told(card, result) = SumFunctionOnSet(f, 1 .. 5)
<1> DEFINE Sums(g) == g = [s \in SUBSET (1 .. 5) |-> IF s = {} THEN 0
                                                     ELSE K!ToldLine(card, result, FirstOf(s)) + g[s \ {FirstOf(s)}]]
<1>1. K!Told(card, result) = (CHOOSE g : Sums(g))[1 .. 5]
  BY DEF K!Told, K!FoldSet, K!MapThenFoldSet, FirstOf
<1>2. \A s \in SUBSET (1 .. 5) : s # {} => f[FirstOf(s)] = K!ToldLine(card, result, FirstOf(s))
  BY FirstIsIn
<1>3. ASSUME NEW g PROVE Sums(g) <=> IsSumOn(g, f, 1 .. 5)
  BY <1>2 DEF IsSumOn
<1>4. PICK h : IsSumOn(h, f, 1 .. 5)
  BY FiveIsFinite, SumsExist
<1> HIDE DEF Sums
<1>5. PICK g : g = (CHOOSE k : Sums(k)) /\ IsSumOn(g, f, 1 .. 5)
  BY <1>3, <1>4
<1> QED BY <1>1, <1>5, FiveIsFinite, SumOfChosen

LEMMA SquareIsSum ==
    ASSUME NEW result, NEW n \in 1 .. 5, NEW f, \A i \in 1 .. 5 : f[i] = K!Field(result, i) \div 4
    PROVE  K!Square(result, n) = SumFunctionOnSet(f, 1 .. n)
<1> DEFINE upTo == 1 .. n
           Sums(g) == g = [s \in SUBSET upTo |-> IF s = {} THEN 0 ELSE (K!Field(result, FirstOf(s)) \div 4) + g[s \ {FirstOf(s)}]]
<1>1. K!Square(result, n) = (CHOOSE g : Sums(g))[upTo]
  BY DEF K!Square, K!FoldSet, K!MapThenFoldSet, FirstOf
<1>2. \A s \in SUBSET upTo : s # {} => f[FirstOf(s)] = K!Field(result, FirstOf(s)) \div 4
  <2>1. upTo \subseteq 1 .. 5
    OBVIOUS
  <2> HIDE DEF upTo
  <2> QED BY <2>1, FirstIsIn
<1>3. ASSUME NEW g PROVE Sums(g) <=> IsSumOn(g, f, upTo)
  <2> HIDE DEF upTo
  <2> QED BY <1>2 DEF IsSumOn
<1>4. IsFiniteSet(upTo)
  BY FiveIsFinite, FS_Subset
<1>5. PICK h : IsSumOn(h, f, upTo)
  BY <1>4, SumsExist
<1> HIDE DEF Sums, upTo
<1>6. PICK g : g = (CHOOSE k : Sums(k)) /\ IsSumOn(g, f, upTo)
  BY <1>3, <1>5
<1> QED BY <1>1, <1>4, <1>6, SumOfChosen DEF upTo

(* A line fits its place, and the result tells its reward.                 *)
GoodDraw(draw) == \A i \in 1 .. 5 : draw[i][1] \in 0 .. 19 /\ draw[i][2] \in Int /\ draw[i][2] < 100000

LEMMA DrawsAreGood == ASSUME NEW draw \in K!AllDraws PROVE GoodDraw(draw)
<1>1. draw \in [1 .. 5 -> (0 .. 19) \X K!LineRolls]
  BY DEF K!AllDraws
<1>2. ASSUME NEW i \in 1 .. 5 PROVE draw[i][1] \in 0 .. 19 /\ draw[i][2] \in K!LineRolls
  BY <1>1
<1>3. ASSUME NEW roll \in K!LineRolls PROVE roll \in Int /\ roll < 100000
  BY SMT DEF K!LineRolls
<1> QED BY <1>2, <1>3 DEF GoodDraw

(* What is packed of a line, and what is left of it in a place.            *)
Fits(line) == line.type \in 0 .. 15 /\ line.outcome \in 1 .. 3
LEMMA FieldOfLine ==
    ASSUME NEW line, Fits(line)
    PROVE  /\ Code(line) \in 1 .. 63 /\ Code(line) \div 4 = line.type /\ Code(line) % 4 = line.outcome
  BY DEF Fits, Code

LEMMA ResultKeepsLines ==
    ASSUME NEW lines, DOMAIN lines = 1 .. 5, \A i \in 1 .. 5 : Fits(lines[i])
    PROVE  /\ \A i \in 1 .. 5 : K!Field(K!Pack(lines), i) = Code(lines[i])
           /\ K!Pack(lines) # 0
<1>1. K!Pack(lines) = Packed(Code(lines[1]), Code(lines[2]), Code(lines[3]), Code(lines[4]), Code(lines[5]))
  BY PackUnfolds DEF Fits
<1>2. \A i \in 1 .. 5 : Code(lines[i]) \in 1 .. 63
  BY FieldOfLine
<1> DEFINE c1 == Code(lines[1])
           c2 == Code(lines[2])
           c3 == Code(lines[3])
           c4 == Code(lines[4])
           c5 == Code(lines[5])
<1>3. c1 \in 1 .. 63 /\ c2 \in 1 .. 63 /\ c3 \in 1 .. 63 /\ c4 \in 1 .. 63 /\ c5 \in 1 .. 63
  BY <1>2
<1>4. PICK r : r = K!Pack(lines)
  OBVIOUS
<1>5. r = Packed(c1, c2, c3, c4, c5)
  BY <1>1, <1>4
<1> HIDE DEF c1, c2, c3, c4, c5
<1>6. c1 \in Codes /\ c2 \in Codes /\ c3 \in Codes /\ c4 \in Codes /\ c5 \in Codes
  BY <1>3 DEF Codes
<1>7. K!Field(r, 1) = c1 /\ K!Field(r, 2) = c2 /\ K!Field(r, 3) = c3 /\ K!Field(r, 4) = c4 /\ K!Field(r, 5) = c5
  BY ONLY <1>5, <1>6, FieldsRead
<1>8. r # 0
  BY <1>3, <1>5 DEF Packed
<1>9. \A i \in 1 .. 5 : i = 1 \/ i = 2 \/ i = 3 \/ i = 4 \/ i = 5
  OBVIOUS
<1> QED BY <1>4, <1>7, <1>8, <1>9 DEF c1, c2, c3, c4, c5

(* The options of the tables have numbers for bounds.                      *)
LEMMA OptionsKnown ==
    ASSUME NEW card \in {0, 1, 3}, NEW i \in 1 .. 5, NEW n \in DOMAIN K!LineTable(card, i)
    PROVE  /\ K!LineTable(card, i)[n].bonus \in Int /\ K!LineTable(card, i)[n].win \in Int
           /\ K!LineTable(card, i)[n].payout \in Nat
<1>1. CASE card = 0
  BY <1>1, SMT DEF K!LineTable, K!Rewards1, K!Option
<1>2. CASE card = 1 /\ i = 1
  BY <1>2, SMT DEF K!LineTable, K!Rewards2First, K!Option
<1>3. CASE card = 1 /\ i # 1
  BY <1>3, SMT DEF K!LineTable, K!Rewards2Later, K!Option
<1>4. CASE card = 3
  BY <1>4, SMT DEF K!LineTable, K!Rewards4, K!Option
<1> QED BY <1>1, <1>2, <1>3, <1>4

(* The cards with a table: the option of a type, and the outcome.          *)
LEMMA TableLineTold ==
    ASSUME NEW card \in {0, 1, 3}, NEW i \in 1 .. 5, NEW draw, draw[1] \in 0 .. 19,
           NEW line, line = K!TableLine(card, i, draw), draw[2] \in Int
    PROVE  /\ Fits(line)
           /\ \A result : K!Field(result, i) = Code(line) => K!ToldLine(card, result, i) = line.reward
<1> DEFINE type == K!LineType(card, draw[1])
           option == K!LineTable(card, i)[type + 1]
<1>1. type \in 0 .. 9 /\ type + 1 \in DOMAIN K!LineTable(card, i)
  BY TypeInTable
<1>2. \/ line = K!Line(type, K!Bonus, Prices[card] * option.payout * 10)
      \/ line = K!Line(type, K!Hit, Prices[card] * option.payout)
      \/ line = K!Line(type, K!Miss, 0)
  <2>1. option.bonus \in Int /\ option.win \in Int
    BY <1>1, OptionsKnown
  <2>2. PICK n \in Int : n = draw[2]
    OBVIOUS
  <2>3. n < option.bonus \/ (n >= option.bonus /\ n < option.win) \/ (n >= option.bonus /\ n >= option.win)
    BY <2>1, <2>2
  <2> QED BY <2>2, <2>3 DEF K!TableLine
<1>3. Fits(line) /\ line.type = type
  BY <1>1, <1>2 DEF Fits, K!Line, K!Bonus, K!Hit, K!Miss
<1>4. ASSUME NEW result, K!Field(result, i) = Code(line) PROVE K!ToldLine(card, result, i) = line.reward
  <2>1. K!Field(result, i) \div 4 = type /\ K!Field(result, i) % 4 = line.outcome
    BY <1>3, <1>4, FieldOfLine
  <2>2. K!Lookup(K!LineTable(card, i), K!Field(result, i) \div 4) = option
    BY <1>1, <2>1 DEF K!Lookup
  <2>3. card # 2
    OBVIOUS
  <2> DEFINE told == IF line.outcome = K!Bonus THEN Prices[card] * option.payout * 10
                     ELSE IF line.outcome = K!Hit THEN Prices[card] * option.payout ELSE 0
  <2>4. K!ToldLine(card, result, i) = told
    BY <2>1, <2>2, <2>3 DEF K!ToldLine, K!Bonus, K!Hit
  <2>5. line.reward = told
    BY <1>2 DEF K!Line, K!Bonus, K!Hit, K!Miss
  <2> QED BY <2>4, <2>5
<1> QED BY <1>3, <1>4

(* The card with steps: the squares add up from the types of its lines,    *)
(* and a square tells the step.                                            *)
LEMMA StepTold ==
    ASSUME NEW i \in 1 .. 5, NEW k \in StepsOf(i), NEW result, K!Square(result, i) = K!Steps[i][k].square
    PROVE  K!ToldLine(2, result, i) = (Prices[2] * K!Steps[i][k].payout) \div 10
<1> DEFINE sq == K!Square(result, i)
           tenths == {s.payout : s \in {t \in K!ToSet(K!Steps[i]) : t.square = sq}}
           pay == K!Steps[i][k].payout
<1>1. K!ToldLine(2, result, i) = (Prices[2] * K!Max(tenths \cup {0})) \div 10
  BY DEF K!ToldLine
<1>2. K!ToSet(K!Steps[i]) = {K!Steps[i][j] : j \in StepsOf(i)}
  BY DEF K!ToSet, StepsOf
<1>3. \A j \in StepsOf(i) : K!Steps[i][j].square = sq <=> j = k
  BY StepsKnown
<1>4. tenths = {pay}
  <2>1. {t \in K!ToSet(K!Steps[i]) : t.square = sq} = {K!Steps[i][k]}
    BY <1>2, <1>3
  <2> QED BY <2>1
<1>5. pay \in Nat
  BY StepsKnown
<1>6. K!Max({pay} \cup {0}) = pay
  <2> HIDE DEF pay
  <2>1. \E x \in {pay} \cup {0} : \A y \in {pay} \cup {0} : x >= y
    BY <1>5
  <2>2. K!Max({pay} \cup {0}) \in {pay, 0} /\ K!Max({pay} \cup {0}) >= pay
    BY <2>1 DEF K!Max
  <2> QED BY <1>5, <2>2
<1> QED BY <1>1, <1>4, <1>6

LEMMA StepLinesTold ==
    ASSUME NEW draw, GoodDraw(draw), NEW lines, lines = K!Lines(2, draw)
    PROVE  /\ \A i \in 1 .. 5 : Fits(lines[i])
           /\ \A result : (\A i \in 1 .. 5 : K!Field(result, i) = Code(lines[i])) =>
                  \A i \in 1 .. 5 : K!ToldLine(2, result, i) = lines[i].reward
<1> DEFINE now(i) == K!StepOf(i, draw[i][2])
           sq == [i \in 1 .. 5 |-> now(i).square]
<1>1. ASSUME NEW i \in 1 .. 5 PROVE \E k \in StepsOf(i) : now(i) = K!Steps[i][k]
  <2>1. draw[i][2] \in Int /\ draw[i][2] < 100000
    BY DEF GoodDraw
  <2>2. PICK top : top = 100000
    OBVIOUS
  <2>3. draw[i][2] < top /\ \E k \in StepsOf(i) : K!Steps[i][k].win = top
    BY <2>1, <2>2, LastStep
  <2> QED BY <2>1, <2>3, StepFound
<1>2. PICK at \in [1 .. 5 -> Nat] : \A i \in 1 .. 5 : at[i] \in StepsOf(i) /\ now(i) = K!Steps[i][at[i]]
  <2> DEFINE chosen == [i \in 1 .. 5 |-> CHOOSE k \in StepsOf(i) : now(i) = K!Steps[i][k]]
  <2>1. \A i \in 1 .. 5 : chosen[i] \in StepsOf(i) /\ now(i) = K!Steps[i][chosen[i]]
    BY <1>1
  <2>2. \A i \in 1 .. 5 : StepsOf(i) \subseteq Nat
    BY StepsCounted
  <2>3. chosen \in [1 .. 5 -> Nat]
    BY <2>1, <2>2
  <2> HIDE DEF chosen, now
  <2> QED BY <2>1, <2>3
<1> HIDE DEF now
<1>3. ASSUME NEW i \in 1 .. 5 PROVE now(i).payout \in Nat /\ now(i).square \in 1 .. 26
  BY <1>2, StepsKnown
<1>4. \A i \in 1 .. 5 : lines[i] = K!Line(sq[i] - (IF i = 1 THEN 0 ELSE sq[i - 1]),
                                          IF now(i).payout > 0 THEN K!Hit ELSE K!Miss,
                                          (Prices[2] * now(i).payout) \div 10)
  BY DEF K!Lines, K!StepLine, now
<1>5. \A i \in 1 .. 5 : lines[i].type = sq[i] - (IF i = 1 THEN 0 ELSE sq[i - 1]) /\ lines[i].type \in 0 .. 15
  <2>1. ASSUME NEW i \in 1 .. 5 PROVE lines[i].type = sq[i] - (IF i = 1 THEN 0 ELSE sq[i - 1])
    BY <1>4 DEF K!Line
  <2>2. sq[1] \in 1 .. 15
    <3>1. 1 \in 1 .. 5
      OBVIOUS
    <3>2. at[1] \in StepsOf(1) /\ sq[1] = K!Steps[1][at[1]].square
      BY <1>2, <3>1
    <3> QED BY <3>1, <3>2, StepsKnown
  <2>3. ASSUME NEW i \in 2 .. 5 PROVE sq[i] - sq[i - 1] \in 0 .. 15
    <3>1. i \in 1 .. 5 /\ i - 1 \in 1 .. 5 /\ i # 1
      OBVIOUS
    <3>2. sq[i] = K!Steps[i][at[i]].square /\ sq[i - 1] = K!Steps[i - 1][at[i - 1]].square
      BY <1>2, <3>1
    <3>3. at[i] \in StepsOf(i) /\ at[i - 1] \in StepsOf(i - 1)
      BY <1>2, <3>1
    <3> QED BY <3>1, <3>2, <3>3, StepsKnown
  <2>4. sq[1] \in Int /\ \A i \in 1 .. 5 : i = 1 \/ i \in 2 .. 5
    BY <2>2
  <2> QED BY <2>1, <2>2, <2>3, <2>4
<1>6. \A i \in 1 .. 5 : Fits(lines[i])
  <2>1. \A i \in 1 .. 5 : lines[i].outcome \in 1 .. 3
    BY <1>4 DEF K!Line, K!Hit, K!Miss
  <2> QED BY <1>5, <2>1 DEF Fits
<1>7. ASSUME NEW result, \A i \in 1 .. 5 : K!Field(result, i) = Code(lines[i]), NEW n \in 1 .. 5
      PROVE  K!Square(result, n) = sq[n]
  <2> DEFINE f == [i \in 1 .. 5 |-> K!Field(result, i) \div 4]
             sum(m) == SumFunctionOnSet(f, 1 .. m)
  <2>1. \A i \in 1 .. 5 : f[i] = K!Field(result, i) \div 4
    OBVIOUS
  <2>2. \A i \in 1 .. 5 : f[i] = sq[i] - (IF i = 1 THEN 0 ELSE sq[i - 1])
    BY <1>5, <1>6, <1>7, FieldOfLine
  <2> HIDE DEF f
  <2>3. \A m \in 1 .. 5 : K!Square(result, m) = sum(m)
    BY <2>1, SquareIsSum
  <2> HIDE DEF sq
  <2>4. \A i \in 1 .. 5 : f[i] \in Int /\ sq[i] \in Int
    BY <1>3, <2>2 DEF sq
  <2>5. sum(1) = sq[1]
    <3>1. sum(1) = f[1]
      BY <2>4, SumOfOne
    <3> QED BY <2>2, <2>4, <3>1
  <2>6. ASSUME NEW m \in 2 .. 5, sum(m - 1) = sq[m - 1] PROVE sum(m) = sq[m]
    <3>1. 1 \in Int /\ m \in Int /\ 1 <= m /\ (\A x \in 1 .. m : f[x] \in Int) /\ m \in 1 .. 5 /\ m # 1
      BY <2>4
    <3>2. sum(m) = sum(m - 1) + f[m]
      BY <3>1, SumUpTo
    <3>3. m - 1 \in 1 .. 5 /\ f[m] = sq[m] - sq[m - 1]
      BY <2>2, <3>1
    <3> HIDE DEF sum
    <3> QED BY <2>4, <2>6, <3>1, <3>2, <3>3
  <2> HIDE DEF sum
  <2>7. sum(2) = sq[2]
    BY <2>5, <2>6
  <2>8. sum(3) = sq[3]
    BY <2>6, <2>7
  <2>9. sum(4) = sq[4]
    BY <2>6, <2>8
  <2>10. sum(5) = sq[5]
    BY <2>6, <2>9
  <2>11. n = 1 \/ n = 2 \/ n = 3 \/ n = 4 \/ n = 5
    OBVIOUS
  <2> QED BY <2>3, <2>5, <2>7, <2>8, <2>9, <2>10, <2>11
<1>8. ASSUME NEW result, \A i \in 1 .. 5 : K!Field(result, i) = Code(lines[i]), NEW i \in 1 .. 5
      PROVE  K!ToldLine(2, result, i) = lines[i].reward
  <2>1. K!Square(result, i) = K!Steps[i][at[i]].square /\ at[i] \in StepsOf(i)
    BY <1>2, <1>7, <1>8
  <2>2. K!ToldLine(2, result, i) = (Prices[2] * K!Steps[i][at[i]].payout) \div 10
    BY <2>1, StepTold
  <2>3. lines[i].reward = (Prices[2] * now(i).payout) \div 10
    BY <1>4 DEF K!Line
  <2> QED BY <1>2, <2>2, <2>3
<1> QED BY <1>6, <1>8

(* Whatever is drawn for whichever card, its result tells its reward.      *)
LEMMA ResultTells ==
    ASSUME NEW card \in K!CardTypes, NEW draw \in K!AllDraws
    PROVE  LET lines == K!Lines(card, draw)
           IN  K!Pack(lines) # 0 /\ K!RewardOf(lines) = K!Told(card, K!Pack(lines))
<1> DEFINE lines == K!Lines(card, draw)
           result == K!Pack(lines)
<1>1. GoodDraw(draw)
  BY DrawsAreGood
<1>2. DOMAIN lines = 1 .. 5
  BY DEF K!Lines
<1>3. /\ \A i \in 1 .. 5 : Fits(lines[i])
      /\ (\A i \in 1 .. 5 : K!Field(result, i) = Code(lines[i])) =>
             \A i \in 1 .. 5 : K!ToldLine(card, result, i) = lines[i].reward
  <2>1. CASE card = 2
    BY <1>1, <2>1, StepLinesTold
  <2>2. CASE card # 2
    <3>1. card \in {0, 1, 3}
      BY <2>2 DEF K!CardTypes
    <3>2. \A i \in 1 .. 5 : lines[i] = K!TableLine(card, i, draw[i])
      BY <2>2 DEF K!Lines
    <3>3. \A i \in 1 .. 5 : draw[i][1] \in 0 .. 19 /\ draw[i][2] \in Int
      BY <1>1 DEF GoodDraw
    <3> HIDE DEF lines, result
    <3>4. \A i \in 1 .. 5 : Fits(lines[i]) /\ (K!Field(result, i) = Code(lines[i])
                                              => K!ToldLine(card, result, i) = lines[i].reward)
      BY <3>1, <3>2, <3>3, TableLineTold
    <3> QED BY <3>4
  <2> QED BY <2>1, <2>2
<1> HIDE DEF lines
<1>4. result # 0 /\ \A i \in 1 .. 5 : K!Field(result, i) = Code(lines[i])
  BY <1>2, <1>3, ResultKeepsLines
<1>5. \A i \in 1 .. 5 : K!ToldLine(card, result, i) = lines[i].reward
  BY <1>3, <1>4
<1> DEFINE f == [i \in 1 .. 5 |-> lines[i].reward]
<1>6. K!RewardOf(lines) = SumFunctionOnSet(f, 1 .. 5)
  BY <1>2, RewardIsSum
<1>7. \A i \in 1 .. 5 : f[i] = K!ToldLine(card, result, i)
  BY <1>5
<1>8. K!Told(card, result) = SumFunctionOnSet(f, 1 .. 5)
  <2> HIDE DEF f, result
  <2> QED BY <1>7, ToldIsSum
<1> QED BY <1>4, <1>6, <1>8 DEF lines

LEMMA ResultsStayTold ==
    ASSUME NoCardIdWrites, EdgeInv, game = "scratch", K!ResultTellsReward, [Next]_all
    PROVE  K!ResultTellsReward'
<1>1. CASE \E p \in Players, draw \in Draws : K!Reveal(p, draw)
  <2>1. PICK p \in Players, draw \in Draws : K!Reveal(p, draw)
    BY <1>1
  <2> DEFINE card == active[p].card_type
             lines == K!Lines(card, draw)
  <2>2. draw \in K!AllDraws
    BY GamesAssumption DEF K!ScratchAssumption
  <2>3. card \in K!CardTypes
    BY <2>1 DEF EdgeInv, TypesKnown, K!Reveal
  <2>4. PICK row : /\ history' = K!Put(history, K!HistorySlot, row)
                   /\ row.card_type = card /\ row.reward = K!RewardOf(lines) /\ row.result = K!Pack(lines)
    BY <2>1 DEF K!Reveal
  <2>5. K!Pack(lines) # 0 /\ K!RewardOf(lines) = K!Told(card, K!Pack(lines))
    BY <2>2, <2>3, ResultTells
  <2> HIDE DEF lines
  <2>6. row.result # 0 /\ row.reward = K!Told(row.card_type, row.result)
    BY <2>4, <2>5
  <2>7. PICK slot : slot = K!HistorySlot
    OBVIOUS
  <2> QED BY <2>4, <2>6, <2>7 DEF K!ResultTellsReward, K!Put
<1>2. CASE UNCHANGED history
  BY <1>2 DEF K!ResultTellsReward
<1>3. K!Next => UNCHANGED history \/ \E p \in Players, draw \in Draws : K!Reveal(p, draw)
  BY DEF K!Next, K!InitGlobals, K!SetGlobal, K!SecretSend, K!Claim, K!Receipt, K!Play, K!Transfer, K!rows
<1>4. K!Next \/ UNCHANGED history
  BY DEF Next, all
<1> QED BY <1>1, <1>2, <1>3, <1>4

(* scratch: no card is lost or made, whoever buys, is given, plays and     *)
(* claims; what a player was granted he keeps, has on the table, or        *)
(* claimed.  And the packed result of every card in the history tells what *)
(* it was paid, whatever was drawn.                                        *)
THEOREM CardsAreAccounted ==
    ASSUME NoCardIdWrites
    PROVE  Spec => []CardsAccounted
<1> DEFINE Tells == game = "scratch" => K!ResultTellsReward
<1>1. Init => Tells
  BY DEF Init, K!Init, K!EmptyTable, K!ResultTellsReward
<1>2. EdgeInv /\ Tells /\ [Next]_all => EdgeInv' /\ Tells'
  <2> SUFFICES ASSUME EdgeInv, Tells, [Next]_all PROVE EdgeInv' /\ Tells'
    OBVIOUS
  <2>1. EdgeInv' /\ game' = game
    BY EdgeStep, CardsStep DEF EdgeInv
  <2>2. ASSUME game = "scratch" PROVE K!ResultTellsReward'
    BY <2>2, ResultsStayTold
  <2> QED BY <2>1, <2>2
<1>3. EdgeInv /\ Tells => CardsAccounted
  BY Accounts DEF EdgeInv, CardsIInv, CardsInv, CardsAccounted
<1> QED BY <1>1, <1>2, <1>3, EdgeInit, PTL DEF Spec
=============================================================================
