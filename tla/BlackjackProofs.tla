--------------------------- MODULE BlackjackProofs ---------------------------
(***************************************************************************)
(* Theorems about Blackjack: the contract keeps the promise of Wager for   *)
(* every number of players and games and whatever cards are dealt, hard    *)
(* closes and erased games included; half a stake goes back only for a     *)
(* surrender that was played, if a new game's result is not one by chance; *)
(* the hands are such as the rules let both sides draw; and what is paid   *)
(* is what the rules give for them.                                        *)
(***************************************************************************)
EXTENDS Blackjack, TableLemmas, SequenceTheorems, TLAPS

(* The operator does not write the counter the ids of games come from.     *)
NoGameWrites == \A w \in GlobalWrites : w[1] # "game"
LastGameId == Global(globals, "game")

(* The part of the type that the ids and the payments need.                *)
Shape ==
    /\ DOMAIN games \subseteq Players
    /\ \A p \in DOMAIN games : games[p].id \in 1 .. MaxGames /\ games[p].status \in {"active", "closed"}
    /\ DOMAIN actions \subseteq 1 .. MaxGames
    /\ DOMAIN deferred \subseteq Players
    /\ \A p \in DOMAIN deferred : deferred[p].id \in Nat
    /\ LastGameId \in Nat
    /\ paid \in [Players -> SUBSET Nat] /\ lost \in [Players -> SUBSET Nat]

(* The counter has passed every id in use, and no two rows share one.      *)
IdsGiven ==
    /\ \A p \in DOMAIN games : games[p].id <= LastGameId
    /\ \A p, q \in DOMAIN games : games[p].id = games[q].id => p = q
    /\ \A p \in Players : \A b \in W!Placed(p) : b <= LastGameId

IInv == Shape /\ IdsGiven

(* What every step of the contract has to be shown to do.                  *)
StepOK == [W!Next]_W!vars /\ IInv'

-----------------------------------------------------------------------------
LEMMA InitOK == Init => W!Init /\ IInv
<1> SUFFICES ASSUME Init PROVE W!Init /\ IInv
  OBVIOUS
<1>1. \A p \in Players : Open(p) = {} /\ Due(p) = {}
  BY DEF Init, Open, Due, EmptyTable
<1>2. W!Init
  BY <1>1 DEF Init, W!Init
<1>3. \A p \in Players : W!Placed(p) = {}
  BY <1>1 DEF Init, W!Placed
<1>4. LastGameId = 0
  BY DEF Init, LastGameId, Global, Counters
<1> QED BY <1>2, <1>3, <1>4 DEF Init, IInv, Shape, IdsGiven, EmptyTable

(* An action that leaves every game open or not as it was, and the         *)
(* payments too, is a stutter of Wager.                                    *)
LEMMA StutterOK ==
    ASSUME IInv, Shape', LastGameId' = LastGameId,
           DOMAIN games' = DOMAIN games, \A p \in DOMAIN games : games'[p].id = games[p].id,
           \A p \in Players : Open(p)' = Open(p) /\ Due(p)' = Due(p),
           paid' = paid, lost' = lost
    PROVE  StepOK
<1>1. UNCHANGED W!vars
  BY DEF W!vars
<1>2. \A p \in Players : W!Placed(p)' = W!Placed(p)
  BY DEF W!Placed
<1> QED BY <1>1, <1>2 DEF StepOK, IInv, IdsGiven

(* An action that gives up the games D is a Drop of Wager.                 *)
LEMMA DropOK ==
    ASSUME IInv, Shape', LastGameId' = LastGameId,
           DOMAIN games' \subseteq DOMAIN games, \A p \in DOMAIN games' : games'[p].id = games[p].id,
           NEW D \in SUBSET (1 .. MaxGames),
           \A p \in Players : Open(p)' = Open(p) \ D /\ Due(p)' = Due(p),
           \A p \in Players : lost'[p] = lost[p] \cup (Open(p) \cap D),
           paid' = paid
    PROVE  StepOK
<1>1. lost' = [p \in Players |-> lost[p] \cup (Open(p) \cap D)]
  BY DEF Shape
<1>2. W!Drop(D)
  BY <1>1 DEF W!Drop
<1>3. \A p \in Players : W!Placed(p)' = W!Placed(p)
  BY DEF W!Placed
<1> QED BY <1>2, <1>3 DEF StepOK, IInv, IdsGiven, W!Next

(* Only the row of the game with this id depends on its action.            *)
LEMMA OneGame ==
    ASSUME IInv, NEW p \in DOMAIN games, NEW q \in DOMAIN games, q # p
    PROVE  games[q].id # games[p].id
  BY DEF IInv, IdsGiven

LEMMA OtherCounter ==
    ASSUME NEW k, k # "game", NEW v, NEW t
    PROVE  Global(Put(t, k, v), "game") = Global(t, "game")
  BY DEF Global, Put

-----------------------------------------------------------------------------
LEMMA TransferOK ==
    ASSUME IInv, NEW p \in Players, NEW quantity \in Amounts, Transfer(p, quantity)
    PROVE  StepOK
<1> DEFINE id == NextGlobal(globals, "game")
<1> USE DEF IInv, Shape
<1>1. id = LastGameId + 1 /\ id \in 1 .. MaxGames /\ id \notin DOMAIN actions
  BY BlackjackAssumption DEF Transfer, NextGlobal, LastGameId
<1>2. LastGameId' = id
  BY DEF Transfer, LastGameId, Global, Put
<1>3. /\ DOMAIN games' = DOMAIN games \cup {p}
      /\ games'[p].id = id /\ games'[p].status = "active"
      /\ \A q \in DOMAIN games \ {p} : games'[q] = games[q]
  <2>1. PICK unset \in UnsetResults :
            games' = Put(games, p, [id |-> id, left |-> GameMaxTime, bet |-> quantity,
                                    status |-> "active", result |-> FirstResult(p, unset),
                                    player_cards |-> <<>>, banker_cards |-> <<>>])
    BY DEF Transfer
  <2> HIDE DEF id
  <2> QED BY <2>1 DEF Put
<1>4. DOMAIN actions' = DOMAIN actions \cup {id}
  BY DEF Transfer, Put
<1>5. /\ deferred' = deferred /\ paid' = paid
      /\ lost' = [lost EXCEPT ![p] = @ \cup Open(p)]
  BY DEF Transfer
<1> HIDE DEF id
<1>6. \A q \in DOMAIN games : games[q].id # id
  BY <1>1 DEF IdsGiven
<1>7. \A q \in Players \ {p} : Open(q)' = Open(q)
  BY <1>1, <1>3, <1>4, <1>6 DEF Open
<1>8. Open(p)' = {id}
  BY <1>3 DEF Open
<1>9. \A q \in Players : Due(q)' = Due(q)
  BY <1>5 DEF Due
<1>10. \A q \in Players : id \notin W!Placed(q)
  BY <1>1 DEF IdsGiven
<1>11. W!Place(p, {id}, Open(p))
  <2>1. {id} \cap W!Known = {}
    BY <1>10 DEF W!Known
  <2>2. [q \in Players |-> Open(q)]' = [[q \in Players |-> Open(q)] EXCEPT ![p] = (@ \ Open(p)) \cup {id}]
    BY <1>7, <1>8
  <2>3. [q \in Players |-> Due(q)]' = [q \in Players |-> Due(q)]
    BY <1>9
  <2> QED BY <1>5, <2>1, <2>2, <2>3 DEF W!Place
<1>12. Open(p) \subseteq 1 .. MaxGames
  BY DEF Open
<1>13. Shape'
  <2>1. \A q \in DOMAIN games' : games'[q].id \in 1 .. MaxGames /\ games'[q].status \in {"active", "closed"}
    BY <1>1, <1>3
  <2>2. lost' \in [Players -> SUBSET Nat]
    BY <1>5, <1>12
  <2> QED BY <1>1, <1>2, <1>3, <1>4, <1>5, <2>1, <2>2
<1>14. IdsGiven'
  <2>1. W!Placed(p)' = W!Placed(p) \cup {id} /\ \A q \in Players \ {p} : W!Placed(q)' = W!Placed(q)
    BY <1>5, <1>7, <1>8, <1>9 DEF W!Placed
  <2>2. \A q \in Players : \A b \in W!Placed(q)' : b <= id
    <3>1. \A q \in Players : \A b \in W!Placed(q) : b \in Nat /\ b <= LastGameId
      BY DEF IdsGiven, W!Placed, Open, Due
    <3> QED BY <1>1, <2>1, <3>1
  <2>3. \A q \in DOMAIN games' : games'[q].id <= id
    BY <1>1, <1>3 DEF IdsGiven
  <2>4. \A q, r \in DOMAIN games' : games'[q].id = games'[r].id => q = r
    BY <1>3, <1>6 DEF IdsGiven
  <2> QED BY <1>2, <2>2, <2>3, <2>4 DEF IdsGiven
<1> QED BY <1>1, <1>11, <1>12, <1>13, <1>14 DEF StepOK, W!Next

LEMMA PlayerActionOK ==
    ASSUME IInv, NEW p \in Players, NEW id \in 1 .. MaxGames, NEW move, PlayerAction(p, id, move)
    PROVE  StepOK
<1>1. DOMAIN actions' = DOMAIN actions \cup {id}
  BY DEF PlayerAction, Put
<1>2. /\ UNCHANGED <<games, globals, deferred, paid, lost>>
      /\ p \in DOMAIN games /\ games[p].status = "active" /\ games[p].id = id
  BY DEF PlayerAction, ghosts
<1>3. \A q \in DOMAIN games \ {p} : games[q].id # id
  BY <1>2, OneGame
<1>4. \A q \in Players : Open(q)' = Open(q) /\ Due(q)' = Due(q)
  BY <1>1, <1>2, <1>3 DEF Open, Due
<1>5. Shape'
  BY <1>1, <1>2 DEF IInv, Shape, LastGameId
<1> QED BY <1>2, <1>4, <1>5, StutterOK DEF LastGameId

-----------------------------------------------------------------------------
(* What an action may do to the row of its game.                           *)
LEMMA PlayedRow ==
    ASSUME NEW gm, NEW action, NEW next \in Played(gm, action)
    PROVE  /\ next.id = gm.id
           /\ next.status = "stood" \/ next.status = gm.status
           /\ next.result = gm.result \/ (action = "surrender" /\ next.status = "stood")
<1>1. CASE action = "new"
  <2>1. PICK c \in [1 .. 3 -> CardPoints] :
            next = Deal(gm, Append(gm.banker_cards, c[1]), gm.player_cards \o <<c[2], c[3]>>)
    BY <1>1 DEF Played
  <2> QED BY <2>1 DEF Deal, Row
<1>2. CASE action = "hit"
  BY <1>2 DEF Played, Hit, Row
<1>3. CASE action = "stand"
  BY <1>3 DEF Played, Stood, Row
<1>4. CASE action = "surrender" /\ Len(gm.player_cards) = 2
  BY <1>4 DEF Played, Stood, Row
<1>5. CASE action \notin {"new", "hit", "stand"} /\ ~(action = "surrender" /\ Len(gm.player_cards) = 2)
  BY <1>5 DEF Played
<1> QED BY <1>1, <1>2, <1>3, <1>4, <1>5

(* close: the games left open are those that were, without this one.       *)
LEMMA CloseOK ==
    ASSUME IInv, NEW p \in DOMAIN games, games[p].id \in DOMAIN actions,
           actions' = EraseResolved(games[p].id),
           NEW gm, gm.id = games[p].id, Close(p, gm)
    PROVE  StepOK
<1> USE DEF IInv, Shape
<1> DEFINE id == games[p].id
<1>1. p \in Players
  OBVIOUS
<1>2. /\ DOMAIN games' = DOMAIN games
      /\ games'[p].id = id /\ games'[p].status = "closed"
      /\ \A q \in DOMAIN games \ {p} : games'[q] = games[q]
  <2>1. PICK bank, result :
            games' = Put(games, p, Row(gm, gm.player_cards, bank, "closed", result))
    BY DEF Close
  <2> QED BY <2>1 DEF Put, Row
<1>3. /\ p \notin DOMAIN deferred
      /\ DOMAIN deferred' = DOMAIN deferred \cup {p} /\ deferred'[p].id = id
      /\ \A q \in DOMAIN deferred : deferred'[q] = deferred[q]
  <2>1. PICK payout : deferred' = Put(deferred, p, [to |-> "pay", id |-> gm.id, bet |-> gm.bet,
                                                    payout |-> payout])
    BY DEF Close
  <2>2. p \notin DOMAIN deferred
    BY DEF Close, SenderFree
  <2> QED BY <2>1, <2>2 DEF Put
<1>4. DOMAIN actions' = DOMAIN actions \ {id}
  BY DEF EraseResolved, Erase
<1>5. paid' = paid /\ lost' = lost /\ LastGameId' = LastGameId
  <2>1. PICK slot : globals' = Put(globals, "history", slot)
    BY DEF Close
  <2> QED BY <2>1, OtherCounter DEF Close, ghosts, LastGameId
<1>6. \A q \in DOMAIN games \ {p} : games[q].id # id
  BY OneGame
<1> HIDE DEF id
<1>7. Open(p) = {id} /\ Open(p)' = {}
  BY <1>2, <1>4 DEF Open, id
<1>8. \A q \in Players \ {p} : Open(q)' = Open(q) /\ Open(q) \cap {id} = {}
  BY <1>2, <1>4, <1>6 DEF Open
<1>9. /\ Due(p) = {} /\ Due(p)' = {id}
      /\ \A q \in Players \ {p} : Due(q)' = Due(q)
  BY <1>3 DEF Due
<1>10. W!Settle({id})
  <2>1. [q \in Players |-> Open(q)]' = [q \in Players |-> Open(q) \ {id}]
    BY <1>7, <1>8
  <2>2. [q \in Players |-> Due(q)]' = [q \in Players |-> Due(q) \cup (Open(q) \cap {id})]
    BY <1>7, <1>8, <1>9
  <2> QED BY <1>1, <1>5, <1>7, <1>8, <1>9, <2>1, <2>2 DEF W!Settle
<1>11. \A q \in Players : W!Placed(q)' = W!Placed(q)
  BY <1>5, <1>7, <1>8, <1>9 DEF W!Placed
<1>12. id \in 1 .. MaxGames
  BY DEF id
<1>13. Shape'
  <2>1. \A q \in DOMAIN games' : games'[q].id \in 1 .. MaxGames /\ games'[q].status \in {"active", "closed"}
    BY <1>2, <1>12
  <2>2. \A q \in DOMAIN deferred' : deferred'[q].id \in Nat
    BY <1>3, <1>12
  <2> QED BY <1>1, <1>2, <1>3, <1>4, <1>5, <2>1, <2>2
<1>14. IdsGiven'
  BY <1>2, <1>5, <1>11 DEF IdsGiven, id
<1> QED BY <1>10, <1>12, <1>13, <1>14 DEF StepOK, W!Next

(* The game goes on, or stays closed for good.                             *)
LEMMA GoOnOK ==
    ASSUME IInv, NEW p \in DOMAIN games, games[p].id \in DOMAIN actions,
           actions' = EraseResolved(games[p].id),
           NEW gm, gm.id = games[p].id, gm.status = games[p].status, GoOn(p, gm)
    PROVE  StepOK
<1> USE DEF IInv, Shape
<1> DEFINE id == games[p].id
<1>1. /\ DOMAIN games' = DOMAIN games
      /\ games'[p].id = id /\ games'[p].status = games[p].status
      /\ \A q \in DOMAIN games \ {p} : games'[q] = games[q]
  BY DEF GoOn, Put
<1>2. /\ UNCHANGED <<globals, deferred, paid>>
      /\ lost' = IF games[p].status = "closed" THEN [lost EXCEPT ![p] = @ \cup {id}] ELSE lost
  BY DEF GoOn
<1>3. DOMAIN actions' = DOMAIN actions \ {id}
  BY DEF EraseResolved, Erase
<1>4. \A q \in DOMAIN games \ {p} : games[q].id # id
  BY OneGame
<1>5. Open(p) = {id}
  BY DEF Open
<1> HIDE DEF id
<1>6. \A q \in Players \ {p} : Open(q)' = Open(q) /\ Open(q) \cap {id} = {}
  BY <1>1, <1>3, <1>4 DEF Open
<1>7. \A q \in Players : Due(q)' = Due(q)
  BY <1>2 DEF Due
<1>8. id \in 1 .. MaxGames
  BY DEF id
<1>9. Shape'
  <2>1. \A q \in DOMAIN games' : games'[q].id \in 1 .. MaxGames /\ games'[q].status \in {"active", "closed"}
    BY <1>1, <1>8
  <2>2. LastGameId' = LastGameId
    BY <1>2 DEF LastGameId
  <2>3. lost' \in [Players -> SUBSET Nat]
    BY <1>2, <1>8
  <2> QED BY <1>1, <1>2, <1>3, <2>1, <2>2, <2>3
<1>10. LastGameId' = LastGameId
  BY <1>2 DEF LastGameId
<1>11. \A q \in DOMAIN games : games'[q].id = games[q].id
  BY <1>1 DEF id
<1>12. CASE games[p].status = "active"
  <2>1. Open(p)' = {id}
    BY <1>1, <1>12 DEF Open
  <2>2. \A q \in Players : Open(q)' = Open(q) /\ Due(q)' = Due(q)
    BY <1>5, <1>6, <1>7, <2>1
  <2> QED BY <1>1, <1>2, <1>9, <1>10, <1>11, <1>12, <2>2, StutterOK
<1>13. CASE games[p].status = "closed"
  <2>1. Open(p)' = {}
    BY <1>1, <1>3, <1>13 DEF Open
  <2>2. \A q \in Players : Open(q)' = Open(q) \ {id} /\ Due(q)' = Due(q)
    BY <1>5, <1>6, <1>7, <2>1
  <2>3. \A q \in Players : lost'[q] = lost[q] \cup (Open(q) \cap {id})
    BY <1>2, <1>5, <1>6, <1>13
  <2> QED BY <1>1, <1>2, <1>8, <1>9, <1>10, <1>11, <2>2, <2>3, DropOK
<1> QED BY <1>12, <1>13

LEMMA ResolveOK ==
    ASSUME IInv, NEW id \in 1 .. MaxGames, Resolve(id)
    PROVE  StepOK
<1>1. id \in DOMAIN actions /\ actions' = EraseResolved(id)
  BY DEF Resolve
<1>2. ASSUME NEW p \in DOMAIN games, games[p].id = id, NEW gm \in Played(games[p], actions[id]),
             \/ gm.status = "stood" /\ Close(p, gm)
             \/ gm.status # "stood" /\ GoOn(p, gm)
      PROVE  StepOK
  <2>1. gm.id = games[p].id /\ (gm.status = "stood" \/ gm.status = games[p].status)
    BY <1>2, PlayedRow
  <2> QED BY <1>1, <1>2, <2>1, CloseOK, GoOnOK
<1>3. CASE /\ \A p \in DOMAIN games : games[p].id # id
           /\ UNCHANGED <<games, globals, results, deferred, ghosts>>
  <2>1. DOMAIN actions' = DOMAIN actions \ {id}
    BY <1>1 DEF EraseResolved, Erase
  <2>2. \A q \in Players : Open(q)' = Open(q) /\ Due(q)' = Due(q)
    BY <1>3, <2>1 DEF Open, Due
  <2>3. Shape'
    BY <1>3, <2>1 DEF IInv, Shape, LastGameId, ghosts
  <2> QED BY <1>3, <2>2, <2>3, StutterOK DEF LastGameId, ghosts
<1> QED BY <1>2, <1>3 DEF Resolve

-----------------------------------------------------------------------------
LEMMA HardCloseOK ==
    ASSUME IInv, NEW id \in 1 .. MaxGames, HardClose(id)
    PROVE  StepOK
<1> USE DEF IInv, Shape
<1>1. PICK p \in DOMAIN games :
          /\ games[p].id = id
          /\ games' = Put(games, p, Row(games[p], games[p].player_cards, games[p].banker_cards,
                                        "closed", games[p].result))
          /\ lost' = IF games[p].status = "active" /\ id \notin DOMAIN actions
                     THEN [lost EXCEPT ![p] = @ \cup {id}] ELSE lost
          /\ UNCHANGED <<actions, globals, results, deferred, paid>>
  BY DEF HardClose
<1>2. /\ DOMAIN games' = DOMAIN games
      /\ games'[p].id = id /\ games'[p].status = "closed"
      /\ \A q \in DOMAIN games \ {p} : games'[q] = games[q]
  BY <1>1 DEF Put, Row
<1>3. \A q \in DOMAIN games \ {p} : games[q].id # id
  BY <1>1, OneGame
<1>4. \A q \in Players \ {p} : Open(q)' = Open(q) /\ Open(q) \cap {id} = {}
  BY <1>1, <1>2, <1>3 DEF Open
<1>5. \A q \in Players : Due(q)' = Due(q)
  BY <1>1 DEF Due
<1>6. LastGameId' = LastGameId
  BY <1>1 DEF LastGameId
<1>7. Shape'
  <2>1. \A q \in DOMAIN games' : games'[q].id \in 1 .. MaxGames /\ games'[q].status \in {"active", "closed"}
    BY <1>2
  <2>2. lost' \in [Players -> SUBSET Nat]
    BY <1>1
  <2> QED BY <1>1, <1>2, <1>6, <2>1, <2>2
<1>8. \A q \in DOMAIN games' : games'[q].id = games[q].id
  BY <1>1, <1>2
<1>9. CASE games[p].status = "active" /\ id \notin DOMAIN actions
  <2>1. Open(p) = {id} /\ Open(p)' = {}
    BY <1>1, <1>2, <1>9 DEF Open
  <2>2. \A q \in Players : Open(q)' = Open(q) \ {id} /\ Due(q)' = Due(q)
    BY <1>4, <1>5, <2>1
  <2>3. \A q \in Players : lost'[q] = lost[q] \cup (Open(q) \cap {id})
    BY <1>1, <1>4, <1>9, <2>1
  <2> QED BY <1>1, <1>2, <1>6, <1>7, <1>8, <2>2, <2>3, DropOK
<1>10. CASE ~(games[p].status = "active" /\ id \notin DOMAIN actions)
  <2>1. Open(p)' = Open(p)
    BY <1>1, <1>2, <1>10 DEF Open
  <2>2. \A q \in Players : Open(q)' = Open(q) /\ Due(q)' = Due(q)
    BY <1>4, <1>5, <2>1
  <2> QED BY <1>1, <1>2, <1>6, <1>7, <1>8, <1>10, <2>2, StutterOK
<1> QED BY <1>9, <1>10

LEMMA ClearGamesOK ==
    ASSUME IInv, NEW S \in SUBSET Players, ClearGames(S)
    PROVE  StepOK
<1> USE DEF IInv, Shape
<1> DEFINE D == UNION {Open(p) : p \in S}
<1>1. /\ DOMAIN games' = DOMAIN games \ S
      /\ \A q \in DOMAIN games' : games'[q] = games[q]
  BY DEF ClearGames, Erase
<1>2. /\ UNCHANGED <<actions, globals, deferred, paid>>
      /\ lost' = [p \in Players |-> IF p \in S THEN lost[p] \cup Open(p) ELSE lost[p]]
  BY DEF ClearGames
<1>3. \A p \in Players : Open(p) \subseteq 1 .. MaxGames
  BY DEF Open
<1>4. \A p \in S : Open(p)' = {} /\ Open(p) \subseteq D
  BY <1>1 DEF Open
<1>5. \A p \in Players \ S : Open(p)' = Open(p) /\ Open(p) \cap D = {}
  <2>1. \A p \in Players \ S : \A q \in S : Open(p) \cap Open(q) = {}
    BY DEF Open, IdsGiven
  <2>2. \A p \in Players \ S : Open(p)' = Open(p)
    BY <1>1, <1>2 DEF Open
  <2> QED BY <2>1, <2>2
<1>6. \A p \in Players : Due(p)' = Due(p)
  BY <1>2 DEF Due
<1>7. LastGameId' = LastGameId
  BY <1>2 DEF LastGameId
<1>8. Shape'
  <2>1. lost' \in [Players -> SUBSET Nat]
    BY <1>2, <1>3
  <2> QED BY <1>1, <1>2, <1>7, <2>1
<1>9. D \in SUBSET (1 .. MaxGames)
  BY <1>3
<1> HIDE DEF D
<1>10. \A p \in Players : Open(p)' = Open(p) \ D /\ Due(p)' = Due(p)
  BY <1>4, <1>5, <1>6
<1>11. \A p \in Players : lost'[p] = lost[p] \cup (Open(p) \cap D)
  BY <1>2, <1>4, <1>5
<1> QED BY <1>1, <1>2, <1>7, <1>8, <1>9, <1>10, <1>11, DropOK

LEMMA SetGlobalOK ==
    ASSUME IInv, NEW key, key # "game", NEW value, SetGlobal(key, value)
    PROVE  StepOK
<1>1. UNCHANGED <<games, actions, deferred, paid, lost>>
  BY DEF SetGlobal, ghosts
<1>2. LastGameId' = LastGameId
  BY OtherCounter DEF SetGlobal, LastGameId
<1>3. \A q \in Players : Open(q)' = Open(q) /\ Due(q)' = Due(q)
  BY <1>1 DEF Open, Due
<1>4. Shape'
  BY <1>1, <1>2 DEF IInv, Shape
<1> QED BY <1>1, <1>2, <1>3, <1>4, StutterOK

-----------------------------------------------------------------------------
LEMMA RunPayOK ==
    ASSUME IInv, NEW p \in Players, RunPay(p)
    PROVE  StepOK
<1>1. /\ UNCHANGED <<games, actions, globals, paid, lost>>
      /\ DOMAIN deferred' = DOMAIN deferred
      /\ \A q \in DOMAIN deferred : deferred'[q].id = deferred[q].id
  BY DEF RunPay, Put, rows, ghosts
<1>2. \A q \in Players : Open(q)' = Open(q) /\ Due(q)' = Due(q)
  BY <1>1 DEF Open, Due
<1>3. Shape'
  BY <1>1 DEF IInv, Shape, LastGameId
<1> QED BY <1>1, <1>2, <1>3, StutterOK DEF LastGameId

(* The house's pay, and the loss of either call, end the payment.          *)
LEMMA EndOK ==
    ASSUME IInv, NEW p \in Players, RunHousePay(p) \/ FailDeferred(p)
    PROVE  StepOK
<1> USE DEF IInv, Shape
<1>1. /\ p \in DOMAIN deferred /\ Due(p) = {deferred[p].id}
      /\ UNCHANGED <<games, actions, globals>>
      /\ deferred' = Erase(deferred, {p})
  BY DEF RunHousePay, FailDeferred, rows, Due
<1>2. /\ DOMAIN deferred' = DOMAIN deferred \ {p}
      /\ \A q \in DOMAIN deferred' : deferred'[q] = deferred[q]
  BY <1>1 DEF Erase
<1>3. /\ Due(p)' = {}
      /\ \A q \in Players \ {p} : Due(q)' = Due(q)
      /\ \A q \in Players : Open(q)' = Open(q)
  BY <1>1, <1>2 DEF Due, Open
<1>4. [q \in Players |-> Due(q)]' = [[q \in Players |-> Due(q)] EXCEPT ![p] = {}]
  BY <1>3
<1>5. Due(p) \in SUBSET Nat
  BY <1>1
<1>6. LastGameId' = LastGameId
  BY <1>1 DEF LastGameId
<1>7. CASE RunHousePay(p)
  <2>1. paid' = [paid EXCEPT ![p] = @ \cup Due(p)] /\ lost' = lost
    BY <1>1, <1>7 DEF RunHousePay
  <2>2. W!Pay(p)
    BY <1>3, <1>4, <2>1 DEF W!Pay
  <2>3. \A q \in Players : W!Placed(q)' = W!Placed(q)
    BY <1>3, <2>1 DEF W!Placed
  <2>4. IdsGiven'
    BY <1>1, <1>6, <2>3 DEF IdsGiven
  <2>5. Shape'
    BY <1>1, <1>2, <1>5, <1>6, <2>1
  <2> QED BY <2>2, <2>4, <2>5 DEF StepOK, W!Next
<1>8. CASE FailDeferred(p)
  <2>1. lost' = [lost EXCEPT ![p] = @ \cup Due(p)] /\ paid' = paid
    BY <1>1, <1>8 DEF FailDeferred
  <2>2. W!Lose(p)
    BY <1>3, <1>4, <2>1 DEF W!Lose
  <2>3. \A q \in Players : W!Placed(q)' = W!Placed(q)
    BY <1>3, <2>1 DEF W!Placed
  <2>4. IdsGiven'
    BY <1>1, <1>6, <2>3 DEF IdsGiven
  <2>5. Shape'
    BY <1>1, <1>2, <1>5, <1>6, <2>1
  <2> QED BY <2>2, <2>4, <2>5 DEF StepOK, W!Next
<1> QED BY <1>7, <1>8

LEMMA TickOK ==
    ASSUME IInv, NEW d, Tick(d)
    PROVE  StepOK
<1>1. /\ UNCHANGED <<actions, globals, deferred, paid, lost>>
      /\ DOMAIN games' = DOMAIN games
      /\ \A q \in DOMAIN games : games'[q].id = games[q].id /\ games'[q].status = games[q].status
  BY DEF Tick, Aged, ghosts
<1>2. \A q \in Players : Open(q)' = Open(q) /\ Due(q)' = Due(q)
  BY <1>1 DEF Open, Due
<1>3. Shape'
  BY <1>1 DEF IInv, Shape, LastGameId
<1> QED BY <1>1, <1>2, <1>3, StutterOK DEF LastGameId

LEMMA NextOK == ASSUME NoGameWrites, IInv, [Next]_vars PROVE StepOK
<1>1. CASE Play
  BY <1>1, TransferOK, PlayerActionOK DEF Play
<1>2. CASE \E id \in 1 .. MaxGames : Resolve(id)
  BY <1>2, ResolveOK
<1>3. CASE Operate
  BY <1>3, NoGameWrites, HardCloseOK, ClearGamesOK, SetGlobalOK DEF Operate, NoGameWrites
<1>4. CASE Deliver
  BY <1>4, RunPayOK, EndOK DEF Deliver
<1>5. CASE \E d \in TimeSteps : Tick(d)
  BY <1>5, TickOK
<1>6. CASE UNCHANGED vars
  <2>1. UNCHANGED <<games, actions, globals, deferred, paid, lost>>
    BY <1>6 DEF vars, rows, ghosts
  <2>2. \A q \in Players : Open(q)' = Open(q) /\ Due(q)' = Due(q)
    BY <2>1 DEF Open, Due
  <2>3. Shape'
    BY <2>1 DEF IInv, Shape, LastGameId
  <2> QED BY <2>1, <2>2, <2>3, StutterOK DEF LastGameId
<1> QED BY <1>1, <1>2, <1>3, <1>4, <1>5, <1>6 DEF Next

(* Blackjack implements Wager: a game is settled once, by its last action, *)
(* and paid at most once, hard closes and erased rows included.            *)
THEOREM BlackjackImplementsWager == ASSUME NoGameWrites PROVE Spec => WagerSpec
<1>1. IInv /\ [Next]_vars => [W!Next]_W!vars /\ IInv'
  BY NextOK, NoGameWrites DEF StepOK
<1> QED BY <1>1, InitOK, PTL DEF Spec, WagerSpec, W!Spec

(* No game is settled or paid twice, or paid after it was given up.        *)
THEOREM EveryGameInOneStage == ASSUME NoGameWrites PROVE Spec => []OneStage
<1>1. W!Spec => []W!OnePlace
  BY W!WagerOnePlace
<1> QED BY <1>1, BlackjackImplementsWager, PTL DEF WagerSpec, OneStage

-----------------------------------------------------------------------------
(* Half a stake and the result of a surrender.  An active game holds the   *)
(* result that its transfer found in the memory.                           *)
AsLeft == \A p \in DOMAIN games : games[p].status = "active" => games[p].result \in UnsetResults
Half == \A p \in DOMAIN games' :
           Surrenders(p) => actions[games[p].id] = "surrender" \/ games[p].result = "surrender"

LEMMA SurrenderOnly ==
    ASSUME NEW gm, gm.status = "stood", NEW bank, Verdict(gm, bank).result = "surrender"
    PROVE  gm.result = "surrender"
<1> SUFFICES ASSUME gm.result # "surrender" PROVE Verdict(gm, bank).result \in {"win", "lose", "push"}
  OBVIOUS
<1> QED BY DEF Verdict

(* The row close leaves.                                                   *)
LEMMA ClosedRow ==
    ASSUME NEW p, NEW gm, gm.status = "stood", Close(p, gm)
    PROVE  /\ DOMAIN games' = DOMAIN games \cup {p}
           /\ games'[p].status = "closed"
           /\ games'[p].result = "surrender" => gm.result = "surrender"
           /\ \A q \in DOMAIN games \ {p} : games'[q] = games[q]
<1>1. PICK bank : games' = Put(games, p, Row(gm, gm.player_cards, bank, "closed", Verdict(gm, bank).result))
  BY DEF Close
<1>2. games'[p].result = Verdict(gm, bank).result
  BY <1>1 DEF Put, Row
<1> QED BY <1>1, <1>2, SurrenderOnly DEF Put, Row

LEMMA ResolveSurrender ==
    ASSUME AsLeft, NEW id \in 1 .. MaxGames, Resolve(id)
    PROVE  AsLeft' /\ Half
<1> USE DEF AsLeft
<1>1. ASSUME NEW p \in DOMAIN games, games[p].id = id, NEW gm \in Played(games[p], actions[id]),
             gm.status = "stood", Close(p, gm)
      PROVE  AsLeft' /\ Half
  <2>1. gm.result = games[p].result \/ actions[id] = "surrender"
    BY PlayedRow
  <2>2. /\ games'[p].status = "closed"
        /\ games'[p].result = "surrender" => gm.result = "surrender"
        /\ DOMAIN games' = DOMAIN games
        /\ \A q \in DOMAIN games \ {p} : games'[q] = games[q]
    <3> HIDE DEF AsLeft
    <3>1. DOMAIN games' = DOMAIN games \cup {p}
      BY <1>1, ClosedRow
    <3>2. /\ games'[p].status = "closed"
          /\ games'[p].result = "surrender" => gm.result = "surrender"
          /\ \A q \in DOMAIN games \ {p} : games'[q] = games[q]
      BY <1>1, ClosedRow
    <3> QED BY <3>1, <3>2
  <2>3. AsLeft'
    BY <2>2
  <2>4. ASSUME NEW q \in DOMAIN games', Surrenders(q)
        PROVE  actions[games[q].id] = "surrender" \/ games[q].result = "surrender"
    <3>1. q = p
      BY <2>2, <2>4 DEF Surrenders
    <3> QED BY <1>1, <2>1, <2>2, <2>4, <3>1 DEF Surrenders
  <2> QED BY <2>3, <2>4 DEF Half
<1>2. ASSUME NEW p \in DOMAIN games, games[p].id = id, NEW gm \in Played(games[p], actions[id]),
             gm.status # "stood", GoOn(p, gm)
      PROVE  AsLeft' /\ Half
  <2>1. gm.result = games[p].result /\ gm.status = games[p].status
    BY <1>2, PlayedRow
  <2>2. games' = Put(games, p, gm)
    BY <1>2 DEF GoOn
  <2>3. /\ DOMAIN games' = DOMAIN games /\ games'[p] = gm
        /\ \A q \in DOMAIN games \ {p} : games'[q] = games[q]
    BY <2>2 DEF Put
  <2> QED BY <2>1, <2>3 DEF Half, Surrenders
<1>3. CASE games' = games
  BY <1>3 DEF Half, Surrenders
<1> QED BY <1>1, <1>2, <1>3 DEF Resolve

LEMMA NextSurrender == ASSUME AsLeft, [Next]_vars PROVE AsLeft' /\ Half
<1> USE DEF AsLeft
<1>0. games' = games \/ deferred' = deferred => Half
  BY DEF Half, Surrenders
<1>1. ASSUME NEW p \in Players, NEW quantity \in Amounts, Transfer(p, quantity)
      PROVE  AsLeft' /\ deferred' = deferred
  <2>1. PICK unset \in UnsetResults :
            games' = Put(games, p, [id |-> NextGlobal(globals, "game"), left |-> GameMaxTime, bet |-> quantity,
                                    status |-> "active", result |-> FirstResult(p, unset),
                                    player_cards |-> <<>>, banker_cards |-> <<>>])
    BY <1>1 DEF Transfer
  <2>2. FirstResult(p, unset) \in UnsetResults
    BY DEF FirstResult
  <2>3. AsLeft'
    BY <2>1, <2>2 DEF Put
  <2> QED BY <1>1, <2>3 DEF Transfer
<1>2. ASSUME NEW p, NEW id, NEW move, PlayerAction(p, id, move) PROVE games' = games
  BY <1>2 DEF PlayerAction
<1>3. ASSUME NEW id, HardClose(id) PROVE AsLeft' /\ deferred' = deferred
  <2>1. PICK p \in DOMAIN games :
            games' = Put(games, p, Row(games[p], games[p].player_cards, games[p].banker_cards,
                                       "closed", games[p].result))
    BY <1>3 DEF HardClose
  <2>2. AsLeft'
    BY <2>1 DEF Put, Row
  <2> QED BY <1>3, <2>2 DEF HardClose
<1>4. ASSUME NEW S, ClearGames(S) PROVE AsLeft' /\ deferred' = deferred
  BY <1>4 DEF ClearGames, Erase
<1>5. ASSUME NEW key, NEW value, SetGlobal(key, value) PROVE games' = games
  BY <1>5 DEF SetGlobal
<1>6. CASE Deliver
  BY <1>0, <1>6 DEF Deliver, RunPay, RunHousePay, FailDeferred, rows
<1>7. ASSUME NEW d, Tick(d) PROVE AsLeft' /\ deferred' = deferred
  BY <1>7 DEF Tick, Aged
<1>8. CASE UNCHANGED vars
  BY <1>0, <1>8 DEF vars, rows
<1>9. CASE \E id \in 1 .. MaxGames : Resolve(id)
  BY <1>9, ResolveSurrender
<1>10. CASE Play
  BY <1>0, <1>1, <1>2, <1>10 DEF Play
<1>11. CASE Operate
  BY <1>0, <1>3, <1>4, <1>5, <1>11 DEF Operate
<1>12. CASE \E d \in TimeSteps : Tick(d)
  BY <1>0, <1>7, <1>12
<1> QED BY <1>6, <1>8, <1>9, <1>10, <1>11, <1>12 DEF Next

(* Whatever the unset result of a new row holds: a game in play holds what *)
(* its transfer left there, and half the stake goes back only for that     *)
(* result or for a surrender that was played.                              *)
THEOREM HalfIsAsRecorded == Spec => HalfAsRecorded
<1> DEFINE Step == \A p \in DOMAIN games' :
               /\ games'[p].status = "active" => games'[p].result \in UnsetResults
               /\ Surrenders(p) => \/ actions[games[p].id] = "surrender"
                                   \/ games[p].result = "surrender"
<1>1. Init => AsLeft
  BY DEF Init, AsLeft, EmptyTable
<1>2. AsLeft /\ [Next]_vars => AsLeft' /\ Step
  BY NextSurrender DEF AsLeft, Half
<1> QED BY <1>1, <1>2, PTL DEF Spec, HalfAsRecorded

-----------------------------------------------------------------------------
(* Hands.  What the points of the cards add up to.                         *)
LEMMA HardIsSum == ASSUME NEW cards PROVE Hard(cards) = SumFunction(cards)
  BY DEF Hard, FoldSeq, FoldFunction, SumFunction, SumFunctionOnSet

LEMMA CardsAreNaturals == CardPoints \subseteq 1 .. 10
  BY BlackjackAssumption

LEMMA CardsOfHand ==
    ASSUME NEW cards \in Seq(CardPoints)
    PROVE  /\ DOMAIN cards = 1 .. Len(cards) /\ IsFiniteSet(DOMAIN cards)
           /\ \A i \in DOMAIN cards : cards[i] \in Nat /\ cards[i] > 0
<1>1. Len(cards) \in Nat /\ DOMAIN cards = 1 .. Len(cards)
  OBVIOUS
<1>2. \A i \in DOMAIN cards : cards[i] \in CardPoints
  OBVIOUS
<1>3. IsFiniteSet(1 .. Len(cards))
  <2>1. 1 \in Int /\ Len(cards) \in Int
    BY <1>1
  <2> QED BY ONLY <2>1, FS_Interval
<1>4. \A c \in CardPoints : c \in Nat /\ c > 0
  BY CardsAreNaturals
<1> QED BY <1>1, <1>2, <1>3, <1>4

LEMMA HardOfNone == Hard(<<>>) = 0
  BY HardIsSum, SumOfEmpty

LEMMA HardOfMore ==
    ASSUME NEW cards \in Seq(CardPoints), NEW c \in CardPoints
    PROVE  Hard(Append(cards, c)) = Hard(cards) + c
<1> DEFINE S == 1 .. Len(cards)
           more == Append(cards, c)
<1>1. IsFiniteSet(S) /\ DOMAIN cards = S
  BY CardsOfHand
<1>2. /\ DOMAIN more = S \cup {Len(cards) + 1} /\ Len(cards) + 1 \notin S
      /\ more[Len(cards) + 1] = c /\ \A i \in S : more[i] = cards[i]
  OBVIOUS
<1>3. \A i \in S : cards[i] \in Int
  BY <1>1, CardsOfHand
<1> HIDE DEF S, more
<1>4. \A i \in S \cup {Len(cards) + 1} : more[i] \in Int
  BY <1>2, <1>3, CardsAreNaturals
<1>5. SumFunctionOnSet(more, S \cup {Len(cards) + 1}) = SumFunctionOnSet(more, S) + c
  BY <1>1, <1>2, <1>4, SumWith
<1>6. SumFunctionOnSet(more, S) = SumFunctionOnSet(cards, S)
  BY <1>1, <1>2, SumsEqual
<1>7. Hard(more) = SumFunctionOnSet(more, S \cup {Len(cards) + 1}) /\ Hard(cards) = SumFunctionOnSet(cards, S)
  BY <1>1, <1>2, HardIsSum DEF SumFunction
<1> QED BY <1>5, <1>6, <1>7 DEF more

(* A hand is worth a number of points, some if there is a card in it.      *)
LEMMA PointsOfHand ==
    ASSUME NEW cards \in Seq(CardPoints)
    PROVE  /\ CalPoints(cards) \in Nat
           /\ cards # <<>> => CalPoints(cards) > 0
<1>1. /\ IsFiniteSet(DOMAIN cards) /\ DOMAIN cards = 1 .. Len(cards)
      /\ \A i \in DOMAIN cards : cards[i] \in Nat /\ cards[i] > 0
  BY CardsOfHand
<1>2. Hard(cards) \in Nat
  BY <1>1, HardIsSum, SumOfNaturals DEF SumFunction
<1>3. ASSUME cards # <<>> PROVE Hard(cards) > 0
  <2>1. 1 \in DOMAIN cards
    BY <1>1, <1>3
  <2>2. SumFunctionOnSet(cards, {}) + cards[1] = SumFunctionOnSet(cards, {1})
    <3>1. IsFiniteSet({}) /\ 1 \notin {} /\ \A y \in {} \cup {1} : cards[y] \in Int
      BY <1>1, <2>1, FS_EmptySet
    <3>2. {} \cup {1} = {1}
      OBVIOUS
    <3> QED BY <3>1, <3>2, SumWith
  <2>3. SumFunctionOnSet(cards, {1}) <= Hard(cards)
    BY <1>1, <2>1, HardIsSum, SumOfNaturals DEF SumFunction
  <2> QED BY <1>1, <1>2, <2>1, <2>2, <2>3, SumOfNone
<1> QED BY <1>2, <1>3 DEF CalPoints, MaxPoints

(* One card is no hand to stand on, two cards are never more than 21.      *)
LEMMA FirstCards ==
    ASSUME NEW a \in CardPoints, NEW b \in CardPoints
    PROVE  CalPoints(<<a>>) < BankerStands /\ CalPoints(<<a, b>>) <= MaxPoints
<1>1. <<a>> = Append(<<>>, a) /\ <<a, b>> = Append(<<a>>, b) /\ <<>> \in Seq(CardPoints) /\ <<a>> \in Seq(CardPoints)
  OBVIOUS
<1>2. Hard(<<a>>) = a /\ Hard(<<a, b>>) = a + b
  <2>1. Hard(<<a>>) = 0 + a /\ Hard(<<a, b>>) = Hard(<<a>>) + b
    BY <1>1, HardOfMore, HardOfNone
  <2> QED BY <2>1, CardsAreNaturals
<1>3. 1 \in ToSet(<<a>>) => a = 1
  BY DEF ToSet
<1> QED BY <1>2, <1>3, CardsAreNaturals DEF CalPoints, MaxPoints, BankerStands

-----------------------------------------------------------------------------
(* What the bank may hold after it drew.                                   *)
MayHold(hand, h) ==
    /\ h \in Seq(CardPoints) /\ h # <<>>
    /\ h = hand \/ CalPoints(Front(h)) < BankerStands

(* One more card leaves the hands such.                                    *)
LEMMA DrawOneMayHold ==
    ASSUME NEW hand, NEW hands, \A h \in hands : MayHold(hand, h), NEW h \in DrawOne(hands)
    PROVE  MayHold(hand, h)
<1>1. PICK old \in hands :
          h \in IF DrawsOn(CalPoints(old)) THEN {Append(old, c) : c \in CardPoints} ELSE {old}
  BY DEF DrawOne
<1>2. CASE DrawsOn(CalPoints(old))
  <2>1. PICK c \in CardPoints : h = Append(old, c)
    BY <1>1, <1>2
  <2>2. old \in Seq(CardPoints)
    BY DEF MayHold
  <2>3. h \in Seq(CardPoints) /\ h # <<>> /\ Len(h) - 1 = Len(old)
    BY <2>1, <2>2
  <2>4. Front(h) = old
    BY <2>1, <2>2, <2>3 DEF Front
  <2> QED BY <1>2, <2>3, <2>4 DEF MayHold, DrawsOn
<1>3. CASE ~DrawsOn(CalPoints(old))
  BY <1>1, <1>3
<1> QED BY <1>2, <1>3

(* The hands as a function of the set that counts the draws.               *)
IsDrawn(g, hand, S) ==
    g = [s \in SUBSET S |-> IF s = {} THEN {hand} ELSE DrawOne(g[s \ {FirstOf(s)}])]

LEMMA DrawnIsChosen ==
    ASSUME NEW hand, NEW S
    PROVE  FoldSet(LAMBDA i, hands : DrawOne(hands), {hand}, S) = (CHOOSE g : IsDrawn(g, hand, S))[S]
  BY DEF FoldSet, MapThenFoldSet, IsDrawn, FirstOf

LEMMA DrawnAgree ==
    ASSUME NEW hand, NEW A, NEW B, NEW g, NEW h, IsDrawn(g, hand, A), IsDrawn(h, hand, B), IsFiniteSet(A)
    PROVE  \A T \in SUBSET A : T \subseteq B => g[T] = h[T]
<1> DEFINE Good == {T \in SUBSET A : T \subseteq B => g[T] = h[T]}
<1>1. ASSUME NEW T \in SUBSET A, \A U \in SUBSET T : U # T => U \in Good
      PROVE  T \in Good
  <2>1. CASE T = {} BY <2>1 DEF IsDrawn
  <2>2. CASE T # {} /\ T \subseteq B
    <3>1. FirstOf(T) \in T BY <2>2, FirstIsIn
    <3>2. T \ {FirstOf(T)} \in Good BY <3>1, <1>1
    <3>3. g[T] = DrawOne(g[T \ {FirstOf(T)}]) BY <2>2 DEF IsDrawn
    <3>4. h[T] = DrawOne(h[T \ {FirstOf(T)}]) BY <2>2 DEF IsDrawn
    <3> QED BY <3>2, <3>3, <3>4, <2>2
  <2> QED BY <2>1, <2>2
<1>2. \A T \in SUBSET A : T \in Good
  <2> HIDE DEF Good
  <2> QED BY <1>1, SubsetInduction
<1> QED BY <1>2

LEMMA DrawnExists ==
    ASSUME NEW hand, NEW S, IsFiniteSet(S)
    PROVE  \E g : IsDrawn(g, hand, S)
<1> DEFINE Good == {T \in SUBSET S : \E g : IsDrawn(g, hand, T)}
<1>1. ASSUME NEW T \in SUBSET S, \A U \in SUBSET T : U # T => U \in Good
      PROVE  T \in Good
  <2> DEFINE Of(U) == CHOOSE g : IsDrawn(g, hand, U)
             low == [U \in (SUBSET T) \ {T} |-> Of(U)[U]]
             g == [U \in SUBSET T |-> IF U = {} THEN {hand} ELSE DrawOne(low[U \ {FirstOf(U)}])]
  <2>1. \A U \in (SUBSET T) \ {T} : IsDrawn(Of(U), hand, U)
    BY <1>1
  <2>2. ASSUME NEW U \in (SUBSET T) \ {T} PROVE low[U] = g[U]
    <3>0. Of(U)[U] = IF U = {} THEN {hand} ELSE DrawOne(Of(U)[U \ {FirstOf(U)}])
      <4>1. IsDrawn(Of(U), hand, U) /\ U \in SUBSET U BY <2>1, <2>2
      <4> HIDE DEF Of
      <4> QED BY <4>1 DEF IsDrawn
    <3>1. CASE U = {} BY <3>0, <3>1, <2>2
    <3>2. CASE U # {}
      <4> DEFINE V == U \ {FirstOf(U)}
      <4>1. FirstOf(U) \in U BY <3>2, FirstIsIn
      <4>2. V \in (SUBSET T) \ {T} /\ V \in SUBSET U BY <4>1
      <4>3. Of(U)[U] = DrawOne(Of(U)[V]) BY <3>0, <3>2
      <4>4. IsFiniteSet(V) /\ V \in SUBSET V BY FS_Subset
      <4>5. IsDrawn(Of(V), hand, V) /\ IsDrawn(Of(U), hand, U) BY <2>1, <4>2
      <4>6. Of(V)[V] = Of(U)[V]
        <5> HIDE DEF V, Of
        <5> QED BY <4>2, <4>4, <4>5, DrawnAgree
      <4> QED BY <4>2, <4>3, <4>6, <3>2
    <3> QED BY <3>1, <3>2
  <2>3. ASSUME NEW U \in SUBSET T, U # {} PROVE low[U \ {FirstOf(U)}] = g[U \ {FirstOf(U)}]
    <3>1. FirstOf(U) \in U BY <2>3, FirstIsIn
    <3>2. U \ {FirstOf(U)} \in (SUBSET T) \ {T} BY <3>1
    <3> HIDE DEF g, low
    <3> QED BY <2>2, <3>2
  <2>4. IsDrawn(g, hand, T)
    <3> HIDE DEF low
    <3>1. \A U \in SUBSET T : U # {} => low[U \ {FirstOf(U)}] = g[U \ {FirstOf(U)}] BY <2>3
    <3> QED BY <3>1 DEF IsDrawn
  <2> QED BY <2>4
<1>2. S \in Good
  <2> HIDE DEF Good
  <2> QED BY <1>1, SubsetInduction
<1> QED BY <1>2

(* The bank that drew holds 17 at least, and held less before its last     *)
(* card.                                                                   *)
LEMMA DrawAllMayHold ==
    ASSUME NEW hand \in Seq(CardPoints), hand # <<>>, NEW h \in DrawAll(hand)
    PROVE  MayHold(hand, h) /\ CalPoints(h) >= BankerStands
<1> DEFINE S == 2 .. BankerStands
           g == CHOOSE g : IsDrawn(g, hand, S)
           Good == {T \in SUBSET S : \A x \in g[T] : MayHold(hand, x)}
<1>1. IsFiniteSet(S)
  <2>1. 2 \in Int /\ 17 \in Int
    OBVIOUS
  <2>2. IsFiniteSet(2 .. 17)
    BY ONLY <2>1, FS_Interval
  <2> QED BY <2>2 DEF BankerStands
<1>2. IsDrawn(g, hand, S)
  BY <1>1, DrawnExists
<1> HIDE DEF g
<1>3. ASSUME NEW T \in SUBSET S, \A U \in SUBSET T : U # T => U \in Good
      PROVE  T \in Good
  <2>1. CASE T = {}
    BY <1>2, <2>1 DEF IsDrawn, MayHold
  <2>2. CASE T # {}
    <3>1. FirstOf(T) \in T
      BY <2>2, FirstIsIn
    <3>2. T \ {FirstOf(T)} \in Good
      BY <3>1, <1>3
    <3>3. g[T] = DrawOne(g[T \ {FirstOf(T)}])
      BY <1>2, <2>2 DEF IsDrawn
    <3> QED BY <3>2, <3>3, DrawOneMayHold
  <2> QED BY <2>1, <2>2
<1>4. S \in Good
  <2> HIDE DEF Good, S
  <2> QED BY <1>1, <1>3, SubsetInduction
<1>5. h \in g[S] /\ CalPoints(h) >= BankerStands
  BY DrawnIsChosen DEF DrawAll, g
<1> QED BY <1>4, <1>5

(* The bank's hands by doClose: a hand of one card that stays, or one that *)
(* was drawn.                                                              *)
HandOfPlay(gm) ==
    /\ gm.player_cards \in Seq(CardPoints) /\ Len(gm.player_cards) >= 2
    /\ gm.banker_cards \in Seq(CardPoints) /\ Len(gm.banker_cards) = 1
    /\ gm.bet \in Nat

BankStopped(gm) ==
    Len(gm.banker_cards) > 1 /\ ~Natural(gm.player_cards) =>
        CalPoints(gm.banker_cards) >= BankerStands /\ CalPoints(Front(gm.banker_cards)) < BankerStands

LEMMA OneCard ==
    ASSUME NEW s \in Seq(CardPoints), Len(s) = 1
    PROVE  \E c \in CardPoints : s = <<c>>
<1>1. s[1] \in CardPoints /\ <<s[1]>> \in Seq(CardPoints) /\ Len(<<s[1]>>) = 1
  OBVIOUS
<1>2. \A i \in 1 .. Len(s) : s[i] = <<s[1]>>[i]
  OBVIOUS
<1>3. s = <<s[1]>>
  BY <1>1, <1>2, SeqEqual
<1> QED BY <1>1, <1>3

LEMMA BankerHand ==
    ASSUME NEW gm, gm.status = "stood", HandOfPlay(gm), NEW bank \in BankerHands(gm)
    PROVE  /\ bank \in Seq(CardPoints) /\ bank # <<>>
           /\ BankStopped([player_cards |-> gm.player_cards, banker_cards |-> bank])
           /\ gm.result # "surrender" /\ Natural(gm.player_cards) => Len(bank) = 2
<1>1. CASE gm.result = "surrender" \/ CalPoints(gm.player_cards) > MaxPoints
  <2>1. bank = gm.banker_cards
    BY <1>1 DEF BankerHands
  <2>2. CalPoints(gm.player_cards) \in Nat
    BY PointsOfHand DEF HandOfPlay
  <2>3. gm.result # "surrender" => ~Natural(gm.player_cards)
    BY <1>1, <2>2 DEF Natural, MaxPoints
  <2>4. bank \in Seq(CardPoints) /\ Len(bank) = 1
    BY <2>1 DEF HandOfPlay
  <2>5. BankStopped([player_cards |-> gm.player_cards, banker_cards |-> bank])
    <3>1. ~ (Len(bank) > 1)
      BY <2>4
    <3> QED BY <3>1 DEF BankStopped
  <2>6. bank # <<>>
    BY ONLY <2>4
  <2> QED BY <2>3, <2>4, <2>5, <2>6
<1>2. CASE ~(gm.result = "surrender" \/ CalPoints(gm.player_cards) > MaxPoints) /\ Natural(gm.player_cards)
  <2>1. PICK c \in CardPoints : bank = Append(gm.banker_cards, c)
    BY <1>2 DEF BankerHands
  <2>2. bank \in Seq(CardPoints) /\ Len(bank) = 2
    BY <2>1 DEF HandOfPlay
  <2> QED BY <1>2, <2>2 DEF BankStopped
<1>3. CASE ~(gm.result = "surrender" \/ CalPoints(gm.player_cards) > MaxPoints) /\ ~Natural(gm.player_cards)
  <2>1. bank \in DrawAll(gm.banker_cards)
    BY <1>3 DEF BankerHands
  <2>2. gm.banker_cards \in Seq(CardPoints) /\ Len(gm.banker_cards) = 1
    BY DEF HandOfPlay
  <2>3. MayHold(gm.banker_cards, bank) /\ CalPoints(bank) >= BankerStands
    BY <2>1, <2>2, DrawAllMayHold
  <2>4. bank # gm.banker_cards
    <3>1. PICK c \in CardPoints : gm.banker_cards = <<c>>
      BY <2>2, OneCard
    <3>2. CalPoints(<<c>>) < BankerStands
      BY FirstCards
    <3>3. CalPoints(<<c>>) \in Nat
      BY <2>2, <3>1, PointsOfHand
    <3> QED BY <2>3, <3>1, <3>2, <3>3 DEF BankerStands
  <2> QED BY <1>3, <2>3, <2>4 DEF MayHold, BankStopped
<1> QED BY <1>1, <1>2, <1>3

(* What doClose pays is what the rules give for the hands it leaves.       *)
LEMMA PaysByTheRules ==
    ASSUME NEW gm, gm.status = "stood", HandOfPlay(gm), NEW bank \in BankerHands(gm),
           NEW row, row = Row(gm, gm.player_cards, bank, "closed", Verdict(gm, bank).result)
    PROVE  Verdict(gm, bank).payout = RulesPay(row)
<1> DEFINE p == CalPoints(gm.player_cards)
           b == CalPoints(bank)
<1>1. /\ row.result = Verdict(gm, bank).result /\ row.bet = gm.bet
      /\ row.player_cards = gm.player_cards /\ row.banker_cards = bank
  BY DEF Row
<1>2. /\ p \in Nat /\ p > 0 /\ b \in Nat /\ gm.bet \in Nat
      /\ gm.result # "surrender" /\ Natural(gm.player_cards) => Len(bank) = 2
  <2>1. gm.player_cards # <<>>
    BY DEF HandOfPlay
  <2> QED BY <2>1, PointsOfHand, BankerHand DEF HandOfPlay
<1> HIDE DEF p, b
<1>3. CASE gm.result = "surrender"
  <2>1. Verdict(gm, bank) = [result |-> "surrender", payout |-> gm.bet \div 2]
    BY <1>3 DEF Verdict, HalfBet
  <2> QED BY <1>1, <2>1 DEF RulesPay
<1>4. CASE gm.result # "surrender"
  <2>1. row.result # "surrender"
    BY <1>1, <1>4, SurrenderOnly
  <2>2. RulesPay(row) =
            IF Rank(gm.player_cards) = 0 \/ Rank(gm.player_cards) < Rank(bank) THEN 0
            ELSE IF Rank(gm.player_cards) = Rank(bank) THEN gm.bet
            ELSE IF Rank(gm.player_cards) = MaxPoints + 1 THEN (gm.bet * 25) \div 10
            ELSE 2 * gm.bet
    BY <1>1, <2>1 DEF RulesPay
  <2>3. /\ Rank(gm.player_cards) = IF p > 21 THEN 0 ELSE IF Natural(gm.player_cards) THEN 22 ELSE p
        /\ Rank(bank) = IF b > 21 THEN 0 ELSE IF Natural(bank) THEN 22 ELSE b
        /\ Natural(gm.player_cards) => p = 21
        /\ Natural(bank) <=> b = 21 /\ Len(bank) = 2
    BY <1>2 DEF Rank, Natural, MaxPoints, p, b
  <2> DEFINE win(amount) == [result |-> "win", payout |-> amount]
             push == [result |-> "push", payout |-> gm.bet]
             lose == [result |-> "lose", payout |-> 0]
  <2>4. Verdict(gm, bank) =
            IF p > 21 THEN lose
            ELSE IF Natural(gm.player_cards) THEN IF b = 21 THEN push ELSE win((gm.bet * 25) \div 10)
            ELSE IF b > 21 \/ b < p THEN win(gm.bet * 2)
            ELSE IF b = p /\ ~Natural(bank) THEN push
            ELSE lose
    BY <1>4 DEF Verdict, MaxPoints, p, b
  <2>5. CASE p > 21
    <3>1. Verdict(gm, bank).payout = 0
      BY <2>4, <2>5
    <3> QED BY <2>2, <2>3, <2>5, <3>1
  <2>6. CASE p <= 21 /\ Natural(gm.player_cards)
    <3>1. Verdict(gm, bank).payout = IF b = 21 THEN gm.bet ELSE (gm.bet * 25) \div 10
      BY <1>2, <2>4, <2>6
    <3>2. RulesPay(row) = IF b = 21 THEN gm.bet ELSE (gm.bet * 25) \div 10
      BY <1>2, <1>4, <2>2, <2>3, <2>6 DEF MaxPoints
    <3> QED BY <3>1, <3>2
  <2>7. CASE p <= 21 /\ ~Natural(gm.player_cards) /\ (b > 21 \/ b < p)
    <3>1. Verdict(gm, bank).payout = gm.bet * 2
      BY <1>2, <2>4, <2>7
    <3>2. RulesPay(row) = 2 * gm.bet
      BY <1>2, <2>2, <2>3, <2>7 DEF MaxPoints
    <3> QED BY <1>2, <3>1, <3>2
  <2>8. CASE p <= 21 /\ ~Natural(gm.player_cards) /\ b = p
    <3>1. Verdict(gm, bank).payout = IF Natural(bank) THEN 0 ELSE gm.bet
      BY <1>2, <2>4, <2>8
    <3>2. RulesPay(row) = IF Natural(bank) THEN 0 ELSE gm.bet
      BY <1>2, <2>2, <2>3, <2>8 DEF MaxPoints
    <3> QED BY <3>1, <3>2
  <2>9. CASE p <= 21 /\ ~Natural(gm.player_cards) /\ b <= 21 /\ b > p
    <3>1. Verdict(gm, bank).payout = 0
      BY <1>2, <2>4, <2>9
    <3>2. RulesPay(row) = 0
      BY <1>2, <2>2, <2>3, <2>9 DEF MaxPoints
    <3> QED BY <3>1, <3>2
  <2> QED BY <1>2, <2>5, <2>6, <2>7, <2>8, <2>9
<1> QED BY <1>3, <1>4

-----------------------------------------------------------------------------
(* The hands of a game while it is played.  The cards wait for the action  *)
(* new, and are in play before any other action.                           *)
Waits(gm, waiting) == gm.id \in DOMAIN waiting
IsNew(gm, waiting) == Waits(gm, waiting) /\ waiting[gm.id] = "new"
Fresh(gm) == gm.player_cards = <<>> /\ gm.banker_cards = <<>>
Dealt(gm) ==
    /\ Len(gm.player_cards) >= 2 /\ Len(gm.banker_cards) = 1
    /\ CalPoints(gm.player_cards) < MaxPoints

Playable(gm, waiting) ==
    /\ gm.player_cards \in Seq(CardPoints) /\ gm.banker_cards \in Seq(CardPoints) /\ gm.bet \in Nat
    /\ IsNew(gm, waiting) => Fresh(gm)
    /\ (gm.status = "active" \/ Waits(gm, waiting)) /\ ~IsNew(gm, waiting) => Dealt(gm)
    /\ BankStopped(gm)
HandsInv == \A p \in DOMAIN games : Playable(games[p], actions)

(* The payment of the game in the row is of a game that is over.           *)
PaidRight(d, gm, waiting) ==
    d.id = gm.id => /\ gm.status = "closed" /\ ~Waits(gm, waiting)
                    /\ d.payout = RulesPay(gm)
PaymentsInv ==
    \A p \in DOMAIN deferred \cap DOMAIN games : PaidRight(deferred[p], games[p], actions)

PlayInv == HandsInv /\ PaymentsInv

(* A game looks at its own action only.                                    *)
LEMMA OwnAction ==
    ASSUME NEW gm, NEW waiting, NEW later, Waits(gm, waiting) <=> Waits(gm, later),
           Waits(gm, waiting) => later[gm.id] = waiting[gm.id]
    PROVE  /\ Playable(gm, waiting) => Playable(gm, later)
           /\ \A d : PaidRight(d, gm, waiting) => PaidRight(d, gm, later)
  BY DEF Playable, PaidRight, Waits, IsNew

(* What an action makes of the hands.                                      *)
LEMMA PlayedHands ==
    ASSUME NEW gm, NEW waiting, Waits(gm, waiting), Playable(gm, waiting),
           NEW next \in Played(gm, waiting[gm.id])
    PROVE  /\ HandOfPlay(next)
           /\ next.status # "stood" => CalPoints(next.player_cards) < MaxPoints
<1> DEFINE action == waiting[gm.id]
<1>1. /\ gm.player_cards \in Seq(CardPoints) /\ gm.banker_cards \in Seq(CardPoints) /\ gm.bet \in Nat
      /\ action = "new" => Fresh(gm)
      /\ action # "new" => Dealt(gm)
  BY DEF Playable, IsNew
<1> HIDE DEF action
<1>2. CASE action = "new"
  <2>1. PICK c \in [1 .. 3 -> CardPoints] :
            next = Deal(gm, Append(gm.banker_cards, c[1]), gm.player_cards \o <<c[2], c[3]>>)
    BY <1>2 DEF Played, action
  <2>2. c[1] \in CardPoints /\ c[2] \in CardPoints /\ c[3] \in CardPoints
    OBVIOUS
  <2>3. Append(gm.banker_cards, c[1]) = <<c[1]>> /\ gm.player_cards \o <<c[2], c[3]>> = <<c[2], c[3]>>
    <3>1. gm.banker_cards = <<>> /\ gm.player_cards = <<>>
      BY <1>1, <1>2 DEF Fresh
    <3>2. <<c[2], c[3]>> \in Seq(CardPoints)
      BY <2>2
    <3>3. <<>> \o <<c[2], c[3]>> = <<c[2], c[3]>>
      BY <3>2, ConcatEmptySeq
    <3>4. Append(<<>>, c[1]) = <<c[1]>>
      BY <2>2
    <3> QED BY <3>1, <3>3, <3>4
  <2>4. /\ next.player_cards = <<c[2], c[3]>> /\ next.banker_cards = <<c[1]>> /\ next.bet = gm.bet
        /\ next.status # "stood" => CalPoints(<<c[2], c[3]>>) # MaxPoints
    BY <2>1, <2>3 DEF Deal, Row
  <2>5. <<c[2], c[3]>> \in Seq(CardPoints) /\ <<c[1]>> \in Seq(CardPoints)
    BY <2>2
  <2>6. CalPoints(<<c[2], c[3]>>) \in Nat /\ CalPoints(<<c[2], c[3]>>) <= MaxPoints
    BY <2>2, <2>5, FirstCards, PointsOfHand
  <2> QED BY <1>1, <2>4, <2>5, <2>6 DEF HandOfPlay, MaxPoints
<1>3. CASE action = "hit"
  <2>1. PICK c \in CardPoints : next = Hit(gm, Append(gm.player_cards, c))
    BY <1>3 DEF Played, action
  <2>2. Append(gm.player_cards, c) \in Seq(CardPoints) /\ Len(Append(gm.player_cards, c)) = Len(gm.player_cards) + 1
    BY <1>1
  <2>3. /\ next.player_cards = Append(gm.player_cards, c)
        /\ next.banker_cards = gm.banker_cards /\ next.bet = gm.bet
        /\ next.status # "stood" => ~(CalPoints(Append(gm.player_cards, c)) >= MaxPoints)
    BY <2>1 DEF Hit, Row, StandsAt
  <2>4. CalPoints(Append(gm.player_cards, c)) \in Nat
    BY <2>2, PointsOfHand
  <2> QED BY <1>1, <1>3, <2>2, <2>3, <2>4 DEF HandOfPlay, Dealt, MaxPoints
<1>4. CASE action \in {"stand", "surrender"}
  <2>1. /\ next.player_cards = gm.player_cards /\ next.banker_cards = gm.banker_cards
        /\ next.bet = gm.bet /\ next.status = "stood"
    BY <1>4 DEF Played, Stood, Row, action
  <2> QED BY <1>1, <1>4, <2>1 DEF HandOfPlay, Dealt
<1>5. CASE action \notin {"new", "hit", "stand", "surrender"}
  BY <1>5 DEF Played, action
<1> QED BY <1>2, <1>3, <1>4, <1>5

-----------------------------------------------------------------------------
(* The row close leaves, and its payment.                                  *)
LEMMA ClosedPlayable ==
    ASSUME NEW gm, gm.status = "stood", HandOfPlay(gm), NEW bank \in BankerHands(gm), NEW waiting,
           gm.id \notin DOMAIN waiting,
           NEW row, row = Row(gm, gm.player_cards, bank, "closed", Verdict(gm, bank).result),
           NEW d, d.payout = Verdict(gm, bank).payout
    PROVE  Playable(row, waiting) /\ PaidRight(d, row, waiting)
<1>1. /\ row.status = "closed" /\ row.id = gm.id /\ row.bet = gm.bet
      /\ row.player_cards = gm.player_cards /\ row.banker_cards = bank
  BY DEF Row
<1>2. bank \in Seq(CardPoints) /\ BankStopped([player_cards |-> gm.player_cards, banker_cards |-> bank])
  BY BankerHand
<1>3. BankStopped(row)
  BY <1>1, <1>2 DEF BankStopped
<1>4. d.payout = RulesPay(row)
  BY PaysByTheRules
<1> QED BY <1>1, <1>2, <1>3, <1>4 DEF Playable, PaidRight, Waits, IsNew, HandOfPlay

(* The row of a game that goes on.                                         *)
LEMMA NextPlayable ==
    ASSUME NEW gm, HandOfPlay(gm), CalPoints(gm.player_cards) < MaxPoints, NEW waiting,
           gm.id \notin DOMAIN waiting
    PROVE  Playable(gm, waiting)
  BY DEF Playable, HandOfPlay, BankStopped, Dealt, Waits, IsNew

(* The actions of the other games stay when the one of this id goes.       *)
LEMMA OthersPlayable ==
    ASSUME NEW id, NEW gm, gm.id # id, NEW waiting
    PROVE  /\ Playable(gm, waiting) => Playable(gm, Erase(waiting, {id}))
           /\ \A d : PaidRight(d, gm, waiting) => PaidRight(d, gm, Erase(waiting, {id}))
<1>1. /\ Waits(gm, waiting) <=> Waits(gm, Erase(waiting, {id}))
      /\ Waits(gm, waiting) => Erase(waiting, {id})[gm.id] = waiting[gm.id]
  BY DEF Waits, Erase
<1> QED BY <1>1, OwnAction

LEMMA ResolvePlays ==
    ASSUME IInv, PlayInv, NEW id \in 1 .. MaxGames, Resolve(id)
    PROVE  PlayInv'
<1> DEFINE after == Erase(actions, {id})
<1>1. id \in DOMAIN actions /\ actions' = after /\ id \notin DOMAIN after
  BY DEF Resolve, EraseResolved, Erase
<1> HIDE DEF after
<1>2. \A q \in DOMAIN games : games[q].id # id =>
          /\ Playable(games[q], after)
          /\ q \in DOMAIN deferred => PaidRight(deferred[q], games[q], after)
  BY OthersPlayable DEF PlayInv, HandsInv, PaymentsInv, after
<1>3. ASSUME NEW p \in DOMAIN games, games[p].id = id, NEW gm \in Played(games[p], actions[id]),
             \/ gm.status = "stood" /\ Close(p, gm)
             \/ gm.status # "stood" /\ GoOn(p, gm)
      PROVE  PlayInv'
  <2>1. HandOfPlay(gm) /\ (gm.status # "stood" => CalPoints(gm.player_cards) < MaxPoints) /\ gm.id = id
    <3>1. Waits(games[p], actions) /\ Playable(games[p], actions)
      BY <1>1, <1>3 DEF Waits, PlayInv, HandsInv
    <3> QED BY <1>3, <3>1, PlayedHands, PlayedRow
  <2>2. \A q \in DOMAIN games \ {p} : games[q].id # id
    BY <1>3, OneGame
  <2>3. CASE gm.status = "stood" /\ Close(p, gm)
    <3>1. PICK bank \in BankerHands(gm) :
              /\ SenderFree(p)
              /\ games' = Put(games, p, Row(gm, gm.player_cards, bank, "closed", Verdict(gm, bank).result))
              /\ deferred' = Put(deferred, p, [to |-> "pay", id |-> gm.id, bet |-> gm.bet,
                                               payout |-> Verdict(gm, bank).payout])
      BY <2>3 DEF Close
    <3> DEFINE row == Row(gm, gm.player_cards, bank, "closed", Verdict(gm, bank).result)
               d == [to |-> "pay", id |-> gm.id, bet |-> gm.bet, payout |-> Verdict(gm, bank).payout]
    <3>2. Playable(row, after) /\ PaidRight(d, row, after)
      <4>1. d.payout = Verdict(gm, bank).payout
        OBVIOUS
      <4> HIDE DEF row, d
      <4> QED BY <1>1, <2>1, <2>3, <4>1, ClosedPlayable DEF row
    <3> HIDE DEF row, d
    <3>3. /\ DOMAIN games' = DOMAIN games /\ games'[p] = row
          /\ \A q \in DOMAIN games \ {p} : games'[q] = games[q]
      BY <3>1 DEF Put, row
    <3>4. /\ DOMAIN deferred' = DOMAIN deferred \cup {p} /\ deferred'[p] = d
          /\ \A q \in DOMAIN deferred \ {p} : deferred'[q] = deferred[q]
      BY <3>1 DEF Put, d
    <3>5. HandsInv'
      BY <1>1, <1>2, <2>2, <3>2, <3>3 DEF HandsInv
    <3>6. PaymentsInv'
      BY <1>1, <1>2, <2>2, <3>2, <3>3, <3>4 DEF PaymentsInv
    <3> QED BY <3>5, <3>6 DEF PlayInv
  <2>4. CASE gm.status # "stood" /\ GoOn(p, gm)
    <3>1. games' = Put(games, p, gm) /\ deferred' = deferred
      BY <2>4 DEF GoOn
    <3>2. /\ DOMAIN games' = DOMAIN games /\ games'[p] = gm
          /\ \A q \in DOMAIN games \ {p} : games'[q] = games[q]
      BY <3>1 DEF Put
    <3>3. Playable(gm, after)
      BY <1>1, <2>1, <2>4, NextPlayable
    <3>4. HandsInv'
      BY <1>1, <1>2, <2>2, <3>2, <3>3 DEF HandsInv
    <3>5. p \in DOMAIN deferred => deferred[p].id # id
      <4>1. Waits(games[p], actions)
        BY <1>1, <1>3 DEF Waits
      <4> QED BY <1>3, <4>1 DEF PlayInv, PaymentsInv, PaidRight
    <3>6. p \in DOMAIN deferred => PaidRight(deferred[p], gm, after)
      BY <2>1, <3>5 DEF PaidRight
    <3>7. PaymentsInv'
      BY <1>1, <1>2, <2>2, <3>1, <3>2, <3>6 DEF PaymentsInv
    <3> QED BY <3>4, <3>7 DEF PlayInv
  <2> QED BY <1>3, <2>3, <2>4
<1>4. CASE /\ \A p \in DOMAIN games : games[p].id # id
           /\ UNCHANGED <<games, globals, results, deferred, ghosts>>
  BY <1>1, <1>2, <1>4 DEF PlayInv, HandsInv, PaymentsInv
<1> QED BY <1>3, <1>4 DEF Resolve

-----------------------------------------------------------------------------
(* The payments are of games that have a number.                           *)
LEMMA PaymentsNumbered ==
    ASSUME IInv, NEW p \in DOMAIN deferred
    PROVE  deferred[p].id \in Nat /\ deferred[p].id <= LastGameId
<1>1. p \in Players /\ deferred[p].id \in W!Placed(p)
  BY DEF IInv, Shape, W!Placed, Due
<1> QED BY <1>1 DEF IInv, Shape, IdsGiven

(* The actions of the other games stay when one comes.                     *)
LEMMA NewAction ==
    ASSUME NEW id, NEW gm, gm.id # id, NEW waiting, NEW move
    PROVE  /\ Playable(gm, waiting) => Playable(gm, Put(waiting, id, move))
           /\ \A d : PaidRight(d, gm, waiting) => PaidRight(d, gm, Put(waiting, id, move))
<1>1. /\ Waits(gm, waiting) <=> Waits(gm, Put(waiting, id, move))
      /\ Waits(gm, waiting) => Put(waiting, id, move)[gm.id] = waiting[gm.id]
  BY DEF Waits, Put
<1> QED BY <1>1, OwnAction

LEMMA TransferPlays ==
    ASSUME IInv, PlayInv, NEW p \in Players, NEW quantity \in Amounts, Transfer(p, quantity)
    PROVE  PlayInv'
<1> DEFINE id == NextGlobal(globals, "game")
<1>1. id = LastGameId + 1 /\ LastGameId \in Nat /\ id \notin DOMAIN actions
  BY DEF Transfer, NextGlobal, LastGameId, IInv, Shape
<1>2. PICK result :
          games' = Put(games, p, [id |-> id, left |-> GameMaxTime, bet |-> quantity, status |-> "active",
                                  result |-> result, player_cards |-> <<>>, banker_cards |-> <<>>])
  <2>1. PICK unset \in UnsetResults :
            games' = Put(games, p, [id |-> id, left |-> GameMaxTime, bet |-> quantity, status |-> "active",
                                    result |-> FirstResult(p, unset), player_cards |-> <<>>, banker_cards |-> <<>>])
    BY DEF Transfer
  <2> QED BY <2>1
<1>3. actions' = Put(actions, id, "new") /\ deferred' = deferred
  BY DEF Transfer
<1> HIDE DEF id
<1>4. /\ DOMAIN games' = DOMAIN games \cup {p}
      /\ games'[p].id = id /\ games'[p].status = "active" /\ games'[p].bet = quantity
      /\ games'[p].player_cards = <<>> /\ games'[p].banker_cards = <<>>
      /\ \A q \in DOMAIN games \ {p} : games'[q] = games[q]
  BY <1>2 DEF Put
<1>5. id \in DOMAIN actions' /\ actions'[id] = "new"
  BY <1>3 DEF Put
<1>6. \A q \in DOMAIN games : games[q].id # id /\ (q \in DOMAIN deferred => deferred[q].id # id)
  <2>1. \A q \in DOMAIN games : games[q].id \in Nat /\ games[q].id <= LastGameId
    BY DEF IInv, Shape, IdsGiven
  <2>2. \A q \in DOMAIN deferred : deferred[q].id \in Nat /\ deferred[q].id <= LastGameId
    BY PaymentsNumbered
  <2> QED BY <1>1, <2>1, <2>2
<1>7. Playable(games'[p], actions')
  <2>1. quantity \in Nat /\ <<>> \in Seq(CardPoints) /\ Len(<<>>) = 0
    BY BlackjackAssumption
  <2> QED BY <1>4, <1>5, <2>1 DEF Playable, IsNew, Waits, Fresh, BankStopped
<1>8. p \in DOMAIN deferred => deferred[p].id # id
  <2>1. \A q \in DOMAIN deferred : deferred[q].id \in Nat /\ deferred[q].id <= LastGameId
    BY PaymentsNumbered
  <2> QED BY <1>1, <2>1
<1>9. \A q \in DOMAIN games \ {p} :
          /\ Playable(games[q], actions')
          /\ q \in DOMAIN deferred => PaidRight(deferred[q], games[q], actions')
  BY <1>3, <1>6, NewAction DEF PlayInv, HandsInv, PaymentsInv
<1>10. HandsInv'
  BY <1>4, <1>7, <1>9 DEF HandsInv
<1>11. PaymentsInv'
  BY <1>3, <1>4, <1>8, <1>9 DEF PaymentsInv, PaidRight
<1> QED BY <1>10, <1>11 DEF PlayInv

LEMMA PlayerActionPlays ==
    ASSUME IInv, PlayInv, NEW p \in Players, NEW id \in 1 .. MaxGames, NEW move \in Moves,
           PlayerAction(p, id, move)
    PROVE  PlayInv'
<1>1. /\ p \in DOMAIN games /\ games[p].status = "active" /\ games[p].id = id /\ id \notin DOMAIN actions
      /\ actions' = Put(actions, id, move) /\ games' = games /\ deferred' = deferred
  BY DEF PlayerAction
<1>2. \A q \in DOMAIN games \ {p} : games[q].id # id
  BY <1>1, OneGame
<1>3. \A q \in DOMAIN games \ {p} :
          /\ Playable(games[q], actions')
          /\ q \in DOMAIN deferred => PaidRight(deferred[q], games[q], actions')
  BY <1>1, <1>2, NewAction DEF PlayInv, HandsInv, PaymentsInv
<1>4. Playable(games[p], actions')
  <2>1. move # "new"
    BY BlackjackAssumption DEF PlayerMoves
  <2>2. actions'[id] = move /\ id \in DOMAIN actions'
    BY <1>1 DEF Put
  <2>3. Playable(games[p], actions) /\ ~Waits(games[p], actions)
    BY <1>1 DEF PlayInv, HandsInv, Waits
  <2> QED BY <1>1, <2>1, <2>2, <2>3 DEF Playable, Waits, IsNew
<1>5. p \in DOMAIN deferred => PaidRight(deferred[p], games[p], actions')
  BY <1>1 DEF PlayInv, PaymentsInv, PaidRight
<1> QED BY <1>1, <1>3, <1>4, <1>5 DEF PlayInv, HandsInv, PaymentsInv

(* A row with the same game, cards, bet and result is as good.             *)
LEMMA SameRow ==
    ASSUME NEW gm, NEW row, NEW waiting,
           row.id = gm.id, row.bet = gm.bet, row.result = gm.result,
           row.status = gm.status \/ row.status = "closed",
           row.player_cards = gm.player_cards, row.banker_cards = gm.banker_cards
    PROVE  /\ Playable(gm, waiting) => Playable(row, waiting)
           /\ \A d : PaidRight(d, gm, waiting) => PaidRight(d, row, waiting)
<1>1. RulesPay(row) = RulesPay(gm)
  BY DEF RulesPay
<1>2. BankStopped(gm) => BankStopped(row)
  BY DEF BankStopped
<1> QED BY <1>1, <1>2 DEF Playable, PaidRight, Waits, IsNew, Fresh, Dealt

LEMMA SameRowsPlay ==
    ASSUME PlayInv, DOMAIN games' = DOMAIN games, UNCHANGED <<actions, deferred>>,
           \A q \in DOMAIN games :
               /\ games'[q].id = games[q].id /\ games'[q].bet = games[q].bet
               /\ games'[q].result = games[q].result
               /\ games'[q].status = games[q].status \/ games'[q].status = "closed"
               /\ games'[q].player_cards = games[q].player_cards
               /\ games'[q].banker_cards = games[q].banker_cards
    PROVE  PlayInv'
<1>1. \A q \in DOMAIN games :
          /\ Playable(games'[q], actions)
          /\ q \in DOMAIN deferred => PaidRight(deferred[q], games'[q], actions)
  BY SameRow DEF PlayInv, HandsInv, PaymentsInv
<1> QED BY <1>1 DEF PlayInv, HandsInv, PaymentsInv

LEMMA HardClosePlays ==
    ASSUME IInv, PlayInv, NEW id \in 1 .. MaxGames, HardClose(id)
    PROVE  PlayInv'
<1>1. PICK p \in DOMAIN games :
          /\ games' = Put(games, p, Row(games[p], games[p].player_cards, games[p].banker_cards,
                                        "closed", games[p].result))
          /\ UNCHANGED <<actions, deferred>>
  BY DEF HardClose
<1>2. /\ DOMAIN games' = DOMAIN games
      /\ \A q \in DOMAIN games :
             /\ games'[q].id = games[q].id /\ games'[q].bet = games[q].bet
             /\ games'[q].result = games[q].result
             /\ games'[q].status = games[q].status \/ games'[q].status = "closed"
             /\ games'[q].player_cards = games[q].player_cards
             /\ games'[q].banker_cards = games[q].banker_cards
  BY <1>1 DEF Put, Row
<1> QED BY <1>1, <1>2, SameRowsPlay

LEMMA TickPlays == ASSUME PlayInv, NEW n, Tick(n) PROVE PlayInv'
<1>1. /\ DOMAIN games' = DOMAIN games /\ UNCHANGED <<actions, deferred>>
      /\ \A q \in DOMAIN games :
             /\ games'[q].id = games[q].id /\ games'[q].bet = games[q].bet
             /\ games'[q].result = games[q].result
             /\ games'[q].status = games[q].status \/ games'[q].status = "closed"
             /\ games'[q].player_cards = games[q].player_cards
             /\ games'[q].banker_cards = games[q].banker_cards
  BY DEF Tick, Aged
<1> QED BY <1>1, SameRowsPlay

(* The other steps do not touch the rows that stay.                        *)
LEMMA NextPlays == ASSUME NoGameWrites, IInv, PlayInv, [Next]_vars PROVE PlayInv'
<1>1. CASE Play
  BY <1>1, TransferPlays, PlayerActionPlays DEF Play
<1>2. CASE \E id \in 1 .. MaxGames : Resolve(id)
  BY <1>2, ResolvePlays
<1>3. ASSUME NEW S, ClearGames(S) PROVE PlayInv'
  BY <1>3 DEF ClearGames, Erase, PlayInv, HandsInv, PaymentsInv
<1>4. ASSUME NEW key, NEW value, SetGlobal(key, value) PROVE PlayInv'
  BY <1>4 DEF SetGlobal, PlayInv, HandsInv, PaymentsInv
<1>5. CASE Operate
  BY <1>3, <1>4, <1>5, HardClosePlays DEF Operate
<1>6. ASSUME NEW p, RunPay(p) PROVE PlayInv'
  <2>1. /\ UNCHANGED <<games, actions>> /\ DOMAIN deferred' = DOMAIN deferred
        /\ \A q \in DOMAIN deferred : deferred'[q].id = deferred[q].id /\ deferred'[q].payout = deferred[q].payout
    BY <1>6 DEF RunPay, Put, rows
  <2> QED BY <2>1 DEF PlayInv, HandsInv, PaymentsInv, PaidRight
<1>7. ASSUME NEW p, RunHousePay(p) \/ FailDeferred(p) PROVE PlayInv'
  <2>1. UNCHANGED <<games, actions>> /\ deferred' = Erase(deferred, {p})
    BY <1>7 DEF RunHousePay, FailDeferred, rows
  <2> QED BY <2>1 DEF Erase, PlayInv, HandsInv, PaymentsInv
<1>8. CASE Deliver
  BY <1>6, <1>7, <1>8 DEF Deliver
<1>9. CASE \E d \in TimeSteps : Tick(d)
  BY <1>9, TickPlays
<1>10. CASE UNCHANGED vars
  BY <1>10 DEF vars, rows, PlayInv, HandsInv, PaymentsInv
<1> QED BY <1>1, <1>2, <1>5, <1>8, <1>9, <1>10 DEF Next

LEMMA InitPlays == Init => PlayInv
  BY DEF Init, PlayInv, HandsInv, PaymentsInv, EmptyTable

LEMMA PlayAlways == ASSUME NoGameWrites PROVE Spec => []PlayInv
<1>1. Init => IInv /\ PlayInv
  BY InitOK, InitPlays
<1>2. IInv /\ PlayInv /\ [Next]_vars => IInv' /\ PlayInv'
  BY NextOK, NextPlays, NoGameWrites DEF StepOK
<1> QED BY <1>1, <1>2, PTL DEF Spec

(* An active game that waits for nothing can be played, and the bank drew  *)
(* to 17 and stopped, whatever cards come and whatever the operator does.  *)
THEOREM HandsAreByTheRules == ASSUME NoGameWrites PROVE Spec => []HandsByTheRules
<1>1. HandsInv => HandsByTheRules
  BY DEF HandsInv, Playable, HandsByTheRules, HandsInPlay, BankStopsAt17, BankStopped, IsNew, Waits, Dealt
<1> QED BY <1>1, PlayAlways, NoGameWrites, PTL DEF PlayInv

(* The payment of a game is what the rules of blackjack give for the hands *)
(* it ended with: a bust hand nothing, a blackjack 2.5 times the bet.      *)
THEOREM PaymentsAreByTheRules == ASSUME NoGameWrites PROVE Spec => []PaidByTheRules
<1>1. PaymentsInv => PaidByTheRules
  BY DEF PaymentsInv, PaidRight, PaidByTheRules
<1> QED BY <1>1, PlayAlways, NoGameWrites, PTL DEF PlayInv
=============================================================================
