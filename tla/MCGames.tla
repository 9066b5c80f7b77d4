------------------------------- MODULE MCGames -------------------------------
(***************************************************************************)
(* The single player games: dice, slots, centergame and scratch, one of    *)
(* them per behaviour.  The contracts share no state, so each is explored  *)
(* alone: by TLC with the amounts of MCGames_play.cfg, by GamesProofs with *)
(* any.                                                                    *)
(***************************************************************************)
EXTENDS Tables, Sequences, TLC

CONSTANTS
    Players, MinBet, MaxPayout, HistorySize, MaxBets,
    DiceAmounts, Numbers, Rolls,                   \* dice
    SpinAmounts, Values, SpinWrites,               \* slots
    Tokens, BetAmounts, Games, Prizes, BetWrites,  \* centergame
    Counts, Draws, Prices, CardWrites, MaxOnTable, MaxCards \* scratch

VARIABLES
    game, \* the contract this behaviour is of
    globals, active, available, history, calls, paid, lost, granted

all == <<game, globals, active, available, history, calls, paid, lost, granted>>

D == INSTANCE Dice WITH Amounts <- DiceAmounts
S == INSTANCE Slots WITH Amounts <- SpinAmounts, GlobalWrites <- SpinWrites
C == INSTANCE CenterGame WITH Amounts <- BetAmounts, GlobalWrites <- BetWrites
K == INSTANCE Scratch WITH MaxBets <- MaxOnTable, GlobalWrites <- CardWrites

(* The constants of the instances are what their modules ask for.          *)
ASSUME GamesAssumption ==
    /\ D!DiceAssumption /\ S!SlotsAssumption /\ C!CenterAssumption /\ K!ScratchAssumption
    /\ MaxOnTable \in 0 .. MaxBets

Idle == UNCHANGED <<game, available, granted>>
Unused == available = EmptyTable /\ granted = [p \in Players |-> 0]

Init ==
    /\ game \in {"dice", "slots", "centergame", "scratch"}
    /\ CASE game = "dice" -> D!Init /\ Unused
         [] game = "slots" -> S!Init /\ Unused
         [] game = "centergame" -> C!Init /\ Unused /\ history = EmptyTable
         [] game = "scratch" -> K!Init

Next ==
    \/ game = "dice" /\ D!Next /\ Idle
    \/ game = "slots" /\ S!Next /\ Idle
    \/ game = "centergame" /\ C!Next /\ Idle /\ UNCHANGED history
    \/ game = "scratch" /\ K!Next /\ UNCHANGED game

(* The backend reveals every bet it can, and the platform runs or drops    *)
(* every deferred transaction.                                             *)
Fairness ==
    /\ \A id \in 1 .. MaxBets : WF_all(game = "dice" /\ (\E roll \in Rolls : D!Reveal(id, roll)) /\ Idle)
    /\ \A p \in Players :
          /\ WF_all(game = "dice" /\ D!Deliver(p) /\ Idle)
          /\ WF_all(game = "slots" /\ (\E value \in Values : S!Reveal(p, value)) /\ Idle)
          /\ WF_all(game = "slots" /\ S!Deliver(p) /\ Idle)

Spec == Init /\ [][Next]_all
FairSpec == Spec /\ Fairness

-----------------------------------------------------------------------------
(* The values of the cfg that are no plain sets.                           *)
HistoryReset == {<<"history", 0>>}
OtherKey == {<<"other", 1>>}
TenEach == [t \in 0 .. 3 |-> 10 * (t + 1)]
Of(pairs) == [i \in 1 .. 5 |-> pairs[i]]
ThreeDraws ==
    {Of(<< <<0, 400>>, <<1, 3999>>, <<2, 66666>>, <<10, 1999>>, <<18, 99999>> >>),
     Of(<< <<19, 99999>>, <<9, 65000>>, <<14, 51999>>, <<4, 0>>, <<5, 99650>> >>),
     Of(<< <<3, 50000>>, <<12, 97750>>, <<16, 49999>>, <<17, 95000>>, <<19, 99900>> >>)}

-----------------------------------------------------------------------------
(* Each of the four contracts keeps what Wager promises.                   *)
Open(p) == CASE game = "dice" -> D!Open(p) [] game = "slots" -> S!Open(p)
             [] game = "centergame" -> C!Open(p) [] game = "scratch" -> K!Open(p)
Due(p) == CASE game = "dice" -> D!Due(p) [] game = "slots" -> S!Due(p)
            [] game = "centergame" -> C!Due(p) [] game = "scratch" -> K!Due(p)
W == INSTANCE Wager WITH
        Bets <- 1 .. MaxBets,
        open <- [p \in Players |-> Open(p)],
        due <- [p \in Players |-> Due(p)]
GamesKeepWager == W!Spec

SpinReturns == S!AllValues
CardReturns == [card \in 0 .. 3 |-> K!CardReturn(card)]

(* Over all they can draw, dice, slots and scratch pay back at most what   *)
(* is staked: neither the rounding of reward_amount nor the tables of      *)
(* thresholds and options turn the edge over.                              *)
HouseKeepsEdge ==
    CASE game = "dice" -> D!HouseKeepsEdge
      [] game = "slots" -> SpinReturns <= 10000
      [] game = "scratch" -> \A p \in DOMAIN active : CardReturns[active[p].card_type] <= 20 * 100000
      [] game = "centergame" -> TRUE

(* scratch: no card is lost or made by buying, giving, playing, claiming;  *)
(* and the packed result a card's history keeps is never the mark of an    *)
(* unrevealed card, and tells the card's lines and so its reward.          *)
CardsAccounted == game = "scratch" => K!CardsAccounted /\ K!ResultTellsReward

(* dice and slots: a bet that was taken is in the end paid, or lost with   *)
(* its deferred transaction; no bet waits for ever for another's.          *)
Answered(id) == \E p \in Players : id \in paid[p] \cup lost[p]
EveryBetAnswered ==
    \A id \in 1 .. MaxBets :
        (game \in {"dice", "slots"} /\ \E p \in Players : id \in Open(p)) ~> Answered(id)
=============================================================================
