------------------------------ MODULE Baccarat ------------------------------
(***************************************************************************)
(* baccarat and cbaccarat: banker and player get two cards each and, by    *)
(* the points, a third.  Eight decks are dealt from, so any card may come  *)
(* at any time.  The two games differ in what they pay.                    *)
(***************************************************************************)
EXTENDS Cards

CONSTANT Deck \* the cards that can be drawn (0 to 415)

VARIABLES
    banker, player, \* the cards of the two sides
    stage           \* "first" cards, "player" third, "banker" third, "done"

vars == <<banker, player, stage>>

CardPoint(card) == IF Value(card) > 9 THEN 0 ELSE Value(card)
CardsPoint(cards) == FoldLeft(LAMBDA sum, c : sum + CardPoint(c), 0, cards) % 10

Init == banker = <<>> /\ player = <<>> /\ stage = "first"

(* draw_cards: two cards each, in turn.  A natural ends it, a player of    *)
(* six or seven leaves it to the banker.                                   *)
AfterFirst(b, p) ==
    CASE b < 8 /\ p < 6 -> "player"
      [] b < 6 /\ p \in 6 .. 7 -> "banker"
      [] OTHER -> "done"
DealFirst(card) ==
    /\ stage = "first"
    /\ IF Len(banker) = Len(player)
       THEN banker' = Append(banker, card) /\ UNCHANGED player
       ELSE player' = Append(player, card) /\ UNCHANGED banker
    /\ stage' = IF Len(player') = 2 THEN AfterFirst(CardsPoint(banker'), CardsPoint(player')) ELSE "first"

(* banker_draw_third_card: by his points and the player's third card.      *)
BankerDrawsOn(b) ==
    CASE b <= 2 -> 0 .. 9
      [] b = 3 -> (0 .. 9) \ {8}
      [] b = 4 -> 2 .. 7
      [] b = 5 -> 4 .. 7
      [] b = 6 -> 6 .. 7
      [] OTHER -> {}
PlayerThird(card) ==
    /\ stage = "player"
    /\ player' = Append(player, card)
    /\ stage' = IF CardPoint(card) \in BankerDrawsOn(CardsPoint(banker)) THEN "banker" ELSE "done"
    /\ UNCHANGED banker

BankerThird(card) ==
    /\ stage = "banker"
    /\ banker' = Append(banker, card)
    /\ stage' = "done"
    /\ UNCHANGED player

Next == \E card \in Deck : DealFirst(card) \/ PlayerThird(card) \/ BankerThird(card)

-----------------------------------------------------------------------------
BankerPoint == CardsPoint(banker)
PlayerPoint == CardsPoint(player)

(* baccarat: the five results, and what a bet on each is paid.             *)
BankerWin == 1
PlayerWin == 2
Tie == 3
Dragon == 4
Panda == 5
ResultOf(b, b_cards, p, p_cards) ==
    CASE p > b -> IF p = 8 /\ p_cards = 3 THEN Panda ELSE PlayerWin
      [] b > p -> IF b = 7 /\ b_cards = 3 THEN Dragon ELSE BankerWin
      [] b = p -> Tie
Result == ResultOf(BankerPoint, Len(banker), PlayerPoint, Len(player))

MatrixPushDragon == <<<<2, 0, 0, 0, 0>>, <<0, 2, 0, 0, 0>>, <<1, 1, 9, 0, 0>>, <<2, 1, 0, 41, 0>>, <<0, 2, 0, 0, 26>>>> \* fault: a dragon pays banker and player
PayoutMatrix == <<
    <<2, 0, 0, 0, 0>>,
    <<0, 2, 0, 0, 0>>,
    <<1, 1, 9, 0, 0>>,
    <<1, 0, 0, 41, 0>>,
    <<0, 2, 0, 0, 26>> >>

(* get_payout: payout_array[bet_type - 1], where payout_array is the row   *)
(* of the result in a matrix of bytes that lie one after the other, and    *)
(* bet_type any byte the memo named.  A type that is none of the five is   *)
(* paid by what lies there: another row, or a byte outside of the matrix.  *)
Byte == 0 .. 255
Rates(bet_type) ==
    LET at == 5 * (Result - 1) + bet_type - 1
    IN  IF at \in 0 .. 24 THEN {100 * PayoutMatrix[(at \div 5) + 1][(at % 5) + 1]}
        ELSE {100 * b : b \in Byte}

(* cbaccarat: the winner and the two pairs, and what they pay in percent.  *)
ClassicTie == 4
BankerPair == 8
PlayerPair == 16
ClassicResultOf(b, p) ==
    CASE p > b -> PlayerWin
      [] b > p -> BankerWin
      [] b = p -> ClassicTie
ClassicResult == ClassicResultOf(BankerPoint, PlayerPoint)
IsPair(cards) == Value(cards[1]) = Value(cards[2])
WinOrPush(result, side, rate) ==
    CASE result = side -> rate
      [] result = ClassicTie -> 100
      [] OTHER -> 0
ClassicSide(result, bet_type) ==
    CASE bet_type = BankerWin -> WinOrPush(result, BankerWin, 195)
      [] bet_type = PlayerWin -> WinOrPush(result, PlayerWin, 200)
      [] bet_type = ClassicTie -> IF result = ClassicTie THEN 900 ELSE 0
PairRate == 1200
ClassicRate(bet_type) ==
    CASE bet_type \in {BankerWin, PlayerWin, ClassicTie} -> ClassicSide(ClassicResult, bet_type)
      [] bet_type = BankerPair -> IF IsPair(banker) THEN PairRate ELSE 0
      [] bet_type = PlayerPair -> IF IsPair(player) THEN PairRate ELSE 0
      [] OTHER -> 0

-----------------------------------------------------------------------------
(* A bet is paid by the column of its type in the row of the result, and   *)
(* there are five columns; the classic game pays nothing for other types.  *)
FiveColumns == BankerWin .. Panda
OnlyColumnsPay == \A bet_type \in Byte : Rates(bet_type) # {0} => bet_type \in FiveColumns

(* All the rounds there are, each by how many of the 13^6 ways to draw six *)
(* values it happens, cards being drawn from so many decks that they are   *)
(* as good as independent: points of two cards, of a third, and the rules  *)
(* of who draws it.                                                        *)
Points == 0 .. 9
Ways(point) == IF point = 0 THEN 4 ELSE 1      \* values with that point
WaysOfTwo == [t \in Points |-> FoldSet(LAMBDA x, sum : sum + Ways(x) * Ways((t - x) % 10), 0, Points)]

(* Over rounds that begin with points b and p: pay(b, n, p, m) by its ways,*)
(* where n and m are the numbers of cards.                                 *)
Add(S, f(_)) == FoldSet(LAMBDA x, sum : sum + f(x), 0, S)
BankerEnds(pay(_, _, _, _), b, p, m, draws) ==
    IF draws THEN Add(Points, LAMBDA c : Ways(c) * pay((b + c) % 10, 3, p, m)) ELSE 13 * pay(b, 2, p, m)
PlayerEnds(pay(_, _, _, _), b, p) ==
    LET stage_of == AfterFirst(b, p)
    IN  IF stage_of = "player"
        THEN Add(Points, LAMBDA c : Ways(c) * BankerEnds(pay, b, (p + c) % 10, 3, c \in BankerDrawsOn(b)))
        ELSE 13 * BankerEnds(pay, b, p, 2, stage_of = "banker")
Returned(pay(_, _, _, _)) ==
    Add(Points, LAMBDA b : WaysOfTwo[b] * Add(Points, LAMBDA p : WaysOfTwo[p] * PlayerEnds(pay, b, p)))

(* Every bet of the two games returns less than it costs, on average: the  *)
(* sides, the tie, the dragon, the panda and the pairs.                    *)
Draws == 13 * 13 * 13 * 13 * 13 * 13
ReturnsLess ==
    /\ \A t \in FiveColumns : Returned(LAMBDA b, n, p, m : PayoutMatrix[ResultOf(b, n, p, m)][t]) < Draws
    /\ \A t \in {BankerWin, PlayerWin, ClassicTie} :
          Returned(LAMBDA b, n, p, m : ClassicSide(ClassicResultOf(b, p), t)) < 100 * Draws
    /\ PairRate * 13 < 100 * 13 * 13
=============================================================================
