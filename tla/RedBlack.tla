------------------------------ MODULE RedBlack ------------------------------
(***************************************************************************)
(* redblack: two hands of three cards are compared by type and, when the   *)
(* types are the same, by their points; good hands pay the lucky strike.   *)
(***************************************************************************)
EXTENDS Cards

RedWin == 1
BlackWin == 2
LuckyStrike == 4

SmallPair == 1
Pair == 2
Straight == 3
Flush == 4
StraightFlush == 5
ThreeOfAKind == 6

(* get_lucky_strike_rate: nothing for a small pair.                        *)
LuckyRates == (Pair :> 2) @@ (Straight :> 3) @@ (Flush :> 3) @@ (StraightFlush :> 15) @@ (ThreeOfAKind :> 30)
LuckyRate(type) == IF type \in DOMAIN LuckyRates THEN LuckyRates[type] ELSE 0

SameSuit(hand) == Suit(hand[1]) = Suit(hand[2]) /\ Suit(hand[1]) = Suit(hand[3])
Points(hand) == Ascending([i \in DOMAIN hand |-> ValueWithAce(hand[i])])

(* get_hand_type: each point against the one before it.  An ace may follow *)
(* the three.                                                              *)
FollowsAny(last, point) == point - last = 1 \/ point = AceHighValue \* fault: an ace follows anything
Follows(last, point) == point - last = 1 \/ (point = AceHighValue /\ last = 3)
HandType(points, same_suit) ==
    LET straight == \A i \in 2 .. 3 : Follows(points[i - 1], points[i])
        three == \A i \in 2 .. 3 : points[i - 1] = points[i]
        pair == \E i \in 2 .. 3 : points[i - 1] = points[i]
    IN  CASE three -> ThreeOfAKind
          [] ~three /\ straight -> IF same_suit THEN StraightFlush ELSE Straight
          [] ~three /\ ~straight /\ same_suit -> Flush
          [] ~three /\ ~straight /\ ~same_suit /\ pair -> IF points[2] < 9 THEN SmallPair ELSE Pair
          [] OTHER -> 0

CompareSide(red, black) == CASE red > black -> RedWin [] red < black -> BlackWin [] OTHER -> 0

(* The first of these comparisons that decides.                            *)
FirstDecided(results) == FoldLeft(LAMBDA won, next : IF won # 0 THEN won ELSE next, 0, results)

(* compare_same_type: a straight by its last card, which is the three in   *)
(* 23A; a pair by the pair, which the middle card is of, then the other.   *)
TopOfStraight(points) == IF points[1] = 2 /\ points[3] = AceHighValue THEN points[2] ELSE points[3]
Kicker(points) == IF points[1] = points[2] THEN points[3] ELSE points[1]
CompareSameType(type, red, black) ==
    CASE type = ThreeOfAKind -> CompareSide(red[1], black[1])
      [] type \in {StraightFlush, Straight} -> CompareSide(TopOfStraight(red), TopOfStraight(black))
      [] type \in {Pair, SmallPair} ->
           FirstDecided(<<CompareSide(red[2], black[2]), CompareSide(Kicker(red), Kicker(black))>>)
      [] OTHER -> FirstDecided([i \in 1 .. 3 |-> CompareSide(red[4 - i], black[4 - i])])

Type(hand) == HandType(Points(hand), SameSuit(hand))
GameResult(red, black) ==
    FirstDecided(<<CompareSide(Type(red), Type(black)),
                   CompareSameType(Type(red), Points(red), Points(black))>>)

(* get_payout, in percent of the stake.                                    *)
RateWin == 196
BestType(red, black) == Max({Type(red), Type(black)})
Rate(red, black, bet_type) ==
    CASE bet_type = LuckyStrike -> 100 * LuckyRate(BestType(red, black))
      [] bet_type # LuckyStrike /\ bet_type = GameResult(red, black) -> RateWin
      [] OTHER -> 0

-----------------------------------------------------------------------------
(* The order of hands the rules speak of: by type, a straight by its       *)
(* highest card with the ace low in 23A, a pair by the pair and then the   *)
(* other card, all else by its cards downwards.                            *)
Pairs(points) == {v \in ToSet(points) : Cardinality({i \in 1 .. 3 : points[i] = v}) = 2}
Singles(points) == {v \in ToSet(points) : Cardinality({i \in 1 .. 3 : points[i] = v}) = 1}
IsRun(points) == ToSet(points) = {2, 3, AceHighValue} \/ \E v \in 2 .. 12 : ToSet(points) = {v, v + 1, v + 2}
Rank(hand) ==
    LET points == Points(hand)
        low == ToSet(points) = {2, 3, AceHighValue}
        three == Cardinality(ToSet(points)) = 1
        run == ~three /\ IsRun(points)
    IN  CASE three -> <<ThreeOfAKind, points[1], 0, 0>>
          [] run -> <<IF SameSuit(hand) THEN StraightFlush ELSE Straight, IF low THEN 3 ELSE points[3], 0, 0>>
          [] ~three /\ ~run /\ SameSuit(hand) -> <<Flush, points[3], points[2], points[1]>>
          [] ~three /\ ~run /\ ~SameSuit(hand) /\ Pairs(points) # {} ->
               LET pair == Max(Pairs(points))
               IN  <<IF pair < 9 THEN SmallPair ELSE Pair, pair, Max(Singles(points)), 0>>
          [] OTHER -> <<0, points[3], points[2], points[1]>>
Above(r, s) == \E i \in 1 .. 4 : r[i] > s[i] /\ \A j \in 1 .. i - 1 : r[j] = s[j]
RankedRight(red, black) ==
    /\ (GameResult(red, black) = RedWin) = Above(Rank(red), Rank(black))
    /\ (GameResult(red, black) = BlackWin) = Above(Rank(black), Rank(red))
=============================================================================
