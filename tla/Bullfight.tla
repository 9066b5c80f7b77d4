------------------------------ MODULE Bullfight ------------------------------
(***************************************************************************)
(* bullfight's hands: five cards against the banker's five.  A hand is the *)
(* better the more is left, modulo ten, beside three cards that make tens. *)
(***************************************************************************)
EXTENDS Cards

CONSTANT Word \* 2^64: where the unsigned pay rate wraps

(* The hand types, NO_BULL to SMALL_BULL.                                  *)
NoBull == 0
Bull10 == 10
FourOfAKind == 11
AllHeads == 12
SmallBull == 13

Total(values) == FoldLeft(LAMBDA sum, v : sum + v, 0, values)
Capped(v) == IF v > 10 THEN 10 ELSE v

(* The longest run of equal values, once it is four, in a sorted hand.     *)
NewRun(run, v) == [last |-> v, count |-> IF run.count < 4 THEN 1 ELSE run.count]
Run(values) ==
    FoldLeft(LAMBDA run, v : IF v = run.last THEN [last |-> v, count |-> run.count + 1] ELSE NewRun(run, v),
             [last |-> 14, count |-> 1], values)

(* The first three cards, in the order the code tries them, that make tens. *)
Triples == {t \in (1 .. 3) \X (2 .. 4) \X (3 .. 5) : t[1] < t[2] /\ t[2] < t[3]}
MakesTens(values, t) == (Capped(values[t[1]]) + Capped(values[t[2]]) + Capped(values[t[3]])) % 10 = 0
TripleRank(t) == t[1] * 36 + t[2] * 6 + t[3]
First(values) ==
    CHOOSE t \in Triples : /\ MakesTens(values, t)
                           /\ \A u \in Triples : MakesTens(values, u) => TripleRank(t) <= TripleRank(u)
RestUncapped(values) ==                        \* fault: tens and heads keep their value
    (Total(values) - values[First(values)[1]] - values[First(values)[2]] - values[First(values)[3]]) % 10
Rest(values) ==
    LET left == 1 .. 5 \ ToSet(First(values))
    IN  MapThenSumSet(LAMBDA i : Capped(values[i]), left) % 10
BullOf(values) == IF Rest(values) = 0 THEN Bull10 ELSE Rest(values)

(* get_hand_type, of a hand sorted by value.                               *)
HandType(values) ==
    CASE Total(values) < 10 -> SmallBull
      [] Total(values) >= 10 /\ (\A i \in 1 .. 5 : values[i] > 10) -> AllHeads
      [] Total(values) >= 10 /\ (\E i \in 1 .. 5 : values[i] <= 10) ->
           IF Run(values).count >= 4 THEN FourOfAKind
           ELSE IF \E t \in Triples : MakesTens(values, t) THEN BullOf(values) ELSE NoBull

HandPayRateSix(type) == IF type = SmallBull THEN 6 ELSE type \div 4 \* fault: the best hand pays six
HandPayRate(type) ==
    CASE type \in {8, 9} -> 2
      [] type = Bull10 -> 3
      [] type \in {FourOfAKind, AllHeads} -> 4
      [] type = SmallBull -> 5
      [] OTHER -> 1

(* compare_hand_value: the last cards of two hands without a bull.  Which  *)
(* of several highest cards is last is the sort's choice.                  *)
LastCards(cards) == {c \in ToSet(cards) : \A d \in ToSet(cards) : Value(d) <= Value(c)}
Beats(c, d) == Value(c) > Value(d) \/ (Value(c) = Value(d) /\ Suit(c) > Suit(d))
CompareHandValue(player, banker) ==
    {IF Beats(c, d) THEN 1 ELSE -1 : c \in LastCards(player), d \in LastCards(banker)}

(* handle_player: what a bet on the player's hand gains, in fifths.        *)
TypeOf(cards) == HandType(SortedValues([i \in DOMAIN cards |-> Value(cards[i])]))
PayRates(player, banker) ==
    LET mine == TypeOf(player)
        bank == TypeOf(banker)
    IN  CASE mine > bank -> {HandPayRate(mine)}
          [] mine <= bank /\ bank # NoBull -> {-HandPayRate(bank)}
          [] mine <= bank /\ bank = NoBull -> CompareHandValue(player, banker)

(* get_payout: the rate is unsigned, so a loss is added as Word less.      *)
Payout(bet, rate) == (((5 + rate) % Word) * bet) \div 5

-----------------------------------------------------------------------------
(* The rule of the game: any three that make tens will do, and what is     *)
(* left counts the same, so the hand is the whole hand modulo ten.         *)
TensIn(values) == \E t \in Triples : MakesTens(values, t)
CappedTotal(values) == FoldLeft(LAMBDA sum, v : sum + Capped(v), 0, values) % 10
ByTheRule(values) ==
    CASE Total(values) < 10 -> SmallBull
      [] Total(values) >= 10 /\ ToSet(values) \subseteq 11 .. 13 -> AllHeads
      [] Total(values) >= 10 /\ ~ (ToSet(values) \subseteq 11 .. 13) ->
           IF \E v \in ToSet(values) : Cardinality({i \in 1 .. 5 : values[i] = v}) >= 4 THEN FourOfAKind
           ELSE IF ~ TensIn(values) THEN NoBull
           ELSE IF CappedTotal(values) = 0 THEN Bull10 ELSE CappedTotal(values)
=============================================================================
