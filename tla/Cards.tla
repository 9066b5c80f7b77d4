-------------------------------- MODULE Cards --------------------------------
(***************************************************************************)
(* The cards of common/cards.hpp: numbers from 0, thirteen to a suit, and  *)
(* drawing from what is left of a deck.                                    *)
(***************************************************************************)
EXTENDS Integers, Sequences, SequencesExt, FiniteSetsExt

CardsPerSuit == 13
NumSuits == 4
AceHighValue == 14

Suit(card) == (card \div CardsPerSuit) % NumSuits
Value(card) == (card % CardsPerSuit) + 1
ValueWithAce(card) == IF Value(card) = 1 THEN AceHighValue ELSE Value(card)

(* std::sort: the k-th is the least of them that k of them do not exceed.  *)
Ascending(values) ==
    [k \in DOMAIN values |->
        Min({v \in ToSet(values) : Cardinality({i \in DOMAIN values : values[i] <= v}) >= k})]

(* sort_by_value orders equal values anyhow: what the games read of a      *)
(* sorted hand are its values.                                             *)
SortedValues(values) == Ascending(values)

(* draw_random_card: the number drawn, of those left, is bumped over the   *)
(* cards already dealt, in their order.                                    *)
Unsorted(dealt) == dealt                       \* fault: the excluded cards are not sorted
Sorted(dealt) == Ascending(dealt)
DrawRandomCard(drawn, dealt) ==
    FoldLeft(LAMBDA card, other : IF card >= other THEN card + 1 ELSE card, drawn, Sorted(dealt))
AddCard(drawn, dealt) == Append(dealt, DrawRandomCard(drawn, dealt))

(* Whatever was dealt from a deck of number cards, each card that is left  *)
(* is drawn by exactly one number, and none that was dealt.                *)
Left(dealt, number) == (0 .. number - 1) \ ToSet(dealt)
DrawsAreFair(dealt, number) ==
    LET numbers == 0 .. number - Len(dealt) - 1
    IN  /\ {DrawRandomCard(drawn, dealt) : drawn \in numbers} = Left(dealt, number)
        /\ Cardinality(numbers) = Cardinality(Left(dealt, number))
=============================================================================
