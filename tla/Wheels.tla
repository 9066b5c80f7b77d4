------------------------------- MODULE Wheels -------------------------------
(***************************************************************************)
(* roulette and quick3: one number is drawn, and each kind of bet pays on  *)
(* some of the numbers.                                                    *)
(***************************************************************************)
EXTENDS Cards

-----------------------------------------------------------------------------
(* roulette: a number of 0 to 36.                                          *)
Pockets == 0 .. 36
RouletteBets == 1 .. 49 \* 1 to 37 the numbers, 38 to 49 even to black

IsRed == {1, 3, 5, 7, 9, 12, 14, 16, 18, 19, 21, 23, 25, 27, 30, 32, 34, 36}

(* What the bets 38 to 49 win on; none of them wins on zero.               *)
EvenWithZero == {n \in Pockets : n % 2 = 0}    \* fault: zero is even
Even == {n \in 1 .. 36 : n % 2 = 0}
RouletteWins(bet_type) ==
    CASE bet_type = 38 -> Even
      [] bet_type = 39 -> {n \in 1 .. 36 : n % 2 = 1}
      [] bet_type = 40 -> 19 .. 36
      [] bet_type = 41 -> 1 .. 18
      [] bet_type = 42 -> 1 .. 12
      [] bet_type = 43 -> 13 .. 24
      [] bet_type = 44 -> 25 .. 36
      [] bet_type = 45 -> {n \in 1 .. 36 : n % 3 = 0}
      [] bet_type = 46 -> {n \in 1 .. 36 : n % 3 = 2}
      [] bet_type = 47 -> {n \in 1 .. 36 : n % 3 = 1}
      [] bet_type = 48 -> IsRed
      [] bet_type = 49 -> 1 .. 36 \ IsRed
      [] OTHER -> {bet_type - 1} \cap Pockets
RoulettePays(bet_type) ==
    CASE bet_type \in 38 .. 41 \cup 48 .. 49 -> 2
      [] bet_type \in 42 .. 47 -> 3
      [] OTHER -> 36

(* get_payout, in stakes.                                                  *)
RouletteRate(result, bet_type) == IF result \in RouletteWins(bet_type) THEN RoulettePays(bet_type) ELSE 0

(* What all the numbers pay together on a bet.                             *)
RouletteReturn(bet_type) == RoulettePays(bet_type) * Cardinality({n \in Pockets : RouletteRate(n, bet_type) > 0})

-----------------------------------------------------------------------------
(* quick3: three dice out of one number of 0 to 215.                       *)
Throws == 0 .. 215
Quick3Bets == 3 .. 25 \* the sums 3 to 18, then large to three of a kind

(* quick3_result: three digits to base six.                                *)
Dices(rng) == <<(rng % 6) + 1, ((rng \div 6) % 6) + 1, ((rng \div 36) % 6) + 1>>
Sum3(dices) == dices[1] + dices[2] + dices[3]

SumPayRates == <<0, 0, 19008, 6336, 3168, 1901, 1267, 904, 760,
                 704, 704, 760, 904, 1267, 1901, 3168, 6336, 19008>>

Ordered(dices) == Ascending(dices)
IsPair(d) == d[1] = d[2] \/ d[2] = d[3]
PairOfThree(d) == d[1] = d[2] \/ d[2] = d[3] \/ d[3] <= d[2] + 1 \* fault: neighbours count as a pair
HasPair(d) == IsPair(d)
IsStraight(d) == d[2] = d[1] + 1 /\ d[3] = d[2] + 1
IsThree(d) == d[1] = d[2] /\ d[2] = d[3]

(* get_payout, in percent of the stake.                                    *)
Quick3Wins(dices, bet_type) ==
    CASE bet_type <= 18 -> bet_type = Sum3(dices)
      [] bet_type = 19 -> Sum3(dices) > 10
      [] bet_type = 20 -> Sum3(dices) <= 10
      [] bet_type = 21 -> Sum3(dices) % 2 = 1
      [] bet_type = 22 -> Sum3(dices) % 2 = 0
      [] bet_type = 23 -> HasPair(Ordered(dices))
      [] bet_type = 24 -> IsStraight(Ordered(dices))
      [] bet_type = 25 -> IsThree(Ordered(dices))
      [] OTHER -> FALSE
Quick3Pays(bet_type) ==
    CASE bet_type <= 18 -> SumPayRates[bet_type]
      [] bet_type \in 19 .. 23 -> 196
      [] bet_type = 24 -> 792
      [] bet_type = 25 -> 3168
      [] OTHER -> 0
Quick3Rate(rng, bet_type) == IF Quick3Wins(Dices(rng), bet_type) THEN Quick3Pays(bet_type) ELSE 0

(* What all the numbers pay together on a bet, in percent of stakes.       *)
Quick3Return(bet_type) == Quick3Pays(bet_type) * Cardinality({n \in Throws : Quick3Rate(n, bet_type) > 0})
=============================================================================
