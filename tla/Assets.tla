------------------------------- MODULE Assets -------------------------------
(***************************************************************************)
(* Arithmetic of assets (asset.hpp).  An asset is [amount, symbol]; a      *)
(* symbol is [precision, valid, contract], the contract of the extended    *)
(* assets or None.  An operation gives an asset or number, or Abort.       *)
(***************************************************************************)
EXTENDS Integers, Sequences

CONSTANTS
    Half, \* 2^62: amounts lie below it, an int64 holds up to twice as much
    Abort

\* what the constants have to be
AssetsAssumption == Half \in Nat \ {0}

max_amount == Half - 1

(* int64_t, and C's division, which rounds towards zero.                   *)
Wrap(n) == ((n + 2 * Half) % (4 * Half)) - 2 * Half
Abs(n) == IF n < 0 THEN -n ELSE n
Quotient(a, b) == IF (a < 0) = (b < 0) THEN Abs(a) \div Abs(b) ELSE -(Abs(a) \div Abs(b))
Remainder(a, b) == a - b * Quotient(a, b)

\* fault: the sum is looked at one side only
InRangeAbove(amount) == amount <= max_amount

InRange(amount) == -max_amount <= amount /\ amount <= max_amount

-----------------------------------------------------------------------------
Asset(amount, symbol) ==
    IF InRange(amount) /\ symbol.valid THEN [amount |-> amount, symbol |-> symbol] ELSE Abort

SetAmount(a, amount) == IF InRange(amount) THEN [a EXCEPT !.amount = amount] ELSE Abort
Negated(a) == [a EXCEPT !.amount = -a.amount]

(* operator+= and operator-=: the range is looked at after the addition.   *)
Sum(a, b, amount) == IF a.symbol = b.symbol /\ InRange(amount) THEN [a EXCEPT !.amount = amount] ELSE Abort
Plus(a, b) == Sum(a, b, Wrap(a.amount + b.amount))
Minus(a, b) == Sum(a, b, Wrap(a.amount - b.amount))

(* operator*=: in twice the width.                                         *)
Times(a, n) == IF InRange(a.amount * n) THEN [a EXCEPT !.amount = a.amount * n] ELSE Abort
DividedBy(a, n) == IF n = 0 THEN Abort ELSE [a EXCEPT !.amount = Quotient(a.amount, n)]

(* Ratio and comparisons of one symbol; a ratio to nothing traps.          *)
Ratio(a, b) == IF a.symbol = b.symbol /\ b.amount # 0 THEN Quotient(a.amount, b.amount) ELSE Abort
Compared(a, b, outcome) == IF a.symbol = b.symbol THEN outcome ELSE Abort

(* print: the part before the point, and the digits after it; a digit of a *)
(* negative amount is printed as what stands that far before '0'.          *)
Power[n \in 0 .. 18] == IF n = 0 THEN 1 ELSE 10 * Power[n - 1]
Printed(a) ==
    LET p == a.symbol.precision
        change == Remainder(a.amount, Power[p])
    IN  [int |-> Quotient(a.amount, Power[p]),
         fraction |-> [i \in 1 .. p |-> Remainder(Quotient(change, Power[p - i]), 10)]]

-----------------------------------------------------------------------------
(* Operations on valid assets of one symbol give the exact result, which   *)
(* is a valid asset again, or abort when there is none; what overflows an  *)
(* int64 is never taken for an amount.                                     *)
Valid(a) == InRange(a.amount) /\ a.symbol.valid
Exactly(result, a, amount) ==
    result = IF -Half < amount /\ amount < Half THEN [a EXCEPT !.amount = amount] ELSE Abort
AssetsExact(a, b) ==
    IF a.symbol = b.symbol
    THEN /\ Exactly(Plus(a, b), a, a.amount + b.amount) /\ Exactly(Minus(a, b), a, a.amount - b.amount)
         /\ Minus(a, b) # Abort => Plus(Minus(a, b), b) = a
         /\ Exactly(Times(a, b.amount), a, a.amount * b.amount)
         /\ b.amount # 0 /\ Times(a, b.amount) # Abort => DividedBy(Times(a, b.amount), b.amount) = a
         /\ Exactly(SetAmount(b, -a.amount), b, -a.amount) /\ SetAmount(b, -a.amount) = Negated(a)
         /\ b.amount # 0 => LET rest == Minus(a, Times(b, Ratio(a, b))) IN Abs(rest.amount) < Abs(b.amount)
    ELSE {Plus(a, b), Minus(a, b), Ratio(a, b), Compared(a, b, a.amount < b.amount)} = {Abort}

(* An amount is printed as it is, unless it is negative and not whole.     *)
RECURSIVE Digits(_)
Digits(ds) == IF ds = <<>> THEN 0 ELSE 10 * Digits(SubSeq(ds, 1, Len(ds) - 1)) + ds[Len(ds)]
PrintedRight(a) ==
    LET out == Printed(a)
        shown == /\ \A i \in DOMAIN out.fraction : out.fraction[i] \in 0 .. 9
                 /\ Abs(out.int) * Power[a.symbol.precision] + Digits(out.fraction) = Abs(a.amount)
    IN  shown = (a.amount >= 0 \/ Remainder(a.amount, Power[a.symbol.precision]) = 0)
=============================================================================
