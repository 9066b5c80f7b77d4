----------------------------- MODULE FixedPoint -----------------------------
(***************************************************************************)
(* Fixed point numbers (fixedpoint.hpp).  A number is [bits, q, val]: val  *)
(* counts 2^-q, in an integer of Bits, twice or four times as many bits.   *)
(* Addition that overflows wraps as the build does it.                     *)
(***************************************************************************)
EXTENDS Integers

CONSTANT Bits \* the width of fixed_point32
\* what the constants have to be
FixedPointAssumption == Bits \in Nat \ {0}

AsInt(bits, n) == ((n + 2^(bits - 1)) % 2^bits) - 2^(bits - 1)
Fixed(bits, q, n) == [bits |-> bits, q |-> q, val |-> AsInt(bits, n)]

\* fault: converts before the points are aligned, whichever is finer
AssignLost(bits, val, q, qr) == IF q > qr THEN AsInt(bits, val) ELSE AsInt(bits, val) \div 2^(qr - q)

(* assignHelper: the number first becomes an integer of the helper's type. *)
AssignHelper(bits, val, q, qr) ==
    IF q > qr THEN AsInt(bits, AsInt(bits, val) * 2^(q - qr)) ELSE AsInt(bits, val) \div 2^(qr - q)

(* The constructors use their own type, but fixed_point64 of a 32 bit      *)
(* number uses int32_t.                                                    *)
Convert(r, bits, q) ==
    Fixed(bits, q, AssignHelper(IF bits = 2 * Bits /\ r.bits = Bits THEN Bits ELSE bits, r.val, q, r.q))

Finer(q, qr) == IF q > qr THEN q ELSE qr
Plus(l, r) ==
    LET q == Finer(l.q, r.q)
    IN  Fixed(l.bits, q, Convert(l, l.bits, q).val + Convert(r, l.bits, q).val)
Minus(l, r) ==
    LET q == Finer(l.q, r.q)
    IN  Fixed(l.bits, q, Convert(l, l.bits, q).val - Convert(r, l.bits, q).val)
Times(l, r) == Fixed(2 * l.bits, l.q + r.q, l.val * r.val)

IntPart(r) == r.val \div 2^r.q
FracPart(r) == IF r.q = 0 THEN 0 ELSE (r.val * 2^(Bits - r.q)) % 2^r.bits
IsZero(r) == IntPart(r) = 0 /\ FracPart(r) = 0

Abs(n) == IF n < 0 THEN -n ELSE n
Quotient(a, b) == IF (a < 0) = (b < 0) THEN Abs(a) \div Abs(b) ELSE -(Abs(a) \div Abs(b))
Divided(l, r) == Fixed(2 * l.bits, l.q + l.bits - r.q, Quotient(l.val * 2^l.bits, r.val))

(* The comparisons look at the counts alone, whatever the two points are.  *)
GreaterThan(l, r) == l.val > r.val
LessThan(l, r) == l.val < r.val
EqualTo(l, r) == l.val = r.val

(* fixed_divide of two uint32_t, each taken for an int32_t.                *)
FixedDivide(lhs, rhs, q) == Convert(Divided(Fixed(Bits, 0, lhs), Fixed(Bits, 0, rhs)), 2 * Bits, q)

-----------------------------------------------------------------------------
(* Sums, differences and products of two numbers are exact when their      *)
(* operands and the result fit at the finer point; a quotient is the       *)
(* nearest one towards zero; division by zero is told from every other.    *)
Fits(bits, n) == n \in -(2^(bits - 1)) .. 2^(bits - 1) - 1
At(r, q) == r.val * 2^(q - r.q)
FixedExact(l, r) ==
    LET q == Finer(l.q, r.q)
        fit == Fits(l.bits, At(l, q)) /\ Fits(l.bits, At(r, q))
    IN  /\ fit /\ Fits(l.bits, At(l, q) + At(r, q)) => Plus(l, r).val = At(l, q) + At(r, q)
        /\ fit /\ Fits(l.bits, At(l, q) - At(r, q)) => Minus(l, r).val = At(l, q) - At(r, q)
        /\ Times(l, r).val = l.val * r.val
        /\ IsZero(r) = (r.val = 0)
        /\ r.val # 0 /\ ~(r.val = -1 /\ l.val = -(2^(l.bits - 1))) =>
              LET d == Divided(l, r).val IN
                  /\ Abs(d * r.val) <= Abs(l.val) * 2^l.bits
                  /\ Abs(l.val) * 2^l.bits < Abs(d * r.val) + Abs(r.val)

(* Numbers with one point compare by what they are worth.  With different  *)
(* points only this is left: what is less by its counts, has the finer     *)
(* point and stands against no negative number is less.                    *)
ComparedRight(l, r) ==
    LET q == Finer(l.q, r.q)
    IN  /\ l.q = r.q => /\ LessThan(l, r) = (At(l, q) < At(r, q)) /\ EqualTo(l, r) = (At(l, q) = At(r, q))
                        /\ GreaterThan(l, r) = (At(l, q) > At(r, q))
        /\ l.q > r.q /\ r.val >= 0 /\ LessThan(l, r) => At(l, q) < At(r, q)

(* A 32 bit number keeps its value in 64 bits only while its shifted value *)
(* fits in 32.                                                             *)
WidenedExact(r, q) == q >= r.q => (Convert(r, 2 * Bits, q).val = At(r, q)) = Fits(Bits, At(r, q))

(* A quotient of two integers is right while both are below 2^31.          *)
DividedExact(lhs, rhs, q) ==
    rhs # 0 /\ lhs < 2^(Bits - 1) /\ rhs < 2^(Bits - 1) => FixedDivide(lhs, rhs, q).val = (lhs * 2^q) \div rhs
=============================================================================
