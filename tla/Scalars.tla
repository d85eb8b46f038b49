-------------------------------- MODULE Scalars --------------------------------
(* math.h of kae on integers of a given width.  A floating-point argument is the  *)
(* quotient of two such integers: no rounding error moves it across an integer.  *)
EXTENDS Integers

CONSTANT Width  \* the bits of int and unsigned

ASSUME WidthAssumption == Width \in Nat \ {0, 1}

\* An integer type has a signedness and a number of bits.
Types == [signed : BOOLEAN, bits : {Width, 2 * Width}]

Least(T)    == IF T.signed THEN -(2 ^ (T.bits - 1)) ELSE 0
Greatest(T) == IF T.signed THEN 2 ^ (T.bits - 1) - 1 ELSE 2 ^ T.bits - 1
Values(T)   == Least(T) .. Greatest(T)

\* A conversion to T, and the arithmetic of an unsigned T.
As(T, k) == LET r == k % 2 ^ T.bits IN IF r \in Values(T) THEN r ELSE r - 2 ^ T.bits

\* The floating-point number a / b.
Quotient(a, b) == IF b > 0 THEN [num |-> a, den |-> b] ELSE [num |-> -a, den |-> -b]

\* static_cast<Unit>(x): towards zero.  Undefined if the result is not a Unit.
Cast(x) == IF x.num >= 0 THEN x.num \div x.den ELSE -((-x.num) \div x.den)
Castable(Unit, x) == Cast(x) \in Values(Unit)
-----------------------------------------------------------------------------
\* Mutant of ceil: without the sign.
ceilAlways(Unit, x) == IF x.num = Cast(x) * x.den THEN Cast(x) ELSE As(Unit, Cast(x) + 1)

ceil(Unit, x) == IF x.num = Cast(x) * x.den THEN Cast(x)
                 ELSE As(Unit, Cast(x) + (IF x.num > 0 THEN 1 ELSE 0))

floor(Unit, x) == IF x.num = Cast(x) * x.den THEN Cast(x)
                  ELSE As(Unit, Cast(x) - (IF x.num < 0 THEN 1 ELSE 0))

trunc(Unit, x)  == IF x.num > 0 THEN floor(Unit, x) ELSE ceil(Unit, x)
ntrunc(Unit, x) == IF x.num > 0 THEN ceil(Unit, x) ELSE floor(Unit, x)

\* static_cast<unsigned>(std::log2(a - 1) + 1)
Exponent(a) == CHOOSE k \in 1 .. 2 * Width : 2 ^ (k - 1) <= a - 1 /\ a - 1 < 2 ^ k

\* The shift 1u << Exponent(a) is undefined from Width on, whatever the width of T.
Shiftable(a) == a > 1 => Exponent(a) < Width

\* For a >= 0; ceil2(a) of a negative a is -ceil2(-a).
ceil2(T, a) == IF a <= 1 THEN 1 ELSE As(T, 2 ^ Exponent(a))

\* For a >= 0 and unit > 0.  A signed sum that is no T is undefined.
Addable(T, a, unit)  == T.signed => a + unit - 1 \in Values(T)
div_ceil(T, a, unit) == As(T, a + unit - 1) \div unit

pow2(T, a) == As(T, a * a)
-----------------------------------------------------------------------------
(* What the functions are for                                                    *)

IsCeil(k, x)  == (k - 1) * x.den < x.num /\ x.num <= k * x.den
IsFloor(k, x) == k * x.den <= x.num /\ x.num < (k + 1) * x.den

\* The least power of two that is not less than a.
IsCeil2(p, a) == p >= a /\ \E k \in 0 .. 2 * Width : p = 2 ^ k /\ (k = 0 \/ 2 ^ (k - 1) < a)
=============================================================================
