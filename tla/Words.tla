--------------------------------- MODULE Words ---------------------------------
(***************************************************************************)
(* Where arithmetic in C is not that of the integers: the division of      *)
(* negative ints, ints that become unsigned beside an unsigned operand,    *)
(* and numbers too large for a float.                                      *)
(***************************************************************************)
EXTENDS Integers, FiniteSetsExt

CONSTANT Word    \* 2^32, the number of values of a C unsigned

ASSUME WordsAssumption == Word \in Nat \ {0}

\* Division is truncated toward zero, and the remainder has the sign of a.
Quotient(a, b)  == IF a >= 0 THEN a \div b ELSE -((-a) \div b)
Remainder(a, b) == a - b * Quotient(a, b)

Unsigned(a) == a % Word

\* A float has 24 bits of precision, 8 less than a word has.
FloatExact == Word \div 256
Ulps       == {1, 2, 4, 8, 16, 32, 64, 128, 256}

\* An unsigned that becomes a float: the nearest one, and of two the even one.
Float(a) ==
    LET ulp  == Min({u \in Ulps : a < FloatExact * u})
        down == a \div ulp
        rest == a % ulp
        odd  == down % 2 = 1
    IN  (down + IF 2 * rest > ulp \/ (2 * rest = ulp /\ odd) THEN 1 ELSE 0) * ulp
=============================================================================
