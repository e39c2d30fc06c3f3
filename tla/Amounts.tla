------------------------------ MODULE Amounts ------------------------------
(***************************************************************************)
(* Money (pdr-core) and the price of a package of lessons (pdr-billing):   *)
(* whole minor units, up to the greatest number there is, that never wrap. *)
(* What there is not is the empty set.                                     *)
(***************************************************************************)
EXTENDS Integers

CONSTANT IntMax     \* the greatest std::int64_t

ASSUME AmountsAssumption == IntMax \in Nat \ {0}

\* There is one number more below zero than above.
IntMin == -IntMax - 1
Ints == IntMin..IntMax

Sign(n) == IF n < 0 THEN -1 ELSE 1
Abs(n) == Sign(n) * n

\* The division of C++ drops the fraction.
Quotient(n, by) == Sign(n) * Sign(by) * (Abs(n) \div Abs(by))

\* Mutant: a sum is too great only.
AddOverflowsAbove(left, right) == right > 0 /\ left > IntMax - right

AddOverflows(left, right) ==
    \/ right > 0 /\ left > IntMax - right
    \/ right < 0 /\ left < IntMin - right

MulOverflows(left, right) ==
    /\ left # 0
    /\ right # 0
    /\ IF left = -1 THEN right = IntMin
       ELSE IF right = -1 THEN left = IntMin
       ELSE IF left > 0
       THEN IF right > 0 THEN left > Quotient(IntMax, right) ELSE right < Quotient(IntMin, left)
       ELSE IF right > 0 THEN left < Quotient(IntMin, right) ELSE left < Quotient(IntMax, right)

Money(units, currency) == [units |-> units, currency |-> currency]

\* Plus
Sum2(money, other) ==
    IF money.currency # other.currency \/ AddOverflows(money.units, other.units) THEN {}
    ELSE {[money EXCEPT !.units = @ + other.units]}

\* Minus: the opposite of the least number is not a number.
Difference(money, other) ==
    IF \/ money.currency # other.currency
       \/ other.units = IntMin
       \/ AddOverflows(money.units, -other.units)
    THEN {}
    ELSE {[money EXCEPT !.units = @ - other.units]}

Times(money, factor) ==
    IF MulOverflows(money.units, factor) THEN {}
    ELSE {[money EXCEPT !.units = @ * factor]}

\* QuotePackage: the price of so many lessons by the tariff of that code.
QuotePackage(tariffs, code, lessons) ==
    IF code \notin DOMAIN tariffs \/ lessons <= 0 THEN {}
    ELSE Times(tariffs[code], lessons)
=============================================================================
