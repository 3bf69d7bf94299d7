------------------------------- MODULE Money -------------------------------
(***************************************************************************)
(* Amounts of money (schemas/money.py).  A stored amount is an integer     *)
(* number of nano-dollars in a range of half the machine word; an exact    *)
(* intermediate value is a rational, which is rounded with the remainder   *)
(* kept.  Intermediate integers are not bounded, as in Python.             *)
(*                                                                         *)
(* An operation that raises is an operator that returns the value and a    *)
(* predicate, Storable or IsDollars, that its caller has as a guard.       *)
(***************************************************************************)
EXTENDS Integers

CONSTANTS Nano,         \* nano-dollars per dollar
          StorableMax   \* the largest stored amount, 2^62

ASSUME MoneyIsTyped == Nano \in Nat \ {0} /\ StorableMax \in Nat \ {0}

StorableMin == -StorableMax

\* The largest value of the machine word, 2^63 - 1.
Int64Max == 2 * StorableMax - 1

\* A rational number; it need not be in lowest terms.
Rational == [num : Int, den : Nat \ {0}]

-----------------------------------------------------------------------------
(* Mutants: a value is rounded the other way; the remainder is what the    *)
(* floor left.                                                             *)
RoundForUs(exact, away) ==
    LET floor == exact.num \div exact.den
        up == exact.num % exact.den # 0 /\ (exact.num > 0) # away
        value == IF up THEN floor + 1 ELSE floor
    IN  [value |-> value, remainder |-> exact.num - value * exact.den]

RoundKeepingFloorRest(exact, away) ==
    LET floor == exact.num \div exact.den
        up == exact.num % exact.den # 0 /\ (exact.num > 0) = away
    IN  [value |-> IF up THEN floor + 1 ELSE floor, remainder |-> exact.num % exact.den]

-----------------------------------------------------------------------------
\* narrow returns its argument if it is storable.
Storable(v) == StorableMin <= v /\ v <= StorableMax

\* dollars refuses an amount that is no whole number of nano-dollars, and then
\* one that is not storable.
IsDollars(amount) ==
    /\ (amount.num * Nano) % amount.den = 0
    /\ Storable((amount.num * Nano) \div amount.den)
Dollars(amount) == (amount.num * Nano) \div amount.den

\* Not narrowed: totals are, where they are stored.
Notional(price, quantity) == price * quantity

\* _round_against_us, as divmod floors.  The remainder is a numerator over the
\* denominator of the exact value.
RoundAgainstUs(exact, away) ==
    LET floor == exact.num \div exact.den
        up == exact.num % exact.den # 0 /\ (exact.num > 0) = away
        value == IF up THEN floor + 1 ELSE floor
    IN  [value |-> value, remainder |-> exact.num - value * exact.den]

RoundCost(exact) == RoundAgainstUs(exact, TRUE)
RoundCredit(exact) == RoundAgainstUs(exact, FALSE)
RoundStatistic(exact) == RoundAgainstUs(exact, FALSE)

ApplyRate(base, rate, credit) ==
    LET exact == [num |-> base * rate.num, den |-> rate.den]
    IN  IF credit THEN RoundCredit(exact) ELSE RoundCost(exact)
=============================================================================
