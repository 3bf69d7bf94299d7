----------------------------- MODULE MoneyProofs -----------------------------
(***************************************************************************)
(* What rounding keeps and in which direction it goes, and how much room   *)
(* the storable range leaves in the machine word.                          *)
(***************************************************************************)
EXTENDS Money, TLAPS

Abs(n) == IF n < 0 THEN -n ELSE n

\* The floor of a division and its rest, as divmod gives them.
LEMMA FloorAndRest ==
    ASSUME NEW n \in Int, NEW d \in Nat \ {0}
    PROVE  /\ n \div d \in Int /\ n % d \in 0..(d - 1)
           /\ n = d * (n \div d) + (n % d)
OBVIOUS

\* The two roundings in terms of the floor.
LEMMA RoundingCases ==
    ASSUME NEW exact \in Rational, NEW away \in BOOLEAN
    PROVE  LET floor == exact.num \div exact.den
               r == RoundAgainstUs(exact, away)
           IN  /\ r.value \in {floor, floor + 1}
               /\ exact.num % exact.den = 0 => r.value = floor
               /\ exact.num % exact.den # 0 =>
                    (r.value = floor + 1 <=> ((exact.num > 0) = away))
               /\ r.remainder = exact.num - r.value * exact.den
<1>1. exact.num \in Int /\ exact.den \in Nat \ {0}
  BY DEF Rational
<1>2. exact.num \div exact.den \in Int
  BY <1>1, FloorAndRest
<1>3. QED
  BY <1>1, <1>2 DEF RoundAgainstUs

\* No money is created or destroyed: the rounded value and the remainder add up
\* to the exact value, and the remainder is less than one nano-dollar, so that
\* RoundedMoney never refuses one that rounding made.
THEOREM RoundingIsExact ==
    ASSUME NEW exact \in Rational, NEW away \in BOOLEAN
    PROVE  LET r == RoundAgainstUs(exact, away)
           IN  /\ r.value \in Int /\ r.remainder \in Int
               /\ r.value * exact.den + r.remainder = exact.num
               /\ Abs(r.remainder) < exact.den
<1> DEFINE floor == exact.num \div exact.den
           rest == exact.num % exact.den
           r == RoundAgainstUs(exact, away)
<1>1. exact.num \in Int /\ exact.den \in Nat \ {0}
  BY DEF Rational
<1>2. floor \in Int /\ rest \in 0..(exact.den - 1) /\ exact.num = exact.den * floor + rest
  BY <1>1, FloorAndRest
<1>3. /\ r.value \in {floor, floor + 1} /\ (rest = 0 => r.value = floor)
      /\ r.remainder = exact.num - r.value * exact.den
  BY RoundingCases
<1> HIDE DEF floor, rest, r
<1>4. r.value \in Int /\ r.value * exact.den \in Int /\ r.remainder \in Int
  BY <1>1, <1>2, <1>3
<1>5. CASE r.value = floor
  <2>1. r.remainder = rest
    BY <1>1, <1>2, <1>3, <1>5
  <2>2. QED
    BY <1>1, <1>2, <1>3, <1>4, <2>1 DEF Abs, r
<1>6. CASE r.value = floor + 1 /\ rest # 0
  <2>1. r.value * exact.den = exact.den * floor + exact.den
    BY <1>1, <1>2, <1>6
  <2>2. r.remainder = rest - exact.den
    BY <1>1, <1>2, <1>3, <2>1
  <2>3. QED
    BY <1>1, <1>2, <1>3, <1>4, <2>2 DEF Abs, r
<1>7. QED
  BY <1>2, <1>3, <1>5, <1>6

\* A cost is never understated and a credit never overstated, in magnitude and
\* for either sign: rounding is against the account (round_cost, round_credit).
THEOREM RoundingIsAgainstUs ==
    ASSUME NEW exact \in Rational
    PROVE  /\ Abs(RoundCost(exact).value) * exact.den >= Abs(exact.num)
           /\ Abs(RoundCredit(exact).value) * exact.den <= Abs(exact.num)
<1> DEFINE n == exact.num
           d == exact.den
           floor == n \div d
           rest == n % d
<1>1. n \in Int /\ d \in Nat \ {0}
  BY DEF Rational
<1>2. floor \in Int /\ rest \in 0..(d - 1) /\ n = d * floor + rest
  BY <1>1, FloorAndRest
<1> DEFINE cost == RoundCost(exact).value
           credit == RoundCredit(exact).value
<1>3. /\ rest = 0 => cost = floor /\ credit = floor
      /\ rest # 0 /\ n > 0 => cost = floor + 1 /\ credit = floor
      /\ rest # 0 /\ ~(n > 0) => cost = floor /\ credit = floor + 1
  <2>1. cost = RoundAgainstUs(exact, TRUE).value /\ credit = RoundAgainstUs(exact, FALSE).value
    BY DEF RoundCost, RoundCredit
  <2>2. /\ cost \in {floor, floor + 1} /\ (rest = 0 => cost = floor)
        /\ rest # 0 => (cost = floor + 1 <=> ((n > 0) = TRUE))
    BY <2>1, RoundingCases
  <2>3. /\ credit \in {floor, floor + 1} /\ (rest = 0 => credit = floor)
        /\ rest # 0 => (credit = floor + 1 <=> ((n > 0) = FALSE))
    BY <2>1, RoundingCases
  <2> HIDE DEF cost, credit, floor, rest, n, d
  <2>4. QED
    BY <1>1, <1>2, <2>2, <2>3
<1> HIDE DEF floor, rest, n, d, cost, credit
<1>4. (floor + 1) * d = d * floor + d /\ floor * d = d * floor /\ d * floor \in Int
      /\ (-floor) * d = -(d * floor) /\ (-(floor + 1)) * d = -(d * floor) - d
  BY <1>1, <1>2
<1>5. n > 0 => floor >= 0
  <2>1. SUFFICES ASSUME n > 0, floor <= -1 PROVE FALSE
    BY <1>2
  <2>2. d * floor <= -d
    BY <1>1, <1>2, <2>1
  <2>3. QED
    BY <1>1, <1>2, <1>4, <2>1, <2>2
<1>6. rest # 0 /\ ~(n > 0) => floor + 1 <= 0
  <2>1. SUFFICES ASSUME rest # 0, ~(n > 0), floor >= 0 PROVE FALSE
    BY <1>2
  <2>2. d * floor >= 0
    BY <1>1, <1>2, <2>1
  <2>3. QED
    BY <1>1, <1>2, <1>4, <2>1, <2>2
<1>7. rest = 0 /\ ~(n > 0) => floor <= 0
  <2>1. SUFFICES ASSUME rest = 0, ~(n > 0), floor >= 1 PROVE FALSE
    BY <1>2
  <2>2. d * floor >= d
    BY <1>1, <1>2, <2>1
  <2>3. QED
    BY <1>1, <1>2, <1>4, <2>1, <2>2
<1>8. Abs(cost) * d >= Abs(n) /\ Abs(credit) * d <= Abs(n)
  <2>1. CASE n > 0
    <3>1. cost >= 0 /\ credit >= 0
      BY <1>2, <1>3, <1>5, <2>1
    <3>2. Abs(cost) = cost /\ Abs(credit) = credit /\ Abs(n) = n
      BY <1>1, <1>2, <1>3, <2>1, <3>1 DEF Abs
    <3>3. CASE rest = 0
      BY <1>1, <1>2, <1>3, <1>4, <3>2, <3>3
    <3>4. CASE rest # 0
      BY <1>1, <1>2, <1>3, <1>4, <2>1, <3>2, <3>4
    <3>5. QED
      BY <3>3, <3>4
  <2>2. CASE ~(n > 0)
    <3>1. cost <= 0 /\ credit <= 0
      BY <1>2, <1>3, <1>6, <1>7, <2>2
    <3>2. Abs(cost) = -cost /\ Abs(credit) = -credit /\ Abs(n) = -n
      BY <1>1, <1>2, <1>3, <2>2, <3>1 DEF Abs
    <3>3. CASE rest = 0
      BY <1>1, <1>2, <1>3, <1>4, <3>2, <3>3
    <3>4. CASE rest # 0
      BY <1>1, <1>2, <1>3, <1>4, <2>2, <3>2, <3>4
    <3>5. QED
      BY <3>3, <3>4
  <2>3. QED
    BY <2>1, <2>2
<1>9. QED
  BY <1>8 DEF cost, credit, n, d

\* What the text says of the bound, that a stored value cannot overflow on one
\* further addition, holds of two stored values unless both are the same bound
\* (narrow, STORABLE_MAX).
THEOREM OneAdditionFits ==
    ASSUME NEW a \in Int, NEW b \in Int, Storable(a), Storable(b),
           a # StorableMax \/ b # StorableMax
    PROVE  -Int64Max - 1 <= a + b /\ a + b <= Int64Max
BY MoneyIsTyped DEF Storable, StorableMin, Int64Max

\* At the bound the room is one short: both values pass the check and their sum
\* is more than the word holds.
THEOREM NoRoomAtTheBound ==
    Storable(StorableMax) /\ StorableMax + StorableMax > Int64Max
BY MoneyIsTyped DEF Storable, StorableMin, Int64Max

\* The remainder says for whom an amount was rounded: one that is not negative is
\* rounded against the account (round_cost, round_credit).
LEMMA RemainderSign ==
    ASSUME NEW exact \in Rational
    PROVE  /\ exact.num >= 0 => /\ RoundCost(exact).remainder <= 0
                                /\ RoundCredit(exact).remainder >= 0
           /\ exact.num < 0 => /\ RoundCost(exact).remainder >= 0
                               /\ RoundCredit(exact).remainder <= 0
<1> DEFINE n == exact.num
           d == exact.den
           floor == n \div d
           rest == n % d
           cost == RoundAgainstUs(exact, TRUE)
           credit == RoundAgainstUs(exact, FALSE)
<1>1. n \in Int /\ d \in Nat \ {0}
  BY DEF Rational
<1>2. floor \in Int /\ rest \in 0..(d - 1) /\ n = d * floor + rest
  BY <1>1, FloorAndRest
<1>3. /\ cost.value \in {floor, floor + 1} /\ (rest = 0 => cost.value = floor)
      /\ rest # 0 => (cost.value = floor + 1 <=> ((n > 0) = TRUE))
      /\ cost.remainder = n - cost.value * d
  BY RoundingCases
<1>4. /\ credit.value \in {floor, floor + 1} /\ (rest = 0 => credit.value = floor)
      /\ rest # 0 => (credit.value = floor + 1 <=> ((n > 0) = FALSE))
      /\ credit.remainder = n - credit.value * d
  BY RoundingCases
<1> HIDE DEF n, d, floor, rest, cost, credit
<1>5. floor * d = d * floor /\ (floor + 1) * d = d * floor + d /\ d * floor \in Int
  BY <1>1, <1>2
<1>6. n = 0 => rest = 0
  <2> SUFFICES ASSUME n = 0, rest # 0 PROVE FALSE
    OBVIOUS
  <2>1. d * floor = -rest
    BY <1>1, <1>2
  <2>2. floor <= -1 \/ floor >= 0
    BY <1>2
  <2>3. floor >= 0 => d * floor >= 0
    BY <1>1, <1>2
  <2>4. floor <= -1 => d * floor <= -d
    BY <1>1, <1>2
  <2> QED
    BY <1>1, <1>2, <2>1, <2>2, <2>3, <2>4
<1>7. /\ rest = 0 => cost.remainder = 0 /\ credit.remainder = 0
      /\ rest # 0 /\ n > 0 => cost.remainder = rest - d /\ credit.remainder = rest
      /\ rest # 0 /\ ~(n > 0) => cost.remainder = rest /\ credit.remainder = rest - d
  BY <1>1, <1>2, <1>3, <1>4, <1>5
<1>8. /\ n >= 0 => cost.remainder <= 0 /\ credit.remainder >= 0
      /\ n < 0 => cost.remainder >= 0 /\ credit.remainder <= 0
  BY <1>1, <1>2, <1>6, <1>7
<1> QED
  BY <1>8 DEF n, cost, credit, RoundCost, RoundCredit

\* A negative cost that is not whole is booked below its exact value: away from zero
\* is then in favour of the account, so a rebate has to be a credit (round_cost).
THEOREM NegativeCostFavoursUs ==
    ASSUME NEW exact \in Rational, exact.num < 0, exact.num % exact.den # 0
    PROVE  RoundCost(exact).value * exact.den < exact.num
<1> DEFINE n == exact.num
           d == exact.den
           floor == n \div d
           rest == n % d
           cost == RoundAgainstUs(exact, TRUE)
<1>1. n \in Int /\ d \in Nat \ {0} /\ n < 0 /\ rest # 0
  BY DEF Rational
<1>2. floor \in Int /\ rest \in 0..(d - 1) /\ n = d * floor + rest
  BY <1>1, FloorAndRest
<1>3. cost.value = floor
  <2>1. cost.value \in {floor, floor + 1} /\ (cost.value = floor + 1 <=> ((n > 0) = TRUE))
    BY <1>1, RoundingCases
  <2> HIDE DEF n, floor, cost
  <2> QED
    BY <1>1, <1>2, <2>1
<1> HIDE DEF n, d, floor, rest, cost
<1>4. floor * d = d * floor /\ d * floor \in Int
  BY <1>1, <1>2
<1>5. cost.value * d < n
  BY <1>1, <1>2, <1>3, <1>4
<1> QED
  BY <1>5 DEF n, d, cost, RoundCost
=============================================================================
