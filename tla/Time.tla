-------------------------------- MODULE Time --------------------------------
(***************************************************************************)
(* Instants and the text they come in (schemas/time.py).  An instant is a  *)
(* number of nanoseconds since the epoch; a text has the fields of a local *)
(* time, which are as good as the seconds they make, the digits of a       *)
(* fraction with any trailing zeros left out, and an offset or none.       *)
(***************************************************************************)
EXTENDS Integers

CONSTANTS Digits,                      \* of a fraction: 9 for nanoseconds
          MinPlausible, MaxPlausible   \* the band of stored instants

ASSUME TimeIsTyped == Digits \in Nat /\ MinPlausible \in Nat /\ MaxPlausible \in Nat

\* The powers of ten.
TenTo[n \in 0..Digits] == IF n = 0 THEN 1 ELSE 10 * TenTo[n - 1]

PerSecond == TenTo[Digits]
PerMinute == 60 * PerSecond
PerHour == 60 * PerMinute

-----------------------------------------------------------------------------
\* Mutant: the digits count from the right.
PaddedLeft(fraction) == fraction.value

\* The digits count from the left: ".5" is half a second.
Padded(fraction) == fraction.value * TenTo[Digits - fraction.width]

\* How far local time is ahead of UTC.
Offset(offset) ==
    LET ahead == offset.hours * PerHour + offset.minutes * PerMinute
    IN  IF offset.sign = "-" THEN -ahead ELSE ahead

\* A text with more digits, or without an offset, raises.
IsRfc3339(stamp) == stamp.fraction.width <= Digits /\ stamp.offset.sign \in {"+", "-", "Z"}
ParseRfc3339(stamp) ==
    stamp.seconds * PerSecond + Padded(stamp.fraction) - Offset(stamp.offset)

\* What RFC 3339 says that a text means: its clock, which is its offset ahead of UTC,
\* shows a whole number of seconds and a decimal fraction of one.
Denotes(stamp, instant) ==
    LET minutes == 60 * stamp.offset.hours + stamp.offset.minutes
        ahead == IF stamp.offset.sign = "-" THEN -60 * minutes ELSE 60 * minutes
        rest == instant + ahead * PerSecond - stamp.seconds * PerSecond
    IN  /\ stamp.seconds \in Int /\ stamp.offset.hours \in Nat /\ stamp.offset.minutes \in Nat
        /\ stamp.fraction.value \in Nat /\ stamp.fraction.width \in 0..Digits
        /\ stamp.fraction.value * PerSecond = rest * TenTo[stamp.fraction.width]

IsPlausible(instant) == MinPlausible <= instant /\ instant <= MaxPlausible
=============================================================================
