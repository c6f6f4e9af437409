----------------------------- MODULE Durations -----------------------------
(***************************************************************************)
(* Durations and counts, with the widths they have in the program:         *)
(* effect/schedule_policy.go, schedule_backoff.go, schedule_jitter.go.     *)
(***************************************************************************)
EXTENDS Integers

CONSTANTS
    MaxDuration,    \* 2^63 - 1 in the program
    MaxCount        \* 2^64 - 1 in the program

ASSUME WidthAssumption == MaxDuration \in Nat \ {0} /\ MaxCount \in Nat \ {0}

\* What the width keeps of a duration.
Wrapped(d) == ((d + MaxDuration + 1) % (2 * (MaxDuration + 1))) - MaxDuration - 1

\* A fraction the program draws, in halves; its factors are in halves too.
NotANumber == 99
Fractions == {NotANumber, -1, 0, 1, 2, 3}
-----------------------------------------------------------------------------
normalizeDuration(d) == IF d < 0 THEN 0 ELSE d

addWithin(left, right, maximum) ==
    IF left >= maximum \/ right >= Wrapped(maximum - left) THEN maximum
    ELSE Wrapped(left + right)

\* FAULT: the double is compared once it has overflowed.
DoubleThenCompare(value, maximum) ==
    LET double == Wrapped(2 * value) IN IF double > maximum THEN maximum ELSE double

doubleWithin(value, maximum) ==
    IF value >= maximum \/ value > Wrapped(maximum - value) THEN maximum
    ELSE Wrapped(2 * value)

nextCount(count) == IF count = MaxCount THEN MaxCount ELSE count + 1

nonNegativeFactor(factor) == IF factor = NotANumber \/ factor < 0 THEN 0 ELSE factor

normalizeFraction(fraction) ==
    IF fraction = NotANumber \/ fraction < 0 THEN 0
    ELSE IF fraction > 2 THEN 2 ELSE fraction

\* d times minimum + fraction * (maximum - minimum), saturating.
scaleDuration(d, minimum, maximum, fraction) ==
    LET nanos == (normalizeDuration(d) * (2 * minimum + fraction * (maximum - minimum))) \div 4
    IN  IF nanos > MaxDuration THEN MaxDuration ELSE nanos
=============================================================================
