------------------------------ MODULE Schedule ------------------------------
(***************************************************************************)
(* Recurrence policies: effect/schedule.go, schedule_policy.go,            *)
(* schedule_backoff.go, schedule_composition.go, schedule_jitter.go.       *)
(*                                                                         *)
(* A policy is a tree; a driver is the same tree with the state of one     *)
(* run, so starting a policy is copying it.  The program's callbacks are   *)
(* fixed: Accepts for inputs, a bound for outputs, Transform, and a        *)
(* fraction drawn per decision.                                            *)
(***************************************************************************)
EXTENDS Durations, FiniteSetsExt

Unlimited == -1
Unstarted == -1
Accepts(input) == input \notin {"fatal", "last"}
Transform(output) == output + 100
-----------------------------------------------------------------------------
(* Policies *)

Stop == [op |-> "stop"]
Counting(delay, limit) == [op |-> "count", count |-> 0, delay |-> delay, limit |-> limit]
Forever == Counting(0, Unlimited)
Recurs(count) == Counting(0, count)
Spaced(delay) == Counting(normalizeDuration(delay), Unlimited)
UpTo(limit) == [op |-> "upTo", start |-> Unstarted, limit |-> normalizeDuration(limit)]

Exponential(base, maximum) ==
    LET most == normalizeDuration(maximum)
    IN  [op |-> "exponential", delay |-> Min({normalizeDuration(base), most}), maximum |-> most]

Fibonacci(one, maximum) ==
    LET most == normalizeDuration(maximum)
        first == Min({normalizeDuration(one), most})
    IN  [op |-> "fibonacci", current |-> first, next |-> first, maximum |-> most]

MapOutput(of) == [op |-> "mapOutput", of |-> of]
WhileInput(of) == [op |-> "whileInput", of |-> of]
WhileOutput(below, of) == [op |-> "whileOutput", below |-> below, of |-> of]

Jittered(minimum, maximum, of) ==
    LET least == nonNegativeFactor(minimum)
    IN  [op |-> "jitter", minimum |-> least, of |-> of,
         maximum |-> Max({nonNegativeFactor(maximum), least})]

IntersectSchedules(left, right) == [op |-> "and", left |-> left, right |-> right]
UnionSchedules(left, right) == [op |-> "or", left |-> left, right |-> right]
-----------------------------------------------------------------------------
(* One step of a driver: the decision, and the driver as it is afterwards. *)

continueSchedule(output, delay) ==
    [output |-> output, delay |-> normalizeDuration(delay), continues |-> TRUE]

stopSchedule(output) == [output |-> output, delay |-> 0, continues |-> FALSE]

Stepped(decision, driver) == [decision |-> decision, driver |-> driver]

countStep(s) ==
    Stepped(IF s.limit # Unlimited /\ s.count >= s.limit THEN stopSchedule(s.count)
            ELSE continueSchedule(s.count, s.delay),
            [s EXCEPT !.count = nextCount(@)])

decideElapsed(elapsed, limit) ==
    IF elapsed >= limit THEN stopSchedule(elapsed) ELSE continueSchedule(elapsed, 0)

upToStep(s, time) ==
    IF s.start = Unstarted THEN Stepped(decideElapsed(0, s.limit), [s EXCEPT !.start = time])
    ELSE Stepped(decideElapsed(normalizeDuration(time - s.start), s.limit), s)

exponentialStep(s) ==
    Stepped(continueSchedule(s.delay, s.delay),
            [s EXCEPT !.delay = doubleWithin(@, s.maximum)])

fibonacciStep(s) ==
    Stepped(continueSchedule(s.current, s.current),
            [s EXCEPT !.current = s.next, !.next = addWithin(s.current, @, s.maximum)])

\* WhileInput and WhileOutput: the step was taken, its decision is overruled.
Overruled(decision, accepted) ==
    IF accepted THEN decision ELSE [decision EXCEPT !.continues = FALSE, !.delay = 0]

jitterStep(s, decision, fraction) ==
    IF ~decision.continues THEN decision
    ELSE [decision EXCEPT !.delay =
            scaleDuration(@, s.minimum, s.maximum, normalizeFraction(fraction))]

andScheduleStep(left, right) ==
    LET output == <<left.output, right.output>>
    IN  IF ~left.continues \/ ~right.continues THEN stopSchedule(output)
        ELSE continueSchedule(output, Max({left.delay, right.delay}))

activeMinimumDelay(left, right) ==
    IF ~left.continues THEN right.delay
    ELSE IF ~right.continues THEN left.delay
    ELSE Min({left.delay, right.delay})

orScheduleStep(left, right) ==
    LET output == <<left.output, right.output, left.continues, right.continues>>
    IN  IF ~left.continues /\ ~right.continues THEN stopSchedule(output)
        ELSE continueSchedule(output, activeMinimumDelay(left, right))

RECURSIVE StepOf(_, _, _, _)
StepOf(s, time, input, fraction) ==
    LET Of(part) == StepOf(part, time, input, fraction)
        Within(decision) == Stepped(decision, [s EXCEPT !.of = Of(s.of).driver])
        inner == Of(s.of).decision
        Both(decision) ==
            Stepped(decision, [s EXCEPT !.left = Of(@).driver, !.right = Of(@).driver])
    IN  CASE s.op = "stop" -> Stepped(stopSchedule("unit"), s)
          [] s.op = "count" -> countStep(s)
          [] s.op = "upTo" -> upToStep(s, time)
          [] s.op = "exponential" -> exponentialStep(s)
          [] s.op = "fibonacci" -> fibonacciStep(s)
          [] s.op = "mapOutput" -> Within([inner EXCEPT !.output = Transform(@)])
          [] s.op = "whileInput" -> Within(Overruled(inner, Accepts(input)))
          [] s.op = "whileOutput" -> Within(Overruled(inner, inner.output < s.below))
          [] s.op = "jitter" -> Within(jitterStep(s, inner, fraction))
          [] s.op = "and" -> Both(andScheduleStep(Of(s.left).decision, Of(s.right).decision))
          [] s.op = "or" -> Both(orScheduleStep(Of(s.left).decision, Of(s.right).decision))
-----------------------------------------------------------------------------
(* What a policy means, without a driver: its k-th decision from k, the    *)
(* first and the present time, the input and the fraction.                 *)

Fib[k \in Nat] == IF k < 2 THEN 1 ELSE Fib[k - 1] + Fib[k - 2]

Meant(continues, delay, output) ==
    [continues |-> continues, delay |-> IF continues THEN delay ELSE 0, output |-> output]

RECURSIVE Meaning(_, _, _, _, _, _)
Meaning(p, k, first, time, input, fraction) ==
    LET Of(part) == Meaning(part, k, first, time, input, fraction)
        inner == Of(p.of)
        left == Of(p.left)
        right == Of(p.right)
        share == IF fraction \in 0..2 THEN fraction ELSE IF fraction = 3 THEN 2 ELSE 0
    IN  CASE p.op = "stop" -> Meant(FALSE, 0, "unit")
          [] p.op = "count" -> Meant(p.limit = Unlimited \/ k < p.limit, p.delay, k)
          [] p.op = "upTo" -> Meant(time - first < p.limit, 0, time - first)
          [] p.op = "exponential" ->
                LET d == Min({p.delay * 2 ^ k, p.maximum}) IN Meant(TRUE, d, d)
          [] p.op = "fibonacci" ->
                LET d == Min({p.current * Fib[k], p.maximum}) IN Meant(TRUE, d, d)
          [] p.op = "mapOutput" -> Meant(inner.continues, inner.delay, Transform(inner.output))
          [] p.op = "whileInput" ->
                Meant(inner.continues /\ Accepts(input), inner.delay, inner.output)
          [] p.op = "whileOutput" ->
                Meant(inner.continues /\ inner.output < p.below, inner.delay, inner.output)
          [] p.op = "jitter" ->
                Meant(inner.continues,
                      Min({(inner.delay * (2 * p.minimum + share * (p.maximum - p.minimum))) \div 4,
                           MaxDuration}), inner.output)
          [] p.op = "and" ->
                Meant(left.continues /\ right.continues, Max({left.delay, right.delay}),
                      <<left.output, right.output>>)
          [] p.op = "or" ->
                Meant(left.continues \/ right.continues,
                      Min({d.delay : d \in {e \in {left, right} : e.continues}} \cup
                          IF left.continues \/ right.continues THEN {} ELSE {0}),
                      <<left.output, right.output, left.continues, right.continues>>)
=============================================================================
