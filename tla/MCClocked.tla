----------------------------- MODULE MCClocked -----------------------------
(***************************************************************************)
(* Clocked with small policies, allowances and caches; see MCClocked.cfg.  *)
(***************************************************************************)
EXTENDS Clocked, Schedule

Both == Fibers
One == {CHOOSE f \in Fibers : TRUE}

\* Interpreted twice at once.
Shared == {Recurring("repeat", Recurs(1), Both)}

Chosen == {
    Exponential(1, 3), Fibonacci(2, 3), WhileInput(Spaced(1)),
    IntersectSchedules(Recurs(2), Exponential(2, 3)),
    UnionSchedules(Recurs(1), WhileOutput(2, Spaced(1))),
    IntersectSchedules(UpTo(2), MapOutput(Spaced(-1))),
    Jittered(1, NotANumber, IntersectSchedules(Recurs(1), Spaced(3))),
    Jittered(-1, 4, WhileOutput(1, Spaced(2))),
    Stop}

\* What a driver has become after k steps, the first of them at time first.
RECURSIVE Started(_, _, _)
Started(p, k, first) ==
    IF k = 0 THEN p ELSE StepOf(Started(p, k - 1, first), first, "value", 0).driver

MCPlans ==
    Shared
      \cup {Recurring("retry", p, One) : p \in Chosen}
      \cup {Recurring("retryCause", WhileInput(Recurs(1)), One), Recurring("retryOrElse", Recurs(1), One)}
      \cup {Recurring("repeat", p, One) : p \in {WhileInput(Forever), UnionSchedules(Recurs(1), UpTo(1))}}
      \cup {Limited(Allowance("api", 1, 2), 1, One), Limited(Allowance("api", 2, 5), 0, Both),
            Limited(Allowance("api", 3, 3), 1, Both),
            Limited(Allowance("api", 3, 2), 1, One), Limited(Allowance(NoName, 1, 1), 1, One)}
      \cup {Delayed(-1, One), Delayed(2, Both), Cached}
=============================================================================
