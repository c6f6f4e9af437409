\* Two fibers on one clock: a policy, an allowance, a delay or a cache they share.
SPECIFICATION Spec
CONSTANTS
    Fibers = {f1, f2}
    MaxTime = 4
    MaxDuration = 3
    MaxCount = 3
    DriverStep <- StepOf
    DriverAfter <- Started
    PolicyDecision <- Meaning
    Plans <- MCPlans
    Keys = {"k1", "k2", "k3"}
    Subjects = {"s1"}
    Lifetimes = {0, 1}
    Most = 2
    MaxAttempts = 3
    MaxTurns = 4
    MaxUses = 4
CHECK_DEADLOCK FALSE
INVARIANTS ClockKeepsTrack PoliciesMeanWhatTheySay OnPolicy ExitTellsTheLastAttempt TurnsKeepTheirDistance NoStaleAnswer
PROPERTIES EvictsLeastRecentlyUsed CancelledSleepReturns
