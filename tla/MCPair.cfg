\* Every composition, also inside another one of its own kind.
SPECIFICATION Spec
CONSTANTS
    Ops = {"ZipPar", "Race", "RaceFirst", "Timeout", "TimeoutFail"}
    CallerReasons = {"caller", "ErrSiblingFailed", "ErrRaceLost", "ErrTimedOut"}
CHECK_DEADLOCK FALSE
INVARIANTS NoRunaway SuccessJustified FailureExplained
PROPERTIES SettledReturns
