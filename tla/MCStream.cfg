\* One failing evaluation, one refused value, one resource that cannot be had.
SPECIFICATION Spec
CONSTANTS
    RefusedValue = 3
    FailingEval = 3
    Plans <- MCPlans
    Broken = {"bad"}
    Capacity = 1
    MaxEvals = 4
CHECK_DEADLOCK FALSE
INVARIANTS MeansItsDescription AsksForNoMore EndMeansReleased
PROPERTIES CancelledRunEnds EndIsTold
