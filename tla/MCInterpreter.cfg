\* Every program of two levels, cancelled at any time or never.
SPECIFICATION Spec
CONSTANTS
    Programs <- Deep
    Run = "run"
    Unread = "given"
CHECK_DEADLOCK FALSE
INVARIANTS AmbientRestored HooksRun MeansTheSame
