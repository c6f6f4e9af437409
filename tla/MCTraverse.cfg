\* Three branches: without a limit, and queueing for two permits.
SPECIFICATION Spec
CONSTANTS
    Total = 3
    Limits = {0, 2}
    CallerReasons = {"caller"}
CHECK_DEADLOCK FALSE
INVARIANTS BranchesContained ResultComplete
PROPERTIES FailureReturns
