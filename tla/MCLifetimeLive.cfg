\* Structured programs with lexical scopes: liveness.
SPECIFICATION Spec
CONSTANTS
    Runs = {run}
    Fibers = {f1, f2}
    Lexical = {s1}
    Resources = {r1}
    Closers = {}
    Root = root
    Selectors = {"current"}
    Unset = none
CHECK_DEADLOCK FALSE
PROPERTIES CloseReturns InterruptReturnsInTheEnd
