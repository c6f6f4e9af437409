\* Every way to start a fiber, and the runtime may be closed meanwhile.
SPECIFICATION Spec
CONSTANTS
    Runs = {run}
    Fibers = {f1, f2}
    Lexical = {}
    Resources = {r1, r2}
    Closers = {k1}
    Root = root
    Selectors = {"current", "root", "handle"}
    Unset = none
SYMMETRY Interchangeable
CHECK_DEADLOCK FALSE
INVARIANTS TypeOK NoOrphan ReleaseDiscipline
