\* A daemon and the Run that forked it.
SPECIFICATION Spec
CONSTANTS
    Runs = {run}
    Fibers = {f1}
    Lexical = {}
    Resources = {}
    Closers = {k1}
    Root = root
    Selectors = {"root"}
    Unset = none
CHECK_DEADLOCK FALSE
INVARIANTS DaemonOutlivesRun
