\* Safety for every policy: capacities 0 (clamped to 1) and 2, and unbounded.
SPECIFICATION Spec
CONSTANTS
    Callers = {c1, c2, c3}
    Capacities = {0, 2}
    Limits = {0, 2}
    MaxOffers = 4
SYMMETRY Interchangeable
INVARIANTS TypeOK WaitersJustified ValuesAccountedFor
PROPERTIES ImplementsChannel
