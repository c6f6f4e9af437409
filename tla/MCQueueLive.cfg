\* Liveness, without symmetry, hence with fewer offers.
SPECIFICATION Spec
CONSTANTS
    Callers = {c1, c2, c3}
    Capacities = {1}
    Limits = {0, 2}
    MaxOffers = 2
PROPERTIES ParkedCallsReturn
