\* Two publishers, two subscriptions, three values, every policy.
SPECIFICATION Spec
CONSTANTS
    Publishers = {p1, p2}
    Capacity = 1
    Policies = {"BackPressure", "DropNewest", "DropOldest"}
    MaxSubscriptions = 2
    MaxPublishes = 3
SYMMETRY Interchangeable
CHECK_DEADLOCK FALSE
INVARIANTS NoInboxForgotten DeliveryKeepsItsWord NobodyStranded
