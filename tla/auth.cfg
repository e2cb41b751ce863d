\* One runtime process with two overlapping polls and two attempts to
\* authenticate at a time, and two expiries, crashes or acts of an operator.
SPECIFICATION FairSpec
CONSTANTS
    Polls = {i1, i2}
    Attempts = {a1, a2}
    AutoAuth = TRUE
    MaxEvents = 2
INVARIANTS
    NeverStranded
PROPERTIES
    Calms
CHECK_DEADLOCK FALSE
