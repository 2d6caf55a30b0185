\* Three overlapping callers: a late success reopens the gate, and two requests
\* in flight overshoot it.
CONSTANTS
    Callers = {c1, c2, c3}
    Threshold = 3
SPECIFICATION FairSpec
INVARIANTS
    BoundedOvershoot
    OneStrikePerMember
PROPERTIES
    ReopensOnlyOnSuccess
    ClosedIsFinal
    RevokedKeyGoesQuiet
