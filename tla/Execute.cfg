\* A slug with three names, two tenants, and the code's number of attempts.
CONSTANTS
    Depth = 3
    Tenants = {t1, t2}
    NoRoute = NoRoute
    MaxAttempts = 6
SPECIFICATION FairSpec
INVARIANTS
    AtMostOneEffect
    BoundedCalls
    SentOnlyIfAllowed
PROPERTIES
    ImplementsOnce
