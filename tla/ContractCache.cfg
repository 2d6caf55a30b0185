\* Three calls about one toolkit (one can hold its lock, one wait for it and one
\* probe) and two tenants for Configure to switch between.  Toolkits share no
\* state, so a second one would only multiply the interleavings.
CONSTANTS
    Calls = {c1, c2, c3}
    Toolkits = {gmail}
    Tenants = {alice, bob}
    None = None
SPECIFICATION CacheFairSpec
INVARIANTS
    IsolatedUnlessRaced
    OneFillPerInvalidation
PROPERTIES
    WaiterAnswered
