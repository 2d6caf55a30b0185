\* The claim of configure's comment, against one call in flight.
CONSTANTS
    Calls = {c1}
    Toolkits = {gmail}
    Tenants = {alice, bob}
    None = None
SPECIFICATION CacheSpec
INVARIANTS
    OldTenantNeverAnswers
