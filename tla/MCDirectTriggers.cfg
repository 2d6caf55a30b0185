\* Two users' calls over three instances, one row to a page.
CONSTANTS
    a = a
    b = b
    alice = alice
    bob = bob
    conn1 = conn1
    conn2 = conn2
    Callers = {a, b}
    Entity <- MCEntity
    Owner <- MCOwner
    Configs = {x}
    None = None
    PageSize = 1
    MaxPages = 2
    MaxIds = 3
SPECIFICATION Spec
INVARIANTS
    EventsStayHome
    ListingIsComplete
PROPERTIES
    OnlyOwnerDisables
    AnswersTheRightInstance
CHECK_DEADLOCK FALSE
