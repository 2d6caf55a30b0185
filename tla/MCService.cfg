\* A toolkit with a provider and one without a catalog, two changes from
\* outside and two setup calls.
SPECIFICATION Spec
CONSTANTS
    Toolkits = {"gmail", "zoom"}
    Names = {"gmail", "zoom"}
    Choices = {{"Read"}, {"Write"}, {"Read", "Write", "Admin"}}
    Live <- MCLiveHere
    Routes <- MCRoutes
    Statuses = {"ACTIVE", "EXPIRED", "INITIATED"}
    InitialRows <- MCInitialRows
    Offers <- MCOffers
    Modes = {"classic", "restricted"}
    Setups = {s1, s2}
    MaxChanges = 2
INVARIANTS
    ListingIsEnforced
    OverviewIsTruthful
    RefreshAccountsForAll
    OneModeServed
SYMMETRY MCSymmetry
CHECK_DEADLOCK FALSE
