\* A toolkit with a provider and one with a catalog only.
SPECIFICATION Spec
CONSTANTS
    Toolkits = {"gmail", "stripe"}
    Names = {"gmail", "stripe"}
    Choices = {{"Read"}}
    Live <- MCLiveHere
    Routes <- MCRoutes
    Statuses = {"ACTIVE"}
    InitialRows <- MCInitialRows
    Offers <- MCOffers
    Modes = {"classic"}
    Setups = {s1}
    MaxChanges = 1
INVARIANT
    SentWithinCuratedScope
CHECK_DEADLOCK FALSE
