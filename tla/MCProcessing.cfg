\* A delivery sent at 3 and received from well before to well after, with a
\* tolerance of 2; boundaries before, at and after the rows' times.
SPECIFICATION JobSpec
CONSTANTS
    Requests <- MCRequests
    Backlogs <- MCBacklogs
    Envelopes <- MCEnvelopes
    Floors = {1, 2}
    Messages <- MCMessages
    Deliveries <- MCDeliveries
    Sent = 3
    Clock = {0, 1, 3, 5, 6}
    Tolerance = 2
    Secrets = {"", "new", "old", "wrong"}
    Known <- MCKnown
    Named <- MCNamed
INVARIANTS
    PreparedIsStable
    WindowIsExact
    AdviceFitsCause
    AcceptedIffGenuine
    RoutedByItsOwnIds
    VocabularyAgrees
CHECK_DEADLOCK FALSE
