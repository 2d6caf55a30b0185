\* Two racing calls over up to three rows, one of them there before.
CONSTANTS
    Callers = {a, b}
    MaxRows = 3
    MaxAttempts = 3
SPECIFICATION OAuthFairSpec
INVARIANTS
    UsableSurvives
    LastHandoffLives
PROPERTIES
    EveryAuthorizeEnds
CHECK_DEADLOCK FALSE
