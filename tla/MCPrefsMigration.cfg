\* Two instances race over up to three legacy rows, one to a page, one
\* of which has an id that is no key, with one legacy write, one
\* user's choice and one fault anywhere in between.
CONSTANTS
    Openers = {a, b}
    gmail = gmail
    escaped = escaped
    Keys = {1, 2, 3}
    Ids <- MCIds
    legacy_key <- MClegacy_key
    Bodies = {x, y}
    None = None
    PageSize = 1
    MaxLegacy = 1
    MaxSets = 1
    MaxFaults = 1
SPECIFICATION FairSpec
INVARIANTS
    CopyFollowsSource
    DoneMeansMigrated
PROPERTIES
    UserChoiceSurvives
    EveryOpenerOpens
CHECK_DEADLOCK FALSE
