\* Two instances copy two streams of up to three events in pages of two, with one
\* legacy event, one new event and one fault anywhere in between.
CONSTANTS
    Openers = {a, b}
    NumDays = 2
    PageSize = 2
    MaxSource = 3
    MaxLegacy = 1
    MaxRecords = 1
    MaxFaults = 1
SPECIFICATION FairSpec
INVARIANTS
    CopyThenNew
    DoneMeansCopied
PROPERTIES
    LeavesNothingBehind
    EveryOpenerOpens
CHECK_DEADLOCK FALSE
