\* Two deliveries recorded at once beside an older one, over three days, long
\* enough for a day to be sealed.
CONSTANTS
    Recorders = {r1, r2}
    Deliveries = {d, u}
    Unnamed = {u}
    Corrupt = Corrupt
    MaxLimit = 2
    DayLength = 1
    IdleDays = 2
    MaxTime = 2
    MaxRecords = 2
SPECIFICATION Spec
INVARIANTS
    AcknowledgedIsListed
    ListedOnce
    OnlyIdleDaysSealed
SYMMETRY Symmetry
CHECK_DEADLOCK FALSE
