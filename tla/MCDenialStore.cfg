CONSTANTS
    ConsecutiveLimit = 2
    TotalLimit = 3
    Requests = {r1, r2}
    MaxTotal = 3
    None = None
SPECIFICATION FairSpec
INVARIANTS TypeOK RecurrenceKept
PROPERTIES ImplementsLedger EveryRequestEnds
