CONSTANTS
    request = request
    codex = codex
    Runs = {r1, r2}
    Sessions = {s1}
    Names <- MCNames
    NameOf <- MCNameOf
    Streams = {"stdout", "stderr"}
    MaxChunks = 3
    HighWater = 1
    MaxFaults = 2
    None = None
SPECIFICATION FairSpec
CHECK_DEADLOCK FALSE
CONSTRAINT OneServiceAtATime
INVARIANTS TypeOK AnswerAccountsForContainer ClosedSessionRemoved ExitIsComplete
PROPERTIES EveryHandEnds
