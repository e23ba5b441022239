CONSTANTS
    Decisions = {d1}
    Hard = {}
    Shared = {d1}
    Offered = {"YES", "DEFER"}
    MaxProcessed = 1
    MaxPresses = 2
    MaxMessages = 1
    MaxDays = 1
    MaxFaults = 2
    None = None
SPECIFICATION FairSpec
PROPERTIES UpdatesConfirmed
