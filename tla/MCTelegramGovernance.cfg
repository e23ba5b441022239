CONSTANTS
    Decisions = {d1, d2}
    Hard = {d2}
    Shared = {d1}
    Offered = {"YES", "DEFER"}
    MaxProcessed = 1
    MaxPresses = 2
    MaxMessages = 2
    MaxDays = 1
    MaxFaults = 2
    None = None
SPECIFICATION Spec
INVARIANTS TypeOK ConfirmedAnswered ResolvedOnce OpenCanBePressed
PROPERTIES OpenStaysRegistered
