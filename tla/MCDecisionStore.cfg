CONSTANTS
    soft = soft
    hard = hard
    Intents <- MCIntents
    Hard <- MCHard
    Offered = {"YES", "NO", "DEFER"}
    Evidence = {e1}
    Requests = {r1, r2}
    None = None
SPECIFICATION Spec
SYMMETRY Symmetry
INVARIANTS TypeOK OpenedOnce AnsweredAudited PromptShowsRow
PROPERTIES ImplementsLedger
