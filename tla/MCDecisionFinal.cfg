CONSTANTS
    soft = soft
    hard = hard
    Intents <- MCIntents
    Hard <- MCHard
    Offered = {"YES", "NO"}
    Evidence = {}
    Requests = {r1, r2}
    None = None
SPECIFICATION Spec
SYMMETRY Symmetry
INVARIANTS OneFinalAnswer
