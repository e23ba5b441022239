CONSTANTS
    Tasks = {t1, t2}
    CapsuleIds = {c1, c2}
    Bodies = {b1, b2}
    Requests = {r1, r2}
    MaxRevision = 2
    None = None
SPECIFICATION Spec
SYMMETRY Symmetry
INVARIANTS TypeOK HistoryContiguous IdentityStable AckedRecorded ReplayNeverConflicts
PROPERTIES ImplementsLog
