CONSTANTS
    coding = coding
    Deployments = {d1, d2}
    Discovered = {d1}
    Target <- MCTarget
    Capabilities = {coding}
    Kinds <- MCKinds
    Puts <- MCPuts
    Observations <- MCObservations
    DefaultDelay = 1
    ShortLimit = 1
    MaxAttempts = 2
    Requests = {r1, r2}
    MaxTime = 1
    MaxSignals = 3
    None = None
SPECIFICATION Spec
SYMMETRY Symmetry
PROPERTIES KnownNotDowngraded
