CONSTANTS
    main = main
    task = task
    scope = scope
    Branches = {main, task}
    Scopes = {scope}
    Registered = {scope}
    Operations = {"branch.push", "pr.create"}
    MaxTtl = 1
    Offered <- MCOffered
    Requests = {r1, r2}
    MaxCommit = 2
    MaxTime = 1
    None = None
SPECIFICATION Spec
SYMMETRY Symmetry
INVARIANTS TypeOK TokensRevoked WritesWithinGrant SuccessIsEvidence
