CONSTANTS
    alpha = alpha
    beta = beta
    web = web
    summary = summary
    coercion = coercion
    Ids = {e1, e2}
    Projects = {alpha, beta}
    Contents = {web, summary}
    Rules = {coercion}
    Inspect <- MCInspect
    Sources = {src}
    Proposals = {p1, p2}
    Inputs <- MCInputs
    Requests = {r1, r2}
    Torn = Torn
    None = None
SPECIFICATION Spec
CONSTRAINT AcquisitionsOverlap
SYMMETRY Symmetry
INVARIANTS TypeOK NothingLaundered Grounded
