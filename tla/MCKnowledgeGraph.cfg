CONSTANTS
    left = left
    right = right
    c = c
    d = d
    src = src
    fact = fact
    one = one
    two = two
    Slugs = {left, right}
    Claims = {c, d}
    RawRefs = {src}
    x = x
    Artifacts = {x}
    Facts = {fact}
    Texts = {one, two}
    p1 = p1
    q1 = q1
    q2 = q2
    q3 = q3
    Versions = {p1, q1, q2, q3}
    Content <- MCContent
    Dependent <- MCDependent
    Anchors = {a}
    Evidence <- MCEvidence
    t = t
    Tasks = {t}
    Syncs = {s1, s2}
    MaxCompiles = 1
    Nil = Nil
SPECIFICATION GraphSpec
SYMMETRY Symmetry
INVARIANTS GraphTypeOK GraphMatchesPages
