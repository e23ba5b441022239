-------------------------- MODULE MCKnowledgeGraph --------------------------
(* Two pages about one fact: the first is written again for review, and the *)
(* second disputes the first and contradicts its claim by name, supersedes  *)
(* it, or agrees with it.                                                   *)
EXTENDS KnowledgeGraph
CONSTANTS left, right, c, d, src, fact, one, two, p1, q1, q2, q3, x, t

MCClaim(ref, text, old, against) ==
    [ref |-> ref, source |-> src, fact |-> fact, text |-> text,
     supersedes |-> old, contradicts |-> against]

MCPage(slug, flagged, review, claims) ==
    [slug |-> slug, flagged |-> flagged, review |-> review, claims |-> claims]

MCContent ==
    p1 :> MCPage(left, FALSE, TRUE, <<MCClaim(c, one, {}, {})>>)
    @@ q1 :> MCPage(right, FALSE, FALSE, <<MCClaim(d, two, {}, {c})>>)
    @@ q2 :> MCPage(right, FALSE, FALSE, <<MCClaim(d, two, {c}, {})>>)
    @@ q3 :> MCPage(right, TRUE, FALSE, <<MCClaim(d, one, {}, {})>>)

MCDependent == {<<x, left>>}
MCEvidence == {<<c, t>>}

Symmetry == Permutations(Syncs)
=============================================================================
