-------------------------- MODULE MCKnowledgeIntake -------------------------
(* Confidential web content that coerces tools and an agent's text in one   *)
(* project, an agent's text in another; two requests.                       *)
EXTENDS KnowledgeIntake, TLC
CONSTANTS alpha, beta, web, summary, coercion

MCInspect == (web :> {coercion}) @@ (summary :> {})

MCInput(project, kind, content, sensitivity, shared) ==
    [project |-> project, kind |-> kind, requested |-> None, content |-> content,
     sensitivity |-> sensitivity, shared |-> shared]

MCInputs == {MCInput(alpha, "external", web, 2, FALSE),
             MCInput(alpha, "agent", summary, Public, TRUE),
             MCInput(beta, "agent", summary, Public, FALSE)}

Symmetry == Permutations(Ids) \cup Permutations(Proposals) \cup Permutations(Requests)

\* Acquisitions overlap within alpha.  The API inserts a row under an id that nobody knows
\* before, the command line has the files to itself, and acquisitions of two projects share
\* no more than two of one project do: these are seen while no other request is in flight.
AcquisitionsOverlap ==
    \A r \in Requests :
        held[r] # None /\ (held[r].by # "acquire" \/ held[r].envelope.project = beta) =>
            \A x \in Requests \ {r} : pc[x] = "idle"
=============================================================================
