--------------------------- MODULE KnowledgeGraph ---------------------------
(***************************************************************************)
(* Compiled knowledge and its projection into the assurance graph: the     *)
(* compiler writes the metadata of wiki pages, the projector turns them    *)
(* into nodes and edges and marks stale whatever depends on a claim that   *)
(* is superseded, contradicted or due for review, and the Reality Anchors  *)
(* that were recorded for such a claim.                                    *)
(*                                                                         *)
(* A sync is one transaction per node and per edge and one for the         *)
(* propagation, so two syncs, the compiler and the other writers of the    *)
(* graph interleave.  The propagation is one step: what commits while it   *)
(* walks touches single rows and comes before or after it row by row.      *)
(* The metadata directory is read in one step, as one process does.        *)
(*                                                                         *)
(* External, as the code uses them: artifacts (components, tests, docs)    *)
(* that other callers of the repository register as depending on claims.   *)
(*                                                                         *)
(*   meta     per slug: the version of its page in wiki/_meta, or Nil      *)
(*   due      the pages whose review_after has passed                      *)
(*   nodes    per reference: no row, a fresh row or a stale row            *)
(*   edges    the rows of semantic_edges, <<source, relationship, target>> *)
(*   anchors  per anchor: its row, Nil before it is recorded               *)
(*   stage, read, late, next   per sync: next step; the pages it has read, *)
(*            those due then; the next of its writes                       *)
(*   links, seen   history, per sync: the edges of artifacts and the       *)
(*            anchors that were recorded when it began                     *)
(*   compiles      the pages compiled so far, only for the bound           *)
(***************************************************************************)
EXTENDS Integers, FiniteSets, Sequences, SequencesExt

CONSTANTS Slugs,      \* wiki pages, by their reference wiki:<slug>
          Claims,     \* claim references wiki:<slug>#<claim-id>
          RawRefs,    \* raw:<source-id> references
          Artifacts,  \* other nodes of the graph
          Facts,      \* fact keys
          Texts,      \* normalized claim texts
          Versions,   \* bound: the page versions that are compiled
          Content,    \* what each version says
          Dependent,  \* bound: the <<artifact, target>> that are registered
          Anchors,    \* Reality Anchors
          Evidence,   \* bound: the <<claim, task>> that anchors are recorded for
          Tasks,      \* the tasks whose anchors are recorded
          Syncs,      \* syncs in flight
          MaxCompiles,\* bound on compiled pages
          Nil         \* no page, no anchor, no fact key

Refs == Slugs \cup Claims \cup RawRefs \cup Artifacts

Claim == [ref : Claims, source : RawRefs, fact : Facts \cup {Nil}, text : Texts,
          supersedes : SUBSET Claims, contradicts : SUBSET Claims]

\* flagged: the status is REVIEW_DUE or SUPERSEDED; review: it has a review_after.
Page == [slug : Slugs, flagged : BOOLEAN, review : BOOLEAN, claims : Seq(Claim)]

Anchor == [claim : Claims, task : Tasks, stale : BOOLEAN]

\* The relationships along which staleness travels, and the two that it does not.
Propagating == {"contains", "derived_from", "depends_on"}
Edge == Refs \X (Propagating \cup {"supersedes", "contradicts"}) \X Refs

Wiki == {m \in [Slugs -> Versions \cup {Nil}] :
            \A p \in Slugs : m[p] # Nil => Content[m[p]].slug = p}

NoWiki == [p \in Slugs |-> Nil]

ASSUME ContentAssumption == Content \in [Versions -> Page]
ASSUME BoundAssumption ==
    /\ MaxCompiles \in Nat
    /\ Dependent \subseteq Artifacts \X Refs
    /\ Evidence \subseteq Claims \X Tasks
ASSUME NilAssumption == Nil \notin Versions \cup Anchor \cup Facts
ASSUME FiniteAssumption == IsFiniteSet(Refs)

-----------------------------------------------------------------------------
\* What the pages say

Pages(m) == {Content[m[p]] : p \in {p \in Slugs : m[p] # Nil}}

\* A page may repeat a claim id: all its claims are written, the last one is indexed.
Listed(m) == UNION {ToSet(page.claims) : page \in Pages(m)}

Indexed(page) ==
    {page.claims[i] : i \in {i \in DOMAIN page.claims :
        \A j \in DOMAIN page.claims : j > i => page.claims[j].ref # page.claims[i].ref}}

ClaimsOf(m) == UNION {Indexed(page) : page \in Pages(m)}

Superseded(m) == UNION {c.supersedes : c \in ClaimsOf(m)}

Contradicted(m) == UNION {c.contradicts \cup {c.ref} : c \in {d \in ClaimsOf(m) : d.contradicts # {}}}

\* The fact keys of all claims, each with the text of the indexed claim of its reference.
FactIndex(m) ==
    {[cd[1] EXCEPT !.text = cd[2].text] :
        cd \in {cd \in Listed(m) \X ClaimsOf(m) : cd[1].ref = cd[2].ref}}

\* Claims that share a fact key with a claim of another text, superseded ones aside.
Disputed(m) ==
    LET active == {c \in FactIndex(m) : c.fact # Nil /\ c.ref \notin Superseded(m)}
    IN  {c \in active : \E d \in active : d.fact = c.fact /\ d.text # c.text}

Roots(m, d) ==
    {p \in Slugs : m[p] # Nil /\ (Content[m[p]].flagged \/ p \in d)}
        \cup Superseded(m) \cup Contradicted(m)
        \cup {c.ref : c \in Disputed(m)}

-----------------------------------------------------------------------------
\* What a sync writes, in order, one transaction each; a relation is written only if
\* both of its nodes exist.

Node(r) == [kind |-> "node", ref |-> r]
Arc(r, relationship, t) == [kind |-> "edge", edge |-> <<r, relationship, t>>]
Relation(r, relationship, t) == [kind |-> "relation", edge |-> <<r, relationship, t>>]

ClaimWrites(slug, c) ==
    <<Node(c.ref), Arc(slug, "contains", c.ref),
      Node(c.source), Arc(c.ref, "derived_from", c.source)>>

PageWrites(page) ==
    <<Node(page.slug)>>
        \o FlattenSeq([i \in DOMAIN page.claims |-> ClaimWrites(page.slug, page.claims[i])])

\* Sets are written in a fixed order, as the code writes lists in theirs.
RelationWrites(c) ==
    LET to(relationship, targets) ==
            [i \in 1..Cardinality(targets) |-> Relation(c.ref, relationship, SetToSeq(targets)[i])]
    IN  to("supersedes", c.supersedes) \o to("contradicts", c.contradicts)

ConflictWrites(m) ==
    LET disputed == SetToSeq(Disputed(m))
        pairs == {ij \in (DOMAIN disputed) \X (DOMAIN disputed) :
                     /\ ij[1] < ij[2]
                     /\ disputed[ij[1]].fact = disputed[ij[2]].fact}
    IN  SetToSeq({Relation(disputed[ij[1]].ref, "contradicts", disputed[ij[2]].ref) : ij \in pairs})

Writes(m) ==
    LET pages  == SetToSeq(Pages(m))
        claims == SetToSeq(ClaimsOf(m))
    IN  FlattenSeq([i \in DOMAIN pages |-> PageWrites(pages[i])])
            \o FlattenSeq([i \in DOMAIN claims |-> RelationWrites(claims[i])])
            \o ConflictWrites(m)

\* A table; the comparison makes TLC compute it once.
Plan == CHOOSE table \in {[m \in Wiki |-> Writes(m)]} : table = table

-----------------------------------------------------------------------------
VARIABLES meta, due, nodes, edges, anchors, stage, read, late, next, links, seen, compiles

graph == <<nodes, edges, anchors>>
wiki == <<meta, due, compiles>>
syncVars == <<stage, read, late, next, links, seen>>
graphState == <<wiki, graph, syncVars>>

GraphTypeOK ==
    /\ meta \in Wiki
    /\ due \in SUBSET Slugs
    /\ compiles \in 0..MaxCompiles
    /\ nodes \in [Refs -> {"absent", "fresh", "stale"}]
    /\ edges \in SUBSET Edge
    /\ anchors \in [Anchors -> Anchor \cup {Nil}]
    /\ stage \in [Syncs -> {"idle", "sync", "report", "done", "failed"}]
    /\ read \in [Syncs -> Wiki]
    /\ late \in [Syncs -> SUBSET Slugs]
    /\ next \in [Syncs -> Nat] /\ \A s \in Syncs : next[s] \in 1..Len(Plan[read[s]]) + 1
    /\ links \in [Syncs -> SUBSET Edge]
    /\ seen \in [Syncs -> SUBSET Anchors]

GraphInit ==
    /\ meta \in Wiki   \* what was compiled before the first sync
    /\ due = {}
    /\ compiles = 0
    /\ nodes = [r \in Refs |-> "absent"]
    /\ edges = {}
    /\ anchors = [a \in Anchors |-> Nil]
    /\ stage = [s \in Syncs |-> "idle"]
    /\ read = [s \in Syncs |-> NoWiki]
    /\ late = [s \in Syncs |-> {}]
    /\ next = [s \in Syncs |-> 1]
    /\ links = [s \in Syncs |-> {}]
    /\ seen = [s \in Syncs |-> {}]

-----------------------------------------------------------------------------
\* The compiler, the clock, and the other writers of the graph

\* compile_page writes the sidecar of a page over the one there was; a new
\* review_after lies ahead.
CompilePage(v) ==
    LET p == Content[v].slug IN
    /\ compiles < MaxCompiles
    /\ meta[p] # v \/ p \in due
    /\ meta' = [meta EXCEPT ![p] = v]
    /\ due' = due \ {p}
    /\ compiles' = compiles + 1
    /\ UNCHANGED <<graph, syncVars>>

ReviewPasses(p) ==
    /\ meta[p] # Nil /\ Content[meta[p]].review
    /\ p \notin due
    /\ due' = due \cup {p}
    /\ UNCHANGED <<meta, compiles, graph, syncVars>>

\* An artifact is registered once for each thing it depends on.
Register(x, target) ==
    /\ nodes[target] # "absent"
    /\ <<x, "depends_on", target>> \notin edges
    /\ nodes' = [nodes EXCEPT ![x] = "fresh"]
    /\ edges' = edges \cup {<<x, "depends_on", target>>}
    /\ UNCHANGED <<wiki, anchors, syncVars>>

RecordAnchor(a, c, t) ==
    /\ anchors[a] = Nil
    /\ anchors' = [anchors EXCEPT ![a] = [claim |-> c, task |-> t, stale |-> FALSE]]
    /\ UNCHANGED <<wiki, nodes, edges, syncVars>>

-----------------------------------------------------------------------------
\* A sync

\* Mutant: only the direct dependents of a root are marked.
WalkOnce(present, from) ==
    (from \cap present) \cup {e[1] : e \in {f \in edges : f[2] \in Propagating /\ f[3] \in from}}

\* Breadth first from the roots that have a row, backwards along the edges.
Walk(present, from) ==
    LET dependents(S) == {e[1] : e \in {f \in edges : f[2] \in Propagating /\ f[3] \in S}}
        reached[k \in 0..Cardinality(Refs)] ==
            IF k = 0 THEN from \cap present
            ELSE LET nearer == reached[k - 1] IN nearer \cup (dependents(nearer) \cap present)
    IN  reached[Cardinality(Refs)]

ArtifactEdges == {e \in edges : e[1] \in Artifacts}

\* Mutant: a sync goes on where its previous run ended.
BeginAgain(s) ==
    /\ stage[s] \in {"idle", "done", "failed"}
    /\ read' = [read EXCEPT ![s] = meta]
    /\ late' = [late EXCEPT ![s] = due]
    /\ links' = [links EXCEPT ![s] = ArtifactEdges]
    /\ seen' = [seen EXCEPT ![s] = {a \in Anchors : anchors[a] # Nil}]
    /\ stage' = [stage EXCEPT ![s] = "sync"]
    /\ UNCHANGED <<wiki, graph, next>>

Begin(s) ==
    /\ stage[s] \in {"idle", "done", "failed"}
    /\ read' = [read EXCEPT ![s] = meta]
    /\ late' = [late EXCEPT ![s] = due]
    /\ next' = [next EXCEPT ![s] = 1]
    /\ links' = [links EXCEPT ![s] = ArtifactEdges]
    /\ seen' = [seen EXCEPT ![s] = {a \in Anchors : anchors[a] # Nil}]
    /\ stage' = [stage EXCEPT ![s] = "sync"]
    /\ UNCHANGED <<wiki, graph>>

Exists(r) == nodes[r] # "absent"

Writing(s, kind) ==
    /\ stage[s] = "sync"
    /\ next[s] <= Len(Plan[read[s]])
    /\ Plan[read[s]][next[s]].kind = kind
    /\ next' = [next EXCEPT ![s] = @ + 1]
    /\ UNCHANGED <<wiki, anchors, stage, read, late, links, seen>>

\* upsert_semantic_node writes every column, stale included.
UpsertNode(s) ==
    /\ Writing(s, "node")
    /\ nodes' = [nodes EXCEPT ![Plan[read[s]][next[s]].ref] = "fresh"]
    /\ UNCHANGED edges

EnsureEdge(s) ==
    /\ Writing(s, "edge")
    /\ edges' = edges \cup {Plan[read[s]][next[s]].edge}
    /\ UNCHANGED nodes

EnsureRelation(s) ==
    /\ Writing(s, "relation")
    /\ LET e == Plan[read[s]][next[s]].edge
       IN  edges' = IF Exists(e[1]) /\ Exists(e[3]) THEN edges \cup {e} ELSE edges
    /\ UNCHANGED nodes

PropagateStale(s) ==
    /\ stage[s] = "sync" /\ next[s] > Len(Plan[read[s]])
    /\ LET stale == Walk({r \in Refs : Exists(r)}, Roots(read[s], late[s]))
       IN  /\ nodes' = [r \in Refs |-> IF r \in stale THEN "stale" ELSE nodes[r]]
           /\ anchors' = [a \in Anchors |->
                  IF anchors[a] # Nil /\ anchors[a].claim \in stale
                  THEN [anchors[a] EXCEPT !.stale = TRUE] ELSE anchors[a]]
    /\ stage' = [stage EXCEPT ![s] = "report"]
    /\ UNCHANGED <<wiki, edges, read, late, next, links, seen>>

\* The events are appended and the report is returned.
Report(s) ==
    /\ stage[s] = "report"
    /\ stage' = [stage EXCEPT ![s] = "done"]
    /\ UNCHANGED <<wiki, graph, read, late, next, links, seen>>

\* A transaction fails (two syncs insert one row, the database is away) or the
\* process ends: what is committed stays.
SyncFails(s) ==
    /\ stage[s] \in {"sync", "report"}
    /\ stage' = [stage EXCEPT ![s] = "failed"]
    /\ read' = [read EXCEPT ![s] = NoWiki]
    /\ late' = [late EXCEPT ![s] = {}]
    /\ next' = [next EXCEPT ![s] = 1]
    /\ links' = [links EXCEPT ![s] = {}]
    /\ seen' = [seen EXCEPT ![s] = {}]
    /\ UNCHANGED <<wiki, graph>>

Sync(s) ==
    \/ Begin(s) \/ UpsertNode(s) \/ EnsureEdge(s) \/ EnsureRelation(s)
    \/ PropagateStale(s) \/ Report(s) \/ SyncFails(s)

GraphNext ==
    \/ \E v \in Versions : CompilePage(v)
    \/ \E p \in Slugs : ReviewPasses(p)
    \/ \E dependency \in Dependent : Register(dependency[1], dependency[2])
    \/ \E a \in Anchors, basis \in Evidence : RecordAnchor(a, basis[1], basis[2])
    \/ \E s \in Syncs : Sync(s)

GraphSpec == GraphInit /\ [][GraphNext]_graphState

-----------------------------------------------------------------------------
\* Properties

\* The references that rest on a root: the least set that holds the roots and
\* is closed under following an edge backwards.
Rests(roots, r) ==
    \A S \in SUBSET {n \in Refs : Exists(n)} :
        /\ roots \cap {n \in Refs : Exists(n)} \subseteq S
        /\ \A e \in edges : e[2] \in Propagating /\ e[3] \in S => e[1] \in S
        => r \in S

\* Every sync that ever began has finished its latest run, and has read the
\* pages as they are now and seen the artifacts there are now.
Quiescent ==
    /\ \E s \in Syncs : stage[s] = "done"
    /\ \A s \in Syncs : \/ stage[s] = "idle"
                        \/ /\ stage[s] = "done"
                           /\ read[s] = meta /\ late[s] = due
                           /\ links[s] = ArtifactEdges

Projected == {page.slug : page \in Pages(meta)} \cup {c.ref : c \in ClaimsOf(meta)}

\* When the syncs are over, however they overlapped, the graph says of the
\* pages and of what depends on them what the pages say: a page or a claim is
\* stale exactly if it rests on a superseded, contradicted or review-due
\* reference, every artifact that does is stale, and so are the anchors of such
\* claims that were there when the last sync began (sync_all, _propagate_stale).
GraphMatchesPages ==
    Quiescent =>
        /\ \A r \in Projected : nodes[r] = "stale" <=> Rests(Roots(meta, due), r)
        /\ \A x \in Artifacts : Exists(x) /\ Rests(Roots(meta, due), x) => nodes[x] = "stale"
        /\ \A s \in Syncs : stage[s] = "done" =>
              \A a \in seen[s] : Exists(anchors[a].claim) /\ Rests(Roots(meta, due), anchors[a].claim)
                                     => anchors[a].stale

=============================================================================
