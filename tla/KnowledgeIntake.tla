-------------------------- MODULE KnowledgeIntake --------------------------
(***************************************************************************)
(* How outside content becomes knowledge: the trust gateway labels it with *)
(* an envelope that inherits from the envelopes of what it was made from,  *)
(* the acquisition checks content against its envelope and keeps it as a   *)
(* raw source with a proposal to compile it, and the compiler lets a page  *)
(* cite raw sources only.                                                  *)
(*                                                                         *)
(* An acquisition reads and writes the database one transaction at a time  *)
(* and the files of the knowledge root in between, without an await: two   *)
(* of them never overlap there.  Any of its calls may fail or its process  *)
(* stop, which can leave the file that was being written torn.  Requests   *)
(* that are refused before they change anything are left out.              *)
(*                                                                         *)
(*   envelopes  per envelope id: its row, or None                          *)
(*   manifest   per source id: what raw/_manifest/<id>.yaml says it holds  *)
(*   data       per content: its file under raw/, at its hash (and suffix, *)
(*              one here)                                                  *)
(*   proposals  per proposal id: proposals/<id>.yaml                       *)
(*   sourceNode, proposalNode, derivedFrom   the rows of the graph         *)
(*   acquired   per project, source and content (the idempotency key):     *)
(*              the proposal its knowledge.source_acquired event names     *)
(*   cited      sources that compiled pages cite                           *)
(*   pc, held   per request: next step and what it works on                *)
(*   lineage    history, per envelope id: the envelopes it comes from      *)
(*   answered   history: the proposals that were answered with success     *)
(*   global     history: the proposals for the shared knowledge            *)
(***************************************************************************)
EXTENDS Integers, FiniteSets, FiniteSetsExt

CONSTANTS Ids,        \* Trust Envelope ids
          Projects,   \* projects
          Contents,   \* content, told apart by its hash
          Rules,      \* rules of the injection probe
          Inspect,    \* per content: the rules it matches
          Sources,    \* raw source ids
          Proposals,  \* proposal ids
          Inputs,     \* bound: the material that is submitted
          Requests,   \* requests in flight
          Torn,       \* a file whose writer stopped in the middle
          None

\* Trust by its risk: TRUSTED_OWNER and TRUSTED_CONTROL_PLANE, AGENT_GENERATED and
\* VERIFIED_EXTERNAL, UNTRUSTED_EXTERNAL, SUSPICIOUS, BLOCKED.
Trusted == 0
Generated == 2
Untrusted == 3
Suspicious == 4
Blocked == 5
Risks == {Trusted, Generated, Untrusted, Suspicious, Blocked}

\* Sensitivity by its risk, PUBLIC to RESTRICTED.
Public == 0
Sensitivities == Public..3

Taints == {"external_content", "agent_generated", "transformed_from_parent",
           "prompt_injection_suspected"}

\* kind: the source is one of _EXTERNAL_SOURCE_KINDS, subagent_output, of Forge itself or unknown;
\* shared: it is acquired for the knowledge that all projects share.
Input == [project : Projects, kind : {"external", "agent", "internal", "other"},
          requested : Risks \cup {None}, content : Contents, sensitivity : Sensitivities,
          shared : BOOLEAN]

Envelope == [project : Projects, trust : Risks, taint : SUBSET Taints,
             sensitivity : Sensitivities, findings : SUBSET Rules, content : Contents,
             parents : SUBSET Ids]

Proposal == [source : Sources, envelope : Ids, status : {"proposed", "quarantined"}]

\* api: POST /trust/ingest; acquire: TrustedKnowledgeAcquisition; file: forge-knowledge ingest.
Held == [by : {"api", "acquire", "file"}, id : Ids \cup {None}, envelope : Envelope \cup {None},
         source : Sources \cup {None}, content : Contents, shared : BOOLEAN,
         proposal : Proposals \cup {None}]

ASSUME InputsAssumption == Inputs \subseteq Input
ASSUME InspectAssumption == Inspect \in [Contents -> SUBSET Rules]
ASSUME NoneAssumption ==
    None \notin Ids \cup Envelope \cup Proposal \cup Held \cup Risks \cup Sources \cup Contents
                    \cup Proposals \cup {Torn, "fresh", "stale"}
ASSUME TornAssumption == Torn \notin Contents \cup {"absent", "whole"}

VARIABLES envelopes, manifest, data, proposals, sourceNode, proposalNode,
          derivedFrom, acquired, cited, pc, held, lineage, answered, global

trustVars == <<envelopes, lineage>>
fileVars == <<manifest, data, proposals>>
graphVars == <<sourceNode, proposalNode, derivedFrom, acquired>>
flowVars == <<pc, held>>
history == <<answered, global>>
vars == <<trustVars, fileVars, graphVars, flowVars, cited, history>>

Steps == {"idle", "select", "record", "ingested", "raw", "data", "manifest", "proposal",
          "source", "node", "edge", "event"}

TypeOK ==
    /\ envelopes \in [Ids -> Envelope \cup {None}]
    /\ manifest \in [Sources -> Contents \cup {None, Torn}]
    /\ data \in [Contents -> {"absent", Torn, "whole"}]
    /\ proposals \in [Proposals -> Proposal \cup {None}]
    /\ sourceNode \subseteq Projects \X Sources
    /\ proposalNode \in [Proposals -> {None, "fresh", "stale"}]
    /\ derivedFrom \subseteq Proposals
    /\ acquired \in [Projects \X Sources \X Contents -> Proposals \cup {None}]
    /\ cited \subseteq Sources
    /\ pc \in [Requests -> Steps]
    /\ held \in [Requests -> Held \cup {None}]
    /\ lineage \in [Ids -> SUBSET Ids]
    /\ answered \subseteq Proposals
    /\ global \subseteq Proposals

Init ==
    /\ envelopes = [e \in Ids |-> None]
    /\ manifest = [s \in Sources |-> None]
    /\ data = [c \in Contents |-> "absent"]
    /\ proposals = [p \in Proposals |-> None]
    /\ sourceNode = {}
    /\ proposalNode = [p \in Proposals |-> None]
    /\ derivedFrom = {}
    /\ acquired = [key \in Projects \X Sources \X Contents |-> None]
    /\ cited = {}
    /\ pc = [r \in Requests |-> "idle"]
    /\ held = [r \in Requests |-> None]
    /\ lineage = [e \in Ids |-> {}]
    /\ answered = {}
    /\ global = {}

-----------------------------------------------------------------------------
\* The trust gateway

SourceTrust(kind) ==
    CASE kind = "internal" -> Trusted
      [] kind = "agent" -> Generated
      [] OTHER -> Untrusted

\* Mutant: only what the probe finds in the content itself.
FindingsOwn(q, P) == Inspect[q.content]

\* What the probe finds, and what was found in the content it is made from.
Findings(q, P) == Inspect[q.content] \cup UNION {envelopes[p].findings : p \in P}

OwnTaint(q, P) ==
    {t \in Taints :
        \/ t = "external_content" /\ q.kind = "external"
        \/ t = "agent_generated" /\ q.kind = "agent"
        \/ t = "transformed_from_parent" /\ P # {}
        \/ t = "prompt_injection_suspected" /\ Findings(q, P) # {}}

Taint(q, P) == OwnTaint(q, P) \cup UNION {envelopes[p].taint : p \in P}

WorstTrust(q, P) ==
    Max({SourceTrust(q.kind)}
            \cup ({q.requested} \ {None})
            \cup {envelopes[p].trust : p \in P}
            \cup (IF Findings(q, P) # {} THEN {Suspicious} ELSE {}))

\* TrustGateway.ingest: the label of q, made from content under the envelopes P.
Label(q, P) ==
    [project     |-> q.project,
     trust       |-> IF "external_content" \in Taint(q, P) /\ WorstTrust(q, P) < Untrusted
                     THEN Untrusted
                     ELSE WorstTrust(q, P),
     taint       |-> Taint(q, P),
     sensitivity |-> Max({q.sensitivity} \cup {envelopes[p].sensitivity : p \in P}),
     findings    |-> Findings(q, P),
     content     |-> q.content,
     parents     |-> P]

\* The parents are recorded, and of the same project.
Derivable(q, P) ==
    \A p \in P : envelopes[p] # None /\ envelopes[p].project = q.project

Goto(r, step) == pc' = [pc EXCEPT ![r] = step]
Drop(r) == held' = [held EXCEPT ![r] = None]
Take(r, h) == held' = [held EXCEPT ![r] = h]

InHand(by) == {held[r].id : r \in {x \in Requests : held[x] # None /\ held[x].by = by}}

\* POST /trust/ingest: owner, control-plane and unknown sources are refused, and no trust
\* can be asked for.  The id is new.
TrustIngest(r) ==
    /\ pc[r] = "idle"
    /\ \E q \in Inputs, P \in SUBSET Ids, e \in Ids \ (InHand("api") \cup InHand("acquire")) :
          /\ envelopes[e] = None
          /\ q.kind \in {"external", "agent"} /\ q.requested = None
          /\ Derivable(q, P)
          /\ Take(r, [by |-> "api", id |-> e, envelope |-> Label(q, P), source |-> None,
                      content |-> q.content, shared |-> FALSE, proposal |-> None])
    /\ Goto(r, "record")
    /\ UNCHANGED <<trustVars, fileVars, graphVars, cited, history>>

\* record_trust_envelope; a row that is there already makes it fail.
RecordEnvelope(r) ==
    /\ pc[r] = "record"
    /\ LET h == held[r]
       IN  /\ envelopes[h.id] = None
           /\ envelopes' = [envelopes EXCEPT ![h.id] = h.envelope]
           /\ lineage' = [lineage EXCEPT
                              ![h.id] = {h.id} \cup UNION {lineage[p] : p \in h.envelope.parents}]
           /\ Goto(r, IF h.by = "api" THEN "ingested" ELSE "raw")
    /\ UNCHANGED <<fileVars, graphVars, held, cited, history>>

\* The trust.ingested event, which nothing reads, and the answer.
AnswerIngest(r) ==
    /\ pc[r] = "ingested"
    /\ Goto(r, "idle")
    /\ Drop(r)
    /\ UNCHANGED <<trustVars, fileVars, graphVars, cited, history>>

-----------------------------------------------------------------------------
\* Acquisition

\* _validate_request; a source URL and a task that differ from the envelope's are refused
\* like a project that differs.
Validated(project, shared, content, envelope) ==
    /\ envelope.project = project
    /\ shared => envelope.sensitivity = Public
    /\ envelope.content = content

\* Content with the envelope that the gateway made for it, which may be recorded already,
\* or its id be bound to another envelope.
Acquire(r) ==
    /\ pc[r] = "idle"
    /\ \E q \in Inputs, P \in SUBSET Ids :
          /\ Derivable(q, P)
          /\ \E label \in {Label(q, P)}, content \in Contents, project \in Projects,
                e \in Ids \ InHand("api"), s \in Sources :
                /\ Validated(project, q.shared, content, label)
                /\ Take(r, [by |-> "acquire", id |-> e, envelope |-> label, source |-> s,
                            content |-> content, shared |-> q.shared, proposal |-> None])
    /\ Goto(r, "select")
    /\ UNCHANGED <<trustVars, fileVars, graphVars, cited, history>>

\* _record_envelope_idempotently: its SELECT.
SelectEnvelope(r) ==
    /\ pc[r] = "select"
    /\ LET h == held[r]
       IN  \/ /\ envelopes[h.id] = None
              /\ Goto(r, "record")
              /\ UNCHANGED held
           \/ /\ envelopes[h.id] = h.envelope
              /\ Goto(r, "raw")
              /\ UNCHANGED held
           \/ /\ envelopes[h.id] \notin {None, h.envelope}
              /\ Goto(r, "idle")
              /\ Drop(r)
    /\ UNCHANGED <<trustVars, fileVars, graphVars, cited, history>>

-----------------------------------------------------------------------------
\* The files of the knowledge root

InFiles(r) == pc[r] \in {"data", "manifest", "proposal"}

\* forge-knowledge ingest: a file, under an envelope reference that is only noted.
IngestFile(r) ==
    /\ pc[r] = "idle"
    /\ \E s \in Sources, c \in Contents :
          Take(r, [by |-> "file", id |-> None, envelope |-> None, source |-> s, content |-> c,
                   shared |-> FALSE, proposal |-> None])
    /\ Goto(r, "raw")
    /\ UNCHANGED <<trustVars, fileVars, graphVars, cited, history>>

\* Mutant: whatever is kept under the id.
KeptAny(h) == manifest[h.source] \notin {None, Torn}

\* add_raw_source finds the source: this content is kept under its id.
Kept(h) == manifest[h.source] = h.content

\* A torn manifest does not parse, and one of other content is not repointed.
ReadManifest(r) ==
    /\ pc[r] = "raw"
    /\ ~\E x \in Requests : InFiles(x)
    /\ LET h == held[r]
       IN  \/ /\ manifest[h.source] = None
              /\ Goto(r, "data")
              /\ UNCHANGED held
           \/ /\ Kept(h) /\ h.by = "acquire"
              /\ Goto(r, "proposal")
              /\ UNCHANGED held
           \/ /\ manifest[h.source] # None
              /\ ~(Kept(h) /\ h.by = "acquire")
              /\ Goto(r, "idle")
              /\ Drop(r)
    /\ UNCHANGED <<trustVars, fileVars, graphVars, cited, history>>

\* A file that is there already is not written again.
WriteData(r) ==
    /\ pc[r] = "data"
    /\ data' = [data EXCEPT ![held[r].content] = IF @ = "absent" THEN "whole" ELSE @]
    /\ Goto(r, "manifest")
    /\ UNCHANGED <<trustVars, manifest, proposals, graphVars, held, cited, history>>

\* Mutant: the manifest holds the envelope where the hash belongs.
WriteManifestSwapped(r) ==
    /\ pc[r] = "manifest"
    /\ manifest' = [manifest EXCEPT ![held[r].source] = held[r].id]
    /\ IF held[r].by = "acquire"
       THEN Goto(r, "proposal") /\ UNCHANGED held
       ELSE Goto(r, "idle") /\ Drop(r)
    /\ UNCHANGED <<trustVars, data, proposals, graphVars, cited, history>>

WriteManifest(r) ==
    /\ pc[r] = "manifest"
    /\ manifest' = [manifest EXCEPT ![held[r].source] = held[r].content]
    /\ IF held[r].by = "acquire"
       THEN Goto(r, "proposal") /\ UNCHANGED held
       ELSE Goto(r, "idle") /\ Drop(r)
    /\ UNCHANGED <<trustVars, data, proposals, graphVars, cited, history>>

\* _make_proposal: quarantined for findings and for a blocked source.
Status(envelope) ==
    IF envelope.findings # {} \/ envelope.trust = Blocked THEN "quarantined" ELSE "proposed"

MadeFor(h) == [source |-> h.source, envelope |-> h.id, status |-> Status(h.envelope)]

SaveProposal(r) ==
    /\ pc[r] = "proposal"
    /\ \E p \in Proposals :
          /\ proposals[p] = None
          /\ proposals' = [proposals EXCEPT ![p] = MadeFor(held[r])]
          /\ Take(r, [held[r] EXCEPT !.proposal = p])
          /\ global' = IF held[r].shared THEN global \cup {p} ELSE global
    /\ Goto(r, "source")
    /\ UNCHANGED <<trustVars, manifest, data, graphVars, cited, answered>>

\* Compiling a page reads every manifest, and refuses sources that have none.
Compile ==
    /\ \A s \in Sources : manifest[s] # Torn
    /\ \E page \in SUBSET {s \in Sources : manifest[s] # None} : cited' = cited \cup page
    /\ UNCHANGED <<trustVars, fileVars, graphVars, flowVars, history>>

-----------------------------------------------------------------------------
\* The graph and the event of an acquisition, and its answer

UpsertSource(r) ==
    /\ pc[r] = "source"
    /\ sourceNode' = sourceNode \cup {<<held[r].envelope.project, held[r].source>>}
    /\ Goto(r, "node")
    /\ UNCHANGED <<trustVars, fileVars, proposalNode, derivedFrom, acquired, held, cited, history>>

UpsertProposal(r) ==
    /\ pc[r] = "node"
    /\ proposalNode' = [proposalNode EXCEPT
                            ![held[r].proposal] =
                                IF proposals[held[r].proposal].status = "quarantined"
                                THEN "stale"
                                ELSE "fresh"]
    /\ Goto(r, "edge")
    /\ UNCHANGED <<trustVars, fileVars, sourceNode, derivedFrom, acquired, held, cited, history>>

AddEdge(r) ==
    /\ pc[r] = "edge"
    /\ derivedFrom' = derivedFrom \cup {held[r].proposal}
    /\ Goto(r, "event")
    /\ UNCHANGED <<trustVars, fileVars, sourceNode, proposalNode, acquired, held, cited, history>>

\* append_event finds the event of an earlier acquisition or inserts it; the acquisition is
\* answered.
AppendAcquired(r) ==
    /\ pc[r] = "event"
    /\ LET h == held[r]
           key == <<h.envelope.project, h.source, h.content>>
       IN  /\ acquired' = IF acquired[key] = None
                          THEN [acquired EXCEPT ![key] = h.proposal]
                          ELSE acquired
           /\ answered' = answered \cup {h.proposal}
    /\ Goto(r, "idle")
    /\ Drop(r)
    /\ UNCHANGED <<trustVars, fileVars, sourceNode, proposalNode, derivedFrom, cited, global>>

-----------------------------------------------------------------------------
\* A call fails or the process stops: the file that is being written may be torn (a
\* torn proposal is a file under an id that nobody knows).
Fail(r) ==
    /\ pc[r] # "idle"
    /\ \/ UNCHANGED fileVars
       \/ /\ pc[r] = "data" /\ data[held[r].content] = "absent"
          /\ data' = [data EXCEPT ![held[r].content] = Torn]
          /\ UNCHANGED <<manifest, proposals>>
       \/ /\ pc[r] = "manifest"
          /\ manifest' = [manifest EXCEPT ![held[r].source] = Torn]
          /\ UNCHANGED <<data, proposals>>
    /\ Goto(r, "idle")
    /\ Drop(r)
    /\ UNCHANGED <<trustVars, graphVars, cited, history>>

Step(r) ==
    \/ TrustIngest(r) \/ RecordEnvelope(r) \/ AnswerIngest(r)
    \/ Acquire(r) \/ SelectEnvelope(r)
    \/ IngestFile(r) \/ ReadManifest(r) \/ WriteData(r) \/ WriteManifest(r) \/ SaveProposal(r)
    \/ UpsertSource(r) \/ UpsertProposal(r) \/ AddEdge(r) \/ AppendAcquired(r)
    \/ Fail(r)

Next == Compile \/ \E r \in Requests : Step(r)

Spec == Init /\ [][Next]_vars

-----------------------------------------------------------------------------
Recorded == {e \in Ids : envelopes[e] # None}
Saved == {p \in Proposals : proposals[p] # None}

\* What an envelope says of its content, at least as severe.
Covers(e, a) ==
    /\ e.project = a.project
    /\ e.trust >= a.trust
    /\ a.taint \subseteq e.taint
    /\ e.sensitivity >= a.sensitivity
    /\ a.findings \subseteq e.findings

\* Trust is not laundered, through any number of derivations and requests: an envelope is as
\* severe as every envelope that its content comes from, whatever is found in any of them
\* quarantines a proposal and makes its node stale, and what is acquired for the shared
\* knowledge is public all the way (TrustGateway.ingest, acquire, _make_proposal).
NothingLaundered ==
    /\ \A e \in Recorded, a \in Ids :
          a \in lineage[e] => a \in Recorded /\ Covers(envelopes[e], envelopes[a])
    /\ \A p \in Saved, a \in Ids :
          a \in lineage[proposals[p].envelope] =>
              /\ Inspect[envelopes[a].content] # {} =>
                    proposals[p].status = "quarantined" /\ proposalNode[p] # "fresh"
              /\ p \in global => envelopes[a].sensitivity = Public

SourcesGrounded ==
    \A s \in Sources :
        /\ s \in cited => manifest[s] \notin {None, Torn}
        /\ manifest[s] \notin {None, Torn} => data[manifest[s]] # "absent"

ProposalsGrounded ==
    \A p \in Saved :
        LET s == proposals[p].source
            e == envelopes[proposals[p].envelope]
        IN  /\ e # None
            /\ manifest[s] = e.content
            /\ proposalNode[p] # None => <<e.project, s>> \in sourceNode
            /\ p \in answered => acquired[<<e.project, s, e.content>>] # None

GraphGrounded ==
    \A p \in Proposals :
        /\ proposalNode[p] # None => p \in Saved
        /\ p \in derivedFrom => proposalNode[p] # None
        /\ p \in answered => p \in derivedFrom

EventsGrounded ==
    \A j \in Projects, s \in Sources, c \in Contents :
        LET p == acquired[<<j, s, c>>]
        IN  p # None =>
               /\ p \in derivedFrom
               /\ proposals[p].source = s
               /\ envelopes[proposals[p].envelope].project = j
               /\ envelopes[proposals[p].envelope].content = c

\* Knowledge is grounded, in spite of failures in any call: pages cite only sources that have
\* a manifest, and a manifest comes after its file; a proposal comes after the manifest of its
\* source, which names the hash that its recorded envelope vouches for, and the rows of the
\* graph come after what they are about; an acquisition that was answered or whose event was
\* recorded left all of them (acquire, add_raw_source, compile_page).  Nothing is said of the
\* bytes in the file: a write that stopped in the middle leaves it torn for good.
Grounded == SourcesGrounded /\ ProposalsGrounded /\ GraphGrounded /\ EventsGrounded
=============================================================================
