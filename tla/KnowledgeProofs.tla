--------------------------- MODULE KnowledgeProofs ---------------------------
(***************************************************************************)
(* The two halves of the compiled knowledge.                               *)
(*                                                                         *)
(* Intake: trust is not laundered and knowledge is grounded, for any       *)
(* envelopes, projects, sources, contents and number of requests.  Rows,   *)
(* manifests and proposals never change once they are there (Grow), so     *)
(* what a request has read stays true while others take their steps        *)
(* (HandOk).                                                               *)
(*                                                                         *)
(* Graph: when the syncs are over the graph says what the pages say, for   *)
(* any pages, artifacts, anchors and number of syncs.  Every stale row has *)
(* a culprit, a sync that failed, that has yet to write it, or that is     *)
(* over and reached it (Caused); and when no sync is under way or failed,  *)
(* the one that was last to propagate is complete: whatever rests on its   *)
(* roots is marked, unless an artifact was registered since (Marked).      *)
(* That its plan writes every page and claim (PlanIsWrites) and that its   *)
(* walk reaches what rests on a root and nothing else (RestsIsReached) are *)
(* facts about recursive functions, from an induction over the naturals    *)
(* that is stated of a set (NatSetInduction).                              *)
(***************************************************************************)
EXTENDS KnowledgeIntake, KnowledgeGraph, FiniteSetTheorems, SequenceTheorems,
        WellFoundedInduction, TLAPS

\* The findings of an envelope include what the probe finds in its content.
Honest(envelope) == Inspect[envelope.content] \subseteq envelope.findings

Inherits(envelope) ==
    \A p \in envelope.parents : p \in Recorded /\ Covers(envelope, envelopes[p])

\* What a request holds, by the step it is at: h and step are its entries of held and pc.
Shaped(h, step) ==
    /\ h.by = "api" => step \in {"record", "ingested"}
    /\ h.by = "acquire" => step # "ingested"
    /\ h.by = "file" => step \in {"raw", "data", "manifest"}
    /\ h.by # "api" => h.source \in Sources
    /\ h.by # "file" =>
          /\ h.id \in Ids
          /\ h.envelope \in Envelope
          /\ h.envelope.content = h.content
          /\ Honest(h.envelope)
          /\ h.shared => h.envelope.sensitivity = Public
    /\ step \in {"source", "node", "edge", "event"} => h.proposal \in Proposals

Labelled(h, step) ==
    h.by # "file" =>
        /\ Inherits(h.envelope)
        /\ step \notin {"select", "record"} => envelopes[h.id] = h.envelope

Filed(h, step) ==
    /\ step \in {"data", "manifest"} => manifest[h.source] = None
    /\ step = "manifest" => data[h.content] # "absent"
    /\ step \in {"proposal", "source", "node", "edge", "event"} => manifest[h.source] = h.content
    /\ step \in {"source", "node", "edge", "event"} => proposals[h.proposal] = MadeFor(h)

Noted(h, step) ==
    /\ step \in {"node", "edge", "event"} => <<h.envelope.project, h.source>> \in sourceNode
    /\ step \in {"edge", "event"} => proposalNode[h.proposal] # None
    /\ step = "event" => h.proposal \in derivedFrom

HandOk(r) ==
    /\ pc[r] = "idle" <=> held[r] = None
    /\ pc[r] # "idle" =>
          /\ Shaped(held[r], pc[r])
          /\ Labelled(held[r], pc[r])
          /\ Filed(held[r], pc[r])
          /\ Noted(held[r], pc[r])

Alone == \A r, x \in Requests : InFiles(r) /\ InFiles(x) => r = x

Heritage ==
    \A e \in Recorded :
        /\ Honest(envelopes[e])
        /\ \A a \in lineage[e] : a \in Recorded /\ Covers(envelopes[e], envelopes[a])

ProposalsOk ==
    /\ global \subseteq Saved
    /\ \A p \in Saved :
          LET e == envelopes[proposals[p].envelope]
          IN  /\ proposals[p].status = Status(e)
              /\ proposalNode[p] = "fresh" => proposals[p].status = "proposed"
              /\ p \in global => e.sensitivity = Public

IInv ==
    /\ TypeOK
    /\ \A r \in Requests : HandOk(r)
    /\ Alone
    /\ Heritage
    /\ ProposalsOk
    /\ Grounded

\* Rows, manifests and files stay.
Grow ==
    /\ \A e \in Ids : envelopes[e] # None => envelopes'[e] = envelopes[e]
    /\ \A s \in Sources : manifest[s] # None => manifest'[s] = manifest[s]
    /\ \A c \in Contents : data[c] # "absent" => data'[c] # "absent"
    /\ \A p \in Proposals : proposals[p] # None => proposals'[p] = proposals[p]
    /\ \A p \in Proposals : proposalNode[p] # None => proposalNode'[p] # None
    /\ sourceNode \subseteq sourceNode'
    /\ derivedFrom \subseteq derivedFrom'

-----------------------------------------------------------------------------
\* What the gateway's label says

LEMMA MaxRisk ==
    ASSUME NEW S \in SUBSET Risks, S # {}
    PROVE  Max(S) \in S /\ \A x \in S : Max(S) >= x
<1>1. \E m \in S : \A x \in S : m >= x
  <2>1. \A x \in S : x \in {0, 2, 3, 4, 5}
    BY DEF Risks, Trusted, Generated, Untrusted, Suspicious, Blocked
  <2>2. CASE 5 \in S
    BY <2>1, <2>2
  <2>3. CASE 5 \notin S /\ 4 \in S
    BY <2>1, <2>3
  <2>4. CASE 5 \notin S /\ 4 \notin S /\ 3 \in S
    BY <2>1, <2>4
  <2>5. CASE 5 \notin S /\ 4 \notin S /\ 3 \notin S /\ 2 \in S
    BY <2>1, <2>5
  <2>6. CASE 5 \notin S /\ 4 \notin S /\ 3 \notin S /\ 2 \notin S
    BY <2>1, <2>6
  <2> QED BY <2>2, <2>3, <2>4, <2>5, <2>6
<1> QED BY <1>1 DEF Max

LEMMA MaxSensitivity ==
    ASSUME NEW S \in SUBSET Sensitivities, S # {}
    PROVE  Max(S) \in S /\ \A x \in S : Max(S) >= x
<1>1. \E m \in S : \A x \in S : m >= x
  <2>1. \A x \in S : x \in {0, 1, 2, 3}
    BY DEF Sensitivities, Public
  <2>2. CASE 3 \in S
    BY <2>1, <2>2
  <2>3. CASE 3 \notin S /\ 2 \in S
    BY <2>1, <2>3
  <2>4. CASE 3 \notin S /\ 2 \notin S /\ 1 \in S
    BY <2>1, <2>4
  <2>5. CASE 3 \notin S /\ 2 \notin S /\ 1 \notin S
    BY <2>1, <2>5
  <2> QED BY <2>2, <2>3, <2>4, <2>5
<1> QED BY <1>1 DEF Max

LEMMA LabelCovers ==
    ASSUME TypeOK, NEW q \in Inputs, NEW P \in SUBSET Ids, Derivable(q, P)
    PROVE  /\ Label(q, P) \in Envelope
           /\ Label(q, P).content = q.content
           /\ Label(q, P).parents = P
           /\ Honest(Label(q, P))
           /\ Inherits(Label(q, P))
<1> DEFINE risks == {SourceTrust(q.kind)} \cup ({q.requested} \ {None})
                        \cup {envelopes[p].trust : p \in P}
                        \cup (IF Findings(q, P) # {} THEN {Suspicious} ELSE {})
           levels == {q.sensitivity} \cup {envelopes[p].sensitivity : p \in P}
<1>1. /\ q \in Input
      /\ Inspect[q.content] \in SUBSET Rules
  BY InputsAssumption, InspectAssumption DEF Input
<1>2. \A p \in P : envelopes[p] \in Envelope /\ envelopes[p].project = q.project /\ p \in Recorded
  BY DEF TypeOK, Derivable, Recorded
<1>3. /\ Findings(q, P) \in SUBSET Rules
      /\ Inspect[q.content] \subseteq Findings(q, P)
      /\ \A p \in P : envelopes[p].findings \subseteq Findings(q, P)
  BY <1>1, <1>2 DEF Findings, Envelope
<1>4. WorstTrust(q, P) \in Risks /\ \A p \in P : WorstTrust(q, P) >= envelopes[p].trust
  <2>1. SourceTrust(q.kind) \in Risks
    BY DEF SourceTrust, Risks
  <2>2. {q.requested} \ {None} \in SUBSET Risks
    BY <1>1 DEF Input
  <2>3. {envelopes[p].trust : p \in P} \in SUBSET Risks
    BY <1>2 DEF Envelope
  <2>4. Suspicious \in Risks
    BY DEF Risks
  <2>5. risks \in SUBSET Risks /\ risks # {} /\ \A p \in P : envelopes[p].trust \in risks
    BY <2>1, <2>2, <2>3, <2>4
  <2>6. WorstTrust(q, P) = Max(risks)
    BY DEF WorstTrust
  <2> HIDE DEF risks
  <2> QED BY <2>5, <2>6, MaxRisk
<1>5. Label(q, P).trust \in Risks /\ \A p \in P : Label(q, P).trust >= envelopes[p].trust
  <2>1. Label(q, P).trust = IF "external_content" \in Taint(q, P) /\ WorstTrust(q, P) < Untrusted
                            THEN Untrusted
                            ELSE WorstTrust(q, P)
    BY DEF Label
  <2>2. \A p \in P : envelopes[p].trust \in Risks
    BY <1>2 DEF Envelope
  <2>3. \A x \in Risks : x \in Nat
    BY DEF Risks, Trusted, Generated, Untrusted, Suspicious, Blocked
  <2>4. Untrusted \in Risks
    BY DEF Risks
  <2> QED BY <1>4, <2>1, <2>2, <2>3, <2>4
<1>6. /\ Label(q, P).sensitivity \in Sensitivities
      /\ \A p \in P : Label(q, P).sensitivity >= envelopes[p].sensitivity
  <2>1. levels \in SUBSET Sensitivities /\ levels # {}
    BY <1>1, <1>2 DEF Input, Envelope
  <2>2. Label(q, P).sensitivity = Max(levels) /\ \A p \in P : envelopes[p].sensitivity \in levels
    BY DEF Label
  <2> HIDE DEF levels
  <2> QED BY <2>1, <2>2, MaxSensitivity
<1>7. Taint(q, P) \in SUBSET Taints /\ \A p \in P : envelopes[p].taint \subseteq Taint(q, P)
  <2>1. \A p \in P : envelopes[p].taint \in SUBSET Taints
    BY <1>2 DEF Envelope
  <2>2. OwnTaint(q, P) \in SUBSET Taints
    BY DEF OwnTaint
  <2> QED BY <2>1, <2>2 DEF Taint
<1>8. /\ Label(q, P).project = q.project
      /\ Label(q, P).taint = Taint(q, P)
      /\ Label(q, P).findings = Findings(q, P)
      /\ Label(q, P).content = q.content
      /\ Label(q, P).parents = P
  BY DEF Label
<1>9. Label(q, P) \in Envelope
  <2>1. Label(q, P) = [project |-> q.project, trust |-> Label(q, P).trust, taint |-> Taint(q, P),
                       sensitivity |-> Label(q, P).sensitivity, findings |-> Findings(q, P),
                       content |-> q.content, parents |-> P]
    BY DEF Label
  <2>2. q.project \in Projects /\ q.content \in Contents
    BY <1>1 DEF Input
  <2> QED BY <1>3, <1>5, <1>6, <1>7, <2>1, <2>2 DEF Envelope
<1>10. Honest(Label(q, P)) /\ \A p \in P : Covers(Label(q, P), envelopes[p])
  BY <1>2, <1>3, <1>5, <1>6, <1>7, <1>8 DEF Honest, Covers
<1> QED BY <1>2, <1>8, <1>9, <1>10 DEF Inherits

-----------------------------------------------------------------------------
\* What a request relies on stays true while others take their steps.

LEMMA MadeForProposal ==
    ASSUME NEW h \in Held, h.by = "acquire", NEW step, Shaped(h, step)
    PROVE  MadeFor(h) \in Proposal
BY DEF MadeFor, Shaped, Proposal, Status

LEMMA LabelledStays ==
    ASSUME TypeOK, Grow, NEW h \in Held, NEW step, Shaped(h, step), Labelled(h, step)
    PROVE  Labelled(h, step)'
<1> SUFFICES ASSUME h.by # "file" PROVE Labelled(h, step)'
  BY DEF Labelled
<1>1. /\ h.id \in Ids /\ h.envelope \in Envelope
      /\ Inherits(h.envelope)
      /\ step \notin {"select", "record"} => envelopes[h.id] = h.envelope
  BY DEF Shaped, Labelled
<1>2. ASSUME NEW p \in h.envelope.parents
      PROVE  p \in Recorded' /\ Covers(h.envelope, envelopes'[p])
  BY <1>1, <1>2 DEF Inherits, Recorded, Grow
<1>3. Inherits(h.envelope)'
  BY <1>2 DEF Inherits, Covers
<1> QED BY <1>1, <1>3, NoneAssumption DEF Labelled, Grow

LEMMA FiledStays ==
    ASSUME TypeOK, Grow, NEW h \in Held, NEW step, Shaped(h, step), Filed(h, step),
           step \in {"data", "manifest", "proposal"} => manifest' = manifest
    PROVE  Filed(h, step)'
<1>1. h.content \in Contents /\ h.by \in {"api", "acquire", "file"}
  BY DEF Held
<1>2. step \in {"proposal", "source", "node", "edge", "event"} => h.by = "acquire"
  BY <1>1 DEF Shaped
<1>3. step \in {"source", "node", "edge", "event"} => proposals'[h.proposal] = MadeFor(h)
  BY <1>2, MadeForProposal, NoneAssumption DEF Filed, Shaped, Grow
<1>4. step \in {"proposal", "source", "node", "edge", "event"} => manifest'[h.source] = h.content
  BY <1>1, <1>2, NoneAssumption DEF Filed, Shaped, Grow
<1> QED BY <1>1, <1>3, <1>4 DEF Filed, Grow, MadeFor

LEMMA Undisturbed ==
    ASSUME TypeOK, Grow, NEW x \in Requests, HandOk(x),
           held'[x] = held[x], pc'[x] = pc[x], InFiles(x) => manifest' = manifest
    PROVE  HandOk(x)'
<1> SUFFICES ASSUME NEW h, NEW step, held[x] = h, held'[x] = h, pc[x] = step, pc'[x] = step
             PROVE  HandOk(x)'
  OBVIOUS
<1>1. CASE step = "idle"
  BY <1>1 DEF HandOk
<1>2. CASE step # "idle"
  <2>1. h \in Held /\ Shaped(h, step) /\ Labelled(h, step) /\ Filed(h, step) /\ Noted(h, step)
    BY <1>2 DEF HandOk, TypeOK
  <2>2. Labelled(h, step)'
    BY <2>1, LabelledStays
  <2>3. Filed(h, step)'
    BY <2>1, FiledStays DEF InFiles
  <2>4. Noted(h, step)'
    BY <2>1 DEF Noted, Shaped, Grow
  <2>5. h # None
    BY <2>1, NoneAssumption
  <2> QED BY <1>2, <2>1, <2>2, <2>3, <2>4, <2>5 DEF HandOk, Labelled, Filed, Noted
<1> QED BY <1>1, <1>2

LEMMA HandsKept ==
    ASSUME IInv, Grow, NEW r \in Requests, HandOk(r)',
           \A x \in Requests \ {r} : pc'[x] = pc[x] /\ held'[x] = held[x],
           InFiles(r) \/ manifest' = manifest,
           InFiles(r)' => InFiles(r) \/ ~\E x \in Requests : InFiles(x)
    PROVE  (\A x \in Requests : HandOk(x)') /\ Alone'
<1>1. ASSUME NEW x \in Requests PROVE HandOk(x)'
  <2>1. CASE x = r
    BY <2>1
  <2>2. CASE x # r
    <3>1. InFiles(x) => manifest' = manifest
      BY <2>2 DEF IInv, Alone
    <3> QED BY <2>2, <3>1, Undisturbed DEF IInv
  <2> QED BY <2>1, <2>2
<1>2. Alone'
  <2>1. \A x \in Requests \ {r} : InFiles(x)' <=> InFiles(x)
    BY DEF InFiles
  <2> QED BY <2>1 DEF IInv, Alone
<1> QED BY <1>1, <1>2

-----------------------------------------------------------------------------
\* The steps that only move a request on

LEMMA FlowStep ==
    ASSUME IInv, NEW r \in Requests, NEW step \in Steps, NEW h \in Held \cup {None},
           pc' = [pc EXCEPT ![r] = step], held' = [held EXCEPT ![r] = h],
           UNCHANGED <<trustVars, fileVars, graphVars, cited, history>>,
           step = "idle" <=> h = None,
           step # "idle" =>
              /\ Shaped(h, step) /\ Labelled(h, step) /\ Filed(h, step) /\ Noted(h, step),
           step \in {"data", "manifest", "proposal"} => ~\E x \in Requests : InFiles(x)
    PROVE  IInv'
<1>1. /\ pc'[r] = step /\ held'[r] = h
      /\ \A x \in Requests \ {r} : pc'[x] = pc[x] /\ held'[x] = held[x]
  BY DEF IInv, TypeOK
<1>2. /\ UNCHANGED <<envelopes, lineage, manifest, data, proposals, sourceNode, proposalNode>>
      /\ UNCHANGED <<derivedFrom, acquired, cited, answered, global>>
  BY DEF trustVars, fileVars, graphVars, history
<1>3. TypeOK'
  <2>1. pc' \in [Requests -> Steps] /\ held' \in [Requests -> Held \cup {None}]
    BY DEF IInv, TypeOK
  <2> QED BY <1>2, <2>1 DEF IInv, TypeOK
<1>4. Grow
  BY <1>2 DEF Grow
<1>5. HandOk(r)'
  <2>1. step # "idle" => Labelled(h, step)' /\ Filed(h, step)' /\ Noted(h, step)'
    BY <1>2 DEF Labelled, Inherits, Recorded, Covers, Filed, Noted, MadeFor
  <2> QED BY <1>1, <2>1 DEF HandOk, Labelled, Filed, Noted
<1>6. (\A x \in Requests : HandOk(x)') /\ Alone'
  BY <1>1, <1>2, <1>4, <1>5, HandsKept DEF InFiles
<1>7. Heritage' /\ ProposalsOk' /\ Grounded'
  BY <1>2 
          DEF IInv, Heritage, ProposalsOk, Grounded, SourcesGrounded, ProposalsGrounded,
              GraphGrounded, EventsGrounded, Recorded, Saved, Covers, Honest, Status
<1> QED BY <1>3, <1>6, <1>7 DEF IInv

LEMMA TrustIngestStep ==
    ASSUME IInv, NEW r \in Requests, TrustIngest(r)
    PROVE  IInv'
<1>1. PICK q \in Inputs, P \in SUBSET Ids, e \in Ids :
         /\ envelopes[e] = None
         /\ Derivable(q, P)
         /\ Take(r, [by |-> "api", id |-> e, envelope |-> Label(q, P), source |-> None,
                     content |-> q.content, shared |-> FALSE, proposal |-> None])
  BY DEF TrustIngest
<1> DEFINE h == [by |-> "api", id |-> e, envelope |-> Label(q, P), source |-> None,
                 content |-> q.content, shared |-> FALSE, proposal |-> None]
<1>2. /\ Label(q, P) \in Envelope /\ Label(q, P).content = q.content
      /\ Honest(Label(q, P)) /\ Inherits(Label(q, P))
  BY <1>1, LabelCovers DEF IInv
<1>3. h \in Held /\ h # None
  <2>1. q.content \in Contents
    BY InputsAssumption DEF Input
  <2>2. h \in Held
    BY <1>2, <2>1 DEF Held
  <2> QED BY <2>2, NoneAssumption
<1>4. Shaped(h, "record") /\ Labelled(h, "record") /\ Filed(h, "record") /\ Noted(h, "record")
  BY <1>2 DEF Shaped, Labelled, Filed, Noted
<1> HIDE DEF h
<1> QED BY <1>1, <1>3, <1>4, FlowStep DEF TrustIngest, Take, Goto, Steps, h

LEMMA AcquireStep ==
    ASSUME IInv, NEW r \in Requests, Acquire(r)
    PROVE  IInv'
<1>1. PICK q \in Inputs, P \in SUBSET Ids, e \in Ids, s \in Sources, content \in Contents,
          project \in Projects :
         /\ Derivable(q, P)
         /\ Validated(project, q.shared, content, Label(q, P))
         /\ Take(r, [by |-> "acquire", id |-> e, envelope |-> Label(q, P), source |-> s,
                     content |-> content, shared |-> q.shared, proposal |-> None])
  BY DEF Acquire
<1> DEFINE h == [by |-> "acquire", id |-> e, envelope |-> Label(q, P), source |-> s,
                 content |-> content, shared |-> q.shared, proposal |-> None]
<1>2. /\ Label(q, P) \in Envelope
      /\ Honest(Label(q, P)) /\ Inherits(Label(q, P))
  BY <1>1, LabelCovers DEF IInv
<1>3. /\ Label(q, P).content = content
      /\ q.shared => Label(q, P).sensitivity = Public
  BY <1>1 DEF Validated
<1>4. h \in Held /\ h # None
  <2>1. q.shared \in BOOLEAN
    BY InputsAssumption DEF Input
  <2>2. h \in Held
    BY <1>2, <2>1 DEF Held
  <2> QED BY <2>2, NoneAssumption
<1>5. Shaped(h, "select") /\ Labelled(h, "select") /\ Filed(h, "select") /\ Noted(h, "select")
  BY <1>2, <1>3 DEF Shaped, Labelled, Filed, Noted
<1> HIDE DEF h
<1> QED BY <1>1, <1>4, <1>5, FlowStep DEF Acquire, Take, Goto, Steps, h

LEMMA IngestFileStep ==
    ASSUME IInv, NEW r \in Requests, IngestFile(r)
    PROVE  IInv'
<1>1. PICK s \in Sources, c \in Contents :
         Take(r, [by |-> "file", id |-> None, envelope |-> None, source |-> s, content |-> c,
                  shared |-> FALSE, proposal |-> None])
  BY DEF IngestFile
<1> DEFINE h == [by |-> "file", id |-> None, envelope |-> None, source |-> s, content |-> c,
                 shared |-> FALSE, proposal |-> None]
<1>2. h \in Held /\ h # None
  <2>1. h \in Held
    BY DEF Held
  <2> QED BY <2>1, NoneAssumption
<1>3. Shaped(h, "raw") /\ Labelled(h, "raw") /\ Filed(h, "raw") /\ Noted(h, "raw")
  BY DEF Shaped, Labelled, Filed, Noted
<1> HIDE DEF h
<1> QED BY <1>1, <1>2, <1>3, FlowStep DEF IngestFile, Take, Goto, Steps, h

LEMMA DropStep ==
    ASSUME IInv, NEW r \in Requests, Goto(r, "idle"), Drop(r),
           UNCHANGED <<trustVars, fileVars, graphVars, cited, history>>
    PROVE  IInv'
BY FlowStep DEF Goto, Drop, Steps

LEMMA MoveStep ==
    ASSUME IInv, NEW r \in Requests, NEW step \in Steps, pc[r] # "idle", step # "idle",
           Goto(r, step), UNCHANGED held,
           UNCHANGED <<trustVars, fileVars, graphVars, cited, history>>,
           Shaped(held[r], step), Labelled(held[r], step), Filed(held[r], step),
           Noted(held[r], step),
           step \in {"data", "manifest", "proposal"} => ~\E x \in Requests : InFiles(x)
    PROVE  IInv'
<1>1. held[r] \in Held /\ held[r] # None
  BY DEF IInv, TypeOK, HandOk
<1>2. held' = [held EXCEPT ![r] = held[r]]
  BY DEF IInv, TypeOK
<1> QED BY <1>1, <1>2, FlowStep DEF Goto

LEMMA AnswerIngestStep ==
    ASSUME IInv, NEW r \in Requests, AnswerIngest(r)
    PROVE  IInv'
BY DropStep DEF AnswerIngest

LEMMA SelectEnvelopeStep ==
    ASSUME IInv, NEW r \in Requests, SelectEnvelope(r)
    PROVE  IInv'
<1> DEFINE h == held[r]
<1>1. /\ h \in Held /\ h # None /\ pc[r] = "select"
      /\ Shaped(h, "select") /\ Labelled(h, "select")
      /\ UNCHANGED <<trustVars, fileVars, graphVars, cited, history>>
  BY DEF SelectEnvelope, IInv, HandOk, TypeOK
<1>2. h.by = "acquire"
  BY <1>1 DEF Held, Shaped
<1>3. CASE envelopes[h.id] = None /\ Goto(r, "record") /\ UNCHANGED held
  <2>1. /\ Shaped(h, "record") /\ Labelled(h, "record") /\ Filed(h, "record")
        /\ Noted(h, "record")
    BY <1>1, <1>2 DEF Shaped, Labelled, Filed, Noted
  <2> QED BY <1>1, <1>3, <2>1, MoveStep DEF Steps
<1>4. CASE envelopes[h.id] = h.envelope /\ Goto(r, "raw") /\ UNCHANGED held
  <2>1. Shaped(h, "raw") /\ Labelled(h, "raw") /\ Filed(h, "raw") /\ Noted(h, "raw")
    BY <1>1, <1>2, <1>4 DEF Shaped, Labelled, Filed, Noted
  <2> QED BY <1>1, <1>4, <2>1, MoveStep DEF Steps
<1>5. CASE Goto(r, "idle") /\ Drop(r)
  BY <1>1, <1>5, DropStep
<1> QED BY <1>3, <1>4, <1>5 DEF SelectEnvelope

LEMMA ReadManifestStep ==
    ASSUME IInv, NEW r \in Requests, ReadManifest(r)
    PROVE  IInv'
<1> DEFINE h == held[r]
<1>1. /\ h \in Held /\ h # None /\ pc[r] = "raw"
      /\ Shaped(h, "raw") /\ Labelled(h, "raw")
      /\ ~\E x \in Requests : InFiles(x)
      /\ UNCHANGED <<trustVars, fileVars, graphVars, cited, history>>
  BY DEF ReadManifest, IInv, HandOk, TypeOK
<1>2. CASE manifest[h.source] = None /\ Goto(r, "data") /\ UNCHANGED held
  <2>1. Shaped(h, "data") /\ Labelled(h, "data") /\ Filed(h, "data") /\ Noted(h, "data")
    BY <1>1, <1>2 DEF Shaped, Labelled, Filed, Noted
  <2> QED BY <1>1, <1>2, <2>1, MoveStep DEF Steps
<1>3. CASE Kept(h) /\ h.by = "acquire" /\ Goto(r, "proposal") /\ UNCHANGED held
  <2>1. /\ Shaped(h, "proposal") /\ Labelled(h, "proposal") /\ Filed(h, "proposal")
        /\ Noted(h, "proposal")
    BY <1>1, <1>3 DEF Shaped, Labelled, Filed, Noted, Kept
  <2> QED BY <1>1, <1>3, <2>1, MoveStep DEF Steps
<1>4. CASE Goto(r, "idle") /\ Drop(r)
  BY <1>1, <1>4, DropStep
<1> QED BY <1>2, <1>3, <1>4 DEF ReadManifest

-----------------------------------------------------------------------------
\* The steps that write

LEMMA CoversTransitive ==
    ASSUME NEW e \in Envelope, NEW b \in Envelope, NEW a \in Envelope, Covers(e, b), Covers(b, a)
    PROVE  Covers(e, a)
<1>1. \A x \in Risks \cup Sensitivities : x \in Int
  BY DEF Risks, Trusted, Generated, Untrusted, Suspicious, Blocked, Sensitivities, Public
<1> QED BY <1>1 DEF Covers, Envelope

LEMMA CoversItself ==
    ASSUME NEW e \in Envelope
    PROVE  Covers(e, e)
<1>1. \A x \in Risks \cup Sensitivities : x \in Int
  BY DEF Risks, Trusted, Generated, Untrusted, Suspicious, Blocked, Sensitivities, Public
<1> QED BY <1>1 DEF Covers, Envelope

\* A saved proposal is of a recorded envelope, which stays.
LEMMA SavedEnvelope ==
    ASSUME TypeOK, ProposalsGrounded, NEW p \in Saved
    PROVE  /\ proposals[p] \in Proposal
           /\ proposals[p].source \in Sources
           /\ proposals[p].envelope \in Ids
           /\ envelopes[proposals[p].envelope] \in Envelope
<1>1. proposals[p] \in Proposal
  BY DEF TypeOK, Saved
<1>2. proposals[p].envelope \in Ids /\ proposals[p].source \in Sources
  BY <1>1 DEF Proposal
<1> QED BY <1>1, <1>2 DEF ProposalsGrounded, TypeOK

LEMMA HandMoves ==
    ASSUME NEW r \in Requests, NEW h, NEW step, held'[r] = h, pc'[r] = step,
           h # None, step # "idle",
           Shaped(h, step), Labelled(h, step)', Filed(h, step)', Noted(h, step)'
    PROVE  HandOk(r)'
BY DEF HandOk, Labelled, Filed, Noted

LEMMA RecordEnvelopeStep ==
    ASSUME IInv, NEW r \in Requests, RecordEnvelope(r)
    PROVE  IInv'
<1> SUFFICES ASSUME NEW h, h = held[r], NEW step,
                    step = IF h.by = "api" THEN "ingested" ELSE "raw"
             PROVE  IInv'
  OBVIOUS
<1>1. /\ h \in Held /\ h # None /\ pc[r] = "record"
      /\ Shaped(h, "record") /\ Labelled(h, "record")
  BY DEF RecordEnvelope, IInv, HandOk, TypeOK
<1>2. /\ h.by \in {"api", "acquire"} /\ h.id \in Ids /\ h.envelope \in Envelope
      /\ h.envelope.parents \subseteq Ids
      /\ Honest(h.envelope) /\ Inherits(h.envelope)
  BY <1>1 DEF Held, Shaped, Labelled, Envelope
<1>3. /\ envelopes[h.id] = None
      /\ envelopes' = [envelopes EXCEPT ![h.id] = h.envelope]
      /\ lineage' = [lineage EXCEPT
                         ![h.id] = {h.id} \cup UNION {lineage[p] : p \in h.envelope.parents}]
      /\ pc' = [pc EXCEPT ![r] = step]
      /\ UNCHANGED <<fileVars, graphVars, held, cited, history>>
  BY DEF RecordEnvelope, Goto
<1>4. /\ UNCHANGED <<manifest, data, proposals, sourceNode, proposalNode, held>>
      /\ UNCHANGED <<derivedFrom, acquired, cited, answered, global>>
  BY <1>3 DEF fileVars, graphVars, history
<1>5. /\ envelopes \in [Ids -> Envelope \cup {None}] /\ lineage \in [Ids -> SUBSET Ids]
      /\ pc \in [Requests -> Steps]
  BY DEF IInv, TypeOK
<1>6. TypeOK'
  <2>1. envelopes' \in [Ids -> Envelope \cup {None}]
    BY <1>2, <1>3, <1>5
  <2>2. {h.id} \cup UNION {lineage[p] : p \in h.envelope.parents} \in SUBSET Ids
    BY <1>2, <1>5
  <2>3. lineage' \in [Ids -> SUBSET Ids]
    BY <1>3, <1>5, <2>2
  <2>4. pc' \in [Requests -> Steps]
    BY <1>3, <1>5 DEF Steps
  <2> QED BY <1>4, <2>1, <2>3, <2>4 DEF IInv, TypeOK
<1>7. Grow
  BY <1>3, <1>4, <1>5 DEF Grow
<1>8. HandOk(r)'
  <2>1. Labelled(h, "record")'
    BY <1>1, <1>7, LabelledStays DEF IInv
  <2>2. envelopes'[h.id] = h.envelope /\ pc'[r] = step /\ held'[r] = h
    BY <1>2, <1>3, <1>4, <1>5
  <2>3. Shaped(h, step)
    BY <1>1, <1>2 DEF Shaped
  <2>4. Labelled(h, step)' /\ Filed(h, step)' /\ Noted(h, step)'
    BY <1>2, <2>1, <2>2 DEF Labelled, Filed, Noted
  <2> QED BY <1>1, <2>2, <2>3, <2>4, HandMoves
<1>9. (\A x \in Requests : HandOk(x)') /\ Alone'
  <2>1. ~InFiles(r)'
    BY <1>3, <1>5 DEF InFiles
  <2>2. \A x \in Requests \ {r} : pc'[x] = pc[x] /\ held'[x] = held[x]
    BY <1>3, <1>4, <1>5
  <2> QED BY <1>4, <1>7, <1>8, <2>1, <2>2, HandsKept
<1>10. Heritage'
  <2> SUFFICES ASSUME NEW e \in Recorded'
               PROVE  /\ Honest(envelopes'[e])
                      /\ \A a \in lineage'[e] : a \in Recorded' /\ Covers(envelopes'[e], envelopes'[a])
    BY DEF Heritage, Honest, Covers
  <2>1. \A a \in Recorded : a \in Recorded' /\ envelopes'[a] = envelopes[a] /\ envelopes[a] \in Envelope
    BY <1>5, <1>7 DEF Recorded, Grow
  <2>2. CASE e # h.id
    <3>1. e \in Recorded /\ lineage'[e] = lineage[e]
      BY <1>3, <1>5, <2>2 DEF Recorded
    <3> QED BY <2>1, <3>1 DEF IInv, Heritage
  <2>3. CASE e = h.id
    <3>1. /\ envelopes'[e] = h.envelope
          /\ lineage'[e] = {h.id} \cup UNION {lineage[p] : p \in h.envelope.parents}
      BY <1>2, <1>3, <1>5, <2>3
    <3>2. Covers(h.envelope, envelopes'[e])
      BY <1>2, <3>1, CoversItself
    <3>3. ASSUME NEW p \in h.envelope.parents, NEW a \in lineage[p]
          PROVE  a \in Recorded' /\ Covers(h.envelope, envelopes'[a])
      <4>1. p \in Recorded /\ Covers(h.envelope, envelopes[p])
        BY <1>2, <3>3 DEF Inherits
      <4>2. a \in Recorded /\ Covers(envelopes[p], envelopes[a])
        BY <4>1, <3>3 DEF IInv, Heritage
      <4>3. Covers(h.envelope, envelopes[a])
        BY <1>2, <2>1, <4>1, <4>2, CoversTransitive
      <4> QED BY <2>1, <4>2, <4>3
    <3> QED BY <1>2, <2>3, <3>1, <3>2, <3>3
  <2> QED BY <2>2, <2>3
<1>11. Saved' = Saved /\ \A p \in Saved : envelopes'[proposals[p].envelope] = envelopes[proposals[p].envelope]
  <2>1. ASSUME NEW p \in Saved
        PROVE  envelopes'[proposals[p].envelope] = envelopes[proposals[p].envelope]
    BY <1>7, <2>1, SavedEnvelope, NoneAssumption DEF IInv, Grounded, Grow
  <2> QED BY <1>4, <2>1 DEF Saved
<1>12. ProposalsOk'
  BY <1>4, <1>11 DEF IInv, ProposalsOk, Status
<1>13. ProposalsGrounded'
  BY <1>4, <1>11 DEF IInv, Grounded, ProposalsGrounded
<1>14. EventsGrounded'
  <2> SUFFICES ASSUME NEW j \in Projects, NEW s \in Sources, NEW c \in Contents,
                      acquired[<<j, s, c>>] # None
               PROVE  LET p == acquired[<<j, s, c>>]
                      IN  /\ p \in derivedFrom
                          /\ proposals[p].source = s
                          /\ envelopes'[proposals[p].envelope].project = j
                          /\ envelopes'[proposals[p].envelope].content = c
    BY <1>4 DEF EventsGrounded
  <2>1. acquired[<<j, s, c>>] \in Proposals
    BY DEF IInv, TypeOK
  <2>2. acquired[<<j, s, c>>] \in Saved
    BY <2>1 DEF IInv, Grounded, EventsGrounded, GraphGrounded
  <2> QED BY <1>11, <2>2 DEF IInv, Grounded, EventsGrounded
<1>15. SourcesGrounded' /\ GraphGrounded'
  BY <1>4, <1>11 DEF IInv, Grounded, SourcesGrounded, GraphGrounded
<1> QED BY <1>6, <1>9, <1>10, <1>12, <1>13, <1>14, <1>15 DEF IInv, Grounded

\* Envelopes are not written: what is left to show of a step that writes files or the graph.
LEMMA WriteStep ==
    ASSUME IInv, NEW r \in Requests, NEW step \in Steps,
           pc' = [pc EXCEPT ![r] = step], \A x \in Requests \ {r} : held'[x] = held[x],
           UNCHANGED trustVars, TypeOK', Grow, HandOk(r)', ProposalsOk', Grounded',
           InFiles(r) \/ manifest' = manifest,
           step \in {"data", "manifest", "proposal"} => InFiles(r)
    PROVE  IInv'
<1>1. pc \in [Requests -> Steps]
  BY DEF IInv, TypeOK
<1>2. \A x \in Requests \ {r} : pc'[x] = pc[x] /\ held'[x] = held[x]
  BY <1>1
<1>3. InFiles(r)' => InFiles(r)
  BY <1>1 DEF InFiles
<1>4. (\A x \in Requests : HandOk(x)') /\ Alone'
  BY <1>2, <1>3, HandsKept
<1>5. Heritage'
  BY DEF IInv, Heritage, trustVars, Recorded, Honest, Covers
<1> QED BY <1>4, <1>5 DEF IInv

LEMMA WriteDataStep ==
    ASSUME IInv, NEW r \in Requests, WriteData(r)
    PROVE  IInv'
<1> SUFFICES ASSUME NEW h, h = held[r] PROVE IInv'
  OBVIOUS
<1>1. /\ h \in Held /\ h # None /\ pc[r] = "data"
      /\ Shaped(h, "data") /\ Labelled(h, "data") /\ Filed(h, "data")
  BY DEF WriteData, IInv, HandOk, TypeOK
<1>2. /\ data' = [data EXCEPT ![h.content] = IF @ = "absent" THEN "whole" ELSE @]
      /\ pc' = [pc EXCEPT ![r] = "manifest"]
      /\ UNCHANGED <<envelopes, lineage, manifest, proposals, sourceNode, proposalNode>>
      /\ UNCHANGED <<derivedFrom, acquired, held, cited, answered, global>>
  BY DEF WriteData, Goto, trustVars, graphVars, history
<1>3. /\ data \in [Contents -> {"absent", Torn, "whole"}] /\ pc \in [Requests -> Steps]
      /\ h.content \in Contents
  BY <1>1 DEF IInv, TypeOK, Held
<1>4. TypeOK'
  <2>1. data' \in [Contents -> {"absent", Torn, "whole"}] /\ pc' \in [Requests -> Steps]
    BY <1>2, <1>3 DEF Steps
  <2> QED BY <1>2, <2>1 DEF IInv, TypeOK
<1>5. \A c \in Contents : data[c] # "absent" \/ c = h.content => data'[c] # "absent"
  BY <1>2, <1>3
<1>6. Grow
  BY <1>2, <1>5 DEF Grow
<1>7. HandOk(r)'
  <2>1. held'[r] = h /\ pc'[r] = "manifest"
    BY <1>2, <1>3
  <2>2. Shaped(h, "manifest")
    BY <1>1 DEF Shaped
  <2>3. Labelled(h, "manifest")'
    BY <1>1, <1>2 DEF Labelled, Inherits, Recorded, Covers
  <2>4. Filed(h, "manifest")' /\ Noted(h, "manifest")'
    BY <1>1, <1>2, <1>3, <1>5 DEF Filed, Noted
  <2> QED BY <1>1, <2>1, <2>2, <2>3, <2>4, HandMoves
<1>8. ProposalsOk'
  BY <1>2 DEF IInv, ProposalsOk, Saved, Status
<1>9. SourcesGrounded'
  BY <1>2, <1>5 DEF IInv, TypeOK, Grounded, SourcesGrounded
<1>10. ProposalsGrounded' /\ GraphGrounded' /\ EventsGrounded'
  BY <1>2 DEF IInv, Grounded, ProposalsGrounded, GraphGrounded, EventsGrounded, Saved
<1> QED BY <1>1, <1>2, <1>4, <1>6, <1>7, <1>8, <1>9, <1>10, WriteStep
        DEF Grounded, InFiles, Steps, trustVars

\* What a written manifest leaves: it was the first one of its source.
LEMMA ManifestWritten ==
    ASSUME IInv, NEW s \in Sources, NEW c \in Contents \cup {Torn}, manifest[s] = None,
           manifest' = [manifest EXCEPT ![s] = c], c = Torn \/ data[c] # "absent",
           UNCHANGED <<trustVars, data, proposals, graphVars, cited, history>>
    PROVE  /\ manifest' \in [Sources -> Contents \cup {None, Torn}]
           /\ Grow
           /\ ProposalsOk'
           /\ Grounded'
<1>1. /\ manifest \in [Sources -> Contents \cup {None, Torn}]
      /\ c # None
  BY NoneAssumption DEF IInv, TypeOK
<1>2. /\ UNCHANGED <<envelopes, lineage, data, proposals, sourceNode, proposalNode>>
      /\ UNCHANGED <<derivedFrom, acquired, cited, answered, global>>
  BY DEF trustVars, graphVars, history
<1>3. manifest' \in [Sources -> Contents \cup {None, Torn}]
  BY <1>1
<1>4. manifest'[s] = c /\ \A x \in Sources \ {s} : manifest'[x] = manifest[x]
  BY <1>1
<1>5. Grow
  BY <1>2, <1>4 DEF Grow
<1>6. ProposalsOk'
  BY <1>2 DEF IInv, ProposalsOk, Saved, Status
<1>7. SourcesGrounded'
  BY <1>1, <1>2, <1>4 DEF IInv, Grounded, SourcesGrounded
<1>8. ProposalsGrounded'
  <2> SUFFICES ASSUME NEW p \in Saved
               PROVE  manifest'[proposals[p].source] = envelopes[proposals[p].envelope].content
    BY <1>2 DEF IInv, Grounded, ProposalsGrounded, Saved
  <2>1. /\ proposals[p].source \in Sources
        /\ envelopes[proposals[p].envelope] \in Envelope
    BY SavedEnvelope DEF IInv, Grounded
  <2>2. manifest[proposals[p].source] \in Contents
    BY <2>1 DEF IInv, Grounded, ProposalsGrounded, Envelope
  <2>3. proposals[p].source # s
    BY <2>2, NoneAssumption
  <2> QED BY <1>4, <2>1, <2>3 DEF IInv, Grounded, ProposalsGrounded
<1>9. GraphGrounded' /\ EventsGrounded'
  BY <1>2 DEF IInv, Grounded, GraphGrounded, EventsGrounded, Saved
<1> QED BY <1>3, <1>5, <1>6, <1>7, <1>8, <1>9 DEF Grounded

LEMMA WriteManifestStep ==
    ASSUME IInv, NEW r \in Requests, WriteManifest(r)
    PROVE  IInv'
<1> SUFFICES ASSUME NEW h, h = held[r] PROVE IInv'
  OBVIOUS
<1>1. /\ h \in Held /\ h # None /\ pc[r] = "manifest"
      /\ Shaped(h, "manifest") /\ Labelled(h, "manifest") /\ Filed(h, "manifest")
  BY DEF WriteManifest, IInv, HandOk, TypeOK
<1>2. /\ manifest' = [manifest EXCEPT ![h.source] = h.content]
      /\ UNCHANGED <<trustVars, data, proposals, graphVars, cited, history>>
  BY DEF WriteManifest
<1>3. /\ h.source \in Sources /\ h.content \in Contents
      /\ manifest[h.source] = None /\ data[h.content] # "absent"
      /\ h.by \in {"acquire", "file"}
  BY <1>1 DEF Held, Shaped, Filed
<1>4. /\ manifest' \in [Sources -> Contents \cup {None, Torn}]
      /\ Grow /\ ProposalsOk' /\ Grounded'
  BY <1>2, <1>3, ManifestWritten
<1>5. /\ pc \in [Requests -> Steps] /\ held \in [Requests -> Held \cup {None}]
      /\ manifest'[h.source] = h.content
  BY <1>2, <1>3 DEF IInv, TypeOK
<1>6. CASE h.by = "acquire"
  <2>1. pc' = [pc EXCEPT ![r] = "proposal"] /\ held' = held
    BY <1>6 DEF WriteManifest, Goto
  <2>2. TypeOK'
    <3>1. pc' \in [Requests -> Steps]
      BY <1>5, <2>1 DEF Steps
    <3> QED BY <1>2, <1>4, <2>1, <3>1 DEF IInv, TypeOK, trustVars, graphVars, history
  <2>3. HandOk(r)'
    <3>1. held'[r] = h /\ pc'[r] = "proposal"
      BY <1>5, <2>1
    <3>2. Shaped(h, "proposal")
      BY <1>1, <1>6 DEF Shaped
    <3>3. Labelled(h, "proposal")'
      BY <1>1, <1>2 DEF Labelled, Inherits, Recorded, Covers, trustVars
    <3>4. Filed(h, "proposal")' /\ Noted(h, "proposal")'
      BY <1>5 DEF Filed, Noted
    <3> QED BY <1>1, <3>1, <3>2, <3>3, <3>4, HandMoves
  <2> QED BY <1>1, <1>2, <1>4, <2>1, <2>2, <2>3, WriteStep DEF InFiles, Steps
<1>7. CASE h.by # "acquire"
  <2>1. pc' = [pc EXCEPT ![r] = "idle"] /\ held' = [held EXCEPT ![r] = None]
    BY <1>7 DEF WriteManifest, Goto, Drop
  <2>2. TypeOK'
    <3>1. pc' \in [Requests -> Steps] /\ held' \in [Requests -> Held \cup {None}]
      BY <1>5, <2>1 DEF Steps
    <3> QED BY <1>2, <1>4, <3>1 DEF IInv, TypeOK, trustVars, graphVars, history
  <2>3. HandOk(r)'
    BY <1>5, <2>1 DEF HandOk
  <2>4. \A x \in Requests \ {r} : held'[x] = held[x]
    BY <1>5, <2>1
  <2> QED BY <1>1, <1>2, <1>4, <2>1, <2>2, <2>3, <2>4, WriteStep DEF InFiles, Steps
<1> QED BY <1>6, <1>7

LEMMA SaveProposalStep ==
    ASSUME IInv, NEW r \in Requests, SaveProposal(r)
    PROVE  IInv'
<1>1. PICK p \in Proposals :
         /\ proposals[p] = None
         /\ proposals' = [proposals EXCEPT ![p] = MadeFor(held[r])]
         /\ held' = [held EXCEPT ![r] = [held[r] EXCEPT !.proposal = p]]
         /\ global' = IF held[r].shared THEN global \cup {p} ELSE global
  BY DEF SaveProposal, Take
<1> SUFFICES ASSUME NEW h, h = held[r], NEW g, g = [h EXCEPT !.proposal = p]
             PROVE  IInv'
  OBVIOUS
<1>2. /\ h \in Held /\ h # None /\ pc[r] = "proposal"
      /\ Shaped(h, "proposal") /\ Labelled(h, "proposal") /\ Filed(h, "proposal")
      /\ held \in [Requests -> Held \cup {None}] /\ pc \in [Requests -> Steps]
      /\ proposals \in [Proposals -> Proposal \cup {None}]
  BY DEF SaveProposal, IInv, HandOk, TypeOK
<1>3. /\ h.by = "acquire" /\ h.source \in Sources /\ h.id \in Ids /\ h.envelope \in Envelope
      /\ manifest[h.source] = h.content /\ envelopes[h.id] = h.envelope
      /\ h.envelope.content = h.content
      /\ h.shared => h.envelope.sensitivity = Public
  BY <1>2 DEF Held, Shaped, Filed, Labelled
<1>4. /\ g \in Held /\ g.proposal = p /\ g.by = h.by /\ g.id = h.id /\ g.envelope = h.envelope
      /\ g.source = h.source /\ g.content = h.content /\ g.shared = h.shared
  BY <1>2 DEF Held
<1>5. MadeFor(h) = MadeFor(g) /\ MadeFor(h) \in Proposal /\ MadeFor(h) # None
  <2>1. MadeFor(h) \in Proposal
    BY <1>2, <1>3, MadeForProposal
  <2> QED BY <1>4, <2>1, NoneAssumption DEF MadeFor
<1>6. /\ proposals'[p] = MadeFor(h)
      /\ \A x \in Proposals \ {p} : proposals'[x] = proposals[x]
  BY <1>1, <1>2
<1>7. /\ pc' = [pc EXCEPT ![r] = "source"]
      /\ UNCHANGED <<envelopes, lineage, manifest, data, sourceNode, proposalNode>>
      /\ UNCHANGED <<derivedFrom, acquired, cited, answered>>
  BY DEF SaveProposal, Goto, trustVars, graphVars
<1>8. Saved' = Saved \cup {p} /\ p \notin Saved
  BY <1>1, <1>5, <1>6 DEF Saved
<1>9. TypeOK'
  <2>1. proposals' \in [Proposals -> Proposal \cup {None}]
    BY <1>1, <1>2, <1>5
  <2>2. held' \in [Requests -> Held \cup {None}]
    BY <1>1, <1>2, <1>4
  <2>3. pc' \in [Requests -> Steps]
    BY <1>2, <1>7 DEF Steps
  <2>4. global' \subseteq Proposals
    BY <1>1 DEF IInv, TypeOK
  <2> QED BY <1>7, <2>1, <2>2, <2>3, <2>4 DEF IInv, TypeOK
<1>10. Grow
  BY <1>1, <1>6, <1>7 DEF Grow
<1>11. HandOk(r)'
  <2>1. held'[r] = g /\ pc'[r] = "source" /\ g # None
    BY <1>1, <1>2, <1>4, <1>7, NoneAssumption
  <2>2. Shaped(g, "source")
    BY <1>2, <1>4 DEF Shaped
  <2>3. Labelled(g, "source")'
    BY <1>2, <1>4, <1>7 DEF Labelled, Inherits, Recorded, Covers
  <2>4. Filed(g, "source")' /\ Noted(g, "source")'
    BY <1>3, <1>4, <1>5, <1>6, <1>7 DEF Filed, Noted
  <2> QED BY <2>1, <2>2, <2>3, <2>4, HandMoves
<1>12. proposalNode[p] = None /\ p \notin derivedFrom /\ p \notin answered /\ p \notin global
  BY <1>8 DEF IInv, Grounded, GraphGrounded, ProposalsOk
<1>13. proposals'[p].source = h.source /\ proposals'[p].envelope = h.id
       /\ proposals'[p].status = Status(h.envelope)
  BY <1>6 DEF MadeFor
<1>14. ProposalsOk'
  <2>1. global' \subseteq Saved'
    BY <1>1, <1>8 DEF IInv, ProposalsOk
  <2>2. ASSUME NEW x \in Saved
        PROVE  /\ proposals'[x].status = Status(envelopes[proposals'[x].envelope])
               /\ proposalNode[x] = "fresh" => proposals'[x].status = "proposed"
               /\ x \in global' => envelopes[proposals'[x].envelope].sensitivity = Public
    BY <1>1, <1>6, <1>8 DEF IInv, ProposalsOk, Saved
  <2>3. /\ proposals'[p].status = Status(envelopes[proposals'[p].envelope])
        /\ proposalNode[p] # "fresh"
        /\ p \in global' => envelopes[proposals'[p].envelope].sensitivity = Public
    <3>1. proposalNode[p] # "fresh"
      BY <1>12, NoneAssumption
    <3> QED BY <1>1, <1>3, <1>12, <1>13, <3>1
  <2> QED BY <1>7, <1>8, <2>1, <2>2, <2>3 DEF ProposalsOk, Status
<1>15. SourcesGrounded'
  BY <1>7 DEF IInv, Grounded, SourcesGrounded
<1>16. ProposalsGrounded'
  BY <1>3, <1>6, <1>7, <1>8, <1>12, <1>13, NoneAssumption
     DEF IInv, Grounded, ProposalsGrounded, Saved
<1>17. GraphGrounded'
  BY <1>7, <1>8 DEF IInv, Grounded, GraphGrounded
<1>18. EventsGrounded'
  <2> SUFFICES ASSUME NEW j \in Projects, NEW s \in Sources, NEW c \in Contents,
                      acquired[<<j, s, c>>] # None
               PROVE  LET x == acquired[<<j, s, c>>]
                      IN  /\ x \in derivedFrom
                          /\ proposals'[x].source = s
                          /\ envelopes[proposals'[x].envelope].project = j
                          /\ envelopes[proposals'[x].envelope].content = c
    BY <1>7 DEF EventsGrounded
  <2>1. acquired[<<j, s, c>>] \in derivedFrom /\ acquired[<<j, s, c>>] \in Proposals
    BY DEF IInv, TypeOK, Grounded, EventsGrounded
  <2>2. proposals'[acquired[<<j, s, c>>]] = proposals[acquired[<<j, s, c>>]]
    BY <1>6, <1>12, <2>1
  <2> QED BY <2>2 DEF IInv, Grounded, EventsGrounded
<1> QED BY <1>1, <1>2, <1>7, <1>9, <1>10, <1>11, <1>14, <1>15, <1>16, <1>17, <1>18, WriteStep
        DEF Grounded, InFiles, Steps, trustVars

\* What a request holds once its proposal is saved.
LEMMA LateHand ==
    ASSUME IInv, NEW r \in Requests, NEW h, h = held[r],
           pc[r] \in {"source", "node", "edge", "event"}
    PROVE  /\ h \in Held /\ h # None
           /\ Shaped(h, pc[r]) /\ Labelled(h, pc[r]) /\ Filed(h, pc[r]) /\ Noted(h, pc[r])
           /\ h.by = "acquire" /\ h.source \in Sources /\ h.content \in Contents
           /\ h.envelope \in Envelope /\ h.envelope.content = h.content
           /\ h.proposal \in Saved
           /\ proposals[h.proposal] = MadeFor(h)
           /\ envelopes[proposals[h.proposal].envelope] = h.envelope
<1>1. /\ h \in Held /\ h # None
      /\ Shaped(h, pc[r]) /\ Labelled(h, pc[r]) /\ Filed(h, pc[r]) /\ Noted(h, pc[r])
  BY DEF IInv, HandOk, TypeOK
<1>2. h.by = "acquire" /\ h.source \in Sources /\ h.content \in Contents
      /\ h.envelope \in Envelope /\ h.envelope.content = h.content
      /\ h.proposal \in Proposals /\ proposals[h.proposal] = MadeFor(h)
      /\ envelopes[h.id] = h.envelope
  BY <1>1 DEF Held, Shaped, Filed, Labelled
<1>3. MadeFor(h) \in Proposal /\ MadeFor(h) # None
  <2>1. MadeFor(h) \in Proposal
    BY <1>1, <1>2, MadeForProposal
  <2> QED BY <2>1, NoneAssumption
<1> QED BY <1>1, <1>2, <1>3 DEF Saved, MadeFor

\* A step that adds to the graph: envelopes, files and requests' material stay.
LEMMA GraphStep ==
    ASSUME IInv, NEW r \in Requests, NEW step \in {"node", "edge", "event"},
           pc[r] \in {"source", "node", "edge", "event"},
           pc' = [pc EXCEPT ![r] = step],
           UNCHANGED <<trustVars, fileVars, held, cited, history, acquired>>,
           sourceNode \subseteq sourceNode', sourceNode' \subseteq Projects \X Sources,
           derivedFrom \subseteq derivedFrom', derivedFrom' \subseteq Proposals,
           proposalNode' \in [Proposals -> {None, "fresh", "stale"}],
           \A p \in Proposals : proposalNode[p] # None => proposalNode'[p] # None,
           Noted(held[r], step)', ProposalsOk', Grounded'
    PROVE  IInv'
<1> SUFFICES ASSUME NEW h, h = held[r] PROVE IInv'
  OBVIOUS
<1>1. UNCHANGED <<envelopes, lineage, manifest, data, proposals, acquired, held, cited, answered, global>>
  BY DEF trustVars, fileVars, history
<1>2. TypeOK'
  <2>1. pc' \in [Requests -> Steps]
    BY DEF IInv, TypeOK, Steps
  <2> QED BY <1>1, <2>1 DEF IInv, TypeOK
<1>3. Grow
  BY <1>1 DEF Grow
<1>4. HandOk(r)'
  <2>1. h # None /\ h.proposal \in Proposals
        /\ Shaped(h, pc[r]) /\ Labelled(h, pc[r]) /\ Filed(h, pc[r])
    BY LateHand DEF Saved
  <2>2. held'[r] = h /\ pc'[r] = step
    BY <1>1 DEF IInv, TypeOK
  <2>3. Shaped(h, step)
    BY <2>1 DEF Shaped
  <2>4. Labelled(h, step)'
    BY <1>1, <2>1 DEF Labelled, Inherits, Recorded, Covers
  <2>5. Filed(h, step)'
    BY <1>1, <2>1 DEF Filed, MadeFor
  <2>6. Noted(h, step)'
    BY <1>1 DEF Noted
  <2> QED BY <2>1, <2>2, <2>3, <2>4, <2>5, <2>6, HandMoves
<1> QED BY <1>1, <1>2, <1>3, <1>4, WriteStep DEF Steps

LEMMA UpsertSourceStep ==
    ASSUME IInv, NEW r \in Requests, UpsertSource(r)
    PROVE  IInv'
<1> SUFFICES ASSUME NEW h, h = held[r] PROVE IInv'
  OBVIOUS
<1>1. /\ pc[r] = "source" /\ pc' = [pc EXCEPT ![r] = "node"]
      /\ sourceNode' = sourceNode \cup {<<h.envelope.project, h.source>>}
      /\ UNCHANGED <<trustVars, fileVars, proposalNode, derivedFrom, acquired, held, cited, history>>
  BY DEF UpsertSource, Goto
<1>2. h.envelope \in Envelope /\ h.source \in Sources
  BY <1>1, LateHand
<1>3. sourceNode' \subseteq Projects \X Sources
  BY <1>1, <1>2 DEF IInv, TypeOK, Envelope
<1>4. proposalNode \in [Proposals -> {None, "fresh", "stale"}] /\ derivedFrom \subseteq Proposals
  BY DEF IInv, TypeOK
<1>5. Noted(held[r], "node")'
  BY <1>1 DEF Noted
<1>6. ProposalsOk'
  BY <1>1 DEF IInv, ProposalsOk, Saved, Status, trustVars, fileVars, history
<1>7. Grounded'
  BY <1>1 DEF IInv, Grounded, SourcesGrounded, ProposalsGrounded, GraphGrounded, EventsGrounded,
              Saved, trustVars, fileVars, history
<1> QED BY <1>1, <1>3, <1>4, <1>5, <1>6, <1>7, GraphStep

LEMMA UpsertProposalStep ==
    ASSUME IInv, NEW r \in Requests, UpsertProposal(r)
    PROVE  IInv'
<1> SUFFICES ASSUME NEW h, h = held[r], NEW p, p = h.proposal,
                    NEW node, node = IF proposals[p].status = "quarantined" THEN "stale" ELSE "fresh"
             PROVE  IInv'
  OBVIOUS
<1>1. /\ pc[r] = "node" /\ pc' = [pc EXCEPT ![r] = "edge"]
      /\ proposalNode' = [proposalNode EXCEPT ![p] = node]
      /\ UNCHANGED <<trustVars, fileVars, sourceNode, derivedFrom, acquired, held, cited, history>>
  BY DEF UpsertProposal, Goto
<1>2. /\ p \in Saved /\ p \in Proposals /\ Noted(h, "node")
      /\ proposals[p] = MadeFor(h) /\ envelopes[proposals[p].envelope] = h.envelope
  BY <1>1, LateHand DEF Saved
<1>3. /\ node \in {"fresh", "stale"} /\ node # None
      /\ node = "fresh" => proposals[p].status = "proposed"
  <2>1. proposals[p].status \in {"proposed", "quarantined"}
    BY <1>2 DEF IInv, TypeOK, Saved, Proposal
  <2> QED BY <2>1, NoneAssumption
<1>4. /\ proposalNode \in [Proposals -> {None, "fresh", "stale"}]
      /\ sourceNode \subseteq Projects \X Sources /\ derivedFrom \subseteq Proposals
  BY DEF IInv, TypeOK
<1>5. /\ proposalNode' \in [Proposals -> {None, "fresh", "stale"}]
      /\ proposalNode'[p] = node
      /\ \A x \in Proposals \ {p} : proposalNode'[x] = proposalNode[x]
  BY <1>1, <1>2, <1>3, <1>4
<1>6. \A x \in Proposals : proposalNode[x] # None => proposalNode'[x] # None
  BY <1>3, <1>5
<1>7. Noted(held[r], "edge")'
  BY <1>1, <1>2, <1>3, <1>5 DEF Noted
<1>8. ProposalsOk'
  <2>1. Saved' = Saved /\ Saved \subseteq Proposals
    BY <1>1 DEF Saved, fileVars
  <2>2. \A x \in Saved : proposalNode'[x] = "fresh" => proposals[x].status = "proposed"
    BY <1>3, <1>5, <2>1 DEF IInv, ProposalsOk
  <2> QED BY <1>1, <2>1, <2>2 DEF IInv, ProposalsOk, Status, trustVars, fileVars, history
<1>9. ProposalsGrounded'
  <2>1. <<h.envelope.project, proposals[p].source>> \in sourceNode
    BY <1>2 DEF Noted, MadeFor
  <2>2. \A x \in Saved : proposalNode'[x] # None =>
            <<envelopes[proposals[x].envelope].project, proposals[x].source>> \in sourceNode
    BY <1>2, <1>5, <2>1 DEF IInv, Grounded, ProposalsGrounded, Saved
  <2> QED BY <1>1, <2>2 DEF IInv, Grounded, ProposalsGrounded, Saved, trustVars, fileVars, history
<1>10. GraphGrounded'
  BY <1>1, <1>2, <1>5, <1>6 DEF IInv, Grounded, GraphGrounded, Saved, fileVars, history
<1>11. SourcesGrounded' /\ EventsGrounded'
  BY <1>1 DEF IInv, Grounded, SourcesGrounded, EventsGrounded, trustVars, fileVars
<1> QED BY <1>1, <1>4, <1>5, <1>6, <1>7, <1>8, <1>9, <1>10, <1>11, GraphStep DEF Grounded

LEMMA AddEdgeStep ==
    ASSUME IInv, NEW r \in Requests, AddEdge(r)
    PROVE  IInv'
<1> SUFFICES ASSUME NEW h, h = held[r] PROVE IInv'
  OBVIOUS
<1>1. /\ pc[r] = "edge" /\ pc' = [pc EXCEPT ![r] = "event"]
      /\ derivedFrom' = derivedFrom \cup {h.proposal}
      /\ UNCHANGED <<trustVars, fileVars, sourceNode, proposalNode, acquired, held, cited, history>>
  BY DEF AddEdge, Goto
<1>2. h.proposal \in Proposals /\ Noted(h, "edge")
  BY <1>1, LateHand DEF Saved
<1>3. /\ proposalNode \in [Proposals -> {None, "fresh", "stale"}]
      /\ sourceNode \subseteq Projects \X Sources /\ derivedFrom' \subseteq Proposals
  BY <1>1, <1>2 DEF IInv, TypeOK
<1>4. Noted(held[r], "event")'
  BY <1>1, <1>2 DEF Noted
<1>5. ProposalsOk'
  BY <1>1 DEF IInv, ProposalsOk, Saved, Status, trustVars, fileVars, history
<1>6. GraphGrounded'
  BY <1>1, <1>2 DEF IInv, Grounded, GraphGrounded, Saved, Noted, fileVars, history
<1>7. SourcesGrounded' /\ ProposalsGrounded' /\ EventsGrounded'
  BY <1>1 DEF IInv, Grounded, SourcesGrounded, ProposalsGrounded, EventsGrounded,
              Saved, trustVars, fileVars, history
<1> QED BY <1>1, <1>3, <1>4, <1>5, <1>6, <1>7, GraphStep DEF Grounded

LEMMA AppendAcquiredStep ==
    ASSUME IInv, NEW r \in Requests, AppendAcquired(r)
    PROVE  IInv'
<1> SUFFICES ASSUME NEW h, h = held[r], NEW p, p = h.proposal,
                    NEW key, key = <<h.envelope.project, h.source, h.content>>
             PROVE  IInv'
  OBVIOUS
<1>1. /\ pc[r] = "event" /\ pc' = [pc EXCEPT ![r] = "idle"]
      /\ held' = [held EXCEPT ![r] = None]
      /\ acquired' = IF acquired[key] = None THEN [acquired EXCEPT ![key] = p] ELSE acquired
      /\ answered' = answered \cup {p}
      /\ UNCHANGED <<envelopes, lineage, manifest, data, proposals, sourceNode, proposalNode>>
      /\ UNCHANGED <<derivedFrom, cited, global>>
  BY DEF AppendAcquired, Goto, Drop, trustVars, fileVars
<1>2. /\ h.source \in Sources /\ h.content \in Contents
      /\ h.envelope \in Envelope /\ h.envelope.content = h.content
      /\ p \in Saved /\ p \in Proposals /\ p \in derivedFrom
      /\ proposals[p] = MadeFor(h) /\ envelopes[proposals[p].envelope] = h.envelope
  BY <1>1, LateHand DEF Saved, Noted
<1>3. /\ acquired \in [Projects \X Sources \X Contents -> Proposals \cup {None}]
      /\ pc \in [Requests -> Steps] /\ held \in [Requests -> Held \cup {None}]
  BY DEF IInv, TypeOK
<1>4. key \in Projects \X Sources \X Contents /\ p # None
  BY <1>2, NoneAssumption DEF Envelope
<1>5. /\ acquired' \in [Projects \X Sources \X Contents -> Proposals \cup {None}]
      /\ acquired'[key] # None
      /\ \A k \in Projects \X Sources \X Contents :
            \/ acquired'[k] = acquired[k]
            \/ k = key /\ acquired[k] = None /\ acquired'[k] = p
  BY <1>1, <1>2, <1>3, <1>4
<1>6. TypeOK'
  <2>1. pc' \in [Requests -> Steps] /\ held' \in [Requests -> Held \cup {None}]
    BY <1>1, <1>3 DEF Steps
  <2>2. answered' \subseteq Proposals
    BY <1>1, <1>2 DEF IInv, TypeOK
  <2> QED BY <1>1, <1>5, <2>1, <2>2 DEF IInv, TypeOK
<1>7. Grow
  BY <1>1 DEF Grow
<1>8. HandOk(r)'
  BY <1>1, <1>3 DEF HandOk
<1>9. ProposalsOk'
  BY <1>1 DEF IInv, ProposalsOk, Saved, Status
<1>10. SourcesGrounded'
  BY <1>1 DEF IInv, Grounded, SourcesGrounded
<1>11. proposals[p].source = h.source
  BY <1>2 DEF MadeFor
<1>12. ProposalsGrounded'
  <2> SUFFICES ASSUME NEW x \in Saved, x \in answered'
               PROVE  acquired'[<<envelopes[proposals[x].envelope].project, proposals[x].source,
                                  envelopes[proposals[x].envelope].content>>] # None
    BY <1>1 DEF IInv, Grounded, ProposalsGrounded, Saved
  <2>1. CASE x = p
    BY <1>2, <1>5, <1>11, <2>1
  <2>2. CASE x # p
    <3>1. /\ proposals[x].source \in Sources
          /\ envelopes[proposals[x].envelope] \in Envelope
      BY SavedEnvelope DEF IInv, Grounded
    <3>2. acquired[<<envelopes[proposals[x].envelope].project, proposals[x].source,
                     envelopes[proposals[x].envelope].content>>] # None
      BY <1>1, <2>2 DEF IInv, Grounded, ProposalsGrounded
    <3>3. <<envelopes[proposals[x].envelope].project, proposals[x].source,
            envelopes[proposals[x].envelope].content>> \in Projects \X Sources \X Contents
      BY <3>1 DEF Envelope
    <3> QED BY <1>4, <1>5, <3>2, <3>3
  <2> QED BY <2>1, <2>2
<1>13. GraphGrounded'
  BY <1>1, <1>2 DEF IInv, Grounded, GraphGrounded, Saved
<1>14. EventsGrounded'
  <2>1. ASSUME NEW k \in Projects \X Sources \X Contents, acquired'[k] # None
        PROVE  /\ acquired'[k] \in derivedFrom
               /\ proposals[acquired'[k]].source = k[2]
               /\ envelopes[proposals[acquired'[k]].envelope].project = k[1]
               /\ envelopes[proposals[acquired'[k]].envelope].content = k[3]
    <3>1. CASE acquired'[k] = acquired[k]
      <4>1. PICK j \in Projects, s \in Sources, c \in Contents : k = <<j, s, c>>
        BY <2>1
      <4> QED BY <2>1, <3>1, <4>1 DEF IInv, Grounded, EventsGrounded
    <3>2. CASE k = key /\ acquired'[k] = p
      BY <1>2, <1>11, <3>2
    <3> QED BY <1>5, <3>1, <3>2
  <2>2. UNCHANGED <<derivedFrom, proposals, envelopes>>
    BY <1>1
  <2>3. ASSUME NEW j \in Projects, NEW s \in Sources, NEW c \in Contents,
               acquired'[<<j, s, c>>] # None
        PROVE  /\ acquired'[<<j, s, c>>] \in derivedFrom'
               /\ proposals'[acquired'[<<j, s, c>>]].source = s
               /\ envelopes'[proposals'[acquired'[<<j, s, c>>]].envelope].project = j
               /\ envelopes'[proposals'[acquired'[<<j, s, c>>]].envelope].content = c
    <3>1. <<j, s, c>> \in Projects \X Sources \X Contents
      OBVIOUS
    <3> QED BY <2>1, <2>2, <2>3, <3>1
  <2> QED BY <2>3 DEF EventsGrounded
<1>15. \A x \in Requests \ {r} : held'[x] = held[x]
  BY <1>1, <1>3
<1> QED BY <1>1, <1>6, <1>7, <1>8, <1>9, <1>10, <1>12, <1>13, <1>14, <1>15, WriteStep
        DEF Grounded, Steps, trustVars

LEMMA FailStep ==
    ASSUME IInv, NEW r \in Requests, Fail(r)
    PROVE  IInv'
<1> SUFFICES ASSUME NEW h, h = held[r] PROVE IInv'
  OBVIOUS
<1>1. /\ pc[r] # "idle" /\ Goto(r, "idle") /\ Drop(r)
      /\ UNCHANGED <<trustVars, graphVars, cited, history>>
  BY DEF Fail
<1>2. /\ h \in Held /\ Shaped(h, pc[r]) /\ Filed(h, pc[r])
  BY <1>1 DEF IInv, HandOk, TypeOK
<1>3. /\ pc \in [Requests -> Steps] /\ held \in [Requests -> Held \cup {None}]
      /\ pc' = [pc EXCEPT ![r] = "idle"] /\ held' = [held EXCEPT ![r] = None]
      /\ data \in [Contents -> {"absent", Torn, "whole"}]
  BY <1>1 DEF Goto, Drop, IInv, TypeOK
<1>4. /\ pc' \in [Requests -> Steps] /\ held' \in [Requests -> Held \cup {None}]
      /\ \A x \in Requests \ {r} : held'[x] = held[x]
  BY <1>3 DEF Steps
<1>5. HandOk(r)'
  BY <1>3 DEF HandOk
<1>6. CASE UNCHANGED fileVars
  BY <1>1, <1>6, DropStep
<1>7. CASE /\ pc[r] = "data" /\ data[h.content] = "absent"
           /\ data' = [data EXCEPT ![h.content] = Torn]
           /\ UNCHANGED <<manifest, proposals>>
  <2>1. /\ h.content \in Contents
        /\ UNCHANGED <<envelopes, lineage, manifest, proposals, sourceNode, proposalNode>>
        /\ UNCHANGED <<derivedFrom, acquired, cited, answered, global>>
    BY <1>1, <1>2, <1>7 DEF Held, trustVars, graphVars, history
  <2>2. data' \in [Contents -> {"absent", Torn, "whole"}]
    BY <1>3, <1>7
  <2>3. \A c \in Contents : data[c] # "absent" => data'[c] # "absent"
    BY <1>3, <1>7, TornAssumption
  <2>4. TypeOK'
    BY <1>4, <2>1, <2>2 DEF IInv, TypeOK
  <2>5. Grow
    BY <2>1, <2>3 DEF Grow
  <2>6. ProposalsOk'
    BY <2>1 DEF IInv, ProposalsOk, Saved, Status
  <2>7. SourcesGrounded'
    BY <2>1, <2>3 DEF IInv, TypeOK, Grounded, SourcesGrounded
  <2>8. ProposalsGrounded' /\ GraphGrounded' /\ EventsGrounded'
    BY <2>1 DEF IInv, Grounded, ProposalsGrounded, GraphGrounded, EventsGrounded, Saved
  <2> QED BY <1>3, <1>4, <1>5, <1>7, <2>1, <2>4, <2>5, <2>6, <2>7, <2>8, WriteStep
          DEF Grounded, InFiles, Steps, trustVars
<1>8. CASE /\ pc[r] = "manifest" /\ manifest' = [manifest EXCEPT ![h.source] = Torn]
           /\ UNCHANGED <<data, proposals>>
  <2>1. h.source \in Sources /\ manifest[h.source] = None
    BY <1>2, <1>8 DEF Shaped, Filed, Held
  <2>2. /\ manifest' \in [Sources -> Contents \cup {None, Torn}]
        /\ Grow /\ ProposalsOk' /\ Grounded'
    BY <1>1, <1>8, <2>1, ManifestWritten
  <2>3. TypeOK'
    BY <1>1, <1>4, <1>8, <2>2 DEF IInv, TypeOK, trustVars, graphVars, history
  <2> QED BY <1>1, <1>3, <1>4, <1>5, <1>8, <2>2, <2>3, WriteStep DEF InFiles, Steps
<1> QED BY <1>6, <1>7, <1>8 DEF Fail

LEMMA CompileStep ==
    ASSUME IInv, Compile
    PROVE  IInv'
<1>1. /\ \A s \in Sources : manifest[s] # Torn
      /\ UNCHANGED <<envelopes, lineage, manifest, data, proposals, sourceNode, proposalNode>>
      /\ UNCHANGED <<derivedFrom, acquired, pc, held, answered, global>>
  BY DEF Compile, trustVars, fileVars, graphVars, flowVars, history
<1>2. PICK page \in SUBSET {s \in Sources : manifest[s] # None} : cited' = cited \cup page
  BY DEF Compile
<1>3. TypeOK'
  <2>1. cited' \subseteq Sources
    BY <1>2 DEF IInv, TypeOK
  <2> QED BY <1>1, <2>1 DEF IInv, TypeOK
<1>4. SourcesGrounded'
  BY <1>1, <1>2 DEF IInv, Grounded, SourcesGrounded
<1>5. (\A r \in Requests : HandOk(r)') /\ Alone'
  BY <1>1 DEF IInv, HandOk, Alone, InFiles, Labelled, Inherits, Recorded, Covers, Filed, MadeFor,
              Noted
<1>6. Heritage' /\ ProposalsOk'
  BY <1>1 DEF IInv, Heritage, ProposalsOk, Recorded, Saved, Covers, Honest, Status
<1>7. ProposalsGrounded' /\ GraphGrounded' /\ EventsGrounded'
  BY <1>1 DEF IInv, Grounded, ProposalsGrounded, GraphGrounded, EventsGrounded, Saved
<1> QED BY <1>3, <1>4, <1>5, <1>6, <1>7 DEF IInv, Grounded

-----------------------------------------------------------------------------
LEMMA InitIInv ==
    ASSUME Init
    PROVE  IInv
<1>1. Recorded = {} /\ Saved = {}
  BY DEF Init, Recorded, Saved
<1>2. TypeOK
  BY DEF Init, TypeOK, Steps
<1>3. (\A r \in Requests : HandOk(r)) /\ Alone
  BY DEF Init, HandOk, Alone, InFiles
<1>4. Heritage /\ ProposalsOk
  BY <1>1 DEF Init, Heritage, ProposalsOk
<1>5. Grounded
  BY <1>1 DEF Init, Grounded, SourcesGrounded, ProposalsGrounded, GraphGrounded, EventsGrounded
<1> QED BY <1>2, <1>3, <1>4, <1>5 DEF IInv

LEMMA NextIInv ==
    ASSUME IInv, [Next]_vars
    PROVE  IInv'
<1>1. CASE Compile
  BY <1>1, CompileStep
<1>2. ASSUME NEW r \in Requests, Step(r) PROVE IInv'
  BY <1>2, TrustIngestStep, RecordEnvelopeStep, AnswerIngestStep, AcquireStep,
     SelectEnvelopeStep, IngestFileStep, ReadManifestStep, WriteDataStep, WriteManifestStep,
     SaveProposalStep, UpsertSourceStep, UpsertProposalStep, AddEdgeStep, AppendAcquiredStep,
     FailStep
  DEF Step
<1>3. CASE UNCHANGED vars
  <2>1. /\ UNCHANGED <<envelopes, lineage, manifest, data, proposals, sourceNode, proposalNode>>
        /\ UNCHANGED <<derivedFrom, acquired, cited, pc, held, answered, global>>
    BY <1>3 DEF vars, trustVars, fileVars, graphVars, flowVars, history
  <2>2. TypeOK' /\ Heritage' /\ ProposalsOk'
    BY <2>1 DEF IInv, TypeOK, Heritage, ProposalsOk, Recorded, Saved, Covers, Honest, Status
  <2>3. Grounded'
    BY <2>1 DEF IInv, Grounded, SourcesGrounded, ProposalsGrounded, GraphGrounded, EventsGrounded,
                Saved
  <2>4. (\A r \in Requests : HandOk(r)') /\ Alone'
    BY <2>1 DEF IInv, HandOk, Alone, InFiles, Labelled, Inherits, Recorded, Covers, Filed,
                MadeFor, Noted
  <2> QED BY <2>2, <2>3, <2>4 DEF IInv
<1> QED BY <1>1, <1>2, <1>3 DEF Next

LEMMA Inductive == Spec => []IInv
BY InitIInv, NextIInv, PTL DEF Spec

\* Every variable keeps its type, the files and the rows of the graph included, whatever call
\* fails and however requests interleave (acquire, trust_ingest, add_raw_source).
THEOREM TypeCorrect == Spec => []TypeOK
<1>1. IInv => TypeOK
  BY DEF IInv
<1> QED BY <1>1, Inductive, PTL

\* An envelope is as severe as every envelope its content comes from, so that what the probe
\* found anywhere up the line quarantines the proposal, and nothing that was not public
\* becomes shared knowledge (TrustGateway.ingest, acquire, _make_proposal).
THEOREM NothingIsLaundered == Spec => []NothingLaundered
<1>1. ASSUME IInv PROVE NothingLaundered
  <2>1. ASSUME NEW e \in Recorded, NEW a \in Ids, a \in lineage[e]
        PROVE  a \in Recorded /\ Covers(envelopes[e], envelopes[a])
    BY <1>1, <2>1 DEF IInv, Heritage
  <2>2. ASSUME NEW p \in Saved, NEW a \in Ids, a \in lineage[proposals[p].envelope]
        PROVE  /\ Inspect[envelopes[a].content] # {} =>
                     proposals[p].status = "quarantined" /\ proposalNode[p] # "fresh"
               /\ p \in global => envelopes[a].sensitivity = Public
    <3> SUFFICES ASSUME NEW e, e = proposals[p].envelope, NEW own, own = envelopes[e],
                        NEW from, from = envelopes[a]
                 PROVE  /\ Inspect[from.content] # {} =>
                              proposals[p].status = "quarantined" /\ proposalNode[p] # "fresh"
                        /\ p \in global => from.sensitivity = Public
      OBVIOUS
    <3>1. e \in Ids /\ own \in Envelope
      BY <1>1, SavedEnvelope DEF IInv, Grounded
    <3>2. e \in Recorded
      BY <3>1, NoneAssumption DEF Recorded
    <3>3. a \in Recorded /\ Covers(own, from)
      BY <2>1, <2>2, <3>2
    <3>4. from \in Envelope /\ Honest(from)
      BY <1>1, <3>3 DEF IInv, TypeOK, Recorded, Heritage
    <3>5. Inspect[from.content] # {} => own.findings # {}
      BY <3>3, <3>4 DEF Honest, Covers
    <3>6. /\ proposals[p].status = Status(own)
          /\ proposalNode[p] = "fresh" => proposals[p].status = "proposed"
          /\ p \in global => own.sensitivity = Public
      BY <1>1 DEF IInv, ProposalsOk
    <3>7. own.sensitivity = Public => from.sensitivity = Public
      BY <3>1, <3>3, <3>4 DEF Covers, Envelope, Sensitivities, Public
    <3> QED BY <3>5, <3>6, <3>7 DEF Status
  <2> QED BY <2>1, <2>2 DEF NothingLaundered
<1> QED BY <1>1, Inductive, PTL

\* Pages, proposals, the rows of the graph, events and answers come after what they rest on,
\* and the manifest of a proposal's source names the content that its recorded envelope
\* vouches for, whatever call fails.  The bytes in the file may be torn
\* (acquire, add_raw_source, compile_page).
THEOREM KnowledgeIsGrounded == Spec => []Grounded
<1>1. IInv => Grounded
  BY DEF IInv
<1> QED BY <1>1, Inductive, PTL

-----------------------------------------------------------------------------
\* Recursion of the operators

\* Induction as a fact about a set of naturals.
LEMMA NatSetInduction ==
    ASSUME NEW S, 0 \in S, \A n \in Nat : n \in S => n + 1 \in S
    PROVE  Nat \subseteq S
<1> DEFINE out == Nat \ S
<1> SUFFICES ASSUME out # {} PROVE FALSE
  OBVIOUS
<1>1. PICK n \in out : \A k \in out : <<k, n>> \notin OpToRel(<, Nat)
  <2> HIDE DEF out
  <2>1. out \subseteq Nat
    BY DEF out
  <2> QED BY <2>1, NatLessThanWellFounded, WFMin, Zenon
<1>2. \A k \in out : ~(k < n)
  BY <1>1 DEF OpToRel
<1>3. n # 0 /\ n - 1 \in Nat /\ n - 1 \in S
  BY <1>2
<1> QED BY <1>3

-----------------------------------------------------------------------------
\* The walk of a propagation is the least closed set of rows that holds its roots.

Dependents(S) == {e[1] : e \in {f \in edges : f[2] \in Propagating /\ f[3] \in S}}

Closed(S) == \A e \in edges : e[2] \in Propagating /\ e[3] \in S => e[1] \in S

Farther(S, present) == S \cup (Dependents(S) \cap present)

\* f holds what is reached from the roots in 0 to n steps.
Reaching(f, n, present, from) ==
    f = [k \in 0..n |-> IF k = 0 THEN from \cap present ELSE Farther(f[k - 1], present)]

LEMMA ReachingExists ==
    ASSUME NEW present, NEW from
    PROVE  \A n \in Nat : \E f : Reaching(f, n, present, from)
<1> DEFINE S == {n \in Nat : \E f : Reaching(f, n, present, from)}
<1>1. 0 \in S
  <2>1. Reaching([k \in 0..0 |-> from \cap present], 0, present, from)
    BY DEF Reaching
  <2> QED BY <2>1
<1>2. ASSUME NEW n \in Nat, n \in S PROVE n + 1 \in S
  <2>1. PICK f : Reaching(f, n, present, from)
    BY <1>2
  <2> DEFINE g == [k \in 0..n + 1 |-> IF k = n + 1 THEN Farther(f[n], present) ELSE f[k]]
  <2>2. f = [k \in 0..n |-> IF k = 0 THEN from \cap present ELSE Farther(f[k - 1], present)]
    BY <2>1 DEF Reaching
  <2>3. ASSUME NEW k \in 0..n + 1
        PROVE  g[k] = IF k = 0 THEN from \cap present ELSE Farther(g[k - 1], present)
    <3>1. CASE k = n + 1
      <4>1. k # 0 /\ k - 1 = n /\ n \in 0..n + 1 /\ n # n + 1
        BY <3>1
      <4> QED BY <3>1, <4>1
    <3>2. CASE k = 0
      <4>1. k # n + 1 /\ k \in 0..n
        BY <3>2
      <4> QED BY <2>2, <3>2, <4>1
    <3>3. CASE k # n + 1 /\ k # 0
      <4>1. k \in 0..n /\ k - 1 \in 0..n + 1 /\ k - 1 # n + 1
        BY <3>3
      <4>2. g[k] = f[k] /\ g[k - 1] = f[k - 1]
        BY <3>3, <4>1
      <4> QED BY <2>2, <3>3, <4>1, <4>2
    <3> QED BY <3>1, <3>2, <3>3
  <2>4. g = [k \in 0..n + 1 |-> IF k = 0 THEN from \cap present ELSE Farther(g[k - 1], present)]
    <3>1. g = [k \in 0..n + 1 |-> g[k]]
      OBVIOUS
    <3> HIDE DEF g
    <3> QED BY <2>3, <3>1
  <2> HIDE DEF g
  <2>5. Reaching(g, n + 1, present, from)
    BY <2>4 DEF Reaching
  <2> QED BY <2>5
<1> HIDE DEF S
<1>3. Nat \subseteq S
  BY <1>1, <1>2, NatSetInduction
<1> QED BY <1>3 DEF S

LEMMA WalkReaches ==
    ASSUME NEW present, NEW from
    PROVE  \E f : /\ Reaching(f, Cardinality(Refs), present, from)
                  /\ Walk(present, from) = f[Cardinality(Refs)]
<1>1. Cardinality(Refs) \in Nat
  BY FiniteAssumption, FS_CardinalityType
<1> DEFINE R(f) == Reaching(f, Cardinality(Refs), present, from)
<1>2. \E f : R(f)
  BY <1>1, ReachingExists
<1>3. R(CHOOSE f : R(f))
  BY <1>2
<1>4. Walk(present, from) = (CHOOSE f : R(f))[Cardinality(Refs)]
  BY DEF Walk, Reaching, Farther, Dependents
<1> QED BY <1>3, <1>4

LEMMA WalkIsLeast ==
    ASSUME NEW present \in SUBSET Refs, NEW from
    PROVE  /\ Walk(present, from) \subseteq present
           /\ from \cap present \subseteq Walk(present, from)
           /\ Dependents(Walk(present, from)) \cap present \subseteq Walk(present, from)
           /\ \A S : from \cap present \subseteq S /\ Closed(S) => Walk(present, from) \subseteq S
<1> DEFINE N == Cardinality(Refs)
<1>1. N \in Nat /\ IsFiniteSet(Refs)
  BY FiniteAssumption, FS_CardinalityType
<1>2. PICK f : Reaching(f, N, present, from) /\ Walk(present, from) = f[N]
  BY WalkReaches
<1> HIDE DEF N
<1>3. /\ f[0] = from \cap present
      /\ \A k \in Nat : k + 1 <= N => f[k + 1] = Farther(f[k], present)
  <2>1. \A k \in 0..N : f[k] = IF k = 0 THEN from \cap present ELSE Farther(f[k - 1], present)
    BY <1>2 DEF Reaching
  <2>2. 0 \in 0..N
    BY <1>1
  <2>3. ASSUME NEW k \in Nat, k + 1 <= N PROVE f[k + 1] = Farther(f[k], present)
    <3>1. k + 1 \in 0..N /\ k + 1 # 0 /\ (k + 1) - 1 = k
      BY <1>1, <2>3
    <3> QED BY <2>1, <3>1
  <2> QED BY <2>1, <2>2, <2>3
<1>4. ASSUME NEW P, f[0] \in P, \A S : S \in P => Farther(S, present) \in P
      PROVE  \A k \in 0..N : f[k] \in P
  <2> DEFINE K == {k \in Nat : k <= N => f[k] \in P}
  <2>1. 0 \in K
    BY <1>4
  <2>2. \A k \in Nat : k \in K => k + 1 \in K
    BY <1>1, <1>3, <1>4
  <2> HIDE DEF K
  <2>3. Nat \subseteq K
    BY <2>1, <2>2, NatSetInduction
  <2> QED BY <1>1, <2>3 DEF K
<1>5. \A k \in 0..N : f[k] \in SUBSET present /\ from \cap present \subseteq f[k]
  <2> DEFINE P == {S \in SUBSET present : from \cap present \subseteq S}
  <2>1. f[0] \in P /\ \A S : S \in P => Farther(S, present) \in P
    BY <1>3 DEF Farther
  <2> HIDE DEF P
  <2>2. \A k \in 0..N : f[k] \in P
    BY <1>4, <2>1
  <2> QED BY <2>2 DEF P
<1>6. ASSUME NEW S, from \cap present \subseteq S, Closed(S)
      PROVE  f[N] \subseteq S
  <2>1. f[0] \in SUBSET S /\ \A T : T \in SUBSET S => Farther(T, present) \in SUBSET S
    BY <1>3, <1>6 DEF Farther, Dependents, Closed
  <2>2. \A k \in 0..N : f[k] \in SUBSET S
    BY <1>4, <2>1
  <2> QED BY <1>1, <2>2
<1>7. Farther(f[N], present) = f[N]
  <2> DEFINE K == {k \in Nat : k <= N => \/ Farther(f[k], present) = f[k]
                                         \/ Cardinality(f[k]) >= k}
  <2>0. \A k \in 0..N : IsFiniteSet(f[k]) /\ Cardinality(f[k]) \in Nat
    BY <1>1, <1>5, FS_Subset, FS_CardinalityType
  <2>1. 0 \in K
    BY <1>1, <2>0
  <2>2. ASSUME NEW k \in Nat, k \in K PROVE k + 1 \in K
    <3> SUFFICES ASSUME k + 1 <= N
                 PROVE  \/ Farther(f[k + 1], present) = f[k + 1]
                        \/ Cardinality(f[k + 1]) >= k + 1
      OBVIOUS
    <3>1. k <= N /\ k \in 0..N /\ k + 1 \in 0..N
      BY <1>1
    <3>2. f[k + 1] = Farther(f[k], present)
      BY <1>3
    <3>3. CASE Farther(f[k], present) = f[k]
      BY <3>2, <3>3
    <3>4. CASE Farther(f[k], present) # f[k]
      <4>1. Cardinality(f[k]) >= k
        BY <2>2, <3>1, <3>4
      <4>2. f[k] \subseteq f[k + 1] /\ f[k] # f[k + 1]
        BY <3>2, <3>4 DEF Farther
      <4>3. Cardinality(f[k]) <= Cardinality(f[k + 1]) /\ Cardinality(f[k]) # Cardinality(f[k + 1])
        BY <2>0, <3>1, <4>2, FS_Subset
      <4> QED BY <2>0, <3>1, <4>1, <4>3
    <3> QED BY <3>3, <3>4
  <2> HIDE DEF K
  <2>3. Nat \subseteq K
    BY <2>1, <2>2, NatSetInduction
  <2>4. CASE Farther(f[N], present) = f[N]
    BY <2>4
  <2>5. CASE Cardinality(f[N]) >= N
    <3>1. f[N] \subseteq Refs /\ f[N] \subseteq present /\ N \in 0..N
      BY <1>1, <1>5
    <3>2. Cardinality(f[N]) <= Cardinality(Refs) /\ (Cardinality(Refs) = Cardinality(f[N]) => Refs = f[N])
      BY <1>1, <3>1, FS_Subset
    <3>3. f[N] = Refs
      BY <1>1, <2>0, <2>5, <3>1, <3>2 DEF N
    <3> QED BY <3>1, <3>3 DEF Farther
  <2> QED BY <1>1, <2>3, <2>4, <2>5 DEF K
<1>8. N \in 0..N
  BY <1>1
<1> QED BY <1>2, <1>5, <1>6, <1>7, <1>8 DEF Farther

Rows == {n \in Refs : Exists(n)}

\* Rests, of given rows and edges.
RestsOn(rows, arcs, roots, r) ==
    \A S \in SUBSET rows :
        /\ roots \cap rows \subseteq S
        /\ \A e \in arcs : e[2] \in Propagating /\ e[3] \in S => e[1] \in S
        => r \in S

LEMMA RestsIsReached ==
    ASSUME edges \subseteq Edge, \A e \in edges : e[1] \in Rows, NEW roots, NEW r
    PROVE  RestsOn(Rows, edges, roots, r) <=> r \in Walk(Rows, roots)
<1> DEFINE W == Walk(Rows, roots)
<1>1. /\ W \subseteq Rows
      /\ roots \cap Rows \subseteq W
      /\ Dependents(W) \cap Rows \subseteq W
      /\ \A S : roots \cap Rows \subseteq S /\ Closed(S) => W \subseteq S
  BY WalkIsLeast DEF Rows
<1> HIDE DEF W
<1>2. Closed(W)
  BY <1>1 DEF Closed, Dependents
<1>3. RestsOn(Rows, edges, roots, r)
        <=> \A S \in SUBSET Rows : roots \cap Rows \subseteq S /\ Closed(S) => r \in S
  BY DEF RestsOn, Closed
<1> QED BY <1>1, <1>2, <1>3 DEF W

\* What rests on a root goes on to do so while rows and edges are only added.
LEMMA RestsGrows ==
    ASSUME NEW rows, NEW more, rows \subseteq more,
           NEW arcs, NEW further, arcs \subseteq further, \A e \in arcs : e[1] \in rows,
           NEW roots, NEW r, RestsOn(rows, arcs, roots, r)
    PROVE  RestsOn(more, further, roots, r)
<1> SUFFICES ASSUME NEW S \in SUBSET more, roots \cap more \subseteq S,
                    \A e \in further : e[2] \in Propagating /\ e[3] \in S => e[1] \in S
             PROVE  r \in S
  BY DEF RestsOn
<1> DEFINE T == S \cap rows
<1>1. roots \cap rows \subseteq T /\ T \in SUBSET rows
  OBVIOUS
<1>2. \A e \in arcs : e[2] \in Propagating /\ e[3] \in T => e[1] \in T
  OBVIOUS
<1>3. r \in T
  <2> HIDE DEF T
  <2> QED BY <1>1, <1>2 DEF RestsOn
<1> QED BY <1>3

-----------------------------------------------------------------------------
\* What FlattenSeq and SetToSeq return

Flat(f, n, seqs) == f = [i \in 1..n |-> IF i = 1 THEN seqs[i] ELSE f[i - 1] \o seqs[i]]

LEMMA FlatExists ==
    ASSUME NEW seqs
    PROVE  \A n \in Nat : \E f : Flat(f, n, seqs)
<1> DEFINE S == {n \in Nat : \E f : Flat(f, n, seqs)}
<1>1. 0 \in S
  <2>1. Flat([i \in 1..0 |-> seqs[i]], 0, seqs)
    BY DEF Flat
  <2> QED BY <2>1
<1>2. ASSUME NEW n \in Nat, n \in S PROVE n + 1 \in S
  <2>1. PICK f : Flat(f, n, seqs)
    BY <1>2
  <2> DEFINE last == IF n = 0 THEN seqs[1] ELSE f[n] \o seqs[n + 1]
             g == [i \in 1..n + 1 |-> IF i = n + 1 THEN last ELSE f[i]]
  <2>2. ASSUME NEW i \in 1..n + 1
        PROVE  g[i] = IF i = 1 THEN seqs[i] ELSE g[i - 1] \o seqs[i]
    <3>1. CASE i = n + 1 /\ n = 0
      BY <3>1
    <3>2. CASE i = n + 1 /\ n # 0
      <4>1. i # 1 /\ i - 1 = n /\ n \in 1..n + 1 /\ n # n + 1
        BY <3>2
      <4> QED BY <3>2, <4>1
    <3>3. CASE i # n + 1
      <4>1. i \in 1..n /\ g[i] = f[i]
        BY <3>3
      <4>2. i # 1 => i - 1 \in 1..n + 1 /\ i - 1 # n + 1 /\ g[i - 1] = f[i - 1]
        BY <3>3
      <4> HIDE DEF g
      <4> QED BY <2>1, <4>1, <4>2 DEF Flat
    <3> QED BY <3>1, <3>2, <3>3
  <2>3. g = [i \in 1..n + 1 |-> g[i]]
    OBVIOUS
  <2> HIDE DEF g
  <2>4. Flat(g, n + 1, seqs)
    BY <2>2, <2>3 DEF Flat
  <2> QED BY <2>4
<1> HIDE DEF S
<1>3. Nat \subseteq S
  BY <1>1, <1>2, NatSetInduction
<1> QED BY <1>3 DEF S

\* One part in R brings the whole into R, if the other parts cannot bring it out.
LEMMA FlattenIn ==
    ASSUME NEW Q, \A u, v \in Q : u \o v \in Q,
           NEW R \in SUBSET Q, \A u \in R, v \in Q : u \o v \in R /\ v \o u \in R,
           NEW seqs \in Seq(Q), NEW k \in DOMAIN seqs, seqs[k] \in R
    PROVE  FlattenSeq(seqs) \in R
<1> DEFINE n == Len(seqs)
<1>1. n \in Nat /\ k \in 1..n /\ \A i \in 1..n : seqs[i] \in Q
  <2>1. n \in Nat /\ DOMAIN seqs = 1..n
    BY LenProperties
  <2>2. ASSUME NEW i \in 1..n PROVE seqs[i] \in Q
    BY <2>1, ElementOfSeq
  <2> QED BY <2>1, <2>2
<1> DEFINE F(f) == Flat(f, n, seqs)
<1>2. F(CHOOSE f : F(f))
  <2>1. \E f : F(f)
    BY <1>1, FlatExists
  <2> QED BY <2>1
<1>3. FlattenSeq(seqs) = (CHOOSE f : F(f))[n]
  BY <1>1 DEF FlattenSeq, Flat
<1> HIDE DEF n
<1>4. PICK f : F(f) /\ FlattenSeq(seqs) = f[n]
  BY <1>2, <1>3
<1>5. \A i \in 1..n : f[i] = IF i = 1 THEN seqs[i] ELSE f[i - 1] \o seqs[i]
  BY <1>4 DEF Flat
<1> DEFINE K == {i \in Nat : i + 1 <= n => f[i + 1] \in Q /\ (k <= i + 1 => f[i + 1] \in R)}
<1>6. 0 \in K
  <2>1. 1 <= n /\ 1 \in 1..n /\ (k <= 1 => k = 1)
    BY <1>1
  <2>2. f[1] = seqs[1] /\ f[1] \in Q /\ (k <= 1 => f[1] \in R)
    BY <1>1, <1>5, <2>1
  <2>3. 0 \in Nat /\ 0 + 1 = 1
    OBVIOUS
  <2> QED BY <2>2, <2>3
<1>7. ASSUME NEW i \in Nat, i \in K PROVE i + 1 \in K
  <2> SUFFICES ASSUME (i + 1) + 1 <= n
               PROVE  /\ f[(i + 1) + 1] \in Q
                      /\ k <= (i + 1) + 1 => f[(i + 1) + 1] \in R
    OBVIOUS
  <2> DEFINE j == (i + 1) + 1
  <2>1. j \in 1..n /\ j # 1 /\ j - 1 = i + 1 /\ i + 1 <= n
    BY <1>1
  <2>2. f[j] = f[i + 1] \o seqs[j] /\ seqs[j] \in Q
    BY <1>1, <1>5, <2>1
  <2>3. f[i + 1] \in Q /\ (k <= i + 1 => f[i + 1] \in R)
    BY <1>7, <2>1
  <2>4. k <= j => k <= i + 1 \/ k = j
    BY <1>1
  <2> HIDE DEF j
  <2>5. f[j] \in Q /\ (k <= j => f[j] \in R)
    BY <2>2, <2>3, <2>4
  <2> QED BY <2>5 DEF j
<1> HIDE DEF K
<1>8. Nat \subseteq K
  BY <1>6, <1>7, NatSetInduction
<1>9. n - 1 \in Nat /\ (n - 1) + 1 = n /\ k <= n
  BY <1>1
<1>10. f[n] \in R
  <2>1. n - 1 \in K
    BY <1>8, <1>9
  <2> QED BY <1>9, <2>1 DEF K
<1> QED BY <1>4, <1>10

LEMMA FlattenTypes ==
    ASSUME NEW Q, <<>> \in Q, \A u, v \in Q : u \o v \in Q, NEW seqs \in Seq(Q)
    PROVE  FlattenSeq(seqs) \in Q
<1>1. CASE Len(seqs) = 0
  <2>1. seqs = <<>>
    BY <1>1
  <2> QED BY <1>1, <2>1 DEF FlattenSeq
<1>2. CASE Len(seqs) # 0
  <2>1. 1 \in DOMAIN seqs /\ seqs[1] \in Q
    BY <1>2
  <2> QED BY <2>1, FlattenIn
<1> QED BY <1>1, <1>2

LEMMA SetToSeqLists ==
    ASSUME NEW S, IsFiniteSet(S)
    PROVE  /\ Cardinality(S) \in Nat
           /\ SetToSeq(S) \in [1..Cardinality(S) -> S]
           /\ SetToSeq(S) \in Seq(S)
           /\ \A x \in S : \E i \in 1..Cardinality(S) : SetToSeq(S)[i] = x
<1> DEFINE n == Cardinality(S)
<1>1. n \in Nat /\ ExistsBijection(1..n, S)
  BY FS_CardinalityType
<1> HIDE DEF n
<1>2. \E f \in [1..n -> S] : IsInjective(f)
  BY <1>1 DEF ExistsBijection, Bijection, Injection
<1>3. SetToSeq(S) \in [1..n -> S] /\ IsInjective(SetToSeq(S))
  BY <1>2 DEF SetToSeq, n
<1>4. SetToSeq(S) \in Injection(1..n, S)
  BY <1>3 DEF Injection
<1>5. Cardinality(1..n) = n
  BY <1>1, FS_Interval
<1>6. SetToSeq(S) \in Surjection(1..n, S)
  BY <1>4, <1>5, FS_Injection DEF n
<1>7. \A x \in S : \E i \in 1..n : SetToSeq(S)[i] = x
  BY <1>6 DEF Surjection
<1>8. SetToSeq(S) \in Seq(S)
  BY <1>1, <1>3
<1> QED BY <1>1, <1>3, <1>7, <1>8 DEF n

-----------------------------------------------------------------------------
\* What a sync writes

Entry == [kind : {"node"}, ref : Refs] \cup [kind : {"edge", "relation"}, edge : Edge]

\* Sequences of writes in which an edge starts at a row in P or at one written before.
Orderly(P) ==
    {w \in Seq(Entry) :
        \A i \in DOMAIN w : w[i].kind = "edge" =>
            \/ w[i].edge[1] \in P
            \/ \E j \in DOMAIN w : j < i /\ w[j] = Node(w[i].edge[1])}

With(P, e) == {w \in Orderly(P) : \E i \in DOMAIN w : w[i] = e}

LEMMA ConcatEntries ==
    ASSUME NEW S, NEW u \in Seq(S), NEW v \in Seq(S)
    PROVE  /\ u \o v \in Seq(S)
           /\ \A i \in DOMAIN u : i \in DOMAIN (u \o v) /\ (u \o v)[i] = u[i]
           /\ \A i \in DOMAIN v : /\ Len(u) + i \in DOMAIN (u \o v)
                                  /\ (u \o v)[Len(u) + i] = v[i]
           /\ \A i \in DOMAIN (u \o v) : \/ i \in DOMAIN u
                                         \/ \E j \in DOMAIN v : i = Len(u) + j
           /\ Len(u) \in Nat /\ DOMAIN u \subseteq Nat /\ DOMAIN v \subseteq Nat
           /\ \A i \in DOMAIN u, j \in DOMAIN v : i < Len(u) + j
<1>1. /\ u \o v \in Seq(S) /\ Len(u \o v) = Len(u) + Len(v)
      /\ \A i \in 1..Len(u) + Len(v) :
            (u \o v)[i] = IF i <= Len(u) THEN u[i] ELSE v[i - Len(u)]
  BY ConcatProperties
<1>2. /\ Len(u) \in Nat /\ Len(v) \in Nat /\ DOMAIN u = 1..Len(u) /\ DOMAIN v = 1..Len(v)
      /\ DOMAIN (u \o v) = 1..Len(u) + Len(v)
  BY <1>1, LenProperties
<1> DEFINE x == u \o v
           m == Len(u)
           n == Len(v)
<1>3. /\ m \in Nat /\ n \in Nat /\ DOMAIN u = 1..m /\ DOMAIN v = 1..n /\ DOMAIN x = 1..m + n
      /\ \A i \in 1..m + n : x[i] = IF i <= m THEN u[i] ELSE v[i - m]
  BY <1>1, <1>2
<1> HIDE DEF x, m, n
<1>4. /\ \A i \in 1..m : i \in 1..m + n /\ x[i] = u[i]
      /\ \A i \in 1..n : m + i \in 1..m + n /\ x[m + i] = v[i]
  <2>1. ASSUME NEW i \in 1..m PROVE i \in 1..m + n /\ x[i] = u[i]
    BY <1>3
  <2>2. ASSUME NEW i \in 1..n PROVE m + i \in 1..m + n /\ x[m + i] = v[i]
    <3>1. m + i \in 1..m + n /\ ~(m + i <= m) /\ (m + i) - m = i
      BY <1>3
    <3> QED BY <1>3, <3>1
  <2> QED BY <2>1, <2>2
<1>5. \A i \in 1..m + n : i \in 1..m \/ \E j \in 1..n : i = m + j
  <2>1. ASSUME NEW i \in 1..m + n, i \notin 1..m PROVE \E j \in 1..n : i = m + j
    <3>1. i - m \in 1..n /\ i = m + (i - m)
      BY <1>3, <2>1
    <3> QED BY <3>1
  <2> QED BY <2>1
<1>6. \A i \in 1..m, j \in 1..n : i < m + j
  BY <1>3
<1>7. x \in Seq(S)
  BY <1>1 DEF x
<1>8. /\ x \in Seq(S)
      /\ \A i \in DOMAIN u : i \in DOMAIN x /\ x[i] = u[i]
      /\ \A i \in DOMAIN v : m + i \in DOMAIN x /\ x[m + i] = v[i]
      /\ \A i \in DOMAIN x : i \in DOMAIN u \/ \E j \in DOMAIN v : i = m + j
      /\ m \in Nat /\ DOMAIN u \subseteq Nat /\ DOMAIN v \subseteq Nat
      /\ \A i \in DOMAIN u, j \in DOMAIN v : i < m + j
  <2>1. DOMAIN u = 1..m /\ DOMAIN v = 1..n /\ DOMAIN x = 1..m + n
    BY <1>3
  <2>2. m \in Nat /\ DOMAIN u \subseteq Nat /\ DOMAIN v \subseteq Nat
    BY <1>3
  <2>3. \A i \in DOMAIN u : i \in DOMAIN x /\ x[i] = u[i]
    BY ONLY <1>4, <2>1, Zenon
  <2>4. \A i \in DOMAIN v : m + i \in DOMAIN x /\ x[m + i] = v[i]
    BY ONLY <1>4, <2>1, Zenon
  <2>5. \A i \in DOMAIN x : i \in DOMAIN u \/ \E j \in DOMAIN v : i = m + j
    BY ONLY <1>5, <2>1, Zenon
  <2>6. \A i \in DOMAIN u, j \in DOMAIN v : i < m + j
    BY ONLY <1>6, <2>1, Zenon
  <2> QED BY ONLY <1>7, <2>2, <2>3, <2>4, <2>5, <2>6, Zenon
<1> QED BY ONLY <1>8, Zenon DEF x, m

LEMMA OrderlyConcat ==
    ASSUME NEW P, NEW u \in Orderly(P), NEW v \in Orderly(P)
    PROVE  /\ u \o v \in Orderly(P)
           /\ \A e : u \in With(P, e) \/ v \in With(P, e) => u \o v \in With(P, e)
<1> DEFINE x == u \o v
<1>1. u \in Seq(Entry) /\ v \in Seq(Entry)
  BY DEF Orderly
<1>2. /\ x \in Seq(Entry)
      /\ \A i \in DOMAIN u : i \in DOMAIN x /\ x[i] = u[i]
      /\ \A i \in DOMAIN v : Len(u) + i \in DOMAIN x /\ x[Len(u) + i] = v[i]
      /\ \A i \in DOMAIN x : i \in DOMAIN u \/ \E j \in DOMAIN v : i = Len(u) + j
      /\ Len(u) \in Nat /\ DOMAIN u \subseteq Nat /\ DOMAIN v \subseteq Nat
  BY <1>1, ConcatEntries
<1> HIDE DEF x
<1>3. ASSUME NEW i \in DOMAIN x, x[i].kind = "edge"
      PROVE  x[i].edge[1] \in P \/ \E j \in DOMAIN x : j < i /\ x[j] = Node(x[i].edge[1])
  <2>1. CASE i \in DOMAIN u
    BY <1>2, <1>3, <2>1 DEF Orderly
  <2>2. ASSUME NEW k \in DOMAIN v, i = Len(u) + k
        PROVE  x[i].edge[1] \in P \/ \E j \in DOMAIN x : j < i /\ x[j] = Node(x[i].edge[1])
    <3>1. x[i] = v[k] /\ k \in Nat
      BY <1>2, <2>2
    <3>2. v[k].edge[1] \in P \/ \E j \in DOMAIN v : j < k /\ v[j] = Node(v[k].edge[1])
      BY <1>3, <3>1 DEF Orderly
    <3>3. ASSUME NEW j \in DOMAIN v, j < k, v[j] = Node(v[k].edge[1])
          PROVE  \E l \in DOMAIN x : l < i /\ x[l] = Node(x[i].edge[1])
      <4>1. Len(u) + j \in DOMAIN x /\ Len(u) + j < i /\ x[Len(u) + j] = v[j]
        BY <1>2, <2>2, <3>3
      <4> QED BY <3>1, <3>3, <4>1
    <3> QED BY <3>1, <3>2, <3>3
  <2> QED BY <1>2, <2>1, <2>2
<1>4. x \in Orderly(P)
  BY <1>2, <1>3 DEF Orderly
<1>5. ASSUME NEW e, u \in With(P, e) \/ v \in With(P, e) PROVE x \in With(P, e)
  <2>1. \E i \in DOMAIN x : x[i] = e
    BY <1>2, <1>5 DEF With
  <2> QED BY <1>4, <2>1 DEF With
<1> QED BY <1>4, <1>5 DEF x

LEMMA OrderlyFlatten ==
    ASSUME NEW P, NEW seqs \in Seq(Orderly(P))
    PROVE  /\ FlattenSeq(seqs) \in Orderly(P)
           /\ \A e, k : k \in DOMAIN seqs /\ seqs[k] \in With(P, e)
                           => FlattenSeq(seqs) \in With(P, e)
<1>1. \A u, v \in Orderly(P) : u \o v \in Orderly(P)
  BY OrderlyConcat
<1>2. FlattenSeq(seqs) \in Orderly(P)
  <2>1. <<>> \in Orderly(P)
    BY DEF Orderly
  <2> QED BY <1>1, <2>1, FlattenTypes
<1>3. ASSUME NEW e, NEW k \in DOMAIN seqs, seqs[k] \in With(P, e)
      PROVE  FlattenSeq(seqs) \in With(P, e)
  <2>1. With(P, e) \in SUBSET Orderly(P)
    BY DEF With
  <2>2. \A u \in With(P, e), v \in Orderly(P) : u \o v \in With(P, e) /\ v \o u \in With(P, e)
    BY <2>1, OrderlyConcat
  <2> QED BY <1>1, <1>3, <2>1, <2>2, FlattenIn
<1> QED BY <1>2, <1>3

LEMMA ImageFinite ==
    ASSUME NEW S, IsFiniteSet(S), NEW f
    PROVE  IsFiniteSet({f[x] : x \in S})
<1> DEFINE T == {f[x] : x \in S}
           g == [x \in S |-> f[x]]
<1>1. g \in Surjection(S, T)
  BY DEF Surjection
<1> HIDE DEF T, g
<1>2. IsFiniteSet(T)
  BY <1>1, FS_Surjection
<1> QED BY <1>2 DEF T

\* The claims that are indexed are among those of the page.
LEMMA IndexedIsListed ==
    ASSUME NEW page
    PROVE  Indexed(page) \subseteq ToSet(page.claims)
BY DEF Indexed, ToSet

LEMMA PagesTyped ==
    ASSUME NEW m \in Wiki
    PROVE  /\ IsFiniteSet(Pages(m)) /\ Pages(m) \subseteq Page
           /\ IsFiniteSet(ClaimsOf(m)) /\ ClaimsOf(m) \subseteq Claim
           /\ IsFiniteSet(Disputed(m)) /\ Disputed(m) \subseteq Claim
           /\ Roots(m, {}) \subseteq Refs
<1> DEFINE S == {p \in Slugs : m[p] # Nil}
           f == [p \in S |-> Content[m[p]]]
<1>1. m \in [Slugs -> Versions \cup {Nil}] /\ \A p \in S : m[p] \in Versions
  BY DEF Wiki
<1>2. IsFiniteSet(S)
  BY FiniteAssumption, FS_Subset DEF Refs
<1>3. Pages(m) = {f[p] : p \in S}
  BY DEF Pages
<1>4. \A p \in S : f[p] \in Page
  BY <1>1, ContentAssumption
<1> HIDE DEF f, S
<1>5. IsFiniteSet(Pages(m)) /\ Pages(m) \subseteq Page
  BY <1>2, <1>3, <1>4, ImageFinite
<1>6. ASSUME NEW page \in Pages(m)
      PROVE  IsFiniteSet(ToSet(page.claims)) /\ ToSet(page.claims) \subseteq Claim
  <2>1. page.claims \in Seq(Claim)
    BY <1>5 DEF Page
  <2> DEFINE claims == page.claims
  <2> HIDE DEF claims
  <2>2. DOMAIN claims = 1..Len(claims) /\ Len(claims) \in Nat /\ \A i \in DOMAIN claims : claims[i] \in Claim
    <3>1. claims \in Seq(Claim)
      BY <2>1 DEF claims
    <3> QED BY <3>1, LenProperties, ElementOfSeq
  <2>3. ToSet(claims) = {claims[i] : i \in DOMAIN claims}
    BY DEF ToSet
  <2>4. IsFiniteSet(DOMAIN claims)
    BY <2>2, FS_Interval
  <2>5. IsFiniteSet(ToSet(claims)) /\ ToSet(claims) \subseteq Claim
    BY <2>2, <2>3, <2>4, ImageFinite
  <2> QED BY <2>5 DEF claims
<1> DEFINE g == [page \in Pages(m) |-> ToSet(page.claims)]
           sets == {g[page] : page \in Pages(m)}
<1>7. Listed(m) = UNION sets /\ \A s \in sets : IsFiniteSet(s) /\ s \subseteq Claim
  BY <1>6 DEF Listed
<1>8. IsFiniteSet(sets)
  <2> HIDE DEF g
  <2> QED BY <1>5, ImageFinite
<1> HIDE DEF g, sets
<1>9. IsFiniteSet(Listed(m)) /\ Listed(m) \subseteq Claim
  <2>1. IsFiniteSet(UNION sets)
    BY <1>7, <1>8, FS_UNION
  <2> QED BY <1>7, <2>1
<1>10. IsFiniteSet(ClaimsOf(m)) /\ ClaimsOf(m) \subseteq Claim
  <2>1. ClaimsOf(m) \subseteq Listed(m)
    BY IndexedIsListed DEF ClaimsOf, Listed
  <2> QED BY <1>9, <2>1, FS_Subset
<1>11. IsFiniteSet(FactIndex(m)) /\ FactIndex(m) \subseteq Claim
  <2> DEFINE both == {cd \in Listed(m) \X ClaimsOf(m) : cd[1].ref = cd[2].ref}
             h == [cd \in both |-> [cd[1] EXCEPT !.text = cd[2].text]]
  <2>1. IsFiniteSet(both)
    <3>1. IsFiniteSet(Listed(m) \X ClaimsOf(m))
      BY <1>9, <1>10, FS_Product
    <3> QED BY <3>1, FS_Subset
  <2>2. \A cd \in both : h[cd] \in Claim
    BY <1>9, <1>10 DEF Claim
  <2>3. FactIndex(m) = {h[cd] : cd \in both}
    BY DEF FactIndex
  <2> HIDE DEF both, h
  <2> QED BY <2>1, <2>2, <2>3, ImageFinite
<1>12. Disputed(m) \subseteq FactIndex(m)
  BY DEF Disputed
<1>13. IsFiniteSet(Disputed(m)) /\ Disputed(m) \subseteq Claim
  BY <1>11, <1>12, FS_Subset
<1>14. Roots(m, {}) \subseteq Refs
  <2>1. \A c \in Claim : c.ref \in Claims /\ c.supersedes \subseteq Claims /\ c.contradicts \subseteq Claims
    BY DEF Claim
  <2> QED BY <1>10, <1>13, <2>1 DEF Roots, Superseded, Contradicted, Refs
<1> QED BY <1>5, <1>10, <1>13, <1>14

LEMMA ClaimWritesOrderly ==
    ASSUME NEW slug \in Slugs, NEW c \in Claim
    PROVE  ClaimWrites(slug, c) \in With({slug}, Node(c.ref))
<1> DEFINE w == ClaimWrites(slug, c)
<1>1. /\ c.ref \in Refs /\ c.source \in Refs /\ slug \in Refs
      /\ <<slug, "contains", c.ref>> \in Edge /\ <<c.ref, "derived_from", c.source>> \in Edge
  BY DEF Claim, Refs, Edge, Propagating
<1>2. Node(c.ref) \in Entry /\ Node(c.source) \in Entry
  BY <1>1 DEF Node, Entry
<1>3. Arc(slug, "contains", c.ref) \in Entry /\ Arc(c.ref, "derived_from", c.source) \in Entry
  BY <1>1 DEF Arc, Entry
<1>4. w \in Seq(Entry) /\ DOMAIN w = 1..4
  BY <1>2, <1>3 DEF ClaimWrites
<1>5. /\ w[1] = Node(c.ref) /\ w[2] = Arc(slug, "contains", c.ref)
      /\ w[3] = Node(c.source) /\ w[4] = Arc(c.ref, "derived_from", c.source)
  BY DEF ClaimWrites
<1> HIDE DEF w
<1>6. ASSUME NEW i \in DOMAIN w, w[i].kind = "edge"
      PROVE  w[i].edge[1] \in {slug} \/ \E j \in DOMAIN w : j < i /\ w[j] = Node(w[i].edge[1])
  <2>1. i \in {1, 2, 3, 4}
    BY <1>4
  <2>2. i # 1 /\ i # 3
    BY <1>5, <1>6 DEF Node
  <2>3. CASE i = 2
    BY <1>5, <2>3 DEF Arc
  <2>4. CASE i = 4
    BY <1>4, <1>5, <2>4 DEF Arc
  <2> QED BY <2>1, <2>2, <2>3, <2>4
<1>7. w \in Orderly({slug})
  BY <1>4, <1>6 DEF Orderly
<1>8. w \in With({slug}, Node(c.ref))
  BY <1>4, <1>5, <1>7 DEF With
<1> QED BY <1>8 DEF w

LEMMA PageWritesOrderly ==
    ASSUME NEW page \in Page
    PROVE  /\ PageWrites(page) \in With({}, Node(page.slug))
           /\ \A c \in ToSet(page.claims) : PageWrites(page) \in With({}, Node(c.ref))
<1> DEFINE P == {page.slug}
           first == <<Node(page.slug)>>
           parts == [i \in DOMAIN page.claims |-> ClaimWrites(page.slug, page.claims[i])]
           rest == FlattenSeq(parts)
           w == first \o rest
<1>1. page.slug \in Slugs /\ page.slug \in Refs /\ page.claims \in Seq(Claim)
  BY DEF Page, Refs
<1>2. /\ DOMAIN page.claims = 1..Len(page.claims) /\ Len(page.claims) \in Nat
      /\ \A i \in DOMAIN page.claims : page.claims[i] \in Claim
  BY <1>1, LenProperties, ElementOfSeq
<1>3. \A i \in DOMAIN page.claims : parts[i] \in With(P, Node(page.claims[i].ref))
  BY <1>1, <1>2, ClaimWritesOrderly
<1>4. parts \in Seq(Orderly(P)) /\ DOMAIN parts = DOMAIN page.claims
  <2>1. parts = [i \in 1..Len(page.claims) |-> parts[i]] /\ DOMAIN parts = DOMAIN page.claims
    BY <1>2
  <2>2. \A i \in 1..Len(page.claims) : parts[i] \in Orderly(P)
    BY <1>2, <1>3 DEF With
  <2> HIDE DEF parts, P
  <2> QED BY <1>2, <2>1, <2>2
<1> HIDE DEF parts
<1>5. /\ rest \in Orderly(P)
      /\ \A i \in DOMAIN page.claims : rest \in With(P, Node(page.claims[i].ref))
  BY <1>3, <1>4, OrderlyFlatten
<1>6. first \in Orderly(P) /\ first \in With(P, Node(page.slug))
  <2>1. Node(page.slug) \in Entry /\ Node(page.slug).kind # "edge"
    BY <1>1 DEF Node, Entry
  <2>2. first \in Seq(Entry) /\ DOMAIN first = {1} /\ first[1] = Node(page.slug)
    BY <2>1
  <2> HIDE DEF first
  <2>3. first \in Orderly(P)
    BY <2>1, <2>2 DEF Orderly
  <2> QED BY <2>2, <2>3 DEF With
<1>7. /\ w \in Orderly(P)
      /\ w \in With(P, Node(page.slug))
      /\ \A i \in DOMAIN page.claims : w \in With(P, Node(page.claims[i].ref))
  <2> HIDE DEF first, rest
  <2> QED BY <1>5, <1>6, OrderlyConcat
<1>8. 1 \in DOMAIN w /\ w[1] = Node(page.slug) /\ DOMAIN w \subseteq Nat \ {0}
  <2>1. first \in Seq(Entry) /\ rest \in Seq(Entry) /\ w \in Seq(Entry)
    BY <1>5, <1>6, <1>7 DEF Orderly
  <2>2. 1 \in DOMAIN first /\ first[1] = Node(page.slug)
    OBVIOUS
  <2> HIDE DEF first, rest
  <2>3. 1 \in DOMAIN w /\ w[1] = Node(page.slug)
    BY <2>1, <2>2, ConcatEntries
  <2>4. DOMAIN w = 1..Len(w)
    BY <2>1, LenProperties
  <2> QED BY <2>3, <2>4
<1> HIDE DEF w
<1>9. w \in Orderly({})
  <2>1. ASSUME NEW i \in DOMAIN w, w[i].kind = "edge"
        PROVE  \E j \in DOMAIN w : j < i /\ w[j] = Node(w[i].edge[1])
    <3>1. CASE w[i].edge[1] \in P
      <4>1. i # 1
        BY <1>8, <2>1 DEF Node
      <4> QED BY <1>8, <3>1, <4>1
    <3> QED BY <1>7, <2>1, <3>1 DEF Orderly
  <2> QED BY <1>7, <2>1 DEF Orderly
<1>10. \A e : w \in With(P, e) => w \in With({}, e)
  BY <1>9 DEF With
<1>11. w = PageWrites(page)
  BY DEF w, parts, PageWrites
<1>12. \A c \in ToSet(page.claims) : \E i \in DOMAIN page.claims : c = page.claims[i]
  BY DEF ToSet
<1> QED BY <1>7, <1>10, <1>11, <1>12

\* A list of relations starts no edge.
LEMMA RelationsOrderly ==
    ASSUME NEW w \in Seq([kind : {"relation"}, edge : Edge])
    PROVE  w \in Orderly({})
<1> DEFINE R == [kind : {"relation"}, edge : Edge]
<1>1. R \subseteq Entry /\ \A e \in R : e.kind = "relation"
  BY DEF Entry
<1> HIDE DEF R
<1>2. w \in Seq(R)
  BY DEF R
<1>3. /\ w \in [1..Len(w) -> R] /\ Len(w) \in Nat
      /\ \A i \in DOMAIN w : w[i].kind = "relation"
  BY <1>1, <1>2, LenProperties, ElementOfSeq
<1>4. w \in Seq(Entry)
  BY <1>1, <1>3
<1> QED BY <1>3, <1>4 DEF Orderly

LEMMA RelationWritesOrderly ==
    ASSUME NEW c \in Claim
    PROVE  RelationWrites(c) \in Orderly({})
<1> DEFINE R == [kind : {"relation"}, edge : Edge]
           one == [i \in 1..Cardinality(c.supersedes) |->
                      Relation(c.ref, "supersedes", SetToSeq(c.supersedes)[i])]
           two == [i \in 1..Cardinality(c.contradicts) |->
                      Relation(c.ref, "contradicts", SetToSeq(c.contradicts)[i])]
<1>1. c.ref \in Refs /\ c.supersedes \subseteq Refs /\ c.contradicts \subseteq Refs
  BY DEF Claim, Refs
<1>2. IsFiniteSet(c.supersedes) /\ IsFiniteSet(c.contradicts)
  BY <1>1, FiniteAssumption, FS_Subset
<1>3. \A t \in Refs : Relation(c.ref, "supersedes", t) \in R /\ Relation(c.ref, "contradicts", t) \in R
  BY <1>1 DEF Relation, Edge
<1> HIDE DEF R
<1>4. one \in Seq(R)
  <2>1. /\ Cardinality(c.supersedes) \in Nat
        /\ \A i \in 1..Cardinality(c.supersedes) : SetToSeq(c.supersedes)[i] \in Refs
    BY <1>1, <1>2, SetToSeqLists
  <2> QED BY <1>3, <2>1
<1>5. two \in Seq(R)
  <2>1. /\ Cardinality(c.contradicts) \in Nat
        /\ \A i \in 1..Cardinality(c.contradicts) : SetToSeq(c.contradicts)[i] \in Refs
    BY <1>1, <1>2, SetToSeqLists
  <2> QED BY <1>3, <2>1
<1> HIDE DEF one, two
<1>6. one \in Orderly({}) /\ two \in Orderly({})
  BY <1>4, <1>5, RelationsOrderly DEF R
<1>7. one \o two \in Orderly({})
  BY <1>6, OrderlyConcat
<1> QED BY <1>7 DEF RelationWrites, one, two

LEMMA ConflictWritesOrderly ==
    ASSUME NEW m \in Wiki
    PROVE  ConflictWrites(m) \in Orderly({})
<1> DEFINE R == [kind : {"relation"}, edge : Edge]
           disputed == SetToSeq(Disputed(m))
           pairs == {ij \in (DOMAIN disputed) \X (DOMAIN disputed) :
                        /\ ij[1] < ij[2]
                        /\ disputed[ij[1]].fact = disputed[ij[2]].fact}
           f == [ij \in pairs |-> Relation(disputed[ij[1]].ref, "contradicts", disputed[ij[2]].ref)]
           S == {Relation(disputed[ij[1]].ref, "contradicts", disputed[ij[2]].ref) : ij \in pairs}
<1>1. /\ Cardinality(Disputed(m)) \in Nat
      /\ disputed \in [1..Cardinality(Disputed(m)) -> Claim]
  BY PagesTyped, SetToSeqLists
<1> HIDE DEF disputed
<1>2. IsFiniteSet(DOMAIN disputed)
  BY <1>1, FS_Interval
<1>3. IsFiniteSet(pairs)
  <2>1. IsFiniteSet((DOMAIN disputed) \X (DOMAIN disputed))
    BY <1>2, FS_Product
  <2> QED BY <2>1, FS_Subset
<1>4. \A ij \in pairs : f[ij] \in R
  BY <1>1 DEF Claim, Refs, Edge, Relation
<1>5. S = {f[ij] : ij \in pairs}
  OBVIOUS
<1> HIDE DEF pairs, f, R
<1>6. IsFiniteSet(S)
  <2>1. IsFiniteSet({f[ij] : ij \in pairs})
    BY <1>3, ImageFinite
  <2> QED BY <1>5, <2>1
<1>7. S \subseteq R
  BY <1>4, <1>5
<1> HIDE DEF S
<1>8. SetToSeq(S) \in Seq(R)
  BY <1>6, <1>7, SetToSeqLists
<1>9. SetToSeq(S) \in Orderly({})
  BY <1>8, RelationsOrderly DEF R
<1> QED BY <1>9 DEF ConflictWrites, S, pairs, disputed

\* What a sync writes is made of rows, edges that start at a row written before, and
\* relations; it writes a row of every page and of every claim.
ProjectedBy(m) == {page.slug : page \in Pages(m)} \cup {c.ref : c \in ClaimsOf(m)}

LEMMA WritesOrderly ==
    ASSUME NEW m \in Wiki
    PROVE  /\ Writes(m) \in Orderly({})
           /\ \A r \in ProjectedBy(m) : Writes(m) \in With({}, Node(r))
<1> DEFINE pages == SetToSeq(Pages(m))
           n == Cardinality(Pages(m))
           claims == SetToSeq(ClaimsOf(m))
           pagewise == [i \in DOMAIN pages |-> PageWrites(pages[i])]
           claimwise == [i \in DOMAIN claims |-> RelationWrites(claims[i])]
<1>1. n \in Nat /\ pages \in [1..n -> Page] /\ \A page \in Pages(m) : \E i \in 1..n : pages[i] = page
  <2>1. IsFiniteSet(Pages(m)) /\ Pages(m) \subseteq Page
    BY PagesTyped
  <2> QED BY <2>1, SetToSeqLists
<1> HIDE DEF pages, n
<1>2. claims \in Seq(Claim)
  BY PagesTyped, SetToSeqLists
<1> HIDE DEF claims
<1>3. pagewise \in Seq(Orderly({})) /\ DOMAIN pagewise = 1..n
  <2>1. \A i \in 1..n : PageWrites(pages[i]) \in Orderly({})
    BY <1>1, PageWritesOrderly DEF With
  <2> QED BY <1>1, <2>1
<1>4. claimwise \in Seq(Orderly({}))
  <2>1. DOMAIN claims = 1..Len(claims) /\ Len(claims) \in Nat /\ \A i \in DOMAIN claims : claims[i] \in Claim
    BY <1>2, LenProperties, ElementOfSeq
  <2>2. \A i \in 1..Len(claims) : RelationWrites(claims[i]) \in Orderly({})
    BY <2>1, RelationWritesOrderly
  <2> QED BY <2>1, <2>2
<1>5. \A i \in 1..n : pagewise[i] = PageWrites(pages[i])
  BY <1>1
<1> HIDE DEF pagewise, claimwise
<1>6. FlattenSeq(pagewise) \in Orderly({}) /\ FlattenSeq(claimwise) \in Orderly({})
  BY <1>3, <1>4, OrderlyFlatten
<1>7. \A r \in ProjectedBy(m) : FlattenSeq(pagewise) \in With({}, Node(r))
  <2>1. ASSUME NEW page \in Pages(m)
        PROVE  /\ FlattenSeq(pagewise) \in With({}, Node(page.slug))
               /\ \A c \in ToSet(page.claims) : FlattenSeq(pagewise) \in With({}, Node(c.ref))
    <3>1. PICK i \in 1..n : pages[i] = page
      BY <1>1
    <3>2. pagewise[i] = PageWrites(page) /\ page \in Page /\ i \in DOMAIN pagewise
      BY <1>1, <1>3, <1>5, <3>1
    <3>3. /\ pagewise[i] \in With({}, Node(page.slug))
          /\ \A c \in ToSet(page.claims) : pagewise[i] \in With({}, Node(c.ref))
      BY <3>2, PageWritesOrderly
    <3> QED BY <1>3, <3>2, <3>3, OrderlyFlatten
  <2> QED BY <2>1, IndexedIsListed DEF ProjectedBy, ClaimsOf
<1> DEFINE u == FlattenSeq(pagewise)
           v == FlattenSeq(claimwise)
           w == ConflictWrites(m)
<1>8. u \in Orderly({}) /\ v \in Orderly({}) /\ w \in Orderly({})
  BY <1>6, ConflictWritesOrderly
<1>9. \A r \in ProjectedBy(m) : u \in With({}, Node(r))
  BY <1>7
<1>10. Writes(m) = (u \o v) \o w
  BY DEF Writes, pages, claims, pagewise, claimwise
<1> HIDE DEF u, v, w
<1>11. u \o v \in Orderly({}) /\ \A r \in ProjectedBy(m) : u \o v \in With({}, Node(r))
  BY <1>8, <1>9, OrderlyConcat
<1> HIDE DEF Orderly
<1>12. (u \o v) \o w \in Orderly({}) /\ \A r \in ProjectedBy(m) : (u \o v) \o w \in With({}, Node(r))
  BY <1>8, <1>11, OrderlyConcat
<1> QED BY <1>10, <1>12

LEMMA PlanIsWrites ==
    ASSUME NEW m \in Wiki
    PROVE  /\ Plan[m] \in Seq(Entry) /\ Len(Plan[m]) \in Nat /\ DOMAIN Plan[m] = 1..Len(Plan[m])
           /\ \A i \in 1..Len(Plan[m]) : Plan[m][i].kind = "edge" =>
                  \E j \in 1..Len(Plan[m]) : j < i /\ Plan[m][j] = Node(Plan[m][i].edge[1])
           /\ \A r \in ProjectedBy(m) : \E i \in 1..Len(Plan[m]) : Plan[m][i] = Node(r)
<1>1. Plan[m] = Writes(m)
  <2>1. \E table \in {[x \in Wiki |-> Writes(x)]} : table = table
    OBVIOUS
  <2>2. Plan = [x \in Wiki |-> Writes(x)]
    BY <2>1 DEF Plan
  <2> QED BY <2>2
<1> DEFINE w == Plan[m]
<1>2. w \in Orderly({}) /\ \A r \in ProjectedBy(m) : w \in With({}, Node(r))
  BY <1>1, WritesOrderly
<1> HIDE DEF w
<1>3. w \in Seq(Entry)
  BY <1>2 DEF Orderly
<1>4. Len(w) \in Nat /\ DOMAIN w = 1..Len(w)
  BY <1>3, LenProperties
<1>5. \A i \in DOMAIN w : w[i].kind = "edge" => \E j \in DOMAIN w : j < i /\ w[j] = Node(w[i].edge[1])
  BY <1>2 DEF Orderly
<1>6. \A r \in ProjectedBy(m) : \E i \in DOMAIN w : w[i] = Node(r)
  BY <1>2 DEF With
<1>7. /\ \A i \in 1..Len(w) : w[i].kind = "edge" =>
             \E j \in 1..Len(w) : j < i /\ w[j] = Node(w[i].edge[1])
      /\ \A r \in ProjectedBy(m) : \E i \in 1..Len(w) : w[i] = Node(r)
  BY <1>4, <1>5, <1>6
<1> QED BY <1>3, <1>4, <1>7 DEF w

-----------------------------------------------------------------------------
\* The inductive invariant

Over(s) == stage[s] \in {"report", "done"}
Ahead(s, r) == \E i \in next[s]..Len(Plan[read[s]]) : Plan[read[s]][i] = Node(r)
Reached(s, r) == RestsOn(Rows, edges, Roots(read[s], late[s]), r)
Hit(s, a) == Reached(s, anchors[a].claim)

\* Every edge starts at a row.
Ends == \A e \in edges : e[1] \in Rows

\* The rows that a sync has written are there.
Written ==
    \A s \in Syncs : stage[s] = "sync" =>
        \A j \in 1..next[s] - 1 : \A r \in Refs : Plan[read[s]][j] = Node(r) => r \in Rows

\* What a sync saw when it began is still there.
Remembered ==
    \A s \in Syncs : links[s] \subseteq ArtifactEdges /\ \A a \in seen[s] : anchors[a] # Nil

\* The sync that a stale row is there for: one that failed; one that is over, and the row
\* rests on its roots or is none of its pages; or one that has yet to write the row.
Culprit(s, r) ==
    \/ stage[s] = "failed"
    \/ Over(s) /\ (Reached(s, r) \/ r \notin ProjectedBy(read[s]))
    \/ stage[s] = "sync" /\ (Ahead(s, r) \/ r \notin ProjectedBy(read[s]))

Caused == \A r \in Refs : nodes[r] = "stale" => \E s \in Syncs : Culprit(s, r)

\* A sync whose roots are all propagated, unless an artifact was registered since.
Complete(s) ==
    links[s] = ArtifactEdges =>
        /\ \A r \in Refs : Reached(s, r) => nodes[r] = "stale"
        /\ \A x \in Syncs : Over(x) =>
              \A a \in seen[x] : Hit(s, a) => anchors[a].stale

Settled == \A s \in Syncs : stage[s] \notin {"sync", "failed"}

\* When no sync is under way or failed, the one that was last to propagate is complete.
Marked == Settled /\ (\E s \in Syncs : Over(s)) => \E s \in Syncs : Over(s) /\ Complete(s)

GraphInv == GraphTypeOK /\ Ends /\ Written /\ Remembered /\ Caused /\ Marked

\* Rows, edges and anchors are never taken away.
Grows ==
    /\ Rows \subseteq Rows' /\ edges \subseteq edges'
    /\ \A a \in Anchors : anchors[a] # Nil => anchors'[a] # Nil /\ anchors'[a].claim = anchors[a].claim

LEMMA NextWrite ==
    ASSUME GraphTypeOK, NEW s \in Syncs, next[s] <= Len(Plan[read[s]])
    PROVE  /\ read[s] \in Wiki
           /\ next[s] \in 1..Len(Plan[read[s]])
           /\ Plan[read[s]][next[s]] \in Entry
           /\ Plan[read[s]][next[s]].kind = "edge" =>
                 \E j \in 1..next[s] - 1 : Plan[read[s]][j] = Node(Plan[read[s]][next[s]].edge[1])
<1> DEFINE m == read[s]
           i == next[s]
           w == Plan[m]
<1>1. m \in Wiki /\ i \in Nat /\ i \in 1..Len(w) + 1
  BY DEF GraphTypeOK
<1> HIDE DEF m, i
<1>2. /\ w \in Seq(Entry) /\ Len(w) \in Nat
      /\ \A k \in 1..Len(w) : w[k].kind = "edge" =>
             \E j \in 1..Len(w) : j < k /\ w[j] = Node(w[k].edge[1])
  BY <1>1, PlanIsWrites
<1> HIDE DEF w
<1>3. i <= Len(w)
  BY DEF m, i, w
<1>4. i \in 1..Len(w)
  BY <1>1, <1>2, <1>3
<1>5. w[i] \in Entry
  BY <1>2, <1>4, ElementOfSeq
<1>6. w[i].kind = "edge" => \E j \in 1..i - 1 : w[j] = Node(w[i].edge[1])
  <2> SUFFICES ASSUME w[i].kind = "edge" PROVE \E j \in 1..i - 1 : w[j] = Node(w[i].edge[1])
    OBVIOUS
  <2>1. PICK j \in 1..Len(w) : j < i /\ w[j] = Node(w[i].edge[1])
    BY <1>2, <1>4
  <2>2. j \in 1..i - 1
    BY <1>1, <2>1
  <2> QED BY <2>1, <2>2
<1> QED BY <1>1, <1>4, <1>5, <1>6 DEF m, i, w

LEMMA EntryTypes ==
    ASSUME NEW e \in Entry
    PROVE  /\ e.kind \in {"node", "edge", "relation"}
           /\ e.kind = "node" => e.ref \in Refs /\ e = Node(e.ref)
           /\ e.kind \in {"edge", "relation"} => e.edge \in Edge /\ \A r : e # Node(r)
BY DEF Entry, Node

\* ------------------------------- types
LEMMA GraphTypes ==
    ASSUME GraphTypeOK, GraphNext
    PROVE  GraphTypeOK'
<1> USE DEF GraphTypeOK
<1>0. UNCHANGED syncVars => 
        /\ stage' \in [Syncs -> {"idle", "sync", "report", "done", "failed"}]
        /\ read' \in [Syncs -> Wiki]
        /\ late' \in [Syncs -> SUBSET Slugs]
        /\ next' \in [Syncs -> Nat] /\ \A s \in Syncs : next'[s] \in 1..Len(Plan[read'[s]]) + 1
        /\ links' \in [Syncs -> SUBSET Edge]
        /\ seen' \in [Syncs -> SUBSET Anchors]
  BY DEF syncVars
<1>1. ASSUME NEW v \in Versions, CompilePage(v) PROVE GraphTypeOK'
  <2>1. meta' \in Wiki
    BY <1>1 DEF CompilePage, Wiki
  <2>2. due' \in SUBSET Slugs /\ compiles' \in 0..MaxCompiles
    BY <1>1, BoundAssumption DEF CompilePage
  <2>3. UNCHANGED <<nodes, edges, anchors>> /\ UNCHANGED syncVars
    BY <1>1 DEF CompilePage, graph
  <2> QED BY <1>0, <2>1, <2>2, <2>3
<1>2. ASSUME NEW p \in Slugs, ReviewPasses(p) PROVE GraphTypeOK'
  <2>1. UNCHANGED <<meta, compiles, nodes, edges, anchors>> /\ UNCHANGED syncVars /\ due' \in SUBSET Slugs
    BY <1>2 DEF ReviewPasses, graph
  <2> QED BY <1>0, <2>1
<1>3. ASSUME NEW d \in Dependent, Register(d[1], d[2]) PROVE GraphTypeOK'
  <2>1. d[1] \in Artifacts /\ d[1] \in Refs /\ d[2] \in Refs
    BY BoundAssumption DEF Refs
  <2>2. <<d[1], "depends_on", d[2]>> \in Edge
    BY <2>1 DEF Edge, Propagating
  <2>3. nodes' \in [Refs -> {"absent", "fresh", "stale"}] /\ edges' \in SUBSET Edge
    BY <1>3, <2>1, <2>2 DEF Register
  <2>4. UNCHANGED <<meta, due, compiles, anchors>> /\ UNCHANGED syncVars
    BY <1>3 DEF Register, wiki
  <2> QED BY <1>0, <2>3, <2>4
<1>4. ASSUME NEW a \in Anchors, NEW basis \in Evidence, RecordAnchor(a, basis[1], basis[2])
      PROVE  GraphTypeOK'
  <2>1. [claim |-> basis[1], task |-> basis[2], stale |-> FALSE] \in Anchor
    BY BoundAssumption DEF Anchor
  <2>2. anchors' \in [Anchors -> Anchor \cup {Nil}]
    BY <1>4, <2>1 DEF RecordAnchor
  <2>3. UNCHANGED <<meta, due, compiles, nodes, edges>> /\ UNCHANGED syncVars
    BY <1>4 DEF RecordAnchor, wiki
  <2> QED BY <1>0, <2>2, <2>3
<1>5. ASSUME NEW s \in Syncs, Sync(s) PROVE GraphTypeOK'
  <2>1. CASE Begin(s)
    <3>1. UNCHANGED <<meta, due, compiles, nodes, edges, anchors>>
      BY <2>1 DEF Begin, wiki, graph
    <3>2. /\ stage' \in [Syncs -> {"idle", "sync", "report", "done", "failed"}]
          /\ read' \in [Syncs -> Wiki]
          /\ late' \in [Syncs -> SUBSET Slugs]
          /\ next' \in [Syncs -> Nat]
          /\ links' \in [Syncs -> SUBSET Edge]
          /\ seen' \in [Syncs -> SUBSET Anchors]
      BY <2>1 DEF Begin, ArtifactEdges
    <3>3. Len(Plan[meta]) \in Nat
      BY PlanIsWrites
    <3>4. \A x \in Syncs : next'[x] \in 1..Len(Plan[read'[x]]) + 1
      BY <2>1, <3>3 DEF Begin
    <3> QED BY <3>1, <3>2, <3>4
  <2>2. CASE \E kind : Writing(s, kind)
    <3>1. UNCHANGED <<meta, due, compiles, anchors, stage, read, late, links, seen>>
      BY <2>2 DEF Writing, wiki
    <3>2. next' \in [Syncs -> Nat] /\ \A x \in Syncs : next'[x] \in 1..Len(Plan[read'[x]]) + 1
      <4>1. next[s] \in 1..Len(Plan[read[s]]) /\ Len(Plan[read[s]]) \in Nat
        BY <2>2, NextWrite, PlanIsWrites DEF Writing
      <4>2. next[s] + 1 \in 1..Len(Plan[read[s]]) + 1
        BY <4>1
      <4> QED BY <2>2, <3>1, <4>2 DEF Writing
    <3>3. Plan[read[s]][next[s]] \in Entry
      BY <2>2, NextWrite DEF Writing
    <3>4. CASE UpsertNode(s)
      <4>1. Plan[read[s]][next[s]].ref \in Refs
        BY <3>3, <3>4, EntryTypes DEF UpsertNode, Writing
      <4>2. nodes' \in [Refs -> {"absent", "fresh", "stale"}] /\ edges' = edges
        BY <3>4, <4>1 DEF UpsertNode
      <4> QED BY <3>1, <3>2, <4>2
    <3>5. CASE EnsureEdge(s) \/ EnsureRelation(s)
      <4>1. Plan[read[s]][next[s]].edge \in Edge
        BY <3>3, <3>5, EntryTypes DEF EnsureEdge, EnsureRelation, Writing
      <4>2. nodes' = nodes /\ edges' \in SUBSET Edge
        BY <3>5, <4>1 DEF EnsureEdge, EnsureRelation
      <4> QED BY <3>1, <3>2, <4>2
    <3>6. UpsertNode(s) \/ EnsureEdge(s) \/ EnsureRelation(s)
      BY <1>5, <2>2 DEF Sync, Writing, Begin, PropagateStale, Report, SyncFails
    <3> QED BY <3>4, <3>5, <3>6
  <2>3. CASE PropagateStale(s)
    <3>1. UNCHANGED <<meta, due, compiles, edges, read, late, next, links, seen>>
      BY <2>3 DEF PropagateStale, wiki
    <3>2. nodes' \in [Refs -> {"absent", "fresh", "stale"}]
      BY <2>3 DEF PropagateStale
    <3>3. anchors' \in [Anchors -> Anchor \cup {Nil}]
      BY <2>3 DEF PropagateStale, Anchor
    <3>4. stage' \in [Syncs -> {"idle", "sync", "report", "done", "failed"}]
      BY <2>3 DEF PropagateStale
    <3> QED BY <3>1, <3>2, <3>3, <3>4
  <2>4. CASE Report(s)
    <3>1. UNCHANGED <<meta, due, compiles, nodes, edges, anchors, read, late, next, links, seen>>
      BY <2>4 DEF Report, wiki, graph
    <3>2. stage' \in [Syncs -> {"idle", "sync", "report", "done", "failed"}]
      BY <2>4 DEF Report
    <3> QED BY <3>1, <3>2
  <2>5. CASE SyncFails(s)
    <3>1. UNCHANGED <<meta, due, compiles, nodes, edges, anchors>>
      BY <2>5 DEF SyncFails, wiki, graph
    <3>2. NoWiki \in Wiki
      BY DEF NoWiki, Wiki
    <3>3. /\ stage' \in [Syncs -> {"idle", "sync", "report", "done", "failed"}]
          /\ read' \in [Syncs -> Wiki]
          /\ late' \in [Syncs -> SUBSET Slugs]
          /\ next' \in [Syncs -> Nat]
          /\ links' \in [Syncs -> SUBSET Edge]
          /\ seen' \in [Syncs -> SUBSET Anchors]
      BY <2>5, <3>2 DEF SyncFails
    <3>4. Len(Plan[NoWiki]) \in Nat
      BY <3>2, PlanIsWrites
    <3>5. \A x \in Syncs : next'[x] \in 1..Len(Plan[read'[x]]) + 1
      BY <2>5, <3>4 DEF SyncFails
    <3> QED BY <3>1, <3>3, <3>5
  <2> QED BY <1>5, <2>1, <2>2, <2>3, <2>4, <2>5 DEF Sync, UpsertNode, EnsureEdge, EnsureRelation
<1> QED BY <1>1, <1>2, <1>3, <1>4, <1>5 DEF GraphNext

\* ------------------------------- frames
\* What a sync keeps when it does not move.
Same(s) ==
    /\ stage'[s] = stage[s] /\ read'[s] = read[s] /\ late'[s] = late[s]
    /\ next'[s] = next[s] /\ links'[s] = links[s] /\ seen'[s] = seen[s]

Others ==
    \/ \E v \in Versions : CompilePage(v)
    \/ \E p \in Slugs : ReviewPasses(p)
    \/ \E d \in Dependent : Register(d[1], d[2])
    \/ \E a \in Anchors, basis \in Evidence : RecordAnchor(a, basis[1], basis[2])

LEMMA OthersKeepSyncs ==
    ASSUME Others
    PROVE  UNCHANGED syncVars /\ \A s \in Syncs : Same(s)
<1>1. UNCHANGED syncVars
  BY DEF Others, CompilePage, ReviewPasses, Register, RecordAnchor
<1> QED BY <1>1 DEF syncVars, Same

LEMMA SyncKeepsOthers ==
    ASSUME GraphTypeOK, NEW s \in Syncs, Sync(s), NEW x \in Syncs, x # s
    PROVE  Same(x)
<1> USE DEF GraphTypeOK, Same
<1>1. CASE Begin(s)
  BY <1>1 DEF Begin
<1>2. CASE UpsertNode(s) \/ EnsureEdge(s) \/ EnsureRelation(s)
  BY <1>2 DEF UpsertNode, EnsureEdge, EnsureRelation, Writing
<1>3. CASE PropagateStale(s)
  BY <1>3 DEF PropagateStale
<1>4. CASE Report(s)
  BY <1>4 DEF Report
<1>5. CASE SyncFails(s)
  BY <1>5 DEF SyncFails
<1> QED BY <1>1, <1>2, <1>3, <1>4, <1>5 DEF Sync

\* A write of a sync moves it on by one and leaves everything else of it alone.
LEMMA WritingMoves ==
    ASSUME GraphTypeOK, NEW s \in Syncs, NEW kind, Writing(s, kind)
    PROVE  /\ stage[s] = "sync" /\ stage'[s] = "sync" /\ UNCHANGED <<anchors, stage>>
           /\ read'[s] = read[s] /\ late'[s] = late[s] /\ links'[s] = links[s] /\ seen'[s] = seen[s]
           /\ next'[s] = next[s] + 1
           /\ Plan[read[s]][next[s]].kind = kind
BY DEF GraphTypeOK, Writing

\* A propagation marks what rests on its roots, and the anchors of those claims.
LEMMA PropagateMarks ==
    ASSUME GraphTypeOK, Ends, NEW s \in Syncs, PropagateStale(s)
    PROVE  /\ stage[s] = "sync" /\ stage'[s] = "report"
           /\ UNCHANGED <<edges, read, late, next, links, seen>>
           /\ \A r \in Refs : nodes'[r] = IF Reached(s, r) THEN "stale" ELSE nodes[r]
           /\ Rows' = Rows
           /\ \A a \in Anchors :
                 /\ anchors[a] = Nil => anchors'[a] = Nil
                 /\ anchors[a] # Nil =>
                        /\ anchors'[a] # Nil /\ anchors'[a].claim = anchors[a].claim
                        /\ anchors'[a].stale = IF Reached(s, anchors[a].claim) THEN TRUE ELSE anchors[a].stale
           /\ ~ \E i \in Nat : i >= next[s] /\ i <= Len(Plan[read[s]])
<1> DEFINE stale == Walk({r \in Refs : Exists(r)}, Roots(read[s], late[s]))
<1>1. \A r : Reached(s, r) <=> r \in stale
  <2>1. edges \subseteq Edge
    BY DEF GraphTypeOK
  <2>2. stale = Walk(Rows, Roots(read[s], late[s]))
    BY DEF Rows
  <2> HIDE DEF stale
  <2> QED BY <2>1, <2>2, RestsIsReached DEF Reached, Ends
<1>2. stale \subseteq Rows
  <2>1. Walk(Rows, Roots(read[s], late[s])) \subseteq Rows
    BY WalkIsLeast DEF Rows
  <2> QED BY <2>1 DEF Rows
<1>3. /\ stage[s] = "sync" /\ next[s] > Len(Plan[read[s]])
      /\ stage' = [stage EXCEPT ![s] = "report"]
      /\ UNCHANGED <<edges, read, late, next, links, seen>>
      /\ nodes' = [r \in Refs |-> IF r \in stale THEN "stale" ELSE nodes[r]]
      /\ anchors' = [a \in Anchors |->
                        IF anchors[a] # Nil /\ anchors[a].claim \in stale
                        THEN [anchors[a] EXCEPT !.stale = TRUE] ELSE anchors[a]]
  BY DEF PropagateStale
<1> HIDE DEF stale
<1>4. stage'[s] = "report"
  BY <1>3 DEF GraphTypeOK
<1>5. \A r \in Refs : nodes'[r] = IF Reached(s, r) THEN "stale" ELSE nodes[r]
  BY <1>1, <1>3
<1>6. Rows' = Rows
  BY <1>2, <1>3 DEF Rows, Exists
<1>7. ASSUME NEW a \in Anchors, anchors[a] # Nil
      PROVE  /\ anchors'[a] # Nil /\ anchors'[a].claim = anchors[a].claim
             /\ anchors'[a].stale = IF Reached(s, anchors[a].claim) THEN TRUE ELSE anchors[a].stale
  <2>1. anchors[a] \in Anchor
    BY <1>7 DEF GraphTypeOK
  <2>2. CASE anchors[a].claim \in stale
    <3>1. anchors'[a] = [anchors[a] EXCEPT !.stale = TRUE]
      BY <1>3, <1>7, <2>2
    <3>2. /\ anchors'[a] \in Anchor /\ anchors'[a].claim = anchors[a].claim
          /\ anchors'[a].stale = TRUE
      BY <2>1, <3>1 DEF Anchor
    <3> QED BY <1>1, <2>2, <3>2, NilAssumption
  <2>3. CASE anchors[a].claim \notin stale
    BY <1>1, <1>3, <1>7, <2>3
  <2> QED BY <2>2, <2>3
<1>8. \A a \in Anchors : anchors[a] = Nil => anchors'[a] = Nil
  BY <1>3
<1>9. ~ \E i \in Nat : i >= next[s] /\ i <= Len(Plan[read[s]])
  <2>1. next[s] \in Nat /\ Len(Plan[read[s]]) \in Nat
    BY PlanIsWrites DEF GraphTypeOK
  <2> QED BY <1>3, <2>1
<1> QED BY <1>3, <1>4, <1>5, <1>6, <1>7, <1>8, <1>9

LEMMA GraphGrows ==
    ASSUME GraphTypeOK, Ends, GraphNext
    PROVE  Grows
<1>1. CASE Others
  <2>1. CASE \E a \in Anchors, basis \in Evidence : RecordAnchor(a, basis[1], basis[2])
    <3>1. PICK a \in Anchors, basis \in Evidence : RecordAnchor(a, basis[1], basis[2])
      BY <2>1
    <3>2. UNCHANGED <<nodes, edges>> /\ anchors[a] = Nil /\ \A b \in Anchors : b # a => anchors'[b] = anchors[b]
      BY <3>1 DEF RecordAnchor, GraphTypeOK
    <3> QED BY <3>2 DEF Grows, Rows, Exists
  <2>2. CASE \E d \in Dependent : Register(d[1], d[2])
    <3>1. PICK d \in Dependent : Register(d[1], d[2])
      BY <2>2
    <3>2. UNCHANGED anchors /\ edges \subseteq edges' /\ nodes' = [nodes EXCEPT ![d[1]] = "fresh"]
      BY <3>1 DEF Register
    <3>3. Rows \subseteq Rows'
      BY <3>2 DEF Rows, Exists, GraphTypeOK
    <3> QED BY <3>2, <3>3 DEF Grows
  <2>3. CASE (\E v \in Versions : CompilePage(v)) \/ (\E p \in Slugs : ReviewPasses(p))
    <3>1. UNCHANGED <<nodes, edges, anchors>>
      BY <2>3 DEF CompilePage, ReviewPasses, graph
    <3> QED BY <3>1 DEF Grows, Rows, Exists
  <2> QED BY <1>1, <2>1, <2>2, <2>3 DEF Others
<1>2. ASSUME NEW s \in Syncs, Sync(s) PROVE Grows
  <2>1. CASE Begin(s) \/ Report(s) \/ SyncFails(s)
    <3>1. UNCHANGED <<nodes, edges, anchors>>
      BY <2>1 DEF Begin, Report, SyncFails, graph
    <3> QED BY <3>1 DEF Grows, Rows, Exists
  <2>2. CASE UpsertNode(s)
    <3>1. UNCHANGED <<edges, anchors>> /\ nodes' = [nodes EXCEPT ![Plan[read[s]][next[s]].ref] = "fresh"]
      BY <2>2 DEF UpsertNode, Writing
    <3>2. Rows \subseteq Rows'
      BY <3>1 DEF Rows, Exists, GraphTypeOK
    <3> QED BY <3>1, <3>2 DEF Grows
  <2>3. CASE EnsureEdge(s) \/ EnsureRelation(s)
    <3>1. UNCHANGED <<nodes, anchors>> /\ edges \subseteq edges'
      BY <2>3 DEF EnsureEdge, EnsureRelation, Writing
    <3> QED BY <3>1 DEF Grows, Rows, Exists
  <2>4. CASE PropagateStale(s)
    <3>1. Rows' = Rows /\ edges' = edges
      BY <2>4, PropagateMarks
    <3>2. \A a \in Anchors : anchors[a] # Nil => anchors'[a] # Nil /\ anchors'[a].claim = anchors[a].claim
      BY <2>4, PropagateMarks
    <3> QED BY <3>1, <3>2 DEF Grows
  <2> QED BY <1>2, <2>1, <2>2, <2>3, <2>4 DEF Sync
<1> QED BY <1>1, <1>2 DEF GraphNext, Others

\* ------------------------------- edges start at rows
LEMMA EndsKept ==
    ASSUME GraphTypeOK, Ends, Written, GraphNext
    PROVE  Ends'
<1>0. Rows \subseteq Rows'
  BY GraphGrows DEF Grows
<1>1. CASE edges' = edges
  BY <1>0, <1>1 DEF Ends
<1>2. ASSUME NEW d \in Dependent, Register(d[1], d[2]) PROVE Ends'
  <2>1. edges' = edges \cup {<<d[1], "depends_on", d[2]>>} /\ nodes' = [nodes EXCEPT ![d[1]] = "fresh"]
    BY <1>2 DEF Register
  <2>2. d[1] \in Refs
    BY BoundAssumption DEF Refs
  <2>3. d[1] \in Rows'
    BY <2>1, <2>2 DEF Rows, Exists, GraphTypeOK
  <2> QED BY <1>0, <2>1, <2>3 DEF Ends
<1>3. ASSUME NEW s \in Syncs, EnsureEdge(s) PROVE Ends'
  <2> DEFINE e == Plan[read[s]][next[s]].edge
  <2>1. /\ stage[s] = "sync" /\ next[s] <= Len(Plan[read[s]])
        /\ Plan[read[s]][next[s]].kind = "edge" /\ edges' = edges \cup {e}
    BY <1>3 DEF EnsureEdge, Writing
  <2>2. PICK j \in 1..next[s] - 1 : Plan[read[s]][j] = Node(e[1])
    BY <2>1, NextWrite
  <2>3. e \in Edge
    BY <2>1, NextWrite, EntryTypes
  <2> HIDE DEF e
  <2>4. e[1] \in Refs
    BY <2>3 DEF Edge
  <2>5. e[1] \in Rows
    BY <2>1, <2>2, <2>4 DEF Written
  <2> QED BY <1>0, <2>1, <2>5 DEF Ends
<1>4. ASSUME NEW s \in Syncs, EnsureRelation(s) PROVE Ends'
  <2> DEFINE e == Plan[read[s]][next[s]].edge
  <2>1. /\ next[s] <= Len(Plan[read[s]]) /\ Plan[read[s]][next[s]].kind = "relation"
        /\ edges' = IF Exists(e[1]) /\ Exists(e[3]) THEN edges \cup {e} ELSE edges
    BY <1>4 DEF EnsureRelation, Writing
  <2>2. e \in Edge
    BY <2>1, NextWrite, EntryTypes
  <2> HIDE DEF e
  <2>3. e[1] \in Refs
    BY <2>2 DEF Edge
  <2> QED BY <1>0, <2>1, <2>3 DEF Ends, Rows
<1>5. ASSUME NEW s \in Syncs, Begin(s) \/ UpsertNode(s) \/ PropagateStale(s) \/ Report(s) \/ SyncFails(s)
      PROVE  edges' = edges
  BY <1>5 DEF Begin, UpsertNode, PropagateStale, Report, SyncFails, graph
<1>6. ASSUME (\E v \in Versions : CompilePage(v)) \/ (\E p \in Slugs : ReviewPasses(p))
                \/ \E a \in Anchors, basis \in Evidence : RecordAnchor(a, basis[1], basis[2])
      PROVE  edges' = edges
  BY <1>6 DEF CompilePage, ReviewPasses, RecordAnchor, graph
<1> QED BY <1>1, <1>2, <1>3, <1>4, <1>5, <1>6 DEF GraphNext, Sync

\* ------------------------------- what is written is there
LEMMA WrittenKept ==
    ASSUME GraphTypeOK, Ends, Written, GraphNext
    PROVE  Written'
<1>0. Rows \subseteq Rows'
  BY GraphGrows DEF Grows
<1> SUFFICES ASSUME NEW s \in Syncs, stage'[s] = "sync", NEW j \in 1..next'[s] - 1, NEW r \in Refs,
                    Plan[read'[s]][j] = Node(r)
             PROVE  r \in Rows'
  BY DEF Written
<1>1. CASE Same(s)
  BY <1>0, <1>1 DEF Written, Same
<1>2. CASE Begin(s)
  BY <1>2 DEF Begin, GraphTypeOK
<1>3. CASE \E kind : Writing(s, kind) /\ j # next[s]
  <2>1. PICK kind : Writing(s, kind) /\ j # next[s]
    BY <1>3
  <2>2. stage[s] = "sync" /\ read'[s] = read[s] /\ next'[s] = next[s] + 1 /\ next[s] \in Nat
    BY <2>1, WritingMoves DEF GraphTypeOK
  <2>3. j \in 1..next[s] - 1
    BY <2>1, <2>2
  <2> QED BY <1>0, <2>2, <2>3 DEF Written
<1>4. CASE UpsertNode(s) /\ j = next[s]
  <2>1. Writing(s, "node") /\ nodes' = [nodes EXCEPT ![Plan[read[s]][next[s]].ref] = "fresh"]
    BY <1>4 DEF UpsertNode
  <2>2. Plan[read[s]][next[s]] = Node(r)
    BY <1>4, <2>1, WritingMoves
  <2>3. nodes'[r] = "fresh"
    BY <2>1, <2>2 DEF Node, GraphTypeOK
  <2> QED BY <2>3 DEF Rows, Exists
<1>5. CASE (EnsureEdge(s) \/ EnsureRelation(s)) /\ j = next[s]
  <2>1. PICK kind \in {"edge", "relation"} : Writing(s, kind)
    BY <1>5 DEF EnsureEdge, EnsureRelation
  <2>2. read'[s] = read[s] /\ Plan[read[s]][next[s]].kind # "node"
    BY <2>1, WritingMoves
  <2> QED BY <1>5, <2>2 DEF Node
<1>6. CASE PropagateStale(s) \/ Report(s) \/ SyncFails(s)
  BY <1>6 DEF PropagateStale, Report, SyncFails, GraphTypeOK
<1>7. CASE Sync(s)
  BY <1>2, <1>3, <1>4, <1>5, <1>6, <1>7 DEF Sync, UpsertNode, EnsureEdge, EnsureRelation
<1> QED BY <1>1, <1>7, OthersKeepSyncs, SyncKeepsOthers DEF GraphNext, Others

\* ------------------------------- what a sync saw is there
LEMMA RememberedKept ==
    ASSUME GraphTypeOK, Ends, Remembered, GraphNext
    PROVE  Remembered'
<1>0. ArtifactEdges \subseteq ArtifactEdges' /\ \A a \in Anchors : anchors[a] # Nil => anchors'[a] # Nil
  BY GraphGrows DEF Grows, ArtifactEdges
<1> SUFFICES ASSUME NEW s \in Syncs
             PROVE  links'[s] \subseteq ArtifactEdges' /\ \A a \in seen'[s] : anchors'[a] # Nil
  BY DEF Remembered
<1>1. seen[s] \subseteq Anchors
  BY DEF GraphTypeOK
<1>2. CASE links'[s] = links[s] /\ seen'[s] = seen[s]
  BY <1>0, <1>1, <1>2 DEF Remembered
<1>3. CASE Begin(s)
  <2>1. links'[s] = ArtifactEdges /\ seen'[s] = {a \in Anchors : anchors[a] # Nil}
    BY <1>3 DEF Begin, GraphTypeOK
  <2> QED BY <1>0, <2>1
<1>4. CASE SyncFails(s)
  BY <1>4 DEF SyncFails, GraphTypeOK
<1>5. CASE UpsertNode(s) \/ EnsureEdge(s) \/ EnsureRelation(s) \/ PropagateStale(s) \/ Report(s)
  <2>1. links'[s] = links[s] /\ seen'[s] = seen[s]
    BY <1>5 DEF UpsertNode, EnsureEdge, EnsureRelation, Writing, PropagateStale, Report
  <2> QED BY <1>2, <2>1
<1>6. CASE Same(s)
  BY <1>2, <1>6 DEF Same
<1>7. CASE Sync(s)
  BY <1>3, <1>4, <1>5, <1>7 DEF Sync
<1> QED BY <1>6, <1>7, OthersKeepSyncs, SyncKeepsOthers DEF GraphNext, Others

\* ------------------------------- a stale row has a culprit
LEMMA ReachedGrows ==
    ASSUME Ends, Grows, NEW s \in Syncs, read'[s] = read[s], late'[s] = late[s],
           NEW r, Reached(s, r)
    PROVE  Reached(s, r)'
<1>1. RestsOn(Rows, edges, Roots(read[s], late[s]), r)
  BY DEF Reached
<1>2. RestsOn(Rows', edges', Roots(read[s], late[s]), r)
  BY <1>1, RestsGrows DEF Ends, Grows
<1> QED BY <1>2 DEF Reached

\* A sync that does not move is the culprit of what it was the culprit of.
LEMMA CulpritStays ==
    ASSUME Ends, Grows, NEW s \in Syncs, Same(s), NEW r, Culprit(s, r)
    PROVE  Culprit(s, r)'
<1>1. /\ stage'[s] = stage[s] /\ read'[s] = read[s] /\ late'[s] = late[s] /\ next'[s] = next[s]
  BY DEF Same
<1>2. Reached(s, r) => Reached(s, r)'
  BY <1>1, ReachedGrows
<1>3. Ahead(s, r) => Ahead(s, r)'
  BY <1>1 DEF Ahead
<1> QED BY <1>1, <1>2, <1>3 DEF Culprit, Over

\* When a sync moves it answers for what it answered for, unless it wrote the row.
LEMMA CulpritMoves ==
    ASSUME GraphTypeOK, Ends, Grows, NEW s \in Syncs, Sync(s), NEW r \in Refs,
           Culprit(s, r), nodes'[r] = "stale"
    PROVE  Culprit(s, r)'
<1>1. CASE Begin(s)
  <2>1. /\ stage'[s] = "sync" /\ next'[s] = 1 /\ read'[s] = meta /\ meta \in Wiki
    BY <1>1 DEF Begin, GraphTypeOK
  <2>2. r \in ProjectedBy(meta) => \E i \in 1..Len(Plan[meta]) : Plan[meta][i] = Node(r)
    BY <2>1, PlanIsWrites
  <2> QED BY <2>1, <2>2 DEF Culprit, Ahead
<1>2. CASE UpsertNode(s) \/ EnsureEdge(s) \/ EnsureRelation(s)
  <2>1. PICK kind : Writing(s, kind)
    BY <1>2 DEF UpsertNode, EnsureEdge, EnsureRelation
  <2>2. /\ stage[s] = "sync" /\ stage'[s] = "sync" /\ read'[s] = read[s] /\ next'[s] = next[s] + 1
        /\ next[s] \in Nat /\ Len(Plan[read[s]]) \in Nat
    BY <2>1, WritingMoves, PlanIsWrites DEF GraphTypeOK
  <2>3. Plan[read[s]][next[s]] # Node(r)
    <3>1. CASE UpsertNode(s)
      <4>1. nodes' = [nodes EXCEPT ![Plan[read[s]][next[s]].ref] = "fresh"]
        BY <3>1 DEF UpsertNode
      <4> SUFFICES ASSUME Plan[read[s]][next[s]] = Node(r) PROVE FALSE
        OBVIOUS
      <4>2. nodes'[r] = "fresh"
        BY <4>1 DEF Node, GraphTypeOK
      <4> QED BY <4>2
    <3>2. CASE EnsureEdge(s) \/ EnsureRelation(s)
      BY <3>2 DEF EnsureEdge, EnsureRelation, Writing, Node
    <3> QED BY <1>2, <3>1, <3>2
  <2>4. CASE r \notin ProjectedBy(read[s])
    BY <2>2, <2>4 DEF Culprit
  <2>5. CASE Ahead(s, r)
    <3>1. PICK i \in next[s]..Len(Plan[read[s]]) : Plan[read[s]][i] = Node(r)
      BY <2>5 DEF Ahead
    <3>2. i \in next[s] + 1..Len(Plan[read[s]])
      BY <2>2, <2>3, <3>1
    <3> QED BY <2>2, <3>1, <3>2 DEF Culprit, Ahead
  <2> QED BY <2>2, <2>4, <2>5 DEF Culprit, Over
<1>3. CASE PropagateStale(s)
  <2>1. /\ stage[s] = "sync" /\ stage'[s] = "report" /\ read' = read
        /\ ~ \E i \in Nat : i >= next[s] /\ i <= Len(Plan[read[s]])
    BY <1>3, PropagateMarks
  <2>2. next[s] \in Nat /\ Len(Plan[read[s]]) \in Nat
    BY PlanIsWrites DEF GraphTypeOK
  <2>3. ~Ahead(s, r)
    BY <2>1, <2>2 DEF Ahead
  <2> QED BY <2>1, <2>3 DEF Culprit, Over
<1>4. CASE Report(s)
  <2>1. stage[s] = "report" /\ stage'[s] = "done" /\ UNCHANGED <<read, late>>
    BY <1>4 DEF Report, GraphTypeOK
  <2>2. Reached(s, r) => Reached(s, r)'
    BY <2>1, ReachedGrows
  <2> QED BY <2>1, <2>2 DEF Culprit, Over
<1>5. CASE SyncFails(s)
  BY <1>5 DEF SyncFails, Culprit, GraphTypeOK
<1> QED BY <1>1, <1>2, <1>3, <1>4, <1>5 DEF Sync

LEMMA CausedKept ==
    ASSUME GraphTypeOK, Ends, Caused, GraphNext
    PROVE  Caused'
<1>0. Grows
  BY GraphGrows
<1> SUFFICES ASSUME NEW r \in Refs, nodes'[r] = "stale" PROVE \E s \in Syncs : Culprit(s, r)'
  BY DEF Caused
<1>1. CASE nodes[r] = "stale"
  <2>1. PICK x \in Syncs : Culprit(x, r)
    BY <1>1 DEF Caused
  <2>2. CASE Same(x)
    BY <1>0, <2>1, <2>2, CulpritStays
  <2>3. CASE Sync(x)
    BY <1>0, <2>1, <2>3, CulpritMoves
  <2> QED BY <2>2, <2>3, OthersKeepSyncs, SyncKeepsOthers DEF GraphNext, Others
<1>2. CASE nodes[r] # "stale"
  <2>1. ASSUME NEW s \in Syncs, PropagateStale(s) PROVE Culprit(s, r)'
    <3>1. stage'[s] = "report" /\ UNCHANGED <<read, late>> /\ nodes'[r] = IF Reached(s, r) THEN "stale" ELSE nodes[r]
      BY <2>1, PropagateMarks
    <3>2. Reached(s, r)
      BY <1>2, <3>1
    <3>3. Reached(s, r)'
      BY <1>0, <3>1, <3>2, ReachedGrows
    <3> QED BY <3>1, <3>3 DEF Culprit, Over
  <2>2. ASSUME Others PROVE FALSE
    <3>1. UNCHANGED nodes \/ \E d \in Dependent : Register(d[1], d[2])
      BY <2>2 DEF Others, CompilePage, ReviewPasses, RecordAnchor, graph
    <3>2. ASSUME NEW d \in Dependent, Register(d[1], d[2]) PROVE FALSE
      BY <1>2, <3>2 DEF Register, GraphTypeOK
    <3> QED BY <1>2, <3>1, <3>2
  <2>3. ASSUME NEW s \in Syncs, Begin(s) \/ EnsureEdge(s) \/ EnsureRelation(s) \/ Report(s) \/ SyncFails(s)
        PROVE  FALSE
    BY <1>2, <2>3 DEF Begin, EnsureEdge, EnsureRelation, Report, SyncFails, graph
  <2>4. ASSUME NEW s \in Syncs, UpsertNode(s) PROVE FALSE
    BY <1>2, <2>4 DEF UpsertNode, GraphTypeOK
  <2> QED BY <2>1, <2>2, <2>3, <2>4 DEF GraphNext, Sync, Others
<1> QED BY <1>1, <1>2

\* ------------------------------- the last propagation is complete
LEMMA CompleteStays ==
    ASSUME NEW s \in Syncs, Complete(s), UNCHANGED <<nodes, edges>>,
           links'[s] = links[s], read'[s] = read[s], late'[s] = late[s],
           \A x \in Syncs : Over(x)' => Over(x) /\ seen'[x] = seen[x],
           \A x \in Syncs : \A a \in seen[x] : anchors'[a] = anchors[a]
    PROVE  Complete(s)'
<1>1. ArtifactEdges' = ArtifactEdges /\ Rows' = Rows
  BY DEF ArtifactEdges, Rows, Exists
<1>2. \A r : Reached(s, r)' <=> Reached(s, r)
  BY <1>1 DEF Reached
<1> SUFFICES ASSUME links[s] = ArtifactEdges
             PROVE  /\ \A r \in Refs : Reached(s, r)' => nodes[r] = "stale"
                    /\ \A x \in Syncs : Over(x)' =>
                          \A a \in seen'[x] : Hit(s, a)' => anchors'[a].stale
  BY <1>1 DEF Complete
<1>3. /\ \A r \in Refs : Reached(s, r) => nodes[r] = "stale"
      /\ \A x \in Syncs : Over(x) => \A a \in seen[x] : Hit(s, a) => anchors[a].stale
  BY DEF Complete
<1>4. ASSUME NEW x \in Syncs, Over(x)', NEW a \in seen'[x], Hit(s, a)'
      PROVE  anchors'[a].stale
  <2>1. Over(x) /\ a \in seen[x] /\ anchors'[a] = anchors[a]
    BY <1>4
  <2>2. Hit(s, a)
    BY <1>1, <1>4, <2>1 DEF Hit, Reached
  <2> QED BY <1>3, <2>1, <2>2
<1> QED BY <1>2, <1>3, <1>4

LEMMA MarkedKept ==
    ASSUME GraphTypeOK, Ends, Remembered, Marked, GraphNext
    PROVE  Marked'
<1> SUFFICES ASSUME Settled', NEW o \in Syncs, Over(o)'
             PROVE  \E s \in Syncs : Over(s)' /\ Complete(s)'
  BY DEF Marked
<1>1. CASE Others
  <2>1. UNCHANGED syncVars /\ UNCHANGED <<stage, links, read, late, seen>>
    BY <1>1, OthersKeepSyncs DEF syncVars
  <2>2. PICK s \in Syncs : Over(s) /\ Complete(s)
    BY <2>1 DEF Marked, Settled, Over
  <2>3. CASE (\E v \in Versions : CompilePage(v)) \/ (\E p \in Slugs : ReviewPasses(p))
    <3>1. UNCHANGED <<nodes, edges, anchors>>
      BY <2>3 DEF CompilePage, ReviewPasses, graph
    <3>2. Complete(s)'
      BY <2>1, <2>2, <3>1, CompleteStays DEF Over
    <3> QED BY <2>1, <2>2, <3>2 DEF Over
  <2>4. CASE \E a \in Anchors, basis \in Evidence : RecordAnchor(a, basis[1], basis[2])
    <3>1. PICK a \in Anchors, basis \in Evidence : RecordAnchor(a, basis[1], basis[2])
      BY <2>4
    <3>2. UNCHANGED <<nodes, edges>> /\ anchors[a] = Nil /\ \A b \in Anchors : b # a => anchors'[b] = anchors[b]
      BY <3>1 DEF RecordAnchor, GraphTypeOK
    <3>3. \A x \in Syncs : \A b \in seen[x] : anchors'[b] = anchors[b]
      BY <3>2 DEF Remembered, GraphTypeOK
    <3>4. Complete(s)'
      BY <2>1, <2>2, <3>2, <3>3, CompleteStays DEF Over
    <3> QED BY <2>1, <2>2, <3>4 DEF Over
  <2>5. ASSUME NEW d \in Dependent, Register(d[1], d[2]) PROVE Complete(s)'
    <3> DEFINE e == <<d[1], "depends_on", d[2]>>
    <3>1. e \notin edges /\ edges' = edges \cup {e} /\ d[1] \in Artifacts
      BY <2>5, BoundAssumption DEF Register
    <3>2. e \in ArtifactEdges' /\ e \notin links[s]
      BY <3>1 DEF ArtifactEdges, Remembered
    <3>3. links'[s] # ArtifactEdges'
      BY <2>1, <3>2
    <3> QED BY <3>3 DEF Complete
  <2> QED BY <1>1, <2>1, <2>2, <2>3, <2>4, <2>5 DEF Others, Over
<1>2. ASSUME NEW s \in Syncs, Begin(s) \/ SyncFails(s) \/ UpsertNode(s) \/ EnsureEdge(s) \/ EnsureRelation(s)
      PROVE  FALSE
  <2>1. stage'[s] \in {"sync", "failed"}
    BY <1>2 DEF Begin, SyncFails, UpsertNode, EnsureEdge, EnsureRelation, Writing, GraphTypeOK
  <2> QED BY <2>1 DEF Settled
<1>3. ASSUME NEW s \in Syncs, PropagateStale(s) PROVE Over(s)' /\ Complete(s)'
  <2>1. /\ stage'[s] = "report" /\ UNCHANGED <<edges, read, late, next, links, seen>>
        /\ \A r \in Refs : nodes'[r] = IF Reached(s, r) THEN "stale" ELSE nodes[r]
        /\ Rows' = Rows
    BY <1>3, PropagateMarks
  <2>2. \A a \in Anchors : anchors[a] # Nil =>
            /\ anchors'[a] # Nil /\ anchors'[a].claim = anchors[a].claim
            /\ anchors'[a].stale = IF Reached(s, anchors[a].claim) THEN TRUE ELSE anchors[a].stale
    BY <1>3, PropagateMarks
  <2>3. \A r : Reached(s, r)' <=> Reached(s, r)
    BY <2>1 DEF Reached
  <2>4. ASSUME NEW x \in Syncs, NEW a \in seen'[x], Hit(s, a)'
        PROVE  anchors'[a].stale
    <3>1. a \in Anchors /\ anchors[a] # Nil
      BY <2>1 DEF Remembered, GraphTypeOK
    <3>2. /\ anchors'[a].claim = anchors[a].claim
          /\ anchors'[a].stale = IF Reached(s, anchors[a].claim) THEN TRUE ELSE anchors[a].stale
      BY <2>2, <3>1
    <3>3. Reached(s, anchors[a].claim)
      BY <2>1, <2>4, <3>2 DEF Hit, Reached
    <3> QED BY <3>2, <3>3
  <2>5. \A r \in Refs : Reached(s, r)' => nodes'[r] = "stale"
    BY <2>1, <2>3
  <2>6. Complete(s)'
    BY <2>4, <2>5 DEF Complete
  <2> QED BY <2>1, <2>6 DEF Over
<1>4. ASSUME NEW s \in Syncs, Report(s) PROVE \E x \in Syncs : Over(x)' /\ Complete(x)'
  <2>1. /\ stage[s] = "report" /\ stage' = [stage EXCEPT ![s] = "done"]
        /\ UNCHANGED <<nodes, edges, anchors, read, late, next, links, seen>>
    BY <1>4 DEF Report, graph
  <2>2. \A x \in Syncs : Over(x)' <=> Over(x)
    BY <2>1 DEF Over, GraphTypeOK
  <2>3. Settled
    BY <2>1 DEF Settled, GraphTypeOK
  <2>4. PICK x \in Syncs : Over(x) /\ Complete(x)
    BY <2>2, <2>3 DEF Marked
  <2>5. Complete(x)'
    BY <2>1, <2>2, <2>4, CompleteStays
  <2> QED BY <2>2, <2>4, <2>5
<1> QED BY <1>1, <1>2, <1>3, <1>4 DEF GraphNext, Others, Sync

\* ------------------------------- the invariant
LEMMA GraphInvHolds == GraphSpec => []GraphInv
<1>1. GraphInit => GraphInv
  <2> SUFFICES ASSUME GraphInit PROVE GraphInv
    OBVIOUS
  <2> USE DEF GraphInit
  <2>1. GraphTypeOK
    <3>1. NoWiki \in Wiki
      BY DEF NoWiki, Wiki
    <3>2. Len(Plan[NoWiki]) \in Nat
      BY <3>1, PlanIsWrites
    <3>3. next \in [Syncs -> Nat] /\ \A s \in Syncs : next[s] \in 1..Len(Plan[read[s]]) + 1
      BY <3>2
    <3> QED BY <3>1, <3>3, BoundAssumption DEF GraphTypeOK
  <2>2. Ends /\ Written /\ Remembered /\ Caused /\ Marked
    BY DEF Ends, Written, Remembered, Caused, Marked, Over
  <2> QED BY <2>1, <2>2 DEF GraphInv
<1>2. GraphInv /\ [GraphNext]_graphState => GraphInv'
  <2> SUFFICES ASSUME GraphInv, [GraphNext]_graphState PROVE GraphInv'
    OBVIOUS
  <2>1. CASE GraphNext
    BY <2>1, GraphTypes, EndsKept, WrittenKept, RememberedKept, CausedKept, MarkedKept DEF GraphInv
  <2>2. CASE UNCHANGED graphState
    <3>1. /\ UNCHANGED <<meta, due, compiles, nodes, edges, anchors>>
          /\ UNCHANGED <<stage, read, late, next, links, seen>>
      BY <2>2 DEF graphState, wiki, graph, syncVars
    <3>2. GraphTypeOK'
      BY <3>1 DEF GraphInv, GraphTypeOK
    <3>3. Ends' /\ Written' /\ Remembered'
      BY <3>1 DEF GraphInv, Ends, Rows, Exists, Written, Remembered, ArtifactEdges
    <3>4. Caused'
      BY <3>1 DEF GraphInv, Caused, Culprit, Over, Ahead, Reached, Rows, Exists
    <3>5. Marked'
      BY <3>1 DEF GraphInv, Marked, Settled, Complete, Over, Hit, Reached, Rows, Exists, ArtifactEdges
    <3> QED BY <3>2, <3>3, <3>4, <3>5 DEF GraphInv
  <2> QED BY <2>1, <2>2
<1> QED BY <1>1, <1>2, PTL DEF GraphSpec

\* Every row, edge and anchor of the graph and what a sync keeps is what its columns and
\* the projector's variables can hold.
THEOREM GraphTypeCorrect == GraphSpec => []GraphTypeOK
<1>1. GraphInv => GraphTypeOK
  BY DEF GraphInv
<1> QED BY <1>1, GraphInvHolds, PTL

\* When the syncs are over, however they overlapped with each other, with the compiler
\* and with the other writers, a page or claim is stale exactly if it rests on a
\* superseded, contradicted or review-due reference, and so are the artifacts and the
\* anchors that do (sync_all, _propagate_stale).
THEOREM GraphMatches == GraphSpec => []GraphMatchesPages
<1>1. GraphInv => GraphMatchesPages
  <2> SUFFICES ASSUME GraphInv, Quiescent PROVE GraphMatchesPages
    BY DEF GraphMatchesPages
  <2>0. \A r : Rests(Roots(meta, due), r) <=> RestsOn(Rows, edges, Roots(meta, due), r)
    BY DEF Rests, RestsOn, Rows
  <2>1. ASSUME NEW s \in Syncs, Over(s)
        PROVE  /\ stage[s] = "done" /\ read[s] = meta /\ late[s] = due /\ links[s] = ArtifactEdges
               /\ \A r : Reached(s, r) <=> Rests(Roots(meta, due), r)
    <3>1. stage[s] = "done" /\ read[s] = meta /\ late[s] = due /\ links[s] = ArtifactEdges
      BY <2>1 DEF Quiescent, Over
    <3> QED BY <2>0, <3>1 DEF Reached
  <2>2. PICK s \in Syncs : Over(s) /\ Complete(s)
    BY DEF GraphInv, Marked, Settled, Quiescent, Over
  <2>3. /\ \A r \in Refs : Rests(Roots(meta, due), r) => nodes[r] = "stale"
        /\ \A x \in Syncs : Over(x) =>
              \A a \in seen[x] : Rests(Roots(meta, due), anchors[a].claim) => anchors[a].stale
    BY <2>1, <2>2 DEF Complete, Hit
  <2>4. Projected \subseteq Refs /\ Projected = ProjectedBy(meta)
    <3>1. Pages(meta) \subseteq Page /\ ClaimsOf(meta) \subseteq Claim
      BY PagesTyped DEF GraphInv, GraphTypeOK
    <3> QED BY <3>1 DEF Projected, ProjectedBy, Page, Claim, Refs
  <2>5. ASSUME NEW r \in Projected, nodes[r] = "stale" PROVE Rests(Roots(meta, due), r)
    <3>1. PICK x \in Syncs : Culprit(x, r)
      BY <2>4, <2>5 DEF GraphInv, Caused
    <3>2. stage[x] \in {"idle", "done"}
      BY DEF Quiescent
    <3>3. Over(x) /\ (Reached(x, r) \/ r \notin ProjectedBy(read[x]))
      BY <3>1, <3>2 DEF Culprit
    <3> QED BY <2>1, <2>4, <3>3
  <2>6. ASSUME NEW x \in Artifacts, Rests(Roots(meta, due), x) PROVE nodes[x] = "stale"
    BY <2>3, <2>6 DEF Refs
  <2> QED BY <2>3, <2>4, <2>5, <2>6 DEF GraphMatchesPages, Over
<1> QED BY <1>1, GraphInvHolds, PTL
==============================================================================
