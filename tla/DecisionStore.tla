----------------------------- MODULE DecisionStore -----------------------------
(***************************************************************************)
(* One owner decision in the governance API: POST /v1/governance/decisions *)
(* and POST .../{id}/owner-action, with requests in flight side by side.   *)
(* Rows and event keys of different decision ids never meet, so one id is  *)
(* modelled.                                                               *)
(*                                                                         *)
(* A handler is one asyncio task that uses three separate transactions:    *)
(* get_decision reads; save_decision reads the row again and, at its       *)
(* commit, inserts it or updates the columns whose value differs from the  *)
(* one just read; append_event reads and inserts.  The steps below are the *)
(* stretches between two awaits of the database (READ COMMITTED).          *)
(*                                                                         *)
(*   row       the decisions row: payload (the DecisionRecord) and the     *)
(*             status column                                               *)
(*   opened    number of decision.opened events                            *)
(*   audited   actions that have a decision.owner_action event             *)
(*   answered  owner actions answered with success                         *)
(*   prompted  intents whose creation was answered with a prompt           *)
(*   overtaken   history: a request has saved between the read and the    *)
(*             answer of another one                                       *)
(*   pc, op, record, loaded   per request: next step, what was asked, the  *)
(*             record to save or answer, the row save_decision read        *)
(***************************************************************************)
EXTENDS Integers, FiniteSets

CONSTANTS Intents,   \* what a decision asks, with its classification
          Hard,      \* the intents classify_decision puts at L3
          Evidence,  \* evidence references sent with owner actions
          Offered,   \* bound: the owner actions clients send
          Requests,  \* request slots of the controller
          None       \* no row, no action, no request

Actions == {"YES", "NO", "DEFER", "MORE_INFO"}

ASSUME HardAssumption == Hard \subseteq Intents
ASSUME OfferedAssumption == Offered \subseteq Actions

Final == {"YES", "NO"}

DecisionRecord ==
    [intent : Intents, status : {"OPEN", "RESOLVED"},
     owner_action : Actions \cup {None}, evidence : SUBSET Evidence]

Row == [payload : DecisionRecord, status : {"OPEN", "RESOLVED"}]

Op == [kind : {"create"}, intent : Intents]
         \cup [kind : {"act"}, action : Offered, refs : SUBSET Evidence]

ASSUME NoneAssumption == None \notin Row \cup DecisionRecord \cup Op \cup Actions

PC == {"idle", "get", "save_load", "save_commit", "event_select", "event_insert", "answer"}

VARIABLES row, opened, audited, answered, prompted, overtaken, pc, op, record, loaded

stored == <<row, opened, audited>>
replies == <<answered, prompted>>
local == <<pc, op, record, loaded>>
vars == <<stored, replies, overtaken, local>>

Init ==
    /\ row = None
    /\ opened = 0
    /\ audited = {}
    /\ answered = {}
    /\ prompted = {}
    /\ overtaken = FALSE
    /\ pc = [r \in Requests |-> "idle"]
    /\ op = [r \in Requests |-> None]
    /\ record = [r \in Requests |-> None]
    /\ loaded = [r \in Requests |-> None]

-----------------------------------------------------------------------------
\* The record a creation proposes.
Proposed(i) == [intent |-> i, status |-> "OPEN", owner_action |-> None, evidence |-> {}]

\* _same_decision_intent: evidence_refs is one of the compared fields.
SameIntent(existing, proposed) ==
    /\ existing.intent = proposed.intent
    /\ existing.evidence = proposed.evidence

\* apply_owner_action raises unless this holds.  The classification it consults
\* is the one stored in the record.
Accepts(rec, a) ==
    /\ rec.status = "OPEN"
    /\ a = "DEFER" => rec.intent \notin Hard

\* Mutant: the action's evidence replaces what was attached before.
AppliedReplacing(rec, a, refs) ==
    [rec EXCEPT !.status = IF a \in Final THEN "RESOLVED" ELSE @,
                !.owner_action = a,
                !.evidence = refs]

\* The record apply_owner_action returns.
Applied(rec, a, refs) ==
    [rec EXCEPT !.status = IF a \in Final THEN "RESOLVED" ELSE @,
                !.owner_action = a,
                !.evidence = @ \cup refs]

-----------------------------------------------------------------------------
Goto(r, step) == pc' = [pc EXCEPT ![r] = step]

\* The slot is free again.
Release(r) ==
    /\ Goto(r, "idle")
    /\ op' = [op EXCEPT ![r] = None]
    /\ record' = [record EXCEPT ![r] = None]
    /\ loaded' = [loaded EXCEPT ![r] = None]

\* Mutant: the slot starts without its request.
ReceiveForgets(r, o) ==
    /\ pc[r] = "idle"
    /\ Goto(r, "get")
    /\ UNCHANGED <<stored, replies, overtaken, op, record, loaded>>

Receive(r, o) ==
    /\ pc[r] = "idle"
    /\ Goto(r, "get")
    /\ op' = [op EXCEPT ![r] = o]
    /\ UNCHANGED <<stored, replies, overtaken, record, loaded>>

\* An existing decision a creation with intent i may answer with.
Reusable(i) ==
    /\ row # None
    /\ row.payload.status = "OPEN"
    /\ SameIntent(row.payload, Proposed(i))

Proceed(r, rec, step) ==
    /\ record' = [record EXCEPT ![r] = rec]
    /\ Goto(r, step)
    /\ UNCHANGED <<stored, replies, overtaken, op, loaded>>

\* Mutant: a creation replaces an open decision.
ProposeAgain(r) ==
    /\ pc[r] = "get"
    /\ op[r].kind = "create"
    /\ row # None => row.payload.status = "OPEN"
    /\ Proceed(r, Proposed(op[r].intent), "save_load")

\* get_decision returned nothing: the proposed record is saved.
Propose(r) ==
    /\ pc[r] = "get"
    /\ op[r].kind = "create"
    /\ row = None
    /\ Proceed(r, Proposed(op[r].intent), "save_load")

\* A repeated creation answers with the record it found and saves nothing.
Reuse(r) ==
    /\ pc[r] = "get"
    /\ op[r].kind = "create"
    /\ Reusable(op[r].intent)
    /\ Proceed(r, row.payload, "event_select")

ApplyOwnerAction(r) ==
    /\ pc[r] = "get"
    /\ op[r].kind = "act"
    /\ row # None
    /\ Accepts(row.payload, op[r].action)
    /\ Proceed(r, Applied(row.payload, op[r].action, op[r].refs), "save_load")

\* HTTP 404 or 409.
Refuse(r) ==
    /\ pc[r] = "get"
    /\ IF op[r].kind = "create"
       THEN row # None /\ ~Reusable(op[r].intent)
       ELSE row # None => ~Accepts(row.payload, op[r].action)
    /\ Release(r)
    /\ UNCHANGED <<stored, replies, overtaken>>

\* save_decision, first await: session.get.
SaveLoad(r) ==
    /\ pc[r] = "save_load"
    /\ loaded' = [loaded EXCEPT ![r] = row]
    /\ Goto(r, "save_commit")
    /\ UNCHANGED <<stored, replies, overtaken, op, record>>

\* The payload differs from the one read unless it repeats a DEFER or MORE_INFO:
\* created_at and resolved_at are fresh in every other record.
SamePayload(rec, seen) == seen.payload = rec /\ rec.owner_action \in {"DEFER", "MORE_INFO"}

\* The row after the flush: an insert, or an update of the changed columns only.
Saved(rec, seen) ==
    IF seen = None
    THEN [payload |-> rec, status |-> rec.status]
    ELSE [payload |-> IF SamePayload(rec, seen) THEN row.payload ELSE rec,
          status |-> IF seen.status = rec.status THEN row.status ELSE rec.status]

\* The requests that have read the decision and are not answered yet.
UnderWay == {r \in Requests : pc[r] \notin {"idle", "get"}}

\* Mutant: the caller is answered before the event is recorded.
SaveCommitAnswers(r) ==
    /\ pc[r] = "save_commit"
    /\ loaded[r] = None => row = None
    /\ row' = Saved(record[r], loaded[r])
    /\ overtaken' = (overtaken \/ UnderWay # {r})
    /\ Goto(r, "answer")
    /\ UNCHANGED <<opened, audited, replies, op, record, loaded>>

\* save_decision's commit.  Only decision.opened has an idempotency key, so only
\* a creation looks for its event before it inserts one.
SaveCommit(r) ==
    /\ pc[r] = "save_commit"
    /\ loaded[r] = None => row = None
    /\ row' = Saved(record[r], loaded[r])
    /\ overtaken' = (overtaken \/ UnderWay # {r})
    /\ Goto(r, IF op[r].kind = "create" THEN "event_select" ELSE "event_insert")
    /\ UNCHANGED <<opened, audited, replies, op, record, loaded>>

\* The insert meets a row committed since session.get: IntegrityError, HTTP 500.
SaveFails(r) ==
    /\ pc[r] = "save_commit"
    /\ loaded[r] = None
    /\ row # None
    /\ Release(r)
    /\ UNCHANGED <<stored, replies, overtaken>>

EventSelect(r) ==
    /\ pc[r] = "event_select"
    /\ Goto(r, IF opened = 0 THEN "event_insert" ELSE "answer")
    /\ UNCHANGED <<stored, replies, overtaken, op, record, loaded>>

\* Mutant: events.idempotency_key is not unique.
EventInsertUnkeyed(r) ==
    /\ pc[r] = "event_insert"
    /\ IF op[r].kind = "create"
       THEN opened' = opened + 1 /\ UNCHANGED audited
       ELSE audited' = audited \cup {op[r].action} /\ UNCHANGED opened
    /\ Goto(r, "answer")
    /\ UNCHANGED <<row, replies, overtaken, op, record, loaded>>

\* The event is inserted unless its idempotency key is taken.
EventInsert(r) ==
    /\ pc[r] = "event_insert"
    /\ IF op[r].kind = "create"
       THEN opened = 0 /\ opened' = opened + 1 /\ UNCHANGED audited
       ELSE audited' = audited \cup {op[r].action} /\ UNCHANGED opened
    /\ Goto(r, "answer")
    /\ UNCHANGED <<row, replies, overtaken, op, record, loaded>>

\* The key was inserted since the select: IntegrityError, HTTP 500.
EventFails(r) ==
    /\ pc[r] = "event_insert"
    /\ op[r].kind = "create"
    /\ opened > 0
    /\ Release(r)
    /\ UNCHANGED <<stored, replies, overtaken>>

\* HTTP 200: the prompt of a creation, the transition of an owner action.
Answer(r) ==
    /\ pc[r] = "answer"
    /\ IF op[r].kind = "create"
       THEN prompted' = prompted \cup {record[r].intent} /\ UNCHANGED answered
       ELSE answered' = answered \cup {op[r].action} /\ UNCHANGED prompted
    /\ Release(r)
    /\ UNCHANGED <<stored, overtaken>>

\* The database or the controller fails under a request: its open transaction is
\* rolled back, what it committed stays, and its caller gets no success.
Abort(r) ==
    /\ pc[r] # "idle"
    /\ Release(r)
    /\ UNCHANGED <<stored, replies, overtaken>>

Next ==
    \E r \in Requests :
        \/ \E o \in Op : Receive(r, o)
        \/ Propose(r)
        \/ Reuse(r)
        \/ ApplyOwnerAction(r)
        \/ Refuse(r)
        \/ SaveLoad(r)
        \/ SaveCommit(r)
        \/ SaveFails(r)
        \/ EventSelect(r)
        \/ EventInsert(r)
        \/ EventFails(r)
        \/ Answer(r)
        \/ Abort(r)

Spec == Init /\ [][Next]_vars
-----------------------------------------------------------------------------
TypeOK ==
    /\ row \in Row \cup {None}
    /\ opened \in Nat
    /\ audited \subseteq Actions
    /\ answered \subseteq Actions
    /\ prompted \subseteq Intents
    /\ overtaken \in BOOLEAN
    /\ pc \in [Requests -> PC]
    /\ op \in [Requests -> Op \cup {None}]
    /\ record \in [Requests -> DecisionRecord \cup {None}]
    /\ loaded \in [Requests -> Row \cup {None}]
    /\ \A r \in Requests : pc[r] # "idle" => op[r] \in Op

(***************************************************************************)
(* decision.opened is recorded at most once for a decision, whatever       *)
(* creations race or are retried, and only when its row is committed.      *)
(***************************************************************************)
OpenedOnce == opened <= 1 /\ (opened = 1 => row # None)

(***************************************************************************)
(* The stored record never contradicts itself, however saves overlap:      *)
(* resolved exactly when the last owner action is YES or NO, and an L3     *)
(* decision never deferred.                                                *)
(***************************************************************************)
RecordCoherent ==
    row # None =>
        /\ row.payload.status = "RESOLVED" <=> row.payload.owner_action \in Final
        /\ row.payload.owner_action = "DEFER" => row.payload.intent \notin Hard

(***************************************************************************)
(* A client that got success can rely on the audit trail: an owner action  *)
(* answered with success has its event, a prompt has its decision and its  *)
(* decision.opened event.                                                  *)
(***************************************************************************)
AnsweredAudited ==
    /\ answered \subseteq audited
    /\ prompted # {} => row # None /\ opened = 1

(***************************************************************************)
(* Only a save between the read and the answer of another request can make *)
(* the store lie about itself: until there is one, every prompt shows the  *)
(* question that the row holds, and the status column agrees with the      *)
(* payload, whatever fails, is retried or overlaps otherwise.              *)
(***************************************************************************)
PromptShowsRow ==
    ~overtaken /\ row # None =>
        prompted \subseteq {row.payload.intent} /\ row.status = row.payload.status

(***************************************************************************)
(* docs/28-telegram-owner-governance.md: "YES/NO are additionally          *)
(* protected by the governance API's resolved-decision state."  At most    *)
(* one of the two is ever answered with success.                           *)
(***************************************************************************)
OneFinalAnswer == ~(Final \subseteq answered)

-----------------------------------------------------------------------------
(***************************************************************************)
(* Until a request saves between the read and the answer of another one,   *)
(* the store is a decision ledger, crashes, retries and other overlaps     *)
(* included: opened once, resolved once, no evidence lost, and only the    *)
(* action it shows acknowledged.                                           *)
(***************************************************************************)
Ledger == INSTANCE DecisionLedger WITH decision <- IF row = None THEN None ELSE row.payload

ImplementsLedger == Ledger!Init /\ [][~overtaken' => Ledger!Next]_(Ledger!vars)
=============================================================================
