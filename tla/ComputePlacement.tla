--------------------------- MODULE ComputePlacement ---------------------------
(***************************************************************************)
(* Inference deployments: the requests that write their rows (PUT          *)
(* /v1/deployments, POST .../observations, provider discovery) and those   *)
(* that read them (POST /v1/route, the model gateway's chat completions,   *)
(* the LiteLLM configuration), side by side.                               *)
(*                                                                         *)
(* A request is one asyncio task; the steps are the stretches between two  *)
(* awaits of the database or of an upstream.  A writer reads one row and,  *)
(* at its commit, inserts it or updates the columns whose value differs    *)
(* from the one it read (READ COMMITTED).                                  *)
(*                                                                         *)
(*   rows       the inference_deployments table                            *)
(*   published  the deployments of the LiteLLM configuration file          *)
(*   now        the clock                                                  *)
(*   signals    how many puts, observations and retryable answers so far   *)
(*   pc, op, asks   per request: next step, what was asked, of what kind   *)
(*   todo       deployments a discovery has still to create                *)
(*   target     the deployment being written or placed                     *)
(*   seen       what the request read of the table and still uses          *)
(*   new        the column values to store                                 *)
(*   at         the time at which a placement or publication decides       *)
(*   attempt    calls of the upstream so far, of at most MaxAttempts       *)
(*   wake       the retry_at of a WAITING_COMPUTE answer                   *)
(*   tried, disturbed   history: the deployment whose failed call a chat   *)
(*              has recorded; the deployments others have stored since the *)
(*              request began to read                                      *)
(***************************************************************************)
EXTENDS Integers, FiniteSets

CONSTANTS Deployments,   \* deployment ids
          Discovered,    \* the deployments providers report
          Target,        \* cost_class and accepted_sensitivity of the DiscoveryTarget
          Capabilities,  \* what requests ask for and deployments are scored in
          Kinds,         \* bound: the route requests that are made
          Puts,          \* bound: the rows operators put
          Observations,  \* bound: the provider signals that are observed
          DefaultDelay,  \* delay of a signal that names none
          ShortLimit,    \* longest delay of THROTTLED_SHORT
          MaxAttempts,   \* max_attempts of forward_chat_completion
          Requests,      \* requests in flight
          MaxTime,       \* bound on the clock
          MaxSignals,    \* bound on puts, observations and retryable answers
          None           \* no row, no time, no request

States == {"AVAILABLE", "THROTTLED_SHORT", "QUOTA_EXHAUSTED", "CREDIT_EXHAUSTED",
           "PROVIDER_DEGRADED", "OFFLINE", "AUTH_FAILED", "POLICY_BLOCKED", "QUARANTINED"}

CostClasses == {"free_api", "free_credit", "local", "paid", "trial", "promotional", "unknown"}
Sensitivities == {"PUBLIC", "INTERNAL", "CONFIDENTIAL", "RESTRICTED"}

\* The columns that are written one by one and decide something (scores in percent;
\* those that only name the provider are left out, and accepted_sensitivity, a list
\* made of a set, is compared as a set).
Row == [enabled : BOOLEAN, state : States, retry_at : Nat \cup {None},
        cost_class : CostClasses, accepted_sensitivity : SUBSET Sensitivities,
        capability_scores : [Capabilities -> Nat], reliability : Nat, latency_score : Nat,
        development_only : BOOLEAN]

RouteRequest == [capability : Capabilities, sensitivity : Sensitivities,
                 allow_paid : BOOLEAN, prefer_local : BOOLEAN]

\* A provider signal, by the branch of classify_observation it takes.
Observation ==
    [status : {"ok", "auth", "credit", "gone", "unavailable", "limited", "error"},
     delay : (Nat \ {0}) \cup {None}, long : BOOLEAN]

Ops == {"put", "observe", "route", "chat", "discover", "publish"}

ASSUME SetAssumption ==
    /\ Discovered \subseteq Deployments
    /\ Target \in [cost_class : CostClasses, accepted_sensitivity : SUBSET Sensitivities]
    /\ Kinds \subseteq RouteRequest
    /\ Puts \subseteq Row
    /\ Observations \subseteq Observation
ASSUME NumberAssumption == {DefaultDelay, ShortLimit, MaxAttempts, MaxTime, MaxSignals} \subseteq Nat \ {0}
ASSUME FiniteAssumption == IsFiniteSet(Deployments)
ASSUME NoneAssumption == None \notin Nat \cup Row \cup Ops \cup Deployments \cup Kinds

PC == {"idle", "load", "store", "next", "list", "relist", "waiting", "placed", "post", "replace", "published"}

VARIABLES rows, published, now, signals, pc, op, asks, todo, target, seen, new, at, attempt, wake, tried, disturbed

shared == <<rows, published, now, signals>>
local == <<pc, op, asks, todo, target, seen, new, at, attempt, wake, tried, disturbed>>
vars == <<shared, local>>

Empty == [d \in Deployments |-> None]

Init ==
    /\ rows = Empty
    /\ published = {}
    /\ now = 0
    /\ signals = 0
    /\ pc = [r \in Requests |-> "idle"]
    /\ op = [r \in Requests |-> None]
    /\ asks = [r \in Requests |-> None]
    /\ todo = [r \in Requests |-> {}]
    /\ target = [r \in Requests |-> None]
    /\ seen = [r \in Requests |-> Empty]
    /\ new = [r \in Requests |-> None]
    /\ at = [r \in Requests |-> None]
    /\ attempt = [r \in Requests |-> 0]
    /\ wake = [r \in Requests |-> None]
    /\ tried = [r \in Requests |-> None]
    /\ disturbed = [r \in Requests |-> {}]

-----------------------------------------------------------------------------
\* The state and retry_at a signal stands for when it is observed at time t.
Classify(s, t) ==
    LET delay == IF s.delay = None THEN DefaultDelay ELSE s.delay
        Without(state) == [state |-> state, retry_at |-> None]
        Until(state, d) == [state |-> state, retry_at |-> t + d]
    IN  CASE s.status = "ok" -> Without("AVAILABLE")
          [] s.status = "auth" -> Without("AUTH_FAILED")
          [] s.status = "credit" -> Without("CREDIT_EXHAUSTED")
          [] s.status = "gone" -> Without("OFFLINE")
          [] s.status = "unavailable" -> Until("PROVIDER_DEGRADED", delay)
          [] s.status = "error" -> Until("PROVIDER_DEGRADED", DefaultDelay)
          [] s.status = "limited" /\ s.long /\ s.delay = None -> Without("QUOTA_EXHAUSTED")
          [] OTHER -> Until(IF delay <= ShortLimit THEN "THROTTLED_SHORT"
                            ELSE "QUOTA_EXHAUSTED", delay)

\* The signals after which the gateway tries another deployment.
Retryable == {s \in Observations : s.status \in {"unavailable", "limited"}}

\* A deployment as probationary_deployment makes it, but for its state.
Discovery(state) ==
    [enabled |-> FALSE, state |-> state, retry_at |-> None,
     cost_class |-> Target.cost_class, accepted_sensitivity |-> Target.accepted_sensitivity,
     capability_scores |-> [c \in Capabilities |-> 0], reliability |-> 50, latency_score |-> 50,
     development_only |-> FALSE]

\* Mutant: a discovered deployment counts as healthy.
ProbationaryAvailable == Discovery("AVAILABLE")

\* probationary_deployment.
Probationary == Discovery("QUARANTINED")

\* Mutant: a value the update leaves empty is not written.
StoredSparse(row, read, values) ==
    IF read = None THEN values
    ELSE [c \in DOMAIN row |->
             IF c \in DOMAIN values /\ values[c] \notin {read[c], None} THEN values[c] ELSE row[c]]

\* The row after a commit: an insert, or an update of the changed columns.
Stored(row, read, values) ==
    IF read = None THEN values
    ELSE [c \in DOMAIN row |->
             IF c \in DOMAIN values /\ values[c] # read[c] THEN values[c] ELSE row[c]]

\* _available, and the same test in is_materializable.
Usable(row, t) == row.state = "AVAILABLE" \/ (row.retry_at # None /\ row.retry_at <= t)

\* The filters select_candidate and next_retry_at share.
Fits(row, k) ==
    /\ row # None
    /\ row.enabled
    /\ k.sensitivity \in row.accepted_sensitivity
    /\ row.cost_class = "paid" => k.allow_paid
    /\ row.capability_scores[k.capability] > 0

Eligible(row, k, t) == Fits(row, k) /\ Usable(row, t)

\* The score of select_candidate, times 10000.
Worth(row, k) ==
    55 * row.capability_scores[k.capability] + 20 * row.reliability + 15 * row.latency_score
      + (IF row.cost_class = "free_api" THEN 1000 ELSE 0)
      + (IF k.prefer_local /\ row.cost_class = "local" THEN 1500 ELSE 0)

\* select_candidate: the usable deployments of the highest score.
Best(table, k, t) ==
    LET eligible == {d \in Deployments : Eligible(table[d], k, t)}
    IN  {d \in eligible : \A e \in eligible : Worth(table[e], k) <= Worth(table[d], k)}

Resets(table, k, t) ==
    {x \in {table[d].retry_at : d \in {e \in Deployments : Fits(table[e], k)}} \ {None} : x > t}

\* Mutant: the last reset in place of the first.
NextRetryLatest(table, k, t) ==
    LET later == Resets(table, k, t)
    IN  IF later = {} THEN None ELSE CHOOSE x \in later : \A y \in later : x >= y

\* next_retry_at.
NextRetry(table, k, t) ==
    LET later == Resets(table, k, t)
    IN  IF later = {} THEN None ELSE CHOOSE x \in later : \A y \in later : x <= y

\* What is_materializable asks of a row beside its state.
Serveable(row) ==
    row # None /\ row.enabled /\ ~row.development_only
        /\ \E c \in Capabilities : row.capability_scores[c] > 0

\* Mutant: a reset counts from the moment after retry_at.
MaterializableLater(row, t) ==
    /\ Serveable(row)
    /\ row.state = "AVAILABLE" \/ (row.retry_at # None /\ row.retry_at < t)

\* is_materializable, outside a development profile.
Materializable(row, t) == Serveable(row) /\ Usable(row, t)

-----------------------------------------------------------------------------
Goto(r, step) == pc' = [pc EXCEPT ![r] = step]

\* The request forgets all but what others have disturbed.
Clear(r) ==
    /\ Goto(r, "idle")
    /\ op' = [op EXCEPT ![r] = None]
    /\ asks' = [asks EXCEPT ![r] = None]
    /\ todo' = [todo EXCEPT ![r] = {}]
    /\ target' = [target EXCEPT ![r] = None]
    /\ seen' = [seen EXCEPT ![r] = Empty]
    /\ new' = [new EXCEPT ![r] = None]
    /\ at' = [at EXCEPT ![r] = None]
    /\ attempt' = [attempt EXCEPT ![r] = 0]
    /\ wake' = [wake EXCEPT ![r] = None]
    /\ tried' = [tried EXCEPT ![r] = None]

\* The request ends, with whatever answer.
Release(r) == Clear(r) /\ disturbed' = [disturbed EXCEPT ![r] = {}]

Tick ==
    /\ now < MaxTime
    /\ now' = now + 1
    /\ UNCHANGED <<rows, published, signals, local>>

Receive(r, kind, step) ==
    /\ pc[r] = "idle"
    /\ op' = [op EXCEPT ![r] = kind]
    /\ Goto(r, step)

Signal == signals < MaxSignals /\ signals' = signals + 1 /\ UNCHANGED <<rows, published, now>>

\* PUT /v1/deployments.
ReceivePut(r, d, values) ==
    /\ Receive(r, "put", "load")
    /\ Signal
    /\ target' = [target EXCEPT ![r] = d]
    /\ new' = [new EXCEPT ![r] = values]
    /\ UNCHANGED <<asks, todo, seen, at, attempt, wake, tried, disturbed>>

\* POST /v1/deployments/{id}/observations.
ReceiveObservation(r, d, s) ==
    /\ Receive(r, "observe", "load")
    /\ Signal
    /\ target' = [target EXCEPT ![r] = d]
    /\ new' = [new EXCEPT ![r] = Classify(s, now)]
    /\ UNCHANGED <<asks, todo, seen, at, attempt, wake, tried, disturbed>>

\* POST /v1/route or a chat completion: the time is fixed before the table is
\* read.
ReceivePlacement(r, kind, k) ==
    /\ Receive(r, kind, "list")
    /\ asks' = [asks EXCEPT ![r] = k]
    /\ at' = [at EXCEPT ![r] = now]
    /\ UNCHANGED <<shared, todo, target, seen, new, attempt, wake, tried, disturbed>>

\* A discovery, or the rendering of the LiteLLM configuration, of which one runs
\* at a time.
ReceiveJob(r, kind) ==
    /\ Receive(r, kind, "list")
    /\ kind = "publish" => \A q \in Requests : op[q] # "publish"
    /\ UNCHANGED <<shared, asks, todo, target, seen, new, at, attempt, wake, tried, disturbed>>

-----------------------------------------------------------------------------
(***************************************************************************)
(* upsert_deployment and record_availability.                              *)
(***************************************************************************)
\* Mutant: an observation of an unknown deployment is stored.
LoadUnknown(r) ==
    /\ pc[r] = "load"
    /\ seen' = [seen EXCEPT ![r] = [Empty EXCEPT ![target[r]] = rows[target[r]]]]
    /\ IF op[r] = "chat"
       THEN /\ tried' = [tried EXCEPT ![r] = target[r]]
            /\ disturbed' = [disturbed EXCEPT ![r] = {}]
       ELSE UNCHANGED <<tried, disturbed>>
    /\ Goto(r, "store")
    /\ UNCHANGED <<shared, op, asks, todo, target, new, at, attempt, wake>>

\* session.get.  From here on the failed call of a chat counts as recorded.
Load(r) ==
    /\ pc[r] = "load"
    /\ rows[target[r]] = None => op[r] \in {"put", "discover"}
    /\ seen' = [seen EXCEPT ![r] = [Empty EXCEPT ![target[r]] = rows[target[r]]]]
    /\ IF op[r] = "chat"
       THEN /\ tried' = [tried EXCEPT ![r] = target[r]]
            /\ disturbed' = [disturbed EXCEPT ![r] = {}]
       ELSE UNCHANGED <<tried, disturbed>>
    /\ Goto(r, "store")
    /\ UNCHANGED <<shared, op, asks, todo, target, new, at, attempt, wake>>

\* HTTP 404: an observation of an unknown deployment.
LoadFails(r) ==
    /\ pc[r] = "load"
    /\ rows[target[r]] = None
    /\ op[r] \notin {"put", "discover"}
    /\ Release(r)
    /\ UNCHANGED shared

\* What the requests in flight next to r have seen disturbed after r's commit.
DisturbedBy(r) ==
    [q \in Requests |-> IF op[q] \in {"route", "chat"} /\ q # r
                        THEN disturbed[q] \cup {target[r]}
                        ELSE disturbed[q]]

\* The commit.  It inserts only where there is no row.
Commit(r) ==
    LET d == target[r] IN
    /\ pc[r] = "store"
    /\ seen[r][d] = None => rows[d] = None
    /\ rows' = [rows EXCEPT ![d] = Stored(@, seen[r][d], new[r])]
    /\ UNCHANGED <<published, now, signals>>

\* The last commit of a put, an observation or a chat's last attempt.
StoreEnds(r) ==
    /\ Commit(r)
    /\ op[r] \in {"put", "observe"} \/ attempt[r] = MaxAttempts
    /\ Clear(r)
    /\ disturbed' = [DisturbedBy(r) EXCEPT ![r] = {}]

\* The chat is placed again.
StoreRetries(r) ==
    /\ Commit(r)
    /\ op[r] = "chat"
    /\ attempt[r] < MaxAttempts
    /\ at' = [at EXCEPT ![r] = now]
    /\ disturbed' = DisturbedBy(r)
    /\ Goto(r, "list")
    /\ UNCHANGED <<op, asks, todo, target, seen, new, attempt, wake, tried>>

StoreDiscovered(r) ==
    /\ Commit(r)
    /\ op[r] = "discover"
    /\ disturbed' = DisturbedBy(r)
    /\ Goto(r, "next")
    /\ UNCHANGED <<op, asks, todo, target, seen, new, at, attempt, wake, tried>>

\* The insert meets a row committed since session.get: IntegrityError, HTTP 500.
StoreFails(r) ==
    /\ pc[r] = "store"
    /\ seen[r][target[r]] = None
    /\ rows[target[r]] # None
    /\ Release(r)
    /\ UNCHANGED shared

-----------------------------------------------------------------------------
(***************************************************************************)
(* sync_provider_discovery.                                                *)
(***************************************************************************)
\* The models that no row was read for are to be created.
ListKnown(r) ==
    /\ pc[r] = "list"
    /\ op[r] = "discover"
    /\ todo' = [todo EXCEPT ![r] = {d \in Discovered : rows[d] = None}]
    /\ Goto(r, "next")
    /\ UNCHANGED <<shared, op, asks, target, seen, new, at, attempt, wake, tried, disturbed>>

CreateNext(r, d) ==
    /\ pc[r] = "next"
    /\ d \in todo[r]
    /\ todo' = [todo EXCEPT ![r] = @ \ {d}]
    /\ target' = [target EXCEPT ![r] = d]
    /\ new' = [new EXCEPT ![r] = Probationary]
    /\ Goto(r, "load")
    /\ UNCHANGED <<shared, op, asks, seen, at, attempt, wake, tried, disturbed>>

\* provider.discovery_synced is recorded.
Synced(r) ==
    /\ pc[r] = "next"
    /\ todo[r] = {}
    /\ Release(r)
    /\ UNCHANGED shared

-----------------------------------------------------------------------------
(***************************************************************************)
(* place and forward_chat_completion.                                      *)
(***************************************************************************)
\* The first read of a request starts its picture of the table.
Undisturbed(r) ==
    disturbed' = IF attempt[r] = 0 THEN [disturbed EXCEPT ![r] = {}] ELSE disturbed

\* A usable deployment is answered, or called by the gateway.
Place(r) ==
    /\ pc[r] = "list"
    /\ op[r] \in {"route", "chat"}
    /\ \E d \in Best(rows, asks[r], at[r]) : target' = [target EXCEPT ![r] = d]
    /\ seen' = [seen EXCEPT ![r] = rows]
    /\ Undisturbed(r)
    /\ Goto(r, IF op[r] = "chat" THEN "post" ELSE "placed")
    /\ UNCHANGED <<shared, op, asks, todo, new, at, attempt, wake, tried>>

\* NoEligibleModel: the table is read again for the time of the next reset.
NoEligibleModel(r) ==
    /\ pc[r] = "list"
    /\ op[r] \in {"route", "chat"}
    /\ Best(rows, asks[r], at[r]) = {}
    /\ Undisturbed(r)
    /\ Goto(r, "relist")
    /\ UNCHANGED <<shared, op, asks, todo, target, seen, new, at, attempt, wake, tried>>

WaitForCompute(r) ==
    /\ pc[r] = "relist"
    /\ wake' = [wake EXCEPT ![r] = NextRetry(rows, asks[r], at[r])]
    /\ Goto(r, "waiting")
    /\ UNCHANGED <<shared, op, asks, todo, target, seen, new, at, attempt, tried, disturbed>>

\* The upstream answers with a retryable status, which is to be observed.
PostRetryable(r, s) ==
    /\ pc[r] = "post"
    /\ Signal
    /\ attempt' = [attempt EXCEPT ![r] = @ + 1]
    /\ new' = [new EXCEPT ![r] = Classify(s, now)]
    /\ Goto(r, "load")
    /\ UNCHANGED <<op, asks, todo, target, seen, at, wake, tried, disturbed>>

\* The request is answered: a placement, WAITING_COMPUTE, what the upstream says.
Answer(r) ==
    /\ pc[r] \in {"placed", "waiting", "post", "published"}
    /\ Release(r)
    /\ UNCHANGED shared

-----------------------------------------------------------------------------
(***************************************************************************)
(* render_database_config.                                                 *)
(***************************************************************************)
LoadDeployments(r) ==
    /\ pc[r] = "list"
    /\ op[r] = "publish"
    /\ seen' = [seen EXCEPT ![r] = rows]
    /\ Goto(r, "replace")
    /\ UNCHANGED <<shared, op, asks, todo, target, new, at, attempt, wake, tried, disturbed>>

\* The file is replaced atomically by what is materializable now.
PublishConfig(r) ==
    /\ pc[r] = "replace"
    /\ at' = [at EXCEPT ![r] = now]
    /\ published' = {d \in Deployments : Materializable(seen[r][d], now)}
    /\ Goto(r, "published")
    /\ UNCHANGED <<rows, now, signals, op, asks, todo, target, seen, new, attempt, wake, tried, disturbed>>

-----------------------------------------------------------------------------
\* A request dies: the database, an upstream or the process fails.
Abort(r) ==
    /\ pc[r] \notin {"idle", "placed", "waiting", "published"}
    /\ Release(r)
    /\ UNCHANGED shared

Next ==
    \/ Tick
    \/ \E r \in Requests :
          \/ \E d \in Deployments, values \in Puts : ReceivePut(r, d, values)
          \/ \E d \in Deployments, s \in Observations : ReceiveObservation(r, d, s)
          \/ \E kind \in {"route", "chat"}, k \in Kinds : ReceivePlacement(r, kind, k)
          \/ \E kind \in {"discover", "publish"} : ReceiveJob(r, kind)
          \/ Load(r)
          \/ LoadFails(r)
          \/ StoreEnds(r)
          \/ StoreRetries(r)
          \/ StoreDiscovered(r)
          \/ StoreFails(r)
          \/ ListKnown(r)
          \/ \E d \in Discovered : CreateNext(r, d)
          \/ Synced(r)
          \/ Place(r)
          \/ NoEligibleModel(r)
          \/ WaitForCompute(r)
          \/ \E s \in Retryable : PostRetryable(r, s)
          \/ Answer(r)
          \/ LoadDeployments(r)
          \/ PublishConfig(r)
          \/ Abort(r)

Spec == Init /\ [][Next]_vars
-----------------------------------------------------------------------------
TypeOK ==
    /\ rows \in [Deployments -> Row \cup {None}]
    /\ published \subseteq Deployments
    /\ now \in 0..MaxTime
    /\ signals \in 0..MaxSignals
    /\ pc \in [Requests -> PC]
    /\ op \in [Requests -> Ops \cup {None}]
    /\ asks \in [Requests -> Kinds \cup {None}]
    /\ todo \in [Requests -> SUBSET Discovered]
    /\ target \in [Requests -> Deployments \cup {None}]
    /\ seen \in [Requests -> [Deployments -> Row \cup {None}]]
    /\ new \in [Requests -> Row \cup [state : States, retry_at : Nat \cup {None}] \cup {None}]
    /\ at \in [Requests -> 0..MaxTime \cup {None}]
    /\ attempt \in [Requests -> 0..MaxAttempts]
    /\ wake \in [Requests -> Nat \cup {None}]
    /\ tried \in [Requests -> Deployments \cup {None}]
    /\ disturbed \in [Requests -> SUBSET Deployments]
    /\ \A r \in Requests : pc[r] # "idle" <=> op[r] # None
    /\ \A r \in Requests : pc[r] \in {"load", "store", "post"} => target[r] \in Deployments
    /\ \A r \in Requests : pc[r] = "store" /\ seen[r][target[r]] = None => new[r] \in Row

(***************************************************************************)
(* WAITING_COMPUTE tells the truth about the future: unless a deployment   *)
(* changes, one will be usable from the retry_at it names on and none      *)
(* before, and if it names none, never.  (place and next_retry_at read the *)
(* table separately and filter it separately.)                             *)
(***************************************************************************)
WaitIsHonest ==
    \A r \in Requests : pc[r] = "waiting" /\ disturbed[r] = {} =>
        \A t \in at[r]..MaxTime :
            (\E d \in Deployments : Eligible(rows[d], asks[r], t))
                <=> (wake[r] # None /\ wake[r] <= t)

(***************************************************************************)
(* After a retryable failure the gateway turns to another deployment: it   *)
(* calls the same one again only past the retry_at it recorded, unless     *)
(* another request has stored that deployment meanwhile.                   *)
(***************************************************************************)
RetryElsewhere ==
    \A r \in Requests :
        pc[r] = "post" /\ target[r] = tried[r] /\ target[r] \notin disturbed[r] =>
            new[r].retry_at # None /\ new[r].retry_at <= at[r]

\* A deployment is in service for a capability: qualified in it, enabled and usable.
InService(row, c, t) == row # None /\ row.enabled /\ row.capability_scores[c] > 0 /\ Usable(row, t)

(***************************************************************************)
(* Discovery qualifies nothing: even when its blind upsert mixes its       *)
(* columns with those that operators and observations have stored since it *)
(* read the row, it puts no deployment into service that was not.  (It can *)
(* widen or narrow the sensitivity and the cost class of one that was.)    *)
(***************************************************************************)
DiscoveryQualifiesNothing ==
    [][\A r \in Requests :
          pc[r] = "store" /\ pc'[r] = "next" =>
              \A d \in Deployments, c \in Capabilities, t \in 0..MaxTime :
                  InService(rows'[d], c, t) => InService(rows[d], c, t)]_vars

(***************************************************************************)
(* provider_sync.py:40: "Persist only new models as probationary           *)
(* deployments; never downgrade known state."  What a discovery commits    *)
(* takes no deployment out of service.  (Violated: what is known is listed *)
(* once, at the start, and a row that an operator puts after that is       *)
(* overwritten.)                                                           *)
(***************************************************************************)
KnownNotDowngraded ==
    [][\A r \in Requests :
          pc[r] = "store" /\ pc'[r] = "next" =>
              \A d \in Deployments, c \in Capabilities, t \in 0..MaxTime :
                  InService(rows[d], c, t) => InService(rows'[d], c, t)]_vars

(***************************************************************************)
(* docs/litellm-runtime.md: "Forge emits one exact LiteLLM alias per       *)
(* eligible Inference Deployment".  What the gateway selects is served by  *)
(* a configuration rendered from the same table at the same time, unless   *)
(* it is a deployment for development only, which select_candidate does    *)
(* not look at and is_materializable leaves out.                           *)
(***************************************************************************)
SelectedIsServed ==
    \A r, q \in Requests :
        /\ pc[r] = "post" /\ pc[q] = "published"
        /\ seen[r] = seen[q] /\ at[r] = at[q]
        => target[r] \in published \/ seen[r][target[r]].development_only
=============================================================================
