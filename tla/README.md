# Formal models of the Forge controller

TLA+ models of the stateful parts of the Forge controller
(`src/src/forge_controller`), the TLC configurations that check them on small
instances, and TLAPS proofs of their safety for every value of the constants.
Run `tlc -config X.cfg M.tla` for a configuration and `tlapm M.tla` for a proof
module.

The controller is an asyncio FastAPI application over PostgreSQL (SQLAlchemy,
READ COMMITTED), with further processes beside it: the Telegram governance
service (threads and a JSON state file), the GitHub broker (threads that call
GitHub), the sandbox broker and the Codex bridge (which start Docker containers),
and a directory of plain files for compiled knowledge.
Nearly everything that can go wrong in it goes wrong *between two awaits*: a
handler reads a row, yields, and later writes what it computed from it. The
models therefore take the stretch between two awaits (or, in the threaded
Telegram service and GitHub broker, between two network calls, git commands or
lock operations) as the atomic step.

## 1. Inventory

| Component | Source | State it keeps | Operations | Model |
|---|---|---|---|---|
| Task Capsules | `api.py`, `capsules.py`, `repository.py` | `task_capsules`, `events` | checkpoint, latest | `CapsuleStore` |
| Owner decisions | `governance_api.py`, `governance.py`, `repository.py` | `decisions`, `events` | create / reuse, owner action | `DecisionStore` |
| Policy denials | `governance_api.py`, `governance.py`, `governance_store.py` | `governance_denial_states`, `events` | denial, safe alternative | `DenialStore` |
| Telegram owner channel | `telegram_governance.py`, `telegram_notify_client.py` | state file, in-memory copy, Telegram's update queue | notify, poll, owner action, digest, prune | `TelegramGovernance` (message wording and the socket server left out) |
| Compute deployments, quota, placement | `api.py`, `repository.py`, `quota.py`, `placement.py`, `router.py`, `deployment_policy.py` | `inference_deployments`, `quota_observations` | put, observe, route | `ComputePlacement` |
| Provider discovery | `provider_sync.py`, `discovery.py` | the same table | sync | `ComputePlacement` |
| Model gateway | `model_gateway.py` | the same table | chat completion with failover | `ComputePlacement` |
| LiteLLM configuration | `litellm_runtime.py`, `litellm_config.py`, ... | the published file | render and replace | `ComputePlacement` (rendering of entries left out) |
| GitHub capability broker | `capabilities.py`, `capability_envelope.py`, `github_broker*.py` | sealed grants; GitHub's branches, pull requests and tokens | issue a grant, push, open a pull request | `GitHubBroker` (MAC, key files, paths and Git configuration reduced to accepted or refused) |
| Sandbox | `sandbox.py`, `sandbox_broker.py`, `sandbox_runtime.py`, `sandbox_client.py` | running containers | plan, run, time out, clean up | `SandboxBroker` on `DockerHost` (host preflight and smoke test left out) |
| Codex bridge | `codex_bridge.py`, `codex_bridge_client.py`, `codex_runtime.py` | sessions, running containers | connect, relay, time out, remove | `CodexBridge` on `DockerHost` |
| Trust gateway | `trust_gateway.py`, `api.py` | trust envelopes | label, ingest | `KnowledgeIntake` |
| Compiled knowledge | `knowledge.py`, `knowledge_acquisition.py`, `knowledge_assurance.py`, `knowledge_graph.py` | files of the knowledge root, graph rows | acquire, compile, sync | `KnowledgeIntake`, `KnowledgeGraph` (lint, search, Markdown and the promotion policy left out) |
| Assurance records | `assurance.py`, `repository.py` | `semantic_nodes`, `semantic_edges`, `reality_anchors`, `trust_envelopes` | upsert, propagate staleness | as written by `KnowledgeGraph` and `KnowledgeIntake` |
| Candidate promotion | `candidate_promotion.py` | candidate files | evaluate, promote | not modelled (section 6) |
| Redis coordination | `redis_state.py` | leases, wake-ups | acquire, release, wake | not modelled (section 6) |
| Secret broker, capability proxy | `secret_broker.py`, `capability_proxy.py` | none that lasts | lease, proxy | not modelled (section 6) |
| Provider adapters, MCP server, probe scheduling, evidence CLI, high isolation, infrastructure | | none | | not modelled: stateless translation, pure arithmetic or pure I/O |

How they interact: the API handlers share the PostgreSQL tables and the event
log; Telegram calls the governance API over HTTP and may time out while the API
still works; discovery, observations and the gateway write the rows that
placement and the LiteLLM renderer read, each with a filter of its own; the
trust gateway's envelopes are what the acquisition accepts, its raw sources what
compiled pages may cite, and the pages what the graph sync projects; the sandbox
broker and the Codex bridge share one Docker daemon and no more.

What is hard in this code, and so what the properties are about:

* **Read-modify-write across awaits.** `save_capsule` relies on unique
  constraints, denials on `FOR UPDATE`, owner decisions on nothing.
* **Two transactions per request.** State is committed before its event; a
  failure between them, or a lost answer followed by a retry, must be harmless.
* **Lost answers and retries.** A checkpoint, an owner action or a denial may be
  applied although its caller saw a failure.
* **Two threads and a file.** The notify thread saves the shared Telegram state
  while the poll thread is half way through a press; either may die.
* **Checks of a world that moves on.** The GitHub broker reads the default branch,
  HEAD and the remote branch, each once, and relies on them through later calls,
  while the worker, the owner and the clock go on.
* **Containers that outlive their client.** Killing a `docker run` client leaves
  its container; only a `docker rm` by name removes it, and that may fail, too.
* **Several tasks on one socket.** The tasks of a Codex session share one write
  lock, so one client that does not read holds up output, time-out and exit.
* **A database and a directory.** An acquisition writes eight things one after the
  other to two stores without a common transaction.
* **Inherited labels.** Staleness and distrust must travel along every chain of
  dependents or derivations, in whatever order its links were written.
* **Several filters of one table.** Selection, next reset and publication decide
  separately, at different times, whether a deployment is usable.

`PROJECT.json` lists the hazards line by line with the property that covers each
or the reason why none does.

## 2. Modules

### CapsuleLog, CapsuleStore

`CapsuleLog` is the promise: one append-only history per task, numbered without
holes under one identity, and only recorded capsules acknowledged.
`CapsuleStore` is `POST /v1/capsules`: `SelectLatest` and `SelectRecorded` are
the two SELECTs of `save_capsule`, `Commit` and `CommitFails` the flush and the
constraint check, `SelectWinner` the read after an `IntegrityError`, `Answer*`
the HTTP answer, `Restart` a controller that loses all its requests. A task,
identity, revision and an opaque body stand for a capsule.

### DecisionLedger, DecisionStore

`DecisionLedger` is the sequential promise about one owner decision.
`DecisionStore` is the code: `get_decision` (`Propose`, `Reuse`,
`ApplyOwnerAction`, `Refuse`), `save_decision` (`SaveLoad`, `SaveCommit`,
`SaveFails`) and `append_event` (`EventSelect`, `EventInsert`, `EventFails`) are
separate transactions. An update writes only the columns that differ from the
row that `save_decision` itself read, as the ORM does; this is why status and
payload can part under overlap. The history variable `overtaken` is set when a
request saves while another one is between its read and its answer; nothing in
the code prevents that. Classification is a set `Hard` of intents; what
makes an intent L3 is not modelled.

### DenialLedger, DenialStore

`DenialStore` is one row of `governance_denial_states` under `SELECT ... FOR
UPDATE`: a lock on an existing row, none on a missing one, the insert race and
the one retry, then a second transaction for the event. `DenialLedger` counts
and escalates one denial at a time.

### TelegramGovernance

The poll thread (`loop`, `prune`, `digest`, `poll`, `handle`, `get`, `apply`,
`answer`, `clear`, `mark`, `ack`) and the notify thread (`get`, `send`, `save`)
with the lock they share, the memory and file copies of the state, Telegram's
queue of callback updates and the governance API. Each network call is a step
that may fail after taking effect, also each of those of a prune (`PruneFetch`,
`PruneFails`, `PruneSave`); `Crash` reloads the file. Telegram is external and
modelled as the service uses it; the governance API's `decision_owner_action` is
the code under `src/`: it reads the decision in one transaction and saves it in
another, so each of its requests is a read (`ApplyRead`, `LateRead`,
`ElsewhereRead`) and a save (`ApplySave`, `LateSave`, `ElsewhereSave`), for the press
itself, for a request that goes on after its caller gave up (`Abandon`), and for one
of another interface. Two of them can overlap and then both apply; `overlapped`
remembers the decisions for which this was possible, and `ResolvedOnce` exempts them.
A decision in `Hard` does not allow DEFER, and a conflict on it clears the keyboard.

### ComputePlacement

The deployments table, with every request that writes it (`put`, `observe`,
`discover`, the gateway's own observations) and reads it (`route`, `chat`,
`publish`). `Load`/`Commit` are the read and the changed-columns update of
`upsert_deployment` and `record_availability`; `Place`, `NoEligibleModel` and
`WaitForCompute` the two separate reads of `place`; `PostRetryable` and
`StoreRetries` the second attempt of `forward_chat_completion`; `ListKnown` and
`CreateNext` the discovery loop; `LoadDeployments` and `PublishConfig` the LiteLLM
renderer.

Abstractions: a row has a column of its own for everything that is written and read
separately (state, reset, cost class, accepted sensitivity, scores, development_only
and so on), so rows mixed by overlapping writers are represented; the list of accepted
sensitivities, made of a set, is compared as a set; a score is a number with 0 for
"does not fit", and the router's weighted sum is scaled by 10000 to stay in the
integers; one default delay replaces those of the classifier's branches; one
publication runs at a time.

### GitHubBroker

A request (`push_task_branch` or `create_pull_request`) is a sequence of GitHub
calls, each of which mints a token, calls and revokes the token in a `finally`
clause: `Mint`, one of `GetDefault`, `GetBranch`, `Push` and `OpenPull`, then
`Revoke`, with a failing variant of each (`MintFails`, `CallFails`,
`RevokeFails`) that may have taken effect. `Accept` is everything before the
first call (transport, workspace registry, `open_grant`, `preauthorize`),
`Satisfied` what the code checks after a call (`authorize`, the verification of
the remote commit, the acknowledgement of a pull request), `FollowUp` the order
of the calls. A push inspects the workspace in two steps (`InspectHead`,
`ValidateWorkspace`), because status and configuration are read by later git
commands than HEAD. Around the broker the clock ticks, the worker commits or
resets (`Work`), the owner changes the default branch and others move branches.

Abstractions: project, task, subject and repository are one `scope`, and the
policy template is given by its operations and its time limit; a grant that is
not authentic, a workspace with a bad path and a rejected Git configuration only
make requests fail; commits are numbered along one line of history; a pull
request is its two branches.

### DockerHost, SandboxBroker, CodexBridge, SandboxHands

`DockerHost` is the external part: one `docker run --rm --name` per hand with its
client and its container, and `docker rm -f` by name. A name belongs to one
container at a time; killing a client does not touch its container; a client
killed before its container exists leaves none.

`SandboxBroker` is `POST /v1/sandboxes/run`: `Post` plans (`Planned` keeps of the
planner what decides between acceptance and refusal) and starts the client,
`Observe` is an end within the limit, `ExpireRun` the kill of the client (which raises
if the client has just ended), `Clean`,
`CleanFails` and `CleanRaises` the removal by name. The HTTP client may give up
first (`GiveUp`), and a request posted again is another run of the same name.

`CodexBridge` is one session per connection. The main task goes through `accept`
(connected, no launch frame yet: `Connect`, `SendLaunch`, `LaunchLost`), `launch`, `ready`, `relay`, `gather`, `send`, `sent`, `stop` and `remove`, which are the
awaits of `handle`; `StdinEof`, `StdinInvalid` and `StdinLost` are the ways the
input task ends, `PumpSend`, `PumpDrained` and `PumpEnds` the output tasks.
A frame is written under the lock (`LockFree`) and the lock is held until the
socket has room again (`HasRoom`). `PeerReads`, `PeerFindsEnd` and `PeerLeaves` are
the bridge's client program, with its exit code as `result`. A crash of either
service kills the docker clients of its hands, not their containers.

`SandboxHands` puts both on one host. Abstractions: limits on resources, mounts,
networks and the contents of frames; standard input is only whether it goes on,
has ended, or was invalid.

### KnowledgeGraph

The compiler's page metadata and `KnowledgeGraphProjector.sync_all`. A sync reads
the pages (`Begin`), then performs the writes of `Writes(pages)` in order, each a
transaction of its own (`UpsertNode`, `EnsureEdge`, `EnsureRelation`), then
`PropagateStale` and the event (`Report`); `SyncFails` ends it at any point. `Roots` is
what the code collects as `stale_roots` (superseded, contradicted, disputed or
flagged references and pages past their review), `Walk` its breadth-first walk. A page
may repeat a claim id: every claim is written (`Listed`), the last one is indexed
(`Indexed`) and decides relations and conflicts.
Around it pages are compiled, review dates pass, artifacts are registered as
depending on claims, and anchors recorded. `GraphMatchesPages` compares the rows
with `Rests`, the least set closed under dependents, which is defined without a
walk. Its `GraphInit`, `GraphNext` and `GraphSpec` have names of their own because
`KnowledgeProofs` extends both halves of the compiled knowledge.

### KnowledgeIntake

The trust gateway (`Label`: the worst trust, all taint, findings and the highest
sensitivity of the material and its parents), its API (`TrustIngest`,
`RecordEnvelope`, `AnswerIngest`), `TrustedKnowledgeAcquisition.acquire` (`Acquire`,
`SelectEnvelope`, `RecordEnvelope`, `ReadManifest`, `WriteData`, `WriteManifest`,
`SaveProposal`, `UpsertSource`, `UpsertProposal`, `AddEdge`, `AppendAcquired`),
`forge-knowledge ingest` (`IngestFile` and the file steps) and the citation check of
`compile_page` (`Compile`). `Fail` stops any request between or during two of these
steps and may leave a torn file, which `WriteData` keeps. `Grounded` follows every
reference down to the manifest and the hash it names; it says nothing of the bytes in
the data file, which may be torn for good (section 4).

Assumptions: one process at a time works on the files of a knowledge root (an
acquisition runs its file section without an await; see section 4 for two
processes); a content is always ingested with the same suffix, so that it has one data
file; envelopes handed to an acquisition come from the gateway, and its
parents are recorded. Content is told apart by its hash; what the probe matches is
a function of the content. `acquire` has no caller under `src/` but the tests, so
its caller is any request the validation lets pass.

### Proof modules

`CapsuleStoreProofs`, `DecisionStoreProofs`, `DenialStoreProofs`,
`TelegramGovernanceProofs`, `ComputePlacementProofs`, `GitHubBrokerProofs`,
`SandboxHandsProofs`, and `KnowledgeProofs` for `KnowledgeIntake` and
`KnowledgeGraph`. The `MC*` modules only give constants.

## 3. Runs

| Run | Checks | Bounds |
|---|---|---|
| `capsules` | type, contiguous history, stable identity, acknowledged is recorded, replays never conflict, refinement of `CapsuleLog` | 2 tasks, 2 identities, 2 bodies, 2 revisions, 2 requests |
| `decisions` | type, opened once, answered is audited, prompts show the row and refinement of `DecisionLedger` until a request is overtaken | 2 intents (soft, hard), YES / NO / DEFER, 1 evidence ref, 2 requests |
| `decision_final` | *violated*: at most one final answer | 2 requests |
| `denials` | type, no denial lost, refinement of `DenialLedger`, every request ends | limits 2 and 3 for 3 and 10, 3 denials, 2 requests |
| `telegram` | type, confirmed is answered, resolved once, open gates can be pressed and stay registered | 2 decisions (one without DEFER, the other also decided elsewhere), YES / DEFER, 2 presses, 2 messages, memory of 1 processed callback, 1 digest hour, 2 faults |
| `telegram_liveness` | every update is eventually confirmed | 1 decision, 1 message, the rest as above |
| `compute` | type, honest waiting, retry elsewhere, selected is served, discovery qualifies nothing | 2 deployments, 3 rows to put (unqualified, local, paid and development-only), 2 kinds of request, 2 requests, clock 0..1 with resets at 1 and 2, 3 signals |
| `discovery_race` | *violated*: discovery never downgrades known state | as above |
| `github_broker` | type, tokens are revoked, writes are within the grant, success is evidence | 2 requests, 2 branches, 2 commits, 1 grant in force at time 0 of 0..1 |
| `knowledge` | type, the graph matches the pages | 2 pages, 4 versions, 2 claims of one fact, 1 source, 1 artifact, 1 anchor, 2 syncs, 1 compilation |
| `sandbox_hands` | type, answers account for the container, closed sessions removed theirs, exit is complete, every hand ends | 2 runs of one name or 1 session, 3 chunks, room for 1 frame, 2 faults |
| `knowledge_intake` | type, nothing is laundered, knowledge is grounded | 2 envelope ids, 2 projects, 2 contents, 1 source, 2 proposals, 2 requests |

Why the bounds suffice. Every hazard listed is a race of two actors or a fault
between two steps of one, so two request slots (which are reused, so that a run
contains many requests one after another) show every pair; retries need a value
that occurs twice and a second value that conflicts with it; the processed
memory of one makes the oldest entry fall out after the second press; the denial
limits 2 and 3 are each reached first for some order of safe alternatives; the
clock reaches a reset set at 0 and one set at 1; three signals are two writes and
one failure of an upstream, or a failure on either side of one write; two commits
and two branches let the worker, the owner and another request each make stale
what a request has read, and the grant expires between any two of its steps. Two
pages with one fact key make a dispute (also by name), a supersession or an agreement, according
to the version that is compiled, and an artifact beyond a page makes the walk take
two edges. Two runs of one name are a request and its retry; three chunks over two
streams with room for one frame make every task wait for the lock and for the
socket. A source that two contents and two envelope ids contend for is repeated,
refused or raced. Symmetry is used for request slots, syncs, ids and proposals. The
repeated claim ids of `KnowledgeGraph` are in its definitions and its proof, not in the
versions of the run, which have one claim each.

Two runs carry a state constraint. `OneServiceAtATime` (`sandbox_hands`) explores
the sandbox runs and the Codex session each while the other has not begun: they
share the Docker daemon, which treats names independently, and no session has the
name of another hand (`NameAssumption`); the safety proofs are about any number of
both at once. `AcquisitionsOverlap` (`knowledge_intake`) lets only acquisitions of one
project be in flight together: an API ingestion inserts one row under an id nobody
else knows, a file ingestion has the files to itself, and acquisitions of two
projects contend for the same envelope ids and sources as two of one project; all
of these are explored before and after, not during, each other. The proofs do
without the constraint.

Every property of a passing run has a mutant, a plausible bug of the code
(defined next to the original and marked `Mutant:`), under which TLC finds it
violated.

### Fairness

`DenialStore`: the event loop runs every request that can run, so each request
has weak fairness of its steps; PostgreSQL queues lock waiters, so
`SelectForUpdate` has strong fairness (others may take and release the lock while
it waits). `TelegramGovernance`: the notify thread holds the lock for a bounded
number of calls, each with a time-out (weak fairness of its next step, whether it
succeeds or fails); the poll thread asks for the lock again in every round (strong
fairness). No fairness is assumed of the owner, of Telegram, of late requests or
of crashes; faults are finitely many, since a call that fails for ever stops the
offset for ever. `SandboxHands`: the daemon answers, the event loops run their tasks
and timers fire (weak fairness of container creation, of each run, of each
session's main task and of its output tasks), and the bridge's client reads what it
is sent as long as it is there (`ReaderFairness`; without it `EveryHandEnds` is
false, see section 4). Nothing makes a client send its launch frame: the bridge waits
for it without a limit (`codex_bridge.py:32`, before the time-out starts), so a client
that connects and stays silent keeps its session, and `EveryHandEnds` speaks of
sessions whose client has sent the frame or left. No process in a container has to end or to write.

## 4. Where code and documents disagree

* `decision_final`: a YES and a NO that overlap are both answered 200
  (`governance_api.py:220`), though the Telegram document relies on the resolved
  state as protection.
* `discovery_race`: discovery decides from a list read earlier and then upserts
  (`provider_sync.py:47`): a deployment put in between is disabled and quarantined
  again, though the docstring (line 40) says "never downgrade known state".

Further disagreements, met while modelling; the steps are in the models, no run is
spent on them:

* A final press retried after a failed call finds its decision resolved, is
  answered "no longer open" and returns before `clear_keyboard`
  (`telegram_governance.py:502`); docs/28-telegram-owner-governance.md:85 says
  that YES / NO "clear the inline keyboard".
* The same upsert writes only the columns that differ from the row it read
  (`repository.py:311`): together with an operator's put it can leave a row that neither
  wrote, for instance the operator's scores with discovery's sensitivities and cost
  class, and so open a deployment in service to requests that the operator's policy
  excludes. `DiscoveryQualifiesNothing` says what is left: no deployment is put into
  service by it.
* The router does not look at `development_only` (`router.py:27`), so it selects
  deployments that `is_materializable` keeps out of the LiteLLM configuration;
  docs/litellm-runtime.md:7 promises an alias per eligible deployment.
  `SelectedIsServed` says what holds for all others.
* `upsert_semantic_node` writes every column, `stale` included
  (`repository.py:149`): a sync makes nodes fresh before it propagates, and
  revalidation is not asked for; docs/20 (line 89) says that a "later sync does not
  silently clear stale state". `GraphMatchesPages` states what is true when syncs have
  finished.
* A Codex session that times out sends its exit frame before it removes the
  container (`codex_bridge.py:69`), and sending needs the lock: a client that stays
  connected and stops reading keeps the container running;
  docs/23-codex-capability-egress.md:173 expects that a timeout "removes the
  disposable container". After `stdin_eof` nobody reads the connection, so a client
  that leaves is noticed only by a write.
* A data file that exists is never written again (`knowledge.py:293`), so one torn by a
  write that stopped in the middle stays torn under a whole manifest, and the repeated
  acquisition is answered with success; docs/20-compiled-knowledge-and-tech-radar.md:30
  says that `raw/` holds "immutable, content-addressed sources + manifests". The model
  of `KnowledgeIntake` does the same (`Fail` at `data`, then `WriteData`), and `Grounded`
  is about records and hashes, not about these bytes.
* The docstring of `TrustedKnowledgeAcquisition` says that tainted content is
  quarantined; the code quarantines for findings and for trust in
  `{blocked, malicious, untrusted}` (`knowledge_acquisition.py:203`), and the gateway's
  class for external content is `UNTRUSTED_EXTERNAL`, which is none of these. `Status`
  models the code.
* Two processes on one knowledge root can both find no manifest for a source id
  and both write one (`knowledge.py:287`), although raw sources are documented as
  immutable; the models assume one process.

## 5. Proofs

All theorems are about `Spec` (`GraphSpec`) of the module, for any sets of tasks, requests,
intents and so on and for any thresholds, from the named `ASSUME`s only (`None` is
not a value of the data, bounds are natural numbers, subsets are subsets, the
deployments and the references of the graph are finitely many). Each
proof module defines an inductive invariant (`IInv`, `GraphInv`), proves `Init => IInv` and
`IInv /\ [Next]_vars => IInv'` with one step per action, and derives the
theorems.

* **CapsuleStore.** The invariant adds `Decided` to the safety properties: what a
  request has concluded from rows it read stays true. A recorded revision is never
  removed, so a predecessor once seen is still there at the commit; a replay can
  only be at steps that find its own row. With the unique constraints this gives
  `Log!Append` at every commit, hence contiguity, identity, and the refinement
  `StoreImplementsLog`.
* **DecisionStore.** `Carried` says what each request holds between two
  transactions is coherent and of the kind its step needs, and that a request
  past its save finds the row there. These hold, with the type, `OpenedOnce`,
  `RecordCoherent` (the stored record never contradicts itself) and `AnsweredAudited`, however requests
  overlap. The refinement of `DecisionLedger` does not (`decision_final` shows a step
  that the ledger does not have), and the history variable `overtaken` says exactly when
  it may fail: once a save has fallen between the read and the answer of another request.
  Until then what a request has read is still the row when it saves, and what it has saved is still
  the row when it answers (`Current`), however many requests are in flight, so prompts
  show the row (`PromptsShowTheRow`) and every step is one of the ledger
  (`StoreImplementsLedger`). Nothing in the code prevents such a save.
* **DenialStore.** `Locked` ties a request at its commit to the row it read: either
  it holds the row lock and the row is what it saw, or it saw no row.
  So each commit applies to the current counters, and the
  refinement `StoreImplementsLedger` follows.
* **TelegramGovernance.** `Ordered` says that every update below the one the poll
  thread is at has been answered, and that it confirms no more than that, in memory
  and in the file. `Resolved` says of a decision that was never resolved while
  another request was between its read and its save that it is open and never was
  resolved, or was resolved once and no request is about to save it. `Usable` and `Shows` tie the keyboard of a registered message to the
  decision: buttons are only cleared for a decision that has been resolved. `Remembered` says that
  memory knows every open decision that the file knows, and that the decision the
  notify thread is sending is not registered yet: hence a save of either thread, with
  whatever the other has changed meanwhile, forgets no open registration.
* **ComputePlacement.** For each request, `Storing` and `Noted` say what it is to
  store and that a failed call it has recorded is still in its row, `Chosen` and `Waiting` what it
  concluded from the table, `Rendered` what it published. A step that leaves the
  table alone keeps all of this for the other requests (`KeptSound`); a commit
  does because it enters the row in their `disturbed` (`DisturbedSound`), without which
  `Noted` and `Waiting` would not survive the commit. `StoredColumns`
  describes the update of the changed columns once for every commit. That a
  table without a selected deployment has no eligible one (`BestExists`) needs a
  best score, hence the assumption that the table is finite.
* **GitHubBroker.** `Granted` keeps that the grant was in force when the request
  arrived, `Based` that the base branch it read was the default one at some moment
  since and is not its own branch, `Tokens` that only a request at a call or at
  the revocation has a live token, and `Evident` that the commits the branch has
  held since the write (`held`) include the present one, so a verification that
  finds the authorized commit proves that the branch has held it. All actions that
  end a request are handled by one lemma, `ForgetInv`.
* **SandboxHands.** `Attached` ties a container to its client; `RunAccounted` and
  `SessionAccounted` say what a run or session at each step knows of its client.
  The lemma `Calm` holds of every step for the hands it is not about: an ended
  client stays as it is, and only a client that has just been started gets a
  container. So what an answer or the end of a session says stays true, although
  another run of the same name may come up or be removed. `ExitsComplete` needs a
  second invariant, `Conserved`: the chunks in the pipes, on the wire and passed on
  by the client add up to what the process wrote, as long as the session has cut
  nothing short (`Faithful`); an output task ends at the end of its pipe, and the exit
  frame is the last one.
* **KnowledgeIntake.** `HandOk` says what a request holds at each step and that it is
  still what the store says, `Alone` that one request at a time is in the files,
  `Heritage` that every recorded envelope covers its whole lineage, `ProposalsOk`
  that status and node follow from the envelope. `Grow` (rows, manifests and files
  once there never change) carries `HandOk` over the steps of other requests. The
  laundering theorem is then one step of transitivity of `Covers`.
* **KnowledgeGraph.** `GraphMatchesPages` speaks of the end of all syncs, so the
  invariant follows staleness through them. `Caused`: every stale row has a culprit,
  a sync that failed (and will be run again), one that has the row still ahead in its
  plan, or one that is over and either reached the row or does not project it. When
  the syncs are over only the last kind is left, and it has read the present pages.
  `Marked`: when no sync is under way or failed, one that is over is complete, that is,
  has marked all that rests on its roots and the anchors of those claims, or an artifact
  was registered after it began. It is the one that was last to propagate: nobody
  has written a row since. Both use that rows and edges are only added, so that what
  rests on a root goes on to do so (`RestsGrows`). Two facts about the sync's own
  algorithms carry this: `WritesOrderly`, that its plan writes a row of every page
  and every claim, and of each edge's source before the edge; and `RestsIsReached`,
  that the breadth-first walk, cut off after as many rounds as there are references,
  reaches the least closed set. Both are about functions defined by recursion. They
  are proved by an induction that is stated of a set of naturals (`NatSetInduction`,
  from the well-foundedness of `<`), which needs no operator as a parameter.

Proved and not model-checked as properties of a run: `EventsMatchRevisions` (one event per
recorded revision), `RecordsAreCoherent` (a decision record is resolved exactly when its
action is YES or NO), `DenialStoreProofs.AnswersAreAudited` and `OneRetryIsEnough`.

Only model-checked: liveness under fairness (`EveryRequestEnds`, `UpdatesConfirmed`,
`EveryHandEnds`), which is beyond the proof system's backends, and the two violated
properties of `decision_final` and `discovery_race`. Every safety property of every
passing run is a theorem.

What the proved GitHub properties do not say: the documents' rules "no direct push
to the default branch" and "PR base must be the current default branch"
(`docs/25-operation-scoped-capability-grants.md`) hold at the moment of
`authorize`, not at the moment of the write, which GitHub orders; `WritesWithinGrant` states what is
left of them when the owner changes the default branch in between.

## 6. Not modelled

* **Candidate promotion**: one command that applies a pure policy to files, selects
  anchors once and writes the candidate back; nothing else writes candidates.
* **Secret broker and capability proxy**: a lease of one credential file for one
  request; a proxy that checks host and address of each connection and relays.
* **Redis coordination**: single-key leases and wake-ups that no code of the
  controller uses outside the tests.
* **Provider adapters, MCP server**: translation of requests without state.
* **Probe scheduling**: arithmetic over a hash.
* **External runtimes, high isolation**: validation of contracts.
* **Evidence CLI, infrastructure**: sequential commands and provisioning.
* Of modelled components: message wording and the socket server of the Telegram
  channel, entries of the LiteLLM file, the sandbox's host preflight, Markdown, lint
  and search of compiled knowledge.

What would come next: which faults each liveness property needs to be finite, and the
two hazards of `governance_api.py` that no property covers yet (`PROJECT.json`).
