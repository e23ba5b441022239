---------------------------- MODULE GitHubBroker ----------------------------
(***************************************************************************)
(* The GitHub capability broker: grants are issued and sealed by Forge,    *)
(* and a task presents one to push its branch or to open a pull request.   *)
(* Handlers run in threads side by side; a step is one call of GitHub's    *)
(* API or of git, and everything the handler read before may be out of     *)
(* date at the next.                                                       *)
(*                                                                         *)
(* External, as the code uses them: GitHub (branches, the default branch,  *)
(* pull requests, installation tokens; a failed call may have taken        *)
(* effect), and the task's workspace, in which the worker goes on working. *)
(* Commits are numbered so that a later one descends from an earlier one.  *)
(*                                                                         *)
(*   now      the clock                                                    *)
(*   sealed   the grants issued so far                                     *)
(*   remote   the commit each branch points to, 0 where there is none      *)
(*   default  the default branch of the repository                         *)
(*   pulls    the open pull requests                                       *)
(*   head     HEAD of the task's workspace                                 *)
(*   live     per request: its installation tokens that GitHub accepts, by *)
(*            what they were minted for                                    *)
(*   pc, phase, grant, use, base, got   per request: next step, current    *)
(*            call, what was presented and asked, the default branch read, *)
(*            the result of the last call (None when it failed)            *)
(*   since, bases, held, spilled   history: when the request was accepted; *)
(*            the default branches since; the commits its branch has held  *)
(*            since its write; its mint or its revocation has failed       *)
(***************************************************************************)
EXTENDS Integers, FiniteSets

CONSTANTS Branches,    \* branch names
          Scopes,      \* project, task, subject and repository of a grant
          Registered,  \* the scopes with a workspace in the registry
          Operations,  \* the operations of the policy's template
          MaxTtl,      \* max_ttl_minutes of the policy
          Offered,     \* bound: the grants that are asked for
          Requests,    \* requests in flight
          MaxCommit,   \* bound on commits
          MaxTime,     \* bound on the clock
          None         \* no grant, no request, no branch, no result

Commits == 1..MaxCommit

Grant == [scope : Scopes, operations : SUBSET {"branch.push", "pr.create"},
          branch : Branches, issued : Nat, expires : Nat, revoked : BOOLEAN]

Use == [scope : Scopes, operation : {"branch.push", "pr.create"},
        branch : Branches, head : Commits]

Pull == [branch : Branches, base : Branches]

ASSUME SetAssumption == Registered \subseteq Scopes /\ Offered \subseteq Grant
ASSUME BoundAssumption == {MaxTtl, MaxCommit, MaxTime} \subseteq Nat \ {0}
ASSUME NoneAssumption == None \notin Grant \cup Use \cup Branches \cup Nat

PC == {"idle", "mint", "call", "revoke", "head", "status", "done", "failed"}

\* What an installation token is minted for: metadata read, a write, contents read.
Phase == {"default", "write", "verify"}

VARIABLES now, sealed, remote, default, pulls, head, live, pc, phase, grant, use,
          base, got, since, bases, held, spilled

github == <<remote, default, pulls>>
asked == <<grant, use, since>>
vars == <<now, sealed, github, head, live, pc, phase, asked, base, got, bases, held, spilled>>

Init ==
    /\ now = 0
    /\ sealed = {}
    /\ remote = [b \in Branches |-> 0]
    /\ default \in Branches
    /\ pulls = {}
    /\ head = 1
    /\ live = [r \in Requests |-> {}]
    /\ pc = [r \in Requests |-> "idle"]
    /\ phase = [r \in Requests |-> "default"]
    /\ grant = [r \in Requests |-> None]
    /\ use = [r \in Requests |-> None]
    /\ base = [r \in Requests |-> None]
    /\ got = [r \in Requests |-> None]
    /\ since = [r \in Requests |-> 0]
    /\ bases = [r \in Requests |-> {}]
    /\ held = [r \in Requests |-> {}]
    /\ spilled = [r \in Requests |-> FALSE]

-----------------------------------------------------------------------------
\* validate_grant, for the template whose operations and TTL are given.
Valid(g) ==
    /\ g.issued < g.expires
    /\ g.expires - g.issued <= MaxTtl
    /\ g.operations # {}
    /\ g.operations \subseteq Operations

\* preauthorize at time t.
Preauthorized(g, u, t) ==
    /\ Valid(g)
    /\ ~g.revoked
    /\ g.issued <= t /\ t < g.expires
    /\ u.scope = g.scope
    /\ u.operation \in g.operations
    /\ u.branch = g.branch

\* Mutant: the default branch is not excluded.
AuthorizedAnyBranch(g, u, b, t) == Preauthorized(g, u, t)

\* authorize at time t, when b is believed to be the default branch; it is also the
\* base of the pull request, and no push is forced.
Authorized(g, u, b, t) == Preauthorized(g, u, t) /\ u.branch # b

-----------------------------------------------------------------------------
(***************************************************************************)
(* What happens around the broker.                                         *)
(***************************************************************************)
Tick ==
    /\ now < MaxTime
    /\ now' = now + 1
    /\ UNCHANGED <<sealed, github, head, live, pc, phase, asked, base, got, bases, held, spilled>>

\* issue_grant and seal_grant.
IssueGrant(g) ==
    /\ g.issued = now
    /\ ~g.revoked
    /\ Valid(g)
    /\ g \notin sealed
    /\ sealed' = sealed \cup {g}
    /\ UNCHANGED <<now, github, head, live, pc, phase, asked, base, got, bases, held, spilled>>

\* The worker commits or resets.
Work(c) ==
    /\ head' = c
    /\ UNCHANGED <<now, sealed, github, live, pc, phase, asked, base, got, bases, held, spilled>>

\* The owner makes b the default branch.
ChangeDefault(b) ==
    /\ default' = b
    /\ bases' = [r \in Requests |-> IF bases[r] = {} THEN {} ELSE bases[r] \cup {b}]
    /\ UNCHANGED <<now, sealed, remote, pulls, head, live, pc, phase, asked, base, got, held, spilled>>

\* The commits that requests have seen on branch b since their writes.
HeldWith(b, c) ==
    [r \in Requests |-> IF held[r] # {} /\ use[r].branch = b THEN held[r] \cup {c} ELSE held[r]]

\* Somebody else moves or deletes a branch.
MoveBranch(b, c) ==
    /\ remote' = [remote EXCEPT ![b] = c]
    /\ held' = HeldWith(b, c)
    /\ UNCHANGED <<now, sealed, default, pulls, head, live, pc, phase, asked, base, got, bases, spilled>>

-----------------------------------------------------------------------------
Goto(r, step) == pc' = [pc EXCEPT ![r] = step]

\* The request is over but for its tokens.
Forget(r, step) ==
    /\ Goto(r, step)
    /\ phase' = [phase EXCEPT ![r] = "default"]
    /\ grant' = [grant EXCEPT ![r] = None]
    /\ use' = [use EXCEPT ![r] = None]
    /\ base' = [base EXCEPT ![r] = None]
    /\ got' = [got EXCEPT ![r] = None]
    /\ since' = [since EXCEPT ![r] = 0]
    /\ bases' = [bases EXCEPT ![r] = {}]
    /\ held' = [held EXCEPT ![r] = {}]

\* A request with a registered workspace and a grant that is authentic and passes
\* preauthorize; any other is refused at once and nothing changes.
Accept(r, g, u) ==
    /\ pc[r] = "idle"
    /\ g \in sealed
    /\ u.scope \in Registered
    /\ Preauthorized(g, u, now)
    /\ grant' = [grant EXCEPT ![r] = g]
    /\ use' = [use EXCEPT ![r] = u]
    /\ since' = [since EXCEPT ![r] = now]
    /\ bases' = [bases EXCEPT ![r] = {default}]
    /\ phase' = [phase EXCEPT ![r] = "default"]
    /\ Goto(r, "mint")
    /\ UNCHANGED <<now, sealed, github, head, live, base, got, held, spilled>>

\* Mutant: the next token is minted under the name of the first.
MintUnnamed(r) ==
    /\ pc[r] = "mint"
    /\ live' = [live EXCEPT ![r] = @ \cup {"default"}]
    /\ Goto(r, "call")
    /\ UNCHANGED <<now, sealed, github, head, phase, asked, base, got, bases, held, spilled>>

Mint(r) ==
    /\ pc[r] = "mint"
    /\ live' = [live EXCEPT ![r] = @ \cup {phase[r]}]
    /\ Goto(r, "call")
    /\ UNCHANGED <<now, sealed, github, head, phase, asked, base, got, bases, held, spilled>>

\* The token is not minted, or is minted and the answer is lost or invalid.
MintFails(r) ==
    /\ pc[r] = "mint"
    /\ \E lost \in BOOLEAN :
          /\ live' = [live EXCEPT ![r] = IF lost THEN @ \cup {phase[r]} ELSE @]
          /\ spilled' = [spilled EXCEPT ![r] = lost]
    /\ Forget(r, "failed")
    /\ UNCHANGED <<now, sealed, github, head>>

Calls(r, p) == pc[r] = "call" /\ phase[r] = p

Returns(r, value) == got' = [got EXCEPT ![r] = value] /\ Goto(r, "revoke")

\* _default_branch.
GetDefault(r) ==
    /\ Calls(r, "default")
    /\ base' = [base EXCEPT ![r] = default]
    /\ Returns(r, default)
    /\ UNCHANGED <<now, sealed, github, head, live, phase, asked, bases, held, spilled>>

\* _remote_branch_sha.
GetBranch(r) ==
    /\ Calls(r, "verify")
    /\ remote[use[r].branch] # 0
    /\ Returns(r, remote[use[r].branch])
    /\ UNCHANGED <<now, sealed, github, head, live, phase, asked, base, bases, held, spilled>>

\* git push HEAD:refs/heads/<branch>, not forced; it may take effect and time out.
Push(r) ==
    LET b == use[r].branch IN
    /\ Calls(r, "write")
    /\ use[r].operation = "branch.push"
    /\ remote[b] <= head
    /\ remote' = [remote EXCEPT ![b] = head]
    /\ held' = [HeldWith(b, head) EXCEPT ![r] = {head}]
    /\ \E answer \in {head, None} : Returns(r, answer)
    /\ UNCHANGED <<now, sealed, default, pulls, head, live, phase, asked, base, bases, spilled>>

\* POST .../pulls; GitHub refuses a second one for the same branches.
OpenPull(r) ==
    LET pull == [branch |-> use[r].branch, base |-> base[r]] IN
    /\ Calls(r, "write")
    /\ use[r].operation = "pr.create"
    /\ remote[use[r].branch] # 0
    /\ pull \notin pulls
    /\ pulls' = pulls \cup {pull}
    /\ held' = [held EXCEPT ![r] = {remote[use[r].branch]}]
    /\ \E answer \in {remote[use[r].branch], None} : Returns(r, answer)
    /\ UNCHANGED <<now, sealed, remote, default, head, live, phase, asked, base, bases, spilled>>

\* Mutant: the token is revoked only after a call that succeeded.
CallFailsKeepsToken(r) ==
    /\ pc[r] = "call"
    /\ Forget(r, "failed")
    /\ UNCHANGED <<now, sealed, github, head, live, spilled>>

\* The call fails; the finally clause revokes the token all the same.
CallFails(r) ==
    /\ pc[r] = "call"
    /\ Returns(r, None)
    /\ UNCHANGED <<now, sealed, github, head, live, phase, asked, base, bases, held, spilled>>

\* Mutant: the commit on the remote branch is not compared.
SatisfiedUnverified(r) ==
    /\ got[r] # None
    /\ phase[r] = "default" => Authorized(grant[r], use[r], base[r], now)

\* The request may go on after its call: authorize once the default branch is known;
\* compare the commit of the remote branch, and of an acknowledged pull request, with
\* the authorized one.
Satisfied(r) ==
    /\ got[r] # None
    /\ phase[r] = "default" => Authorized(grant[r], use[r], base[r], now)
    /\ phase[r] = "verify" \/ (phase[r] = "write" /\ use[r].operation = "pr.create")
           => got[r] = use[r].head

\* A push inspects the workspace, writes and verifies; a pull request is opened after
\* the verification.
FollowUp(operation, p) ==
    IF operation = "branch.push"
    THEN CASE p = "default" -> <<"head", "default">>
           [] p = "write"   -> <<"mint", "verify">>
           [] p = "verify"  -> <<"done", "verify">>
    ELSE CASE p = "default" -> <<"mint", "verify">>
           [] p = "verify"  -> <<"mint", "write">>
           [] p = "write"   -> <<"done", "write">>

Revoke(r) ==
    LET next == FollowUp(use[r].operation, phase[r]) IN
    /\ pc[r] = "revoke"
    /\ Satisfied(r)
    /\ live' = [live EXCEPT ![r] = @ \ {phase[r]}]
    /\ Goto(r, next[1])
    /\ phase' = [phase EXCEPT ![r] = next[2]]
    /\ got' = [got EXCEPT ![r] = None]
    /\ UNCHANGED <<now, sealed, github, head, asked, base, bases, held, spilled>>

\* The call failed, or returned what the request must not go on with.
RevokeAndFail(r) ==
    /\ pc[r] = "revoke"
    /\ ~Satisfied(r)
    /\ live' = [live EXCEPT ![r] = @ \ {phase[r]}]
    /\ Forget(r, "failed")
    /\ UNCHANGED <<now, sealed, github, head, spilled>>

\* A status other than 204, or none, fails the request, whatever the call returned.
RevokeFails(r) ==
    /\ pc[r] = "revoke"
    /\ \E done \in BOOLEAN :
          live' = [live EXCEPT ![r] = IF done THEN @ \ {phase[r]} ELSE @]
    /\ spilled' = [spilled EXCEPT ![r] = TRUE]
    /\ Forget(r, "failed")
    /\ UNCHANGED <<now, sealed, github, head>>

-----------------------------------------------------------------------------
\* inspect reads HEAD first, and status and config by git commands of their own.
InspectHead(r) ==
    /\ pc[r] = "head"
    /\ got' = [got EXCEPT ![r] = head]
    /\ Goto(r, "status")
    /\ UNCHANGED <<now, sealed, github, head, live, phase, asked, base, bases, held, spilled>>

\* _validate_workspace_state; the workspace may be found clean at this moment.
ValidateWorkspace(r) ==
    /\ pc[r] = "status"
    /\ got[r] = use[r].head
    /\ got' = [got EXCEPT ![r] = None]
    /\ phase' = [phase EXCEPT ![r] = "write"]
    /\ Goto(r, "mint")
    /\ UNCHANGED <<now, sealed, github, head, live, asked, base, bases, held, spilled>>

\* Git fails, HEAD is another, or there are changes or config that is rejected.
InspectFails(r) ==
    /\ pc[r] \in {"head", "status"}
    /\ Forget(r, "failed")
    /\ UNCHANGED <<now, sealed, github, head, live, spilled>>

\* The request is answered; a token that was not revoked expires some day.
Answer(r) ==
    /\ pc[r] \in {"done", "failed"}
    /\ live' = [live EXCEPT ![r] = {}]
    /\ spilled' = [spilled EXCEPT ![r] = FALSE]
    /\ Forget(r, "idle")
    /\ UNCHANGED <<now, sealed, github, head>>

\* The broker stops and starts again; tokens in use are never revoked.
Restart ==
    /\ \E r \in Requests : pc[r] # "idle"
    /\ live' = [r \in Requests |-> {}]
    /\ pc' = [r \in Requests |-> "idle"]
    /\ phase' = [r \in Requests |-> "default"]
    /\ grant' = [r \in Requests |-> None]
    /\ use' = [r \in Requests |-> None]
    /\ base' = [r \in Requests |-> None]
    /\ got' = [r \in Requests |-> None]
    /\ since' = [r \in Requests |-> 0]
    /\ bases' = [r \in Requests |-> {}]
    /\ held' = [r \in Requests |-> {}]
    /\ spilled' = [r \in Requests |-> FALSE]
    /\ UNCHANGED <<now, sealed, github, head>>

Next ==
    \/ Tick
    \/ Restart
    \/ \E g \in Offered : IssueGrant(g)
    \/ \E c \in Commits : Work(c)
    \/ \E b \in Branches : ChangeDefault(b)
    \/ \E g \in Offered, c \in Commits \cup {0} : MoveBranch(g.branch, c)
    \/ \E r \in Requests :
          \/ \E g \in Offered, u \in Use : Accept(r, g, u)
          \/ Mint(r)
          \/ MintFails(r)
          \/ GetDefault(r)
          \/ GetBranch(r)
          \/ Push(r)
          \/ OpenPull(r)
          \/ CallFails(r)
          \/ Revoke(r)
          \/ RevokeAndFail(r)
          \/ RevokeFails(r)
          \/ InspectHead(r)
          \/ ValidateWorkspace(r)
          \/ InspectFails(r)
          \/ Answer(r)

Spec == Init /\ [][Next]_vars
-----------------------------------------------------------------------------
TypeOK ==
    /\ now \in 0..MaxTime
    /\ sealed \subseteq Offered
    /\ remote \in [Branches -> Commits \cup {0}]
    /\ default \in Branches
    /\ pulls \subseteq Pull
    /\ head \in Commits
    /\ live \in [Requests -> SUBSET Phase]
    /\ pc \in [Requests -> PC]
    /\ phase \in [Requests -> Phase]
    /\ grant \in [Requests -> Grant \cup {None}]
    /\ use \in [Requests -> Use \cup {None}]
    /\ base \in [Requests -> Branches \cup {None}]
    /\ got \in [Requests -> Branches \cup Commits \cup {None}]
    /\ since \in [Requests -> 0..MaxTime]
    /\ bases \in [Requests -> SUBSET Branches]
    /\ held \in [Requests -> SUBSET (Commits \cup {0})]
    /\ spilled \in [Requests -> BOOLEAN]
    /\ \A r \in Requests : pc[r] \notin {"idle", "failed"} => grant[r] \in Grant /\ use[r] \in Use
    /\ \A r \in Requests : pc[r] \in {"call", "revoke"} => live[r] = {phase[r]}

(***************************************************************************)
(* "The broker revokes every request-scoped token after use": success      *)
(* leaves no token, and neither does a failure, whichever call it was,     *)
(* except of a mint or of a revocation itself.                             *)
(***************************************************************************)
TokensRevoked ==
    \A r \in Requests :
        /\ pc[r] = "done" => live[r] = {}
        /\ pc[r] = "failed" /\ ~spilled[r] => live[r] = {}

(***************************************************************************)
(* A request writes only what its grant covers, and only if at some moment *)
(* since it arrived the grant was in force; it never writes to a branch    *)
(* that has been the default all that time, nor opens a pull request       *)
(* against one that has not been the default at any moment of it.          *)
(***************************************************************************)
WritesWithinGrant ==
    \A r \in Requests :
        Calls(r, "write") =>
            /\ use[r].scope = grant[r].scope /\ use[r].scope \in Registered
            /\ use[r].operation \in grant[r].operations
            /\ use[r].branch = grant[r].branch
            /\ ~grant[r].revoked
            /\ \E t \in since[r]..now : grant[r].issued <= t /\ t < grant[r].expires
            /\ bases[r] # {use[r].branch}
            /\ base[r] \in bases[r]

(***************************************************************************)
(* Success is evidence, whatever the worker, the owner and other requests  *)
(* do between the steps: since the write the branch has held the           *)
(* authorized commit, although git push reads HEAD again; and a pull       *)
(* request is open, against a branch that was the default one.             *)
(***************************************************************************)
SuccessIsEvidence ==
    \A r \in Requests :
        pc[r] = "done" =>
            /\ use[r].head \in held[r]
            /\ use[r].operation = "pr.create" =>
                   /\ [branch |-> use[r].branch, base |-> base[r]] \in pulls
                   /\ base[r] \in bases[r]
=============================================================================
