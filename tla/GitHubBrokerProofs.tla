------------------------- MODULE GitHubBrokerProofs -------------------------
(***************************************************************************)
(* Safety of the GitHub broker for any branches, grants and number of      *)
(* requests.  The invariant says what a request may rely on at each step,  *)
(* although GitHub, the workspace and the clock move on: that its grant    *)
(* was in force when it arrived (Granted), that the base it read was the   *)
(* default branch at some moment since and is not its own branch (Based),  *)
(* which token is live (Tokens), and that the commits its branch has held  *)
(* since its write include the current one and the one it verified         *)
(* (Evident).                                                              *)
(***************************************************************************)
EXTENDS GitHubBroker, TLAPS

Active(r) == pc[r] \notin {"idle", "failed"}

Tokens ==
    \A r \in Requests :
        /\ pc[r] \notin {"call", "revoke", "failed"} => live[r] = {}
        /\ pc[r] = "failed" /\ ~spilled[r] => live[r] = {}
        /\ pc[r] # "failed" => ~spilled[r]

Granted ==
    \A r \in Requests :
        Active(r) =>
            /\ Preauthorized(grant[r], use[r], since[r])
            /\ since[r] <= now
            /\ use[r].scope \in Registered

Based ==
    \A r \in Requests :
        /\ Active(r) => default \in bases[r]
        /\ Active(r) /\ (phase[r] # "default" \/ pc[r] \in {"head", "status"})
               => base[r] \in bases[r] /\ use[r].branch # base[r]
        /\ pc[r] = "revoke" /\ got[r] # None => base[r] \in bases[r]

Pushing(r) == Active(r) /\ use[r].operation = "branch.push"
Proposing(r) == Active(r) /\ use[r].operation = "pr.create"

Answered(r) == pc[r] = "revoke" /\ got[r] # None

Evident ==
    \A r \in Requests :
        /\ pc[r] \in {"head", "status"} => use[r].operation = "branch.push"
        /\ Pushing(r) =>
              /\ phase[r] = "verify" \/ (phase[r] = "write" /\ Answered(r))
                     => remote[use[r].branch] \in held[r]
              /\ phase[r] = "verify" /\ Answered(r) => got[r] \in held[r]
              /\ pc[r] = "done" => use[r].head \in held[r]
        /\ Proposing(r) =>
              /\ phase[r] = "write" /\ Answered(r) => got[r] \in held[r]
              /\ pc[r] = "done" => use[r].head \in held[r]
              /\ pc[r] = "done" \/ (phase[r] = "write" /\ Answered(r))
                     => [branch |-> use[r].branch, base |-> base[r]] \in pulls
              /\ pc[r] = "done" => phase[r] = "write"

IInv == TypeOK /\ Tokens /\ Granted /\ Based /\ Evident

-----------------------------------------------------------------------------
LEMMA InitInv == Init => IInv
<1> SUFFICES ASSUME Init PROVE IInv
    OBVIOUS
<1>1. TypeOK
      BY BoundAssumption DEF Init, TypeOK, PC, Phase, Commits
<1>2. Tokens /\ Granted /\ Based /\ Evident
      BY DEF Init, Tokens, Granted, Based, Evident, Active, Pushing, Proposing, Answered
<1> QED BY <1>1, <1>2 DEF IInv

\* What others do: the clock, grants, the worker, the owner, other branches.
LEMMA AroundInv ==
    ASSUME IInv,
           \/ Tick
           \/ \E g \in Offered : IssueGrant(g)
           \/ \E c \in Commits : Work(c)
           \/ \E b \in Branches : ChangeDefault(b)
           \/ \E g \in Offered, c \in Commits \cup {0} : MoveBranch(g.branch, c)
    PROVE  IInv'
<1> USE SetAssumption, BoundAssumption DEF IInv
<1>1. CASE Tick
  <2> USE <1>1 DEF Tick
  <2>1. TypeOK'
        BY DEF TypeOK, github, asked
  <2>2. (Tokens /\ Granted /\ Based /\ Evident)'
        BY DEF TypeOK, Tokens, Granted, Based, Evident, Active, Pushing, Proposing, Answered,
           Preauthorized, Valid, github, asked
  <2> QED BY <2>1, <2>2
<1>2. ASSUME NEW g \in Offered, IssueGrant(g) PROVE IInv'
  <2> USE <1>2 DEF IssueGrant
  <2>1. TypeOK'
        BY DEF TypeOK, github, asked
  <2>2. (Tokens /\ Granted /\ Based /\ Evident)'
        BY DEF Tokens, Granted, Based, Evident, Active, Pushing, Proposing, Answered,
           Preauthorized, Valid, github, asked
  <2> QED BY <2>1, <2>2
<1>3. ASSUME NEW c \in Commits, Work(c) PROVE IInv'
  <2> USE <1>3 DEF Work
  <2>1. TypeOK'
        BY DEF TypeOK, github, asked
  <2>2. (Tokens /\ Granted /\ Based /\ Evident)'
        BY DEF Tokens, Granted, Based, Evident, Active, Pushing, Proposing, Answered,
           Preauthorized, Valid, github, asked
  <2> QED BY <2>1, <2>2
<1>4. ASSUME NEW b \in Branches, ChangeDefault(b) PROVE IInv'
  <2> USE <1>4 DEF ChangeDefault
  <2>1. TypeOK'
        BY DEF TypeOK, asked
  <2>2. (Tokens /\ Granted /\ Based /\ Evident)'
        BY DEF TypeOK, Tokens, Granted, Based, Evident, Active, Pushing, Proposing, Answered,
           Preauthorized, Valid, asked
  <2> QED BY <2>1, <2>2
<1>5. ASSUME NEW g \in Offered, NEW c \in Commits \cup {0}, MoveBranch(g.branch, c) PROVE IInv'
  <2> USE <1>5 DEF MoveBranch
  <2>1. TypeOK'
        BY DEF TypeOK, asked, HeldWith, Grant
  <2>2. (Tokens /\ Granted /\ Based)'
        BY DEF Tokens, Granted, Based, Active, Preauthorized, Valid, asked
  <2>3. Evident'
        BY DEF TypeOK, Evident, Active, Pushing, Proposing, Answered, asked, HeldWith, Use, Grant
  <2> QED BY <2>1, <2>2, <2>3
<1> QED BY <1>1, <1>2, <1>3, <1>4, <1>5

\* A request that is over.
LEMMA ForgetInv ==
    ASSUME IInv, NEW r \in Requests, NEW step \in {"idle", "failed"}, Forget(r, step),
           live' \in [Requests -> SUBSET Phase], spilled' \in [Requests -> BOOLEAN],
           \A q \in Requests : q # r => live'[q] = live[q] /\ spilled'[q] = spilled[q],
           step = "idle" => live'[r] = {} /\ ~spilled'[r],
           step = "failed" => spilled'[r] \/ live'[r] = {},
           UNCHANGED <<now, sealed, github, head>>
    PROVE  IInv'
<1> USE BoundAssumption DEF IInv, Forget, Goto
<1>1. TypeOK'
  <2>1. (live \in [Requests -> SUBSET Phase])' /\ (spilled \in [Requests -> BOOLEAN])'
        OBVIOUS
  <2>2. /\ (pc \in [Requests -> PC])' /\ (phase \in [Requests -> Phase])'
        /\ (grant \in [Requests -> Grant \cup {None}])' /\ (use \in [Requests -> Use \cup {None}])'
        /\ (base \in [Requests -> Branches \cup {None}])'
        /\ (got \in [Requests -> Branches \cup Commits \cup {None}])'
        /\ (since \in [Requests -> 0..MaxTime])' /\ (bases \in [Requests -> SUBSET Branches])'
        /\ (held \in [Requests -> SUBSET (Commits \cup {0})])'
        BY DEF TypeOK, PC, Phase
  <2>3. \A q \in Requests : /\ (pc[q] \notin {"idle", "failed"} => grant[q] \in Grant /\ use[q] \in Use)'
                            /\ (pc[q] \in {"call", "revoke"} => live[q] = {phase[q]})'
        BY DEF TypeOK
  <2> QED BY <2>1, <2>2, <2>3 DEF TypeOK, github
<1>2. Tokens'
      BY DEF TypeOK, Tokens
<1>3. (Granted /\ Based)'
      BY DEF TypeOK, Granted, Based, Active, Preauthorized, Valid, github
<1>4. Evident'
      BY DEF TypeOK, Evident, Active, Pushing, Proposing, Answered, github
<1> QED BY <1>1, <1>2, <1>3, <1>4

\* A step of a request.
LEMMA RequestInv ==
    ASSUME IInv,
           \E r \in Requests :
               \/ \E g \in Offered, u \in Use : Accept(r, g, u)
               \/ Mint(r)
               \/ GetDefault(r)
               \/ GetBranch(r)
               \/ Push(r)
               \/ OpenPull(r)
               \/ CallFails(r)
               \/ Revoke(r)
               \/ InspectHead(r)
               \/ ValidateWorkspace(r)
    PROVE  IInv'
<1> USE SetAssumption, BoundAssumption, NoneAssumption DEF IInv
<1>1. ASSUME NEW r \in Requests, NEW g \in Offered, NEW u \in Use, Accept(r, g, u)
      PROVE  IInv'
  <2> USE <1>1 DEF Accept, Goto
  <2>1. TypeOK'
        BY DEF TypeOK, PC, Phase, github, asked
  <2>2. (Tokens /\ Granted)'
        BY DEF TypeOK, Tokens, Granted, Active, Preauthorized, Valid, github, asked
  <2>3. Based'
        BY DEF TypeOK, Based, Granted, Active, github, asked
  <2>4. Evident'
        BY DEF TypeOK, Based, Evident, Active, Pushing, Proposing, Answered, github, asked
  <2> QED BY <2>1, <2>2, <2>3, <2>4
<1>2. ASSUME NEW r \in Requests, Mint(r)
      PROVE  IInv'
  <2> USE <1>2 DEF Mint, Goto
  <2>1. TypeOK'
    <3>1. (live \in [Requests -> SUBSET Phase])' /\ (pc \in [Requests -> PC])'
          BY DEF TypeOK, PC
    <3>2. \A q \in Requests : (pc[q] \in {"call", "revoke"} => live[q] = {phase[q]})'
          BY DEF TypeOK, Tokens
    <3> QED BY <3>1, <3>2 DEF TypeOK, github, asked
  <2>2. (Tokens /\ Granted)'
        BY DEF TypeOK, Tokens, Granted, Active, Preauthorized, Valid, github, asked
  <2>3. Based'
        BY DEF TypeOK, Based, Granted, Active, github, asked
  <2>4. Evident'
        BY DEF TypeOK, Based, Evident, Active, Pushing, Proposing, Answered, github, asked
  <2> QED BY <2>1, <2>2, <2>3, <2>4
<1>3. ASSUME NEW r \in Requests, GetDefault(r)
      PROVE  IInv'
  <2> USE <1>3 DEF GetDefault, Goto, Calls, Returns
  <2>1. TypeOK'
    <3>1. /\ (base \in [Requests -> Branches \cup {None}])' /\ (pc \in [Requests -> PC])'
          /\ (got \in [Requests -> Branches \cup Commits \cup {None}])'
          BY DEF TypeOK, PC
    <3>2. \A q \in Requests : (pc[q] \in {"call", "revoke"} => live[q] = {phase[q]})'
          BY DEF TypeOK
    <3> QED BY <3>1, <3>2 DEF TypeOK, github, asked
  <2>2. (Tokens /\ Granted)'
        BY DEF TypeOK, Tokens, Granted, Active, Preauthorized, Valid, github, asked
  <2>3. Based'
        BY DEF TypeOK, Based, Granted, Active, github, asked
  <2>4. Evident'
        BY DEF TypeOK, Based, Evident, Active, Pushing, Proposing, Answered, github, asked
  <2> QED BY <2>1, <2>2, <2>3, <2>4
<1>4. ASSUME NEW r \in Requests, GetBranch(r)
      PROVE  IInv'
  <2> USE <1>4 DEF GetBranch, Goto, Calls, Returns
  <2>1. TypeOK'
    <3>1. remote[use[r].branch] \in Commits
          BY DEF TypeOK, Use
    <3>2. /\ (got \in [Requests -> Branches \cup Commits \cup {None}])'
          /\ (pc \in [Requests -> PC])'
          BY <3>1 DEF TypeOK, PC
    <3>3. \A q \in Requests : (pc[q] \in {"call", "revoke"} => live[q] = {phase[q]})'
          BY DEF TypeOK
    <3> QED BY <3>2, <3>3 DEF TypeOK, github, asked
  <2>2. (Tokens /\ Granted)'
        BY DEF TypeOK, Tokens, Granted, Active, Preauthorized, Valid, github, asked
  <2>3. Based'
        BY DEF TypeOK, Based, Granted, Active, github, asked
  <2>4. Evident'
        BY DEF TypeOK, Based, Evident, Active, Pushing, Proposing, Answered, github, asked
  <2> QED BY <2>1, <2>2, <2>3, <2>4
<1>5. ASSUME NEW r \in Requests, Push(r)
      PROVE  IInv'
  <2> USE <1>5 DEF Push, Goto, Calls, Returns, HeldWith
  <2>1. TypeOK'
    <3>1. (remote \in [Branches -> Commits \cup {0}])'
          BY DEF TypeOK, Use
    <3>2. (held \in [Requests -> SUBSET (Commits \cup {0})])'
          BY DEF TypeOK
    <3>3. /\ (got \in [Requests -> Branches \cup Commits \cup {None}])'
          /\ (pc \in [Requests -> PC])'
          BY DEF TypeOK, PC
    <3>4. \A q \in Requests : (pc[q] \in {"call", "revoke"} => live[q] = {phase[q]})'
          BY DEF TypeOK
    <3> QED BY <3>1, <3>2, <3>3, <3>4 DEF TypeOK, asked
  <2>2. (Tokens /\ Granted)'
        BY DEF TypeOK, Tokens, Granted, Active, Preauthorized, Valid, github, asked
  <2>3. Based'
        BY DEF TypeOK, Based, Granted, Active, github, asked
  <2>4. Evident'
    <3>1. remote'[use[r].branch] = head /\ held'[r] = {head} /\ remote'[use[r].branch] \in held'[r]
          BY DEF TypeOK, Use
    <3>2. ASSUME NEW q \in Requests, q # r, remote[use[q].branch] \in held[q], use[q] \in Use
          PROVE  remote'[use[q].branch] \in held'[q]
          BY <3>2 DEF TypeOK, Use
    <3>3. \A q \in Requests : q # r => held[q] \subseteq held'[q]
          BY DEF TypeOK
    <3>4. ASSUME NEW q \in Requests, q # r
          PROVE  /\ pc'[q] = pc[q] /\ phase'[q] = phase[q] /\ use'[q] = use[q] /\ got'[q] = got[q]
                 /\ base'[q] = base[q] /\ pulls' = pulls
          BY <3>4 DEF TypeOK, asked
    <3>5. /\ pc'[r] = "revoke" /\ phase'[r] = "write" /\ use'[r].operation = "branch.push"
          /\ use'[r] = use[r]
          BY DEF TypeOK, asked
    <3> HIDE <1>5
    <3>6. ASSUME NEW q \in Requests
          PROVE  /\ pc'[q] \in {"head", "status"} => use'[q].operation = "branch.push"
                 /\ Pushing(q)' =>
                       /\ phase'[q] = "verify" \/ (phase'[q] = "write" /\ Answered(q)')
                              => remote'[use'[q].branch] \in held'[q]
                       /\ phase'[q] = "verify" /\ Answered(q)' => got'[q] \in held'[q]
                       /\ pc'[q] = "done" => use'[q].head \in held'[q]
      <4>1. CASE q = r
            BY <4>1, <3>1, <3>5
      <4>2. CASE q # r
        <5>1. /\ pc'[q] = pc[q] /\ phase'[q] = phase[q] /\ use'[q] = use[q] /\ got'[q] = got[q]
              /\ held[q] \subseteq held'[q]
              BY <4>2, <3>3, <3>4
        <5>2. Pushing(q)' = Pushing(q) /\ Answered(q)' = Answered(q)
              BY <5>1 DEF Pushing, Active, Answered
        <5>3. Pushing(q) => use[q] \in Use
              BY DEF TypeOK, Pushing, Active
        <5>4. Evident
              OBVIOUS
        <5>5. Pushing(q) /\ remote[use[q].branch] \in held[q]
                  => remote'[use[q].branch] \in held'[q]
              BY <4>2, <3>2, <5>3
        <5> QED BY <5>1, <5>2, <5>4, <5>5 DEF Evident
      <4> QED BY <4>1, <4>2
    <3>7. ASSUME NEW q \in Requests, Proposing(q)'
          PROVE  /\ phase'[q] = "write" /\ Answered(q)' => got'[q] \in held'[q]
                 /\ pc'[q] = "done" => use'[q].head \in held'[q]
                 /\ pc'[q] = "done" \/ (phase'[q] = "write" /\ Answered(q)')
                        => [branch |-> use'[q].branch, base |-> base'[q]] \in pulls'
                 /\ pc'[q] = "done" => phase'[q] = "write"
      <4>1. CASE q = r
            BY <4>1, <3>5, <3>7 DEF Proposing
      <4>2. CASE q # r
            BY <4>2, <3>3, <3>4, <3>7 DEF Evident, Proposing, Active, Answered
      <4> QED BY <4>1, <4>2
    <3> QED BY <3>6, <3>7 DEF Evident
  <2> QED BY <2>1, <2>2, <2>3, <2>4
<1>6. ASSUME NEW r \in Requests, OpenPull(r)
      PROVE  IInv'
  <2> USE <1>6 DEF OpenPull, Goto, Calls, Returns
  <2>1. TypeOK'
    <3>1. remote[use[r].branch] \in Commits /\ use[r] \in Use /\ base[r] \in Branches
          BY DEF TypeOK, Use, Based, Active
    <3>2. pulls' \subseteq Pull
          BY <3>1 DEF TypeOK, Pull, Use
    <3>3. (held \in [Requests -> SUBSET (Commits \cup {0})])'
          BY <3>1 DEF TypeOK
    <3>4. /\ (got \in [Requests -> Branches \cup Commits \cup {None}])'
          /\ (pc \in [Requests -> PC])'
          BY <3>1 DEF TypeOK, PC
    <3>5. \A q \in Requests : (pc[q] \in {"call", "revoke"} => live[q] = {phase[q]})'
          BY DEF TypeOK
    <3> QED BY <3>2, <3>3, <3>4, <3>5 DEF TypeOK, asked
  <2>2. (Tokens /\ Granted)'
        BY DEF TypeOK, Tokens, Granted, Active, Preauthorized, Valid, github, asked
  <2>3. Based'
        BY DEF TypeOK, Based, Granted, Active, github, asked
  <2>4. Evident'
        BY DEF TypeOK, Based, Evident, Active, Pushing, Proposing, Answered, github, asked
  <2> QED BY <2>1, <2>2, <2>3, <2>4
<1>7. ASSUME NEW r \in Requests, CallFails(r)
      PROVE  IInv'
  <2> USE <1>7 DEF CallFails, Goto, Returns
  <2>1. TypeOK'
        BY DEF TypeOK, PC, Phase, github, asked
  <2>2. (Tokens /\ Granted)'
        BY DEF TypeOK, Tokens, Granted, Active, Preauthorized, Valid, github, asked
  <2>3. Based'
        BY DEF TypeOK, Based, Granted, Active, github, asked
  <2>4. Evident'
        BY DEF TypeOK, Based, Evident, Active, Pushing, Proposing, Answered, github, asked
  <2> QED BY <2>1, <2>2, <2>3, <2>4
<1>8. ASSUME NEW r \in Requests, Revoke(r)
      PROVE  IInv'
  <2> USE <1>8 DEF Revoke, Goto, Satisfied, FollowUp, Authorized
  <2>1. TypeOK'
    <3>1. /\ (live \in [Requests -> SUBSET Phase])' /\ (pc \in [Requests -> PC])'
          /\ (phase \in [Requests -> Phase])'
          /\ (got \in [Requests -> Branches \cup Commits \cup {None}])'
          BY DEF TypeOK, PC, Phase, Use
    <3>2. \A q \in Requests : (pc[q] \in {"call", "revoke"} => live[q] = {phase[q]})'
          BY DEF TypeOK, Phase, Use
    <3> QED BY <3>1, <3>2 DEF TypeOK, github, asked
  <2>2. (Tokens /\ Granted)'
        BY DEF TypeOK, Tokens, Granted, Active, Preauthorized, Valid, github, asked
  <2>3. Based'
        BY DEF TypeOK, Based, Granted, Active, github, asked
  <2>4. Evident'
    <3>1. ASSUME NEW q \in Requests, q # r
          PROVE  /\ pc'[q] = pc[q] /\ phase'[q] = phase[q] /\ got'[q] = got[q]
          BY <3>1 DEF TypeOK
    <3>2. /\ got'[r] = None /\ pc'[r] = FollowUp(use[r].operation, phase[r])[1]
          /\ phase'[r] = FollowUp(use[r].operation, phase[r])[2]
          /\ Active(r) /\ Answered(r)
          BY DEF TypeOK, Active, Answered
    <3>3. CASE use[r].operation = "branch.push"
          BY <3>1, <3>2, <3>3 DEF TypeOK, Evident, Active, Pushing, Proposing, Answered, github, asked, Phase
    <3>4. CASE use[r].operation = "pr.create"
          BY <3>1, <3>2, <3>4 DEF TypeOK, Evident, Active, Pushing, Proposing, Answered, github, asked, Phase
    <3> QED BY <3>3, <3>4, <3>2 DEF TypeOK, Active, Use
  <2> QED BY <2>1, <2>2, <2>3, <2>4
<1>9. ASSUME NEW r \in Requests, InspectHead(r)
      PROVE  IInv'
  <2> USE <1>9 DEF InspectHead, Goto
  <2>1. TypeOK'
        BY DEF TypeOK, PC, Phase, github, asked
  <2>2. (Tokens /\ Granted)'
        BY DEF TypeOK, Tokens, Granted, Active, Preauthorized, Valid, github, asked
  <2>3. Based'
        BY DEF TypeOK, Based, Granted, Active, github, asked
  <2>4. Evident'
        BY DEF TypeOK, Based, Evident, Active, Pushing, Proposing, Answered, github, asked
  <2> QED BY <2>1, <2>2, <2>3, <2>4
<1>10. ASSUME NEW r \in Requests, ValidateWorkspace(r)
      PROVE  IInv'
  <2> USE <1>10 DEF ValidateWorkspace, Goto
  <2>1. TypeOK'
        BY DEF TypeOK, PC, Phase, github, asked
  <2>2. (Tokens /\ Granted)'
        BY DEF TypeOK, Tokens, Granted, Active, Preauthorized, Valid, github, asked
  <2>3. Based'
        BY DEF TypeOK, Based, Granted, Active, github, asked
  <2>4. Evident'
        BY DEF TypeOK, Based, Evident, Active, Pushing, Proposing, Answered, github, asked
  <2> QED BY <2>1, <2>2, <2>3, <2>4
<1> QED BY <1>1, <1>2, <1>3, <1>4, <1>5, <1>6, <1>7, <1>8, <1>9, <1>10

LEMMA NextInv == IInv /\ [Next]_vars => IInv'
<1> SUFFICES ASSUME IInv, [Next]_vars PROVE IInv'
    OBVIOUS
<1> USE DEF IInv
<1>1. ASSUME NEW r \in Requests, MintFails(r) \/ InspectFails(r) PROVE IInv'
  <2>1. CASE MintFails(r)
    <3>1. PICK lost \in BOOLEAN :
              /\ live' = [live EXCEPT ![r] = IF lost THEN @ \cup {phase[r]} ELSE @]
              /\ spilled' = [spilled EXCEPT ![r] = lost]
          BY <2>1 DEF MintFails
    <3>2. live' \in [Requests -> SUBSET Phase] /\ spilled' \in [Requests -> BOOLEAN]
          BY <3>1 DEF TypeOK
    <3>3. spilled'[r] \/ live'[r] = {}
          BY <2>1, <3>1 DEF TypeOK, Tokens, MintFails
    <3> QED BY <2>1, <3>1, <3>2, <3>3, ForgetInv DEF MintFails, TypeOK
  <2>2. CASE InspectFails(r)
    <3>1. live'[r] = {}
          BY <2>2 DEF InspectFails, Tokens
    <3> QED BY <2>2, <3>1, ForgetInv DEF InspectFails, TypeOK
  <2> QED BY <1>1, <2>1, <2>2
<1>2. ASSUME NEW r \in Requests, RevokeAndFail(r) PROVE IInv'
  <2>1. live' \in [Requests -> SUBSET Phase] /\ live'[r] = {}
        BY <1>2 DEF TypeOK, RevokeAndFail
  <2> QED BY <1>2, <2>1, ForgetInv DEF RevokeAndFail, TypeOK
<1>3. ASSUME NEW r \in Requests, RevokeFails(r) PROVE IInv'
  <2>1. /\ live' \in [Requests -> SUBSET Phase] /\ spilled' \in [Requests -> BOOLEAN]
        /\ spilled'[r] /\ \A q \in Requests : q # r => live'[q] = live[q]
        BY <1>3 DEF TypeOK, RevokeFails
  <2> QED BY <1>3, <2>1, ForgetInv DEF RevokeFails, TypeOK
<1>4. ASSUME NEW r \in Requests, Answer(r) PROVE IInv'
  <2>1. /\ live' \in [Requests -> SUBSET Phase] /\ spilled' \in [Requests -> BOOLEAN]
        /\ live'[r] = {} /\ ~spilled'[r]
        BY <1>4 DEF TypeOK, Answer
  <2> QED BY <1>4, <2>1, ForgetInv DEF Answer, TypeOK
<1>5. CASE Restart
  <2>1. TypeOK'
        BY <1>5, BoundAssumption DEF TypeOK, Restart, PC, Phase, github
  <2>2. (Tokens /\ Granted /\ Based /\ Evident)'
        BY <1>5 DEF Restart, Tokens, Granted, Based, Evident, Active, Pushing, Proposing, Answered
  <2> QED BY <2>1, <2>2
<1>6. CASE UNCHANGED vars
  <2>1. TypeOK'
        BY <1>6 DEF vars, github, asked, TypeOK
  <2>2. (Tokens /\ Granted /\ Based)'
        BY <1>6 DEF vars, github, asked, Tokens, Granted, Based, Active, Preauthorized, Valid
  <2>3. Evident'
        BY <1>6 DEF vars, github, asked, Evident, Active, Pushing, Proposing, Answered
  <2> QED BY <2>1, <2>2, <2>3
<1> QED BY <1>1, <1>2, <1>3, <1>4, <1>5, <1>6, AroundInv, RequestInv DEF Next

LEMMA Invariance == Spec => []IInv
BY InitInv, NextInv, PTL DEF Spec

-----------------------------------------------------------------------------
\* Requests, grants and tokens keep their shape: a request at a call of GitHub holds
\* the one token minted for it.
THEOREM TypeCorrect == Spec => []TypeOK
<1>1. IInv => TypeOK
      BY DEF IInv
<1> QED BY <1>1, Invariance, PTL

\* However requests succeed or fail, no installation token is left that was minted and
\* not lost, unless its revocation failed.
THEOREM TokensAreRevoked == Spec => []TokensRevoked
<1>1. IInv => TokensRevoked
      BY DEF IInv, Tokens, TokensRevoked
<1> QED BY <1>1, Invariance, PTL

\* Pushes and pull requests are covered by a grant that was in force when the request
\* arrived, whatever the clock, the owner and other requests do meanwhile.
THEOREM WritesAreWithinGrant == Spec => []WritesWithinGrant
<1>1. ASSUME IInv, NEW r \in Requests, Calls(r, "write")
      PROVE  /\ use[r].scope = grant[r].scope /\ use[r].scope \in Registered
             /\ use[r].operation \in grant[r].operations
             /\ use[r].branch = grant[r].branch
             /\ ~grant[r].revoked
             /\ \E t \in since[r]..now : grant[r].issued <= t /\ t < grant[r].expires
             /\ bases[r] # {use[r].branch}
             /\ base[r] \in bases[r]
  <2>1. Active(r) /\ phase[r] = "write" /\ TypeOK /\ Granted /\ Based
        BY <1>1 DEF Calls, Active, IInv
  <2>2. Preauthorized(grant[r], use[r], since[r]) /\ since[r] <= now /\ use[r].scope \in Registered
        BY <2>1 DEF Granted
  <2>3. base[r] \in bases[r] /\ use[r].branch # base[r]
        BY <2>1 DEF Based
  <2>4. since[r] \in since[r]..now
        BY <2>1, <2>2, BoundAssumption DEF TypeOK
  <2> QED BY <2>2, <2>3, <2>4 DEF Preauthorized
<1>2. IInv => WritesWithinGrant
      BY <1>1 DEF WritesWithinGrant
<1> QED BY <1>2, Invariance, PTL

\* A successful answer is evidence: the branch has held the authorized commit since the
\* write, and the pull request is open against a branch that was the default one.
THEOREM SuccessesAreEvidence == Spec => []SuccessIsEvidence
<1>1. ASSUME IInv, NEW r \in Requests, pc[r] = "done"
      PROVE  /\ use[r].head \in held[r]
             /\ use[r].operation = "pr.create" =>
                    /\ [branch |-> use[r].branch, base |-> base[r]] \in pulls
                    /\ base[r] \in bases[r]
  <2>1. Active(r) /\ use[r].operation \in {"branch.push", "pr.create"}
        BY <1>1 DEF IInv, TypeOK, Active, Use
  <2> QED BY <1>1, <2>1 DEF IInv, Evident, Pushing, Proposing, Based
<1>2. IInv => SuccessIsEvidence
      BY <1>1 DEF SuccessIsEvidence
<1> QED BY <1>2, Invariance, PTL
=============================================================================
