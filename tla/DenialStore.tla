------------------------------ MODULE DenialStore ------------------------------
(***************************************************************************)
(* Policy denials and successful safe alternatives of one (project, task,  *)
(* signature): POST /v1/governance/denials, POST .../safe-alternative and  *)
(* GovernanceDenialStore, with requests in flight side by side.  Rows of   *)
(* different scopes never meet.                                            *)
(*                                                                         *)
(* A request runs one transaction: SELECT ... FOR UPDATE, then a commit    *)
(* that inserts or updates the row.  The SELECT locks the row if there is  *)
(* one and cannot lock a row that does not exist yet, so two first denials *)
(* race to insert it; the unique constraint refuses the second, which is   *)
(* tried once more.  A second transaction appends the event.               *)
(*                                                                         *)
(*   row       the governance_denial_states row                            *)
(*   lock      the request whose transaction holds the row lock            *)
(*   audited   outcomes that have a governance.policy_denied event         *)
(*   answered  outcomes answered with success                              *)
(*   decided   history: the outcome of every committed denial              *)
(*   pc, op, seen, attempt, outcome   per request                          *)
(***************************************************************************)
EXTENDS Integers, FiniteSets

CONSTANTS ConsecutiveLimit,  \* DenialPolicy.consecutive_before_escalate
          TotalLimit,        \* DenialPolicy.total_before_escalate
          Requests,          \* request slots of the controller
          MaxTotal,          \* bound on the denials counted
          None               \* no row, no request, no outcome

ASSUME LimitAssumption == ConsecutiveLimit \in Nat \ {0} /\ TotalLimit \in Nat \ {0}
ASSUME BoundAssumption == MaxTotal \in Nat

Row == [consecutive : Nat, total : Nat]

Outcome == [consecutive : Nat, total : Nat, escalate : BOOLEAN]

Op == [kind : {"denial"}, material : BOOLEAN]
         \cup [kind : {"safe"}]

ASSUME NoneAssumption == None \notin Row \cup Outcome \cup Op \cup Requests

PC == {"idle", "select", "commit", "event", "answer"}

VARIABLES row, lock, audited, answered, decided, pc, op, seen, attempt, outcome

local == <<pc, op, seen, attempt, outcome>>
vars == <<row, lock, audited, answered, decided, local>>

Init ==
    /\ row = None
    /\ lock = None
    /\ audited = {}
    /\ answered = {}
    /\ decided = {}
    /\ pc = [r \in Requests |-> "idle"]
    /\ op = [r \in Requests |-> None]
    /\ seen = [r \in Requests |-> None]
    /\ attempt = [r \in Requests |-> 1]
    /\ outcome = [r \in Requests |-> None]

-----------------------------------------------------------------------------
\* _state: the counters a row stands for.
State(x) == IF x = None THEN [consecutive |-> 0, total |-> 0] ELSE x

\* Mutant: the total threshold is only looked at for material denials.
PolicyDenialIgnoresTotal(state, material) ==
    [consecutive |-> state.consecutive + 1,
     total |-> state.total + 1,
     escalate |-> material \/ state.consecutive + 1 >= ConsecutiveLimit]

\* record_policy_denial: both counters advance, and the owner is interrupted
\* when the denial is material or either threshold is reached.
PolicyDenial(state, material) ==
    [consecutive |-> state.consecutive + 1,
     total |-> state.total + 1,
     escalate |-> \/ material
                  \/ state.consecutive + 1 >= ConsecutiveLimit
                  \/ state.total + 1 >= TotalLimit]

Counters(o) == [consecutive |-> o.consecutive, total |-> o.total]

-----------------------------------------------------------------------------
Goto(r, step) == pc' = [pc EXCEPT ![r] = step]

\* The slot is free again.
Release(r) ==
    /\ Goto(r, "idle")
    /\ op' = [op EXCEPT ![r] = None]
    /\ seen' = [seen EXCEPT ![r] = None]
    /\ attempt' = [attempt EXCEPT ![r] = 1]
    /\ outcome' = [outcome EXCEPT ![r] = None]

\* Denials counted or on their way to be.
Pending == {r \in Requests : pc[r] \in {"select", "commit"} /\ op[r].kind = "denial"}

\* A denial carries no key: one that is reported again is another denial.
Receive(r, o) ==
    /\ pc[r] = "idle"
    /\ o.kind = "denial" => State(row).total + Cardinality(Pending) < MaxTotal
    /\ Goto(r, "select")
    /\ op' = [op EXCEPT ![r] = o]
    /\ UNCHANGED <<row, lock, audited, answered, decided, seen, attempt, outcome>>

\* Mutant: the SELECT takes no lock.
SelectUnlocked(r) ==
    /\ pc[r] = "select"
    /\ seen' = [seen EXCEPT ![r] = row]
    /\ Goto(r, "commit")
    /\ UNCHANGED <<row, lock, audited, answered, decided, op, attempt, outcome>>

\* SELECT ... FOR UPDATE waits for the lock of an existing row.
SelectForUpdate(r) ==
    /\ pc[r] = "select"
    /\ lock = None
    /\ lock' = IF row = None THEN None ELSE r
    /\ seen' = [seen EXCEPT ![r] = row]
    /\ Goto(r, "commit")
    /\ UNCHANGED <<row, audited, answered, decided, op, attempt, outcome>>

\* The end of r's transaction.
Unlock(r) == lock' = IF lock = r THEN None ELSE lock

\* The insert or update of a denial.
CommitDenial(r) ==
    /\ pc[r] = "commit"
    /\ op[r].kind = "denial"
    /\ seen[r] = None => row = None
    /\ LET o == PolicyDenial(State(seen[r]), op[r].material)
       IN  /\ row' = Counters(o)
           /\ decided' = decided \cup {o}
           /\ outcome' = [outcome EXCEPT ![r] = o]
    /\ Unlock(r)
    /\ Goto(r, "event")
    /\ UNCHANGED <<audited, answered, op, seen, attempt>>

\* The insert meets a row committed since the SELECT: IntegrityError.  The first
\* time the transaction starts over, the second time the caller gets HTTP 500.
CommitFails(r) ==
    /\ pc[r] = "commit"
    /\ op[r].kind = "denial"
    /\ seen[r] = None
    /\ row # None
    /\ IF attempt[r] = 1
       THEN /\ attempt' = [attempt EXCEPT ![r] = 2]
            /\ Goto(r, "select")
            /\ UNCHANGED <<op, seen, outcome>>
       ELSE Release(r)
    /\ UNCHANGED <<row, lock, audited, answered, decided>>

\* Mutant: the total is reset in place of the streak.
CommitSafeResetsTotal(r) ==
    /\ pc[r] = "commit"
    /\ op[r].kind = "safe"
    /\ row' = IF seen[r] = None THEN row ELSE [seen[r] EXCEPT !.total = 0]
    /\ Unlock(r)
    /\ Goto(r, "event")
    /\ UNCHANGED <<audited, answered, decided, op, seen, attempt, outcome>>

\* Mutant: the transaction of a safe alternative stays open.
CommitSafeKeepsLock(r) ==
    /\ pc[r] = "commit"
    /\ op[r].kind = "safe"
    /\ row' = IF seen[r] = None THEN row ELSE [seen[r] EXCEPT !.consecutive = 0]
    /\ Goto(r, "event")
    /\ UNCHANGED <<lock, audited, answered, decided, op, seen, attempt, outcome>>

\* record_safe_alternative_success; with no row there is nothing to write.
CommitSafe(r) ==
    /\ pc[r] = "commit"
    /\ op[r].kind = "safe"
    /\ row' = IF seen[r] = None THEN row ELSE [seen[r] EXCEPT !.consecutive = 0]
    /\ Unlock(r)
    /\ Goto(r, "event")
    /\ UNCHANGED <<audited, answered, decided, op, seen, attempt, outcome>>

AppendEvent(r) ==
    /\ pc[r] = "event"
    /\ audited' = audited \cup ({outcome[r]} \ {None})
    /\ Goto(r, "answer")
    /\ UNCHANGED <<row, lock, answered, decided, op, seen, attempt, outcome>>

Answer(r) ==
    /\ pc[r] = "answer"
    /\ answered' = answered \cup ({outcome[r]} \ {None})
    /\ Release(r)
    /\ UNCHANGED <<row, lock, audited, decided>>

\* The database or the controller fails under a request: its transaction is
\* rolled back, which frees its lock; what it committed stays.
Abort(r) ==
    /\ pc[r] # "idle"
    /\ Unlock(r)
    /\ Release(r)
    /\ UNCHANGED <<row, audited, answered, decided>>

Step(r) ==
    \/ SelectForUpdate(r)
    \/ CommitDenial(r)
    \/ CommitFails(r)
    \/ CommitSafe(r)
    \/ AppendEvent(r)
    \/ Answer(r)

Next ==
    \E r \in Requests :
        \/ \E o \in Op : Receive(r, o)
        \/ Step(r)
        \/ Abort(r)

Spec == Init /\ [][Next]_vars

\* Requests make progress.  PostgreSQL grants a row lock in the order it was
\* asked for, so a waiting SELECT is not overtaken for ever.
Fairness ==
    \A r \in Requests : WF_vars(Step(r)) /\ SF_vars(SelectForUpdate(r))

FairSpec == Spec /\ Fairness
-----------------------------------------------------------------------------
TypeOK ==
    /\ row \in Row \cup {None}
    /\ lock \in Requests \cup {None}
    /\ audited \subseteq Outcome
    /\ answered \subseteq Outcome
    /\ decided \subseteq Outcome
    /\ pc \in [Requests -> PC]
    /\ op \in [Requests -> Op \cup {None}]
    /\ seen \in [Requests -> Row \cup {None}]
    /\ attempt \in [Requests -> 1..2]
    /\ outcome \in [Requests -> Outcome \cup {None}]
    /\ row # None => row.consecutive <= row.total

(***************************************************************************)
(* No denial is lost and none is counted twice by the store, however first *)
(* denials race and requests die: the committed denials carry the totals   *)
(* 1, 2, ..., total, each exactly once ("retry against the now-existing    *)
(* row rather than losing recurrence", governance_store.py).               *)
(***************************************************************************)
RecurrenceKept ==
    /\ \A n \in 1..State(row).total : \E o \in decided : o.total = n
    /\ \A o \in decided : o.total \in 1..State(row).total
    /\ \A o, p \in decided : o.total = p.total => o = p

(***************************************************************************)
(* An outcome is answered with success only when its event is recorded,    *)
(* and an event records a denial that was committed.                       *)
(***************************************************************************)
AnsweredAudited == answered \subseteq audited /\ audited \subseteq decided

(***************************************************************************)
(* The one retry after an IntegrityError is enough: the second attempt     *)
(* finds the row it lost the race to.                                      *)
(***************************************************************************)
RetryFindsRow ==
    \A r \in Requests : attempt[r] = 2 /\ pc[r] = "commit" => seen[r] # None

(***************************************************************************)
(* Every request is answered or fails; none waits for the row lock for     *)
(* ever.                                                                   *)
(***************************************************************************)
EveryRequestEnds == \A r \in Requests : pc[r] # "idle" ~> pc[r] = "idle"

-----------------------------------------------------------------------------
(***************************************************************************)
(* The locked read-modify-write is atomic: the store behaves like a ledger *)
(* that handles one denial or safe alternative at a time and escalates by  *)
(* the policy's thresholds.                                                *)
(***************************************************************************)
Ledger == INSTANCE DenialLedger
    WITH consecutive <- State(row).consecutive, total <- State(row).total

ImplementsLedger == Ledger!Spec
=============================================================================
