---------------------------- MODULE CapsuleStore ----------------------------
(***************************************************************************)
(* Task Capsule checkpoints: POST /v1/capsules and                         *)
(* AssuranceRepository.save_capsule, with several requests in flight.      *)
(*                                                                         *)
(* A request is one asyncio task.  It yields at every await, so the steps  *)
(* below are the stretches between awaits: the two SELECTs, the commit     *)
(* (the flush runs there, so the unique constraints are tested there), and *)
(* the SELECT of the winner after an IntegrityError.  PostgreSQL runs the  *)
(* transaction at READ COMMITTED: each SELECT sees what is committed when  *)
(* it runs.                                                                *)
(*                                                                         *)
(*   rows          the task_capsules table                                 *)
(*   checkpointed  how many capsule.checkpointed events name each          *)
(*                 (task, revision)                                        *)
(*   acked         capsules a client has been told are recorded            *)
(*   pc, capsule, latest   per request: next step, the posted capsule, and *)
(*                 the row (a set of at most one) read by _latest_row      *)
(*   replay        per request, history: the capsule was already recorded, *)
(*                 unchanged, when the request arrived                     *)
(***************************************************************************)
EXTENDS Integers, FiniteSets

CONSTANTS Tasks,       \* task ids
          CapsuleIds,  \* capsule ids
          Bodies,      \* everything else a capsule holds
          Requests,    \* request slots of the controller
          MaxRevision, \* bound on the revisions clients post
          None         \* no capsule: an idle slot

Revisions == 1..MaxRevision

Capsule == [task : Tasks, capsule_id : CapsuleIds, revision : Revisions, body : Bodies]

ASSUME BoundAssumption == MaxRevision \in Nat
ASSUME NoneAssumption == None \notin Capsule

VARIABLES rows, checkpointed, acked, pc, capsule, latest, replay

vars == <<rows, checkpointed, acked, pc, capsule, latest, replay>>

PC == {"idle", "select_latest", "select_recorded", "commit", "select_winner", "ok", "conflict"}

Init ==
    /\ rows = {}
    /\ checkpointed = [k \in Tasks \X Revisions |-> 0]
    /\ acked = {}
    /\ pc = [r \in Requests |-> "idle"]
    /\ capsule = [r \in Requests |-> None]
    /\ latest = [r \in Requests |-> {}]
    /\ replay = [r \in Requests |-> FALSE]

-----------------------------------------------------------------------------
\* SELECT ... ORDER BY revision DESC LIMIT 1: a set of at most one row.
LatestRow(t) ==
    {x \in rows : x.task = t /\ \A y \in rows : y.task = t => y.revision <= x.revision}

\* SELECT ... WHERE task_id = t AND revision = n.
RecordedRevision(t, n) == {x \in rows : x.task = t /\ x.revision = n}

\* Mutant: the table lacks UNIQUE (task_id, revision).
ViolatesPrimaryKeyOnly(c) ==
    \E x \in rows : x.revision = c.revision /\ x.capsule_id = c.capsule_id

\* UNIQUE (task_id, revision) and PRIMARY KEY (capsule_id, revision).
ViolatesConstraint(c) ==
    \E x \in rows : /\ x.revision = c.revision
                    /\ x.task = c.task \/ x.capsule_id = c.capsule_id

\* Mutant: the first revision of a task need not be 1.
FollowsFromAnywhere(c, seen) ==
    \A x \in seen : c.revision = x.revision + 1 /\ c.capsule_id = x.capsule_id

\* Mutant: the identity of the latest row is not compared.
FollowsAnyIdentity(c, seen) ==
    IF seen = {} THEN c.revision = 1
    ELSE \E x \in seen : c.revision = x.revision + 1

\* No revision is recorded yet and c is the first, or c follows the latest row
\* that was read, under its identity.
Follows(c, seen) ==
    IF seen = {} THEN c.revision = 1
    ELSE \E x \in seen : c.revision = x.revision + 1 /\ c.capsule_id = x.capsule_id

-----------------------------------------------------------------------------
Goto(r, step) == pc' = [pc EXCEPT ![r] = step]

\* Mutant: the slot starts without the posted capsule.
ReceiveForgets(r, c) ==
    /\ pc[r] = "idle"
    /\ Goto(r, "select_latest")
    /\ replay' = [replay EXCEPT ![r] = c \in rows]
    /\ UNCHANGED <<rows, checkpointed, acked, capsule, latest>>

Receive(r, c) ==
    /\ pc[r] = "idle"
    /\ Goto(r, "select_latest")
    /\ capsule' = [capsule EXCEPT ![r] = c]
    /\ replay' = [replay EXCEPT ![r] = c \in rows]
    /\ UNCHANGED <<rows, checkpointed, acked, latest>>

SelectLatest(r) ==
    /\ pc[r] = "select_latest"
    /\ latest' = [latest EXCEPT ![r] = LatestRow(capsule[r].task)]
    /\ Goto(r, "select_recorded")
    /\ UNCHANGED <<rows, checkpointed, acked, capsule, replay>>

\* Mutant: a recorded revision is always a conflict, the same capsule or not.
AfterRecordedStrict(c, recorded, seen) ==
    IF recorded = {} /\ Follows(c, seen) THEN "commit" ELSE "conflict"

\* The second SELECT and the checks on what both returned; no await follows
\* before the commit.
AfterRecorded(c, recorded, seen) ==
    IF recorded # {} THEN IF c \in recorded THEN "ok" ELSE "conflict"
    ELSE IF Follows(c, seen) THEN "commit" ELSE "conflict"

SelectRecorded(r) ==
    /\ pc[r] = "select_recorded"
    /\ Goto(r, AfterRecorded(capsule[r],
                             RecordedRevision(capsule[r].task, capsule[r].revision),
                             latest[r]))
    /\ UNCHANGED <<rows, checkpointed, acked, capsule, latest, replay>>

\* The row and its capsule.checkpointed event are inserted by one transaction.
Commit(r) ==
    /\ pc[r] = "commit"
    /\ ~ViolatesConstraint(capsule[r])
    /\ rows' = rows \cup {capsule[r]}
    /\ checkpointed' = [checkpointed EXCEPT ![<<capsule[r].task, capsule[r].revision>>] = @ + 1]
    /\ Goto(r, "ok")
    /\ UNCHANGED <<acked, capsule, latest, replay>>

\* IntegrityError: the transaction is rolled back.
CommitFails(r) ==
    /\ pc[r] = "commit"
    /\ ViolatesConstraint(capsule[r])
    /\ Goto(r, "select_winner")
    /\ UNCHANGED <<rows, checkpointed, acked, capsule, latest, replay>>

\* Mutant: whoever won the race, the loser is told its capsule is recorded.
AfterWinnerAny(c, winner) == IF winner # {} THEN "ok" ELSE "conflict"

AfterWinner(c, winner) == IF c \in winner THEN "ok" ELSE "conflict"

SelectWinner(r) ==
    /\ pc[r] = "select_winner"
    /\ Goto(r, AfterWinner(capsule[r],
                           RecordedRevision(capsule[r].task, capsule[r].revision)))
    /\ UNCHANGED <<rows, checkpointed, acked, capsule, latest, replay>>

Clear(r) ==
    /\ capsule' = [capsule EXCEPT ![r] = None]
    /\ latest' = [latest EXCEPT ![r] = {}]
    /\ replay' = [replay EXCEPT ![r] = FALSE]

\* HTTP 200: the client knows its capsule is recorded.
AnswerOk(r) ==
    /\ pc[r] = "ok"
    /\ acked' = acked \cup {capsule[r]}
    /\ Goto(r, "idle")
    /\ Clear(r)
    /\ UNCHANGED <<rows, checkpointed>>

\* HTTP 409.
AnswerConflict(r) ==
    /\ pc[r] = "conflict"
    /\ Goto(r, "idle")
    /\ Clear(r)
    /\ UNCHANGED <<rows, checkpointed, acked>>

\* The controller stops or loses its database connection: requests in flight are
\* never answered and their open transactions are rolled back.  A client that
\* retries posts the same capsule again (Receive).
Restart ==
    /\ \E r \in Requests : pc[r] # "idle"
    /\ pc' = [r \in Requests |-> "idle"]
    /\ capsule' = [r \in Requests |-> None]
    /\ latest' = [r \in Requests |-> {}]
    /\ replay' = [r \in Requests |-> FALSE]
    /\ UNCHANGED <<rows, checkpointed, acked>>

Next ==
    \/ \E r \in Requests :
          \/ \E c \in Capsule : Receive(r, c)
          \/ SelectLatest(r)
          \/ SelectRecorded(r)
          \/ Commit(r)
          \/ CommitFails(r)
          \/ SelectWinner(r)
          \/ AnswerOk(r)
          \/ AnswerConflict(r)
    \/ Restart

Spec == Init /\ [][Next]_vars
-----------------------------------------------------------------------------
TypeOK ==
    /\ rows \in SUBSET Capsule
    /\ checkpointed \in [Tasks \X Revisions -> Nat]
    /\ acked \in SUBSET Capsule
    /\ pc \in [Requests -> PC]
    /\ capsule \in [Requests -> Capsule \cup {None}]
    /\ latest \in [Requests -> SUBSET Capsule]
    /\ replay \in [Requests -> BOOLEAN]
    /\ \A r \in Requests : pc[r] # "idle" => capsule[r] \in Capsule

(***************************************************************************)
(* A task's recorded revisions are 1..n, each recorded once, although      *)
(* every request decides its revision from a row it read earlier.          *)
(***************************************************************************)
HistoryContiguous ==
    \A x \in rows :
        /\ \A k \in 1..x.revision : \E y \in rows : y.task = x.task /\ y.revision = k
        /\ \A y \in rows : y.task = x.task /\ y.revision = x.revision => y = x

(***************************************************************************)
(* A task keeps one capsule identity for its whole life and no two tasks   *)
(* share one, even when first checkpoints race.                            *)
(***************************************************************************)
IdentityStable ==
    \A x, y \in rows : x.task = y.task <=> x.capsule_id = y.capsule_id

(***************************************************************************)
(* A checkpoint answered with success is recorded exactly as it was        *)
(* posted: losing a race is answered with success only to the same         *)
(* capsule, and no later request changes the row.                          *)
(***************************************************************************)
AckedRecorded == acked \subseteq rows

(***************************************************************************)
(* Every recorded revision has exactly one capsule.checkpointed event, and *)
(* an event names a recorded revision: retries, races and restarts neither *)
(* lose nor double the event.                                              *)
(***************************************************************************)
OneEventPerRevision ==
    \A t \in Tasks, n \in Revisions :
        checkpointed[<<t, n>>] = IF RecordedRevision(t, n) = {} THEN 0 ELSE 1

(***************************************************************************)
(* Retrying a checkpoint that is already recorded, even one of an older    *)
(* revision and while other requests commit, is never answered with a      *)
(* conflict.                                                               *)
(***************************************************************************)
ReplayNeverConflicts == \A r \in Requests : replay[r] => pc[r] # "conflict"

-----------------------------------------------------------------------------
(***************************************************************************)
(* The table is a capsule log: every step of the store is an append of the *)
(* next revision, an acknowledgement of a recorded capsule, or invisible   *)
(* to clients.                                                             *)
(***************************************************************************)
Log == INSTANCE CapsuleLog WITH log <- rows

ImplementsLog == Log!Spec
=============================================================================
