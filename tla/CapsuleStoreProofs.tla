------------------------- MODULE CapsuleStoreProofs -------------------------
(***************************************************************************)
(* Proofs about CapsuleStore, for any sets of tasks, identities, bodies    *)
(* and requests and any bound on revisions.                                *)
(*                                                                         *)
(* The argument.  A request decides from rows it read earlier, but rows    *)
(* are never updated or deleted, so what it read stays true: a row it      *)
(* follows is still there when it commits (Decided).  What it did not see  *)
(* is excluded at the commit by the two unique constraints: a successor    *)
(* takes its identity from the row it follows, and a first revision that   *)
(* clashed with anything would clash with a first revision.                *)
(***************************************************************************)
EXTENDS CapsuleStore, TLAPS

\* c may extend the table as far as earlier rows are concerned.
HasPredecessor(c) ==
    \/ c.revision = 1
    \/ \E x \in rows : /\ x.task = c.task
                       /\ x.capsule_id = c.capsule_id
                       /\ x.revision + 1 = c.revision

\* What each request knows at each step is still true of the table.
Decided ==
    \A r \in Requests :
        /\ pc[r] = "select_recorded" =>
               \A x \in latest[r] : x \in rows /\ x.task = capsule[r].task
        /\ pc[r] = "commit" => HasPredecessor(capsule[r])
        /\ pc[r] = "ok" => capsule[r] \in rows
        /\ replay[r] => /\ capsule[r] \in rows
                        /\ pc[r] \notin {"commit", "select_winner", "conflict"}

IInv ==
    /\ TypeOK
    /\ HistoryContiguous
    /\ IdentityStable
    /\ OneEventPerRevision
    /\ AckedRecorded
    /\ Decided

-----------------------------------------------------------------------------
\* A capsule that passes the unique constraints and has its predecessor in the
\* table is either the first of a new task and identity or the next of its own.
LEMMA Appendable ==
    ASSUME TypeOK, HistoryContiguous, IdentityStable,
           NEW c \in Capsule, ~ViolatesConstraint(c), HasPredecessor(c)
    PROVE  Log!Opens(c) \/ Log!Continues(c)
<1>1. CASE c.revision = 1
  <2>1. SUFFICES ASSUME NEW x \in rows
                 PROVE  x.task # c.task /\ x.capsule_id # c.capsule_id
        BY <1>1 DEF Log!Opens
  <2>2. x \in Capsule /\ x.revision \in 1..MaxRevision
        BY DEF TypeOK, Capsule, Revisions
  <2>3. PICK z \in rows : z.task = x.task /\ z.revision = 1
        BY <2>2, BoundAssumption DEF HistoryContiguous
  <2>4. z.capsule_id = x.capsule_id
        BY <2>3 DEF IdentityStable
  <2> QED BY <1>1, <2>3, <2>4 DEF ViolatesConstraint
<1>2. CASE c.revision # 1
  <2>1. \A x \in rows : x.task = c.task => x.revision # c.revision
        BY DEF ViolatesConstraint
  <2> QED BY <1>2, <2>1 DEF HasPredecessor, Log!Continues
<1> QED BY <1>1, <1>2

\* Appending such a capsule keeps every history contiguous.
LEMMA AppendKeepsHistory ==
    ASSUME TypeOK, HistoryContiguous,
           NEW c \in Capsule, Log!Opens(c) \/ Log!Continues(c),
           rows' = rows \cup {c}
    PROVE  HistoryContiguous'
<1> USE BoundAssumption DEF Capsule, Revisions
<1>1. \A x \in rows : x.task = c.task => x.revision # c.revision
      BY DEF Log!Opens, Log!Continues
<1>2. ASSUME NEW x \in rows', NEW k \in 1..x.revision
      PROVE  \E y \in rows' : y.task = x.task /\ y.revision = k
  <2>1. CASE x \in rows
        BY <2>1 DEF HistoryContiguous
  <2>2. CASE x = c /\ k = c.revision
        BY <2>2
  <2>3. CASE x = c /\ k # c.revision
    <3>1. PICK p \in rows : p.task = c.task /\ p.revision + 1 = c.revision
          BY <1>2, <2>3 DEF Log!Opens, Log!Continues
    <3>2. p.revision \in Nat /\ k \in 1..p.revision
          BY <1>2, <2>3, <3>1 DEF TypeOK
    <3> QED BY <2>3, <3>1, <3>2 DEF HistoryContiguous
  <2> QED BY <2>1, <2>2, <2>3
<1>3. ASSUME NEW x \in rows', NEW y \in rows', y.task = x.task, y.revision = x.revision
      PROVE  y = x
      BY <1>1, <1>3 DEF HistoryContiguous
<1> QED BY <1>2, <1>3 DEF HistoryContiguous

\* It also keeps tasks and identities in one-to-one correspondence.
LEMMA AppendKeepsIdentity ==
    ASSUME IdentityStable,
           NEW c \in Capsule, Log!Opens(c) \/ Log!Continues(c),
           rows' = rows \cup {c}
    PROVE  IdentityStable'
<1>1. ASSUME NEW x \in rows
      PROVE  x.task = c.task <=> x.capsule_id = c.capsule_id
  <2>1. CASE Log!Opens(c)
        BY <2>1 DEF Log!Opens
  <2>2. CASE Log!Continues(c)
        BY <2>2 DEF Log!Continues, IdentityStable
  <2> QED BY <2>1, <2>2
<1> QED BY <1>1 DEF IdentityStable

-----------------------------------------------------------------------------
LEMMA InitInv == Init => IInv
<1> SUFFICES ASSUME Init PROVE IInv
    OBVIOUS
<1> USE DEF Init
<1>1. TypeOK
      BY DEF TypeOK, PC
<1>2. HistoryContiguous /\ IdentityStable /\ AckedRecorded
      BY DEF HistoryContiguous, IdentityStable, AckedRecorded
<1>3. OneEventPerRevision
  <2>1. \A k \in Tasks \X Revisions : checkpointed[k] = 0
        OBVIOUS
  <2> QED BY <2>1 DEF OneEventPerRevision, RecordedRevision
<1>4. Decided
      BY DEF Decided
<1> QED BY <1>1, <1>2, <1>3, <1>4 DEF IInv

\* A committing request appends its capsule to the log.
LEMMA CommitAppends ==
    ASSUME IInv, NEW r \in Requests, Commit(r)
    PROVE  capsule[r] \in Capsule /\ Log!Append(capsule[r])
<1>1. capsule[r] \in Capsule
      BY DEF IInv, TypeOK, Commit
<1>2. Log!Opens(capsule[r]) \/ Log!Continues(capsule[r])
      BY <1>1, Appendable DEF IInv, Decided, Commit
<1> QED BY <1>1, <1>2 DEF Commit, Log!Append

\* Every step keeps the inductive invariant.
LEMMA NextInv == IInv /\ [Next]_vars => IInv'
<1> SUFFICES ASSUME IInv, [Next]_vars PROVE IInv'
    OBVIOUS
<1> USE DEF IInv, Goto
<1>1. ASSUME NEW r \in Requests, NEW c \in Capsule, Receive(r, c)
      PROVE  IInv'
  <2>1. TypeOK'
        BY <1>1 DEF Receive, TypeOK, PC
  <2>2. Decided'
        BY <1>1 DEF Receive, TypeOK, Decided, HasPredecessor
  <2> QED BY <1>1, <2>1, <2>2 DEF Receive, HistoryContiguous, IdentityStable,
             OneEventPerRevision, RecordedRevision, AckedRecorded
<1>2. ASSUME NEW r \in Requests, SelectLatest(r)
      PROVE  IInv'
  <2>1. LatestRow(capsule[r].task) \subseteq rows
        BY DEF LatestRow
  <2>2. TypeOK'
        BY <1>2, <2>1 DEF SelectLatest, TypeOK, PC
  <2>3. Decided'
        BY <1>2 DEF SelectLatest, TypeOK, Decided, HasPredecessor, LatestRow
  <2> QED BY <1>2, <2>2, <2>3 DEF SelectLatest, HistoryContiguous, IdentityStable,
             OneEventPerRevision, RecordedRevision, AckedRecorded
<1>3. ASSUME NEW r \in Requests, SelectRecorded(r)
      PROVE  IInv'
  <2> DEFINE c == capsule[r]
             recorded == RecordedRevision(c.task, c.revision)
             next == AfterRecorded(c, recorded, latest[r])
  <2>1. next \in {"ok", "conflict", "commit"}
        BY DEF AfterRecorded
  <2>2. TypeOK'
        BY <1>3, <2>1 DEF SelectRecorded, TypeOK, PC
  <2>3. next = "ok" => c \in rows
        BY DEF AfterRecorded, RecordedRevision
  <2>4. next = "commit" => HasPredecessor(c)
        BY <1>3 DEF SelectRecorded, AfterRecorded, Follows, HasPredecessor, Decided
  <2>5. c \in rows => next = "ok"
        BY DEF AfterRecorded, RecordedRevision
  <2>6. pc' = [pc EXCEPT ![r] = next]
        BY <1>3 DEF SelectRecorded
  <2>7. Decided'
    <3>1. SUFFICES ASSUME NEW q \in Requests
          PROVE  /\ pc'[q] = "select_recorded" =>
                        \A x \in latest[q] : x \in rows /\ x.task = capsule[q].task
                 /\ pc'[q] = "commit" => HasPredecessor(capsule[q])
                 /\ pc'[q] = "ok" => capsule[q] \in rows
                 /\ replay[q] => /\ capsule[q] \in rows
                                 /\ pc'[q] \notin {"commit", "select_winner", "conflict"}
          BY <1>3 DEF SelectRecorded, Decided, HasPredecessor
    <3>2. CASE q = r
      <4> HIDE DEF next
      <4> QED BY <2>1, <2>3, <2>4, <2>5, <2>6, <3>2 DEF Decided, TypeOK
    <3>3. CASE q # r
      <4> HIDE DEF next
      <4> QED BY <2>6, <3>3 DEF Decided, TypeOK
    <3> QED BY <3>2, <3>3
  <2> QED BY <1>3, <2>2, <2>7 DEF SelectRecorded, HistoryContiguous, IdentityStable,
             OneEventPerRevision, RecordedRevision, AckedRecorded
<1>4. ASSUME NEW r \in Requests, Commit(r)
      PROVE  IInv'
  <2> DEFINE c == capsule[r]
  <2>1. /\ c \in Capsule
        /\ Log!Opens(c) \/ Log!Continues(c)
        /\ rows' = rows \cup {c}
        BY <1>4, CommitAppends DEF Log!Append
  <2>2. TypeOK'
        BY <1>4, <2>1 DEF Commit, TypeOK, PC, Capsule
  <2>3. HistoryContiguous' /\ IdentityStable'
        BY <2>1, AppendKeepsHistory, AppendKeepsIdentity
  <2>4. OneEventPerRevision'
    <3>1. SUFFICES ASSUME NEW t \in Tasks, NEW n \in Revisions
          PROVE  checkpointed'[<<t, n>>] = IF RecordedRevision(t, n)' = {} THEN 0 ELSE 1
          BY DEF OneEventPerRevision
    <3>2. /\ <<c.task, c.revision>> \in Tasks \X Revisions
          /\ checkpointed' = [checkpointed EXCEPT ![<<c.task, c.revision>>] = @ + 1]
          /\ checkpointed \in [Tasks \X Revisions -> Nat]
          BY <1>4, <2>1 DEF Commit, TypeOK, Capsule
    <3>3. checkpointed[<<t, n>>] = IF RecordedRevision(t, n) = {} THEN 0 ELSE 1
          BY DEF OneEventPerRevision
    <3>4. CASE t = c.task /\ n = c.revision
      <4>1. RecordedRevision(t, n) = {} /\ RecordedRevision(t, n)' # {}
            BY <1>4, <2>1, <3>4 DEF Commit, ViolatesConstraint, RecordedRevision
      <4> QED BY <3>2, <3>3, <3>4, <4>1
    <3>5. CASE ~(t = c.task /\ n = c.revision)
      <4>1. RecordedRevision(t, n)' = RecordedRevision(t, n)
            BY <2>1, <3>5 DEF RecordedRevision
      <4>2. checkpointed'[<<t, n>>] = checkpointed[<<t, n>>]
            BY <3>2, <3>5
      <4> QED BY <3>3, <4>1, <4>2
    <3> QED BY <3>4, <3>5
  <2>5. AckedRecorded'
        BY <1>4, <2>1 DEF Commit, AckedRecorded
  <2>6. Decided'
        BY <1>4, <2>1 DEF Commit, Decided, HasPredecessor, TypeOK
  <2> QED BY <2>2, <2>3, <2>4, <2>5, <2>6
<1>5. ASSUME NEW r \in Requests, CommitFails(r)
      PROVE  IInv'
  <2>1. TypeOK'
        BY <1>5 DEF CommitFails, TypeOK, PC
  <2>2. Decided'
        BY <1>5 DEF CommitFails, TypeOK, Decided, HasPredecessor
  <2> QED BY <1>5, <2>1, <2>2 DEF CommitFails, HistoryContiguous, IdentityStable,
             OneEventPerRevision, RecordedRevision, AckedRecorded
<1>6. ASSUME NEW r \in Requests, SelectWinner(r)
      PROVE  IInv'
  <2>1. TypeOK'
        BY <1>6 DEF SelectWinner, AfterWinner, TypeOK, PC
  <2>2. Decided'
        BY <1>6 DEF SelectWinner, AfterWinner, RecordedRevision, TypeOK, Decided,
             HasPredecessor
  <2> QED BY <1>6, <2>1, <2>2 DEF SelectWinner, HistoryContiguous, IdentityStable,
             OneEventPerRevision, RecordedRevision, AckedRecorded
<1>7. ASSUME NEW r \in Requests, AnswerOk(r) \/ AnswerConflict(r)
      PROVE  IInv'
  <2>1. TypeOK'
        BY <1>7 DEF AnswerOk, AnswerConflict, Clear, TypeOK, PC
  <2>2. Decided'
        BY <1>7 DEF AnswerOk, AnswerConflict, Clear, TypeOK, Decided, HasPredecessor
  <2>3. AckedRecorded'
        BY <1>7 DEF AnswerOk, AnswerConflict, Clear, AckedRecorded, Decided
  <2> QED BY <1>7, <2>1, <2>2, <2>3 DEF AnswerOk, AnswerConflict, Clear,
             HistoryContiguous, IdentityStable, OneEventPerRevision, RecordedRevision
<1>8. CASE Restart
  <2>1. TypeOK'
        BY <1>8 DEF Restart, TypeOK, PC
  <2>2. Decided'
        BY <1>8 DEF Restart, Decided
  <2> QED BY <1>8, <2>1, <2>2 DEF Restart, HistoryContiguous, IdentityStable,
             OneEventPerRevision, RecordedRevision, AckedRecorded
<1>9. CASE UNCHANGED vars
      BY <1>9 DEF vars, TypeOK, HistoryContiguous, IdentityStable, OneEventPerRevision,
             RecordedRevision, AckedRecorded, Decided, HasPredecessor
<1> QED BY <1>1, <1>2, <1>3, <1>4, <1>5, <1>6, <1>7, <1>8, <1>9 DEF Next

LEMMA Invariance == Spec => []IInv
BY InitInv, NextInv, PTL DEF Spec

-----------------------------------------------------------------------------
(***************************************************************************)
(* Type correctness of the store and its request slots.                    *)
(***************************************************************************)
THEOREM TypeCorrect == Spec => []TypeOK
BY Invariance, PTL DEF IInv

(***************************************************************************)
(* However save_capsule's two SELECTs interleave with the commits of other *)
(* requests, a task's history has no hole and no revision recorded twice.  *)
(***************************************************************************)
THEOREM HistoryIsContiguous == Spec => []HistoryContiguous
BY Invariance, PTL DEF IInv

(***************************************************************************)
(* Racing first checkpoints cannot give one task two identities, nor two   *)
(* tasks one identity.                                                     *)
(***************************************************************************)
THEOREM IdentityIsStable == Spec => []IdentityStable
BY Invariance, PTL DEF IInv

(***************************************************************************)
(* A checkpoint answered with HTTP 200 is recorded exactly as posted, the  *)
(* loser of a race included.                                               *)
(***************************************************************************)
THEOREM AckedIsRecorded == Spec => []AckedRecorded
BY Invariance, PTL DEF IInv

(***************************************************************************)
(* Each recorded revision has exactly one capsule.checkpointed event.      *)
(***************************************************************************)
THEOREM EventsMatchRevisions == Spec => []OneEventPerRevision
BY Invariance, PTL DEF IInv

(***************************************************************************)
(* The retry of a recorded checkpoint is never refused with HTTP 409.      *)
(***************************************************************************)
THEOREM RetriesAreIdempotent == Spec => []ReplayNeverConflicts
<1>1. IInv => ReplayNeverConflicts
      BY DEF IInv, Decided, ReplayNeverConflicts
<1> QED BY <1>1, Invariance, PTL

(***************************************************************************)
(* The store implements the abstract capsule log: commits append, HTTP 200 *)
(* acknowledges a recorded capsule, and every other step is invisible.     *)
(***************************************************************************)
THEOREM StoreImplementsLog == Spec => ImplementsLog
<1>1. Init => Log!Init
      BY DEF Init, Log!Init
<1>2. ASSUME IInv, [Next]_vars
      PROVE  [Log!Next]_(Log!vars)
  <2>1. ASSUME NEW r \in Requests, Commit(r)
        PROVE  Log!Next
        BY <1>2, <2>1, CommitAppends DEF Log!Next
  <2>2. ASSUME NEW r \in Requests, AnswerOk(r)
        PROVE  Log!Next
        BY <1>2, <2>2 DEF IInv, TypeOK, Decided, AnswerOk, Log!Next, Log!Ack
  <2>3. ASSUME NEW r \in Requests,
               \/ \E c \in Capsule : Receive(r, c)
               \/ SelectLatest(r) \/ SelectRecorded(r) \/ CommitFails(r)
               \/ SelectWinner(r) \/ AnswerConflict(r)
        PROVE  UNCHANGED Log!vars
        BY <2>3 DEF Receive, SelectLatest, SelectRecorded, CommitFails, SelectWinner,
             AnswerConflict, Log!vars
  <2>4. CASE Restart \/ UNCHANGED vars
        BY <2>4 DEF Restart, vars, Log!vars
  <2> QED BY <1>2, <2>1, <2>2, <2>3, <2>4 DEF Next
<1> QED BY <1>1, <1>2, Invariance, PTL DEF Spec, ImplementsLog, Log!Spec
=============================================================================
