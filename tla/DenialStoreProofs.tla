--------------------------- MODULE DenialStoreProofs ---------------------------
(***************************************************************************)
(* Proofs about DenialStore, for any thresholds and any number of          *)
(* concurrent requests.                                                    *)
(*                                                                         *)
(* The argument.  A request that read the row holds its lock until it      *)
(* commits, so the row it read is the row it updates (Locked).  A request  *)
(* that read no row inserts one only if there still is none.  Either way   *)
(* the commit applies the policy to the current counters, which is a step  *)
(* of the ledger.                                                          *)
(***************************************************************************)
EXTENDS DenialStore, TLAPS

\* The row lock and what it guarantees.
Locked ==
    /\ lock # None => row # None
    /\ \A r \in Requests :
          /\ pc[r] = "idle" => attempt[r] = 1
          /\ lock = r => pc[r] = "commit" /\ seen[r] # None
          /\ pc[r] = "commit" /\ seen[r] # None => lock = r /\ seen[r] = row
          /\ attempt[r] = 2 /\ pc[r] \in {"select", "commit"} => row # None
          /\ attempt[r] = 2 /\ pc[r] = "commit" => seen[r] # None

\* What each request carries and may rely on at each step.
Carried ==
    \A r \in Requests :
        /\ pc[r] # "idle" => op[r] \in Op
        /\ outcome[r] # None => outcome[r] \in decided
        /\ pc[r] = "answer" /\ outcome[r] # None => outcome[r] \in audited

IInv ==
    /\ TypeOK
    /\ RecurrenceKept
    /\ AnsweredAudited
    /\ Locked
    /\ Carried

-----------------------------------------------------------------------------
LEMMA StateTyped ==
    ASSUME row \in Row \cup {None}
    PROVE  /\ State(row) \in Row
           /\ State(row).total \in Nat
           /\ State(row).consecutive \in Nat
BY DEF State, Row

\* Whatever row the commit of a denial is based on, it is the current one.
LEMMA CommitSeesRow ==
    ASSUME IInv, NEW r \in Requests, pc[r] = "commit", seen[r] = None => row = None
    PROVE  seen[r] = row
BY DEF IInv, Locked

\* A committed denial is the next one of the ledger.
LEMMA CommitDenies ==
    ASSUME IInv, NEW r \in Requests, CommitDenial(r)
    PROVE  LET o == PolicyDenial(State(row), op[r].material)
           IN  /\ o \in Outcome
               /\ o.total = State(row).total + 1
               /\ row' = [consecutive |-> State(row).consecutive + 1,
                          total |-> State(row).total + 1]
               /\ row' \in Row
               /\ decided' = decided \cup {o}
               /\ outcome' = [outcome EXCEPT ![r] = o]
<1>1. seen[r] = row
      BY CommitSeesRow DEF CommitDenial
<1>2. State(row).total \in Nat /\ State(row).consecutive \in Nat
      BY StateTyped DEF IInv, TypeOK
<1>3. op[r].material \in BOOLEAN
      BY DEF IInv, Carried, CommitDenial, Op
<1> QED BY <1>1, <1>2, <1>3 DEF CommitDenial, PolicyDenial, Counters, Outcome, Row

LEMMA InitInv == Init => IInv
<1> SUFFICES ASSUME Init PROVE IInv
    OBVIOUS
<1> USE NoneAssumption DEF Init
<1>1. TypeOK
      BY DEF TypeOK, PC
<1>2. RecurrenceKept /\ AnsweredAudited
      BY DEF RecurrenceKept, AnsweredAudited, State
<1>3. Locked /\ Carried
      BY DEF Locked, Carried
<1> QED BY <1>1, <1>2, <1>3 DEF IInv

LEMMA NextInv == IInv /\ [Next]_vars => IInv'
<1> SUFFICES ASSUME IInv, [Next]_vars PROVE IInv'
    OBVIOUS
<1> USE NoneAssumption
<1>1. ASSUME NEW r \in Requests, NEW o \in Op, Receive(r, o)
      PROVE  IInv'
  <2>1. TypeOK'
        BY <1>1 DEF IInv, Receive, Goto, TypeOK, PC, Op
  <2>2. Locked' /\ Carried'
        BY <1>1 DEF IInv, Receive, Goto, TypeOK, Locked, Carried
  <2> QED BY <1>1, <2>1, <2>2 DEF IInv, Receive, RecurrenceKept, AnsweredAudited, State
<1>2. ASSUME NEW r \in Requests, SelectForUpdate(r)
      PROVE  IInv'
  <2>1. TypeOK'
        BY <1>2 DEF IInv, SelectForUpdate, Goto, TypeOK, PC
  <2>2. Locked' /\ Carried'
        BY <1>2 DEF IInv, SelectForUpdate, Goto, TypeOK, Locked, Carried
  <2> QED BY <1>2, <2>1, <2>2 DEF IInv, SelectForUpdate, RecurrenceKept, AnsweredAudited,
             State
<1>3. ASSUME NEW r \in Requests, CommitDenial(r)
      PROVE  IInv'
  <2> DEFINE o == PolicyDenial(State(row), op[r].material)
  <2>1. /\ o \in Outcome
        /\ o.total = State(row).total + 1
        /\ row' = [consecutive |-> State(row).consecutive + 1, total |-> State(row).total + 1]
        /\ row' \in Row
        /\ decided' = decided \cup {o}
        /\ outcome' = [outcome EXCEPT ![r] = o]
        BY <1>3, CommitDenies
  <2>2. State(row).total \in Nat /\ State(row).consecutive \in Nat
        BY StateTyped DEF IInv, TypeOK
  <2>3. row' # None /\ State(row)' = row' /\ o # None
        BY <2>1 DEF State
  <2>4. State(row).consecutive <= State(row).total
        BY DEF IInv, TypeOK, State
  <2> HIDE DEF o
  <2>5. TypeOK'
    <3>1. row' # None => row'.consecutive <= row'.total
          BY <2>1, <2>2, <2>4
    <3> QED BY <1>3, <2>1, <3>1 DEF IInv, CommitDenial, Unlock, Goto, TypeOK, PC
  <2>6. RecurrenceKept'
    <3>1. State(row)'.total = State(row).total + 1
          BY <2>1, <2>2, <2>3
    <3>2. ASSUME NEW n \in 1..State(row)'.total
          PROVE  \E p \in decided' : p.total = n
      <4>1. CASE n = State(row).total + 1
            BY <2>1, <4>1
      <4>2. CASE n # State(row).total + 1
            BY <2>1, <2>2, <3>1, <4>2 DEF IInv, RecurrenceKept
      <4> QED BY <4>1, <4>2
    <3>3. ASSUME NEW p \in decided'
          PROVE  p.total \in 1..State(row)'.total
          BY <2>1, <2>2, <3>1 DEF IInv, RecurrenceKept
    <3>4. ASSUME NEW p \in decided', NEW q \in decided', p.total = q.total
          PROVE  p = q
          BY <2>1, <2>2, <3>4 DEF IInv, RecurrenceKept
    <3> QED BY <3>2, <3>3, <3>4 DEF RecurrenceKept
  <2>7. AnsweredAudited'
        BY <1>3, <2>1 DEF IInv, CommitDenial, AnsweredAudited
  <2>8. Locked'
        BY <1>3, <2>3 DEF IInv, CommitDenial, Unlock, Goto, TypeOK, Locked
  <2>9. Carried'
        BY <1>3, <2>1 DEF IInv, CommitDenial, Goto, TypeOK, Carried
  <2> QED BY <2>5, <2>6, <2>7, <2>8, <2>9 DEF IInv
<1>4. ASSUME NEW r \in Requests, CommitFails(r)
      PROVE  IInv'
  <2>1. lock # r
        BY <1>4 DEF IInv, Locked, CommitFails
  <2>2. attempt[r] = 1
        BY <1>4 DEF IInv, TypeOK, Locked, CommitFails
  <2>3. TypeOK'
        BY <1>4, <2>2 DEF IInv, CommitFails, Goto, TypeOK, PC
  <2>4. Locked' /\ Carried'
        BY <1>4, <2>1, <2>2 DEF IInv, CommitFails, Goto, TypeOK, Locked, Carried
  <2> QED BY <1>4, <2>3, <2>4 DEF IInv, CommitFails, RecurrenceKept, AnsweredAudited, State
<1>5. ASSUME NEW r \in Requests, CommitSafe(r)
      PROVE  IInv'
  <2>1. seen[r] # None => seen[r] = row /\ row \in Row
        BY <1>5 DEF IInv, TypeOK, Locked, CommitSafe
  <2>2. /\ row' \in Row \cup {None}
        /\ row' = None <=> row = None
        /\ State(row)'.total = State(row).total
        /\ row' # None => row'.consecutive <= row'.total
        BY <1>5, <2>1 DEF IInv, TypeOK, CommitSafe, State, Row
  <2>3. TypeOK'
        BY <1>5, <2>2 DEF IInv, CommitSafe, Unlock, Goto, TypeOK, PC
  <2>4. Locked'
        BY <1>5, <2>2 DEF IInv, CommitSafe, Unlock, Goto, TypeOK, Locked
  <2>5. Carried'
        BY <1>5 DEF IInv, CommitSafe, Goto, TypeOK, Carried
  <2> QED BY <1>5, <2>2, <2>3, <2>4, <2>5 DEF IInv, CommitSafe, RecurrenceKept,
             AnsweredAudited
<1>6. ASSUME NEW r \in Requests, AppendEvent(r)
      PROVE  IInv'
  <2>1. outcome[r] # None => outcome[r] \in decided
        BY DEF IInv, Carried
  <2>2. TypeOK'
        BY <1>6, <2>1 DEF IInv, AppendEvent, Goto, TypeOK, PC
  <2>3. Locked' /\ Carried'
        BY <1>6 DEF IInv, AppendEvent, Goto, TypeOK, Locked, Carried
  <2> QED BY <1>6, <2>1, <2>2, <2>3 DEF IInv, AppendEvent, RecurrenceKept, AnsweredAudited,
             State
<1>7. ASSUME NEW r \in Requests, Answer(r)
      PROVE  IInv'
  <2>1. outcome[r] # None => outcome[r] \in audited
        BY <1>7 DEF IInv, Carried, Answer
  <2>2. TypeOK'
        BY <1>7, <2>1 DEF IInv, Answer, Release, Goto, TypeOK, PC
  <2>3. Locked' /\ Carried'
        BY <1>7 DEF IInv, Answer, Release, Goto, TypeOK, Locked, Carried
  <2> QED BY <1>7, <2>1, <2>2, <2>3 DEF IInv, Answer, RecurrenceKept, AnsweredAudited, State
<1>8. ASSUME NEW r \in Requests, Abort(r)
      PROVE  IInv'
  <2>1. TypeOK'
        BY <1>8 DEF IInv, Abort, Unlock, Release, Goto, TypeOK, PC
  <2>2. Locked' /\ Carried'
        BY <1>8 DEF IInv, Abort, Unlock, Release, Goto, TypeOK, Locked, Carried
  <2> QED BY <1>8, <2>1, <2>2 DEF IInv, Abort, RecurrenceKept, AnsweredAudited, State
<1>9. CASE UNCHANGED vars
      BY <1>9 DEF vars, local, IInv, TypeOK, RecurrenceKept, AnsweredAudited, Locked,
         Carried, State
<1> QED BY <1>1, <1>2, <1>3, <1>4, <1>5, <1>6, <1>7, <1>8, <1>9 DEF Next, Step

LEMMA Invariance == Spec => []IInv
BY InitInv, NextInv, PTL DEF Spec

-----------------------------------------------------------------------------
(***************************************************************************)
(* Type correctness, and a streak never longer than the total.             *)
(***************************************************************************)
THEOREM TypeCorrect == Spec => []TypeOK
BY Invariance, PTL DEF IInv

(***************************************************************************)
(* No committed denial is lost or counted twice, whatever races to insert  *)
(* the first row and however many requests wait for its lock.              *)
(***************************************************************************)
THEOREM RecurrenceIsKept == Spec => []RecurrenceKept
BY Invariance, PTL DEF IInv

(***************************************************************************)
(* Answered outcomes have events, and events have committed denials.       *)
(***************************************************************************)
THEOREM AnswersAreAudited == Spec => []AnsweredAudited
BY Invariance, PTL DEF IInv

(***************************************************************************)
(* record_denial never needs a third attempt.                              *)
(***************************************************************************)
THEOREM OneRetryIsEnough == Spec => []RetryFindsRow
<1>1. IInv => RetryFindsRow
      BY DEF IInv, Locked, RetryFindsRow
<1> QED BY <1>1, Invariance, PTL

(***************************************************************************)
(* The store implements the sequential ledger: a commit of a denial is     *)
(* Deny, of a safe alternative on an existing row SafeAlternative, HTTP    *)
(* 200 to a denial is Answer, and every other step is invisible.           *)
(***************************************************************************)
THEOREM StoreImplementsLedger == Spec => ImplementsLedger
<1> USE NoneAssumption
<1>1. Init => Ledger!Init
      BY DEF Init, Ledger!Init, State
<1>2. ASSUME IInv, [Next]_vars
      PROVE  [Ledger!Next]_(Ledger!vars)
  <2>1. ASSUME NEW r \in Requests, CommitDenial(r)
        PROVE  Ledger!Next
    <3> DEFINE m == op[r].material
    <3>1. /\ row' = [consecutive |-> State(row).consecutive + 1,
                     total |-> State(row).total + 1]
          /\ row' # None
          /\ decided' = decided \cup {PolicyDenial(State(row), m)}
          BY <1>2, <2>1, CommitDenies
    <3>2. m \in BOOLEAN
          BY <1>2, <2>1 DEF IInv, Carried, CommitDenial, Op
    <3>3. /\ State(row)'.consecutive = State(row).consecutive + 1
          /\ State(row)'.total = State(row).total + 1
          BY <3>1 DEF State
    <3>4. PolicyDenial(State(row), m) =
              [consecutive |-> State(row)'.consecutive,
               total |-> State(row)'.total,
               escalate |-> Ledger!Escalates(State(row)'.consecutive, State(row)'.total, m)]
          BY <3>3 DEF PolicyDenial, Ledger!Escalates
    <3>5. Ledger!Deny(m)
          BY <2>1, <3>1, <3>3, <3>4 DEF Ledger!Deny, CommitDenial
    <3> QED BY <3>2, <3>5 DEF Ledger!Next
  <2>2. ASSUME NEW r \in Requests, CommitSafe(r)
        PROVE  Ledger!Next \/ UNCHANGED Ledger!vars
    <3>1. CASE seen[r] = None
          BY <2>2, <3>1 DEF CommitSafe, State, Ledger!vars
    <3>2. CASE seen[r] # None
      <4>1. seen[r] = row /\ row \in Row /\ row # None
            BY <1>2, <2>2, <3>2 DEF IInv, TypeOK, Locked, CommitSafe
      <4>2. row' = [row EXCEPT !.consecutive = 0] /\ row' # None
            BY <2>2, <4>1 DEF CommitSafe, Row
      <4>3. Ledger!SafeAlternative
            BY <2>2, <4>1, <4>2 DEF CommitSafe, State, Row, Ledger!SafeAlternative
      <4> QED BY <4>3 DEF Ledger!Next
    <3> QED BY <3>1, <3>2
  <2>3. ASSUME NEW r \in Requests, Answer(r)
        PROVE  Ledger!Next \/ UNCHANGED Ledger!vars
    <3>1. CASE outcome[r] = None
          BY <2>3, <3>1 DEF Answer, State, Ledger!vars
    <3>2. CASE outcome[r] # None
          BY <1>2, <2>3, <3>2 DEF IInv, Carried, Answer, State, Ledger!Answer, Ledger!Next
    <3> QED BY <3>1, <3>2
  <2>4. ASSUME NEW r \in Requests,
               \/ \E o \in Op : Receive(r, o)
               \/ SelectForUpdate(r) \/ CommitFails(r) \/ AppendEvent(r) \/ Abort(r)
        PROVE  UNCHANGED Ledger!vars
        BY <2>4 DEF Receive, SelectForUpdate, CommitFails, AppendEvent, Abort, State,
           Ledger!vars
  <2>5. CASE UNCHANGED vars
        BY <2>5 DEF vars, State, Ledger!vars
  <2> QED BY <1>2, <2>1, <2>2, <2>3, <2>4, <2>5 DEF Next, Step
<1> QED BY <1>1, <1>2, Invariance, PTL DEF Spec, ImplementsLedger, Ledger!Spec
=============================================================================
