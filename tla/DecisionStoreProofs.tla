-------------------------- MODULE DecisionStoreProofs --------------------------
(***************************************************************************)
(* Proofs about DecisionStore, for any number of concurrent requests.      *)
(*                                                                         *)
(* The argument.  The row is never deleted, so a request that has saved or *)
(* found it may rely on it until it answers; a saved payload is written    *)
(* whole, so the record a request carries has to be coherent (Carried),    *)
(* not the interleaving of several; and the unique event key turns the     *)
(* second decision.opened of a race into a failure.  Until a request has   *)
(* saved between the read and the answer of another one, what a request    *)
(* has read is still the row at its save, and what it has saved is still   *)
(* the row at its answer (Current), so every step is one of the ledger.    *)
(***************************************************************************)
EXTENDS DecisionStore, TLAPS

Coherent(rec) ==
    /\ rec.status = "RESOLVED" <=> rec.owner_action \in Final
    /\ rec.owner_action = "DEFER" => rec.intent \notin Hard

\* What each request carries and may rely on at each step.
Carried ==
    \A r \in Requests :
        /\ pc[r] # "idle" => op[r] \in Op
        /\ pc[r] \notin {"idle", "get"} => record[r] \in DecisionRecord /\ Coherent(record[r])
        /\ pc[r] = "save_commit" => (loaded[r] # None => row # None)
        /\ pc[r] \in {"event_select", "event_insert", "answer"} => row # None
        /\ pc[r] = "event_select" => op[r].kind = "create"
        /\ pc[r] = "answer" =>
               IF op[r].kind = "create" THEN opened = 1 ELSE op[r].action \in audited

IInv ==
    /\ TypeOK
    /\ OpenedOnce
    /\ RecordCoherent
    /\ AnsweredAudited
    /\ Carried

-----------------------------------------------------------------------------
\* An owner action the guard accepts leaves a coherent record.
LEMMA AppliedCoherent ==
    ASSUME NEW rec \in DecisionRecord, NEW a \in Actions, NEW refs \in SUBSET Evidence,
           Coherent(rec), Accepts(rec, a)
    PROVE  Applied(rec, a, refs) \in DecisionRecord /\ Coherent(Applied(rec, a, refs))
BY NoneAssumption DEF DecisionRecord, Coherent, Accepts, Applied, Final, Actions

LEMMA ProposedCoherent ==
    ASSUME NEW i \in Intents
    PROVE  Proposed(i) \in DecisionRecord /\ Coherent(Proposed(i))
BY NoneAssumption DEF DecisionRecord, Coherent, Proposed, Final, Actions

LEMMA InitInv == Init => IInv
<1>1. Init => overtaken \in BOOLEAN
  BY Zenon DEF Init
<1> QED BY <1>1 DEF Init, IInv, TypeOK, OpenedOnce, RecordCoherent, AnsweredAudited,
           Carried, PC

\* A step of request r that frees its slot and keeps the tables and answers.
LEMMA ReleaseKeeps ==
    ASSUME IInv, NEW r \in Requests, Release(r), UNCHANGED <<stored, replies, overtaken>>
    PROVE  IInv'
BY DEF IInv, Release, Goto, stored, replies, TypeOK, OpenedOnce, RecordCoherent,
   AnsweredAudited, Carried, Coherent, PC

LEMMA NextInv == IInv /\ [Next]_vars => IInv'
<1> SUFFICES ASSUME IInv, [Next]_vars PROVE IInv'
    OBVIOUS
<1> USE DEF stored, replies
<1>1. ASSUME NEW r \in Requests, NEW o \in Op, Receive(r, o)
      PROVE  IInv'
      BY <1>1 DEF IInv, Receive, Goto, TypeOK, OpenedOnce, RecordCoherent, AnsweredAudited,
         Carried, Coherent, PC
<1>2. ASSUME NEW r \in Requests, Propose(r) \/ Reuse(r) \/ ApplyOwnerAction(r)
      PROVE  IInv'
  <2>1. op[r] \in Op
        BY <1>2 DEF IInv, Carried, Propose, Reuse, ApplyOwnerAction
  <2>2. PICK rec \in DecisionRecord, step \in {"save_load", "event_select"} :
            /\ Proceed(r, rec, step)
            /\ Coherent(rec)
            /\ step = "event_select" => row # None /\ op[r].kind = "create"
    <3>1. CASE Propose(r)
          BY <2>1, <3>1, ProposedCoherent DEF Propose, Op
    <3>2. CASE Reuse(r)
          BY <3>2 DEF IInv, TypeOK, Row, RecordCoherent, Coherent, Reuse, Reusable
    <3>3. CASE ApplyOwnerAction(r)
      <4>1. row.payload \in DecisionRecord /\ Coherent(row.payload)
            BY <3>3 DEF IInv, TypeOK, Row, RecordCoherent, Coherent, ApplyOwnerAction
      <4>2. op[r].action \in Actions /\ op[r].refs \in SUBSET Evidence
            BY <2>1, <3>3, OfferedAssumption DEF ApplyOwnerAction, Op
      <4> QED BY <3>3, <4>1, <4>2, AppliedCoherent DEF ApplyOwnerAction
    <3> QED BY <1>2, <3>1, <3>2, <3>3
  <2> QED BY <2>1, <2>2 DEF IInv, Proceed, Goto, TypeOK, OpenedOnce, RecordCoherent,
             AnsweredAudited, Carried, Coherent, PC
<1>3. ASSUME NEW r \in Requests, SaveLoad(r)
      PROVE  IInv'
      BY <1>3 DEF IInv, SaveLoad, Goto, TypeOK, OpenedOnce, RecordCoherent, AnsweredAudited,
         Carried, Coherent, PC
<1>4. ASSUME NEW r \in Requests, SaveCommit(r)
      PROVE  IInv'
  <2> DEFINE new == Saved(record[r], loaded[r])
  <2>1. /\ record[r] \in DecisionRecord /\ Coherent(record[r])
        /\ op[r] \in Op
        /\ loaded[r] # None => row # None
        BY <1>4 DEF IInv, Carried, SaveCommit
  <2>2. row # None => row \in Row /\ Coherent(row.payload)
        BY DEF IInv, TypeOK, RecordCoherent, Coherent
  <2>3. new \in Row /\ new # None /\ Coherent(new.payload)
        BY <2>1, <2>2, NoneAssumption DEF Saved, Row, DecisionRecord
  <2>4. TypeOK'
        BY <1>4, <2>1, <2>3 DEF IInv, SaveCommit, Goto, TypeOK, PC
  <2>5. Carried'
        BY <1>4, <2>1, <2>3 DEF IInv, SaveCommit, Goto, TypeOK, Carried, Coherent, Op
  <2>6. RecordCoherent' /\ OpenedOnce' /\ AnsweredAudited'
        BY <1>4, <2>3 DEF IInv, SaveCommit, RecordCoherent, Coherent, OpenedOnce,
           AnsweredAudited
  <2> QED BY <2>4, <2>5, <2>6 DEF IInv
<1>5. ASSUME NEW r \in Requests, EventSelect(r)
      PROVE  IInv'
      BY <1>5 DEF IInv, EventSelect, Goto, TypeOK, OpenedOnce, RecordCoherent,
         AnsweredAudited, Carried, Coherent, PC
<1>6. ASSUME NEW r \in Requests, EventInsert(r)
      PROVE  IInv'
  <2>1. op[r] \in Op /\ row # None
        BY <1>6 DEF IInv, Carried, EventInsert
  <2>2. op[r].kind # "create" => op[r].action \in Actions
        BY <2>1, OfferedAssumption DEF Op
  <2>3. TypeOK'
        BY <1>6, <2>2 DEF IInv, EventInsert, Goto, TypeOK, PC
  <2>4. Carried'
        BY <1>6, <2>1 DEF IInv, EventInsert, Goto, TypeOK, OpenedOnce, Carried, Coherent
  <2>5. OpenedOnce' /\ RecordCoherent' /\ AnsweredAudited'
        BY <1>6, <2>1 DEF IInv, EventInsert, OpenedOnce, RecordCoherent, AnsweredAudited
  <2> QED BY <2>3, <2>4, <2>5 DEF IInv
<1>7. ASSUME NEW r \in Requests, Answer(r)
      PROVE  IInv'
  <2>1. /\ op[r] \in Op /\ row # None /\ record[r] \in DecisionRecord
        /\ IF op[r].kind = "create" THEN opened = 1 ELSE op[r].action \in audited
        BY <1>7 DEF IInv, Carried, Answer
  <2>2. TypeOK'
        BY <1>7, <2>1 DEF IInv, Answer, Release, Goto, TypeOK, PC, DecisionRecord
  <2>3. Carried'
        BY <1>7 DEF IInv, Answer, Release, Goto, TypeOK, Carried, Coherent
  <2>4. OpenedOnce' /\ RecordCoherent' /\ AnsweredAudited'
        BY <1>7, <2>1 DEF IInv, Answer, Release, OpenedOnce, RecordCoherent,
           AnsweredAudited
  <2> QED BY <2>2, <2>3, <2>4 DEF IInv
<1>8. ASSUME NEW r \in Requests, Refuse(r) \/ SaveFails(r) \/ EventFails(r) \/ Abort(r)
      PROVE  IInv'
      BY <1>8, ReleaseKeeps DEF Refuse, SaveFails, EventFails, Abort
<1>9. CASE UNCHANGED vars
      BY <1>9 DEF vars, local, IInv, TypeOK, OpenedOnce, RecordCoherent, AnsweredAudited,
         Carried, Coherent
<1> QED BY <1>1, <1>2, <1>3, <1>4, <1>5, <1>6, <1>7, <1>8, <1>9 DEF Next

LEMMA Invariance == Spec => []IInv
BY InitInv, NextInv, PTL DEF Spec

-----------------------------------------------------------------------------
(***************************************************************************)
(* Type correctness of the tables and the request slots.                   *)
(***************************************************************************)
THEOREM TypeCorrect == Spec => []TypeOK
BY Invariance, PTL DEF IInv

(***************************************************************************)
(* However creations race or are retried, decision.opened is recorded at   *)
(* most once and never without the decision row.                           *)
(***************************************************************************)
THEOREM OpenedAtMostOnce == Spec => []OpenedOnce
BY Invariance, PTL DEF IInv

(***************************************************************************)
(* Overlapping saves never leave a self-contradictory payload, nor a       *)
(* deferred L3 decision.                                                   *)
(***************************************************************************)
THEOREM RecordsAreCoherent == Spec => []RecordCoherent
BY Invariance, PTL DEF IInv

(***************************************************************************)
(* Success is answered only for what the audit trail already holds.        *)
(***************************************************************************)
THEOREM AnswersAreAudited == Spec => []AnsweredAudited
BY Invariance, PTL DEF IInv

-----------------------------------------------------------------------------
\* Until a request is overtaken

\* What request r has read is the row, and its record is what that makes of it.
Fresh(r) ==
    /\ op[r].kind = "create" => row = None /\ record[r] = Proposed(op[r].intent)
    /\ op[r].kind = "act" => /\ row # None /\ Accepts(row.payload, op[r].action)
                             /\ record[r] = Applied(row.payload, op[r].action, op[r].refs)
    /\ pc[r] = "save_commit" => loaded[r] = row

\* What request r has saved or found is the row.
Shown(r) ==
    /\ row # None /\ row.payload = record[r]
    /\ op[r].kind = "create" => record[r].intent = op[r].intent
    /\ op[r].kind = "act" => record[r].owner_action = op[r].action

Current ==
    ~overtaken =>
        /\ PromptShowsRow
        /\ \A r \in Requests :
              /\ pc[r] \in {"save_load", "save_commit"} => Fresh(r)
              /\ pc[r] \in {"event_select", "event_insert", "answer"} => Shown(r)

LEMMA InitCurrent == Init => Current
BY DEF Init, Current, PromptShowsRow

\* A step that leaves the row and the replies alone.
LEMMA QuietCurrent ==
    ASSUME IInv, Current, NEW r \in Requests, UNCHANGED <<row, prompted, overtaken>>,
           \A x \in Requests \ {r} :
              UNCHANGED <<pc[x], op[x], record[x], loaded[x]>>,
           ~overtaken => /\ pc'[r] \in {"save_load", "save_commit"} => Fresh(r)'
                         /\ pc'[r] \in {"event_select", "event_insert", "answer"} => Shown(r)'
    PROVE  Current'
BY DEF Current, PromptShowsRow, Fresh, Shown

\* The row that the commit of a request leaves behind that nobody has overtaken.
LEMMA SavedFresh ==
    ASSUME IInv, NEW r \in Requests, SaveCommit(r), Fresh(r),
           row # None => row.status = row.payload.status
    PROVE  row' = [payload |-> record[r], status |-> record[r].status]
<1>1. pc[r] = "save_commit" /\ row' = Saved(record[r], loaded[r]) /\ loaded[r] = row
  BY DEF SaveCommit, Fresh
<1>2. row # None => row \in Row
  BY DEF IInv, TypeOK
<1> QED BY <1>1, <1>2 DEF Saved, SamePayload, Row

\* Nobody but the one that saves has read the decision.
LEMMA AloneAtSave ==
    ASSUME IInv, NEW r \in Requests, SaveCommit(r), ~overtaken'
    PROVE  ~overtaken /\ \A x \in Requests \ {r} : pc[x] \in {"idle", "get"}
<1>1. pc[r] = "save_commit" /\ overtaken' = (overtaken \/ UnderWay # {r})
  BY DEF SaveCommit
<1>2. ~overtaken /\ UnderWay = {r}
  BY <1>1 DEF IInv, TypeOK
<1> QED BY <1>2 DEF UnderWay

LEMMA NextCurrent == IInv /\ Current /\ [Next]_vars => Current'
<1> SUFFICES ASSUME IInv, Current, [Next]_vars PROVE Current'
  OBVIOUS
<1> USE DEF stored, replies
<1>0. pc \in [Requests -> PC] /\ DOMAIN op = Requests /\ DOMAIN record = Requests /\ DOMAIN loaded = Requests
  BY DEF IInv, TypeOK
<1>1. ASSUME NEW r \in Requests, NEW o \in Op, Receive(r, o)
      PROVE  Current'
  <2>1. pc'[r] = "get"
    BY <1>0, <1>1 DEF Receive, Goto
  <2> QED BY <1>1, <2>1, QuietCurrent DEF Receive, Goto
<1>2. ASSUME NEW r \in Requests, Propose(r) \/ Reuse(r) \/ ApplyOwnerAction(r)
      PROVE  Current'
  <2>1. op[r] \in Op
    BY <1>2 DEF IInv, Carried, Propose, Reuse, ApplyOwnerAction
  <2>2. CASE Propose(r)
    <3>1. pc'[r] = "save_load" /\ record'[r] = Proposed(op[r].intent) /\ row = None /\ op[r].kind = "create"
      BY <1>0, <2>2 DEF Propose, Proceed, Goto
    <3> QED BY <2>2, <3>1, QuietCurrent DEF Propose, Proceed, Goto, Fresh
  <2>3. CASE Reuse(r)
    <3>1. /\ pc'[r] = "event_select" /\ record'[r] = row.payload /\ row # None /\ op[r].kind = "create"
          /\ row.payload.intent = op[r].intent
      BY <1>0, <2>3 DEF Reuse, Reusable, SameIntent, Proposed, Proceed, Goto
    <3> QED BY <2>3, <3>1, QuietCurrent DEF Reuse, Proceed, Goto, Shown
  <2>4. CASE ApplyOwnerAction(r)
    <3>1. /\ pc'[r] = "save_load" /\ record'[r] = Applied(row.payload, op[r].action, op[r].refs)
          /\ row # None /\ op[r].kind = "act" /\ Accepts(row.payload, op[r].action)
      BY <1>0, <2>4 DEF ApplyOwnerAction, Proceed, Goto
    <3> QED BY <2>4, <3>1, QuietCurrent DEF ApplyOwnerAction, Proceed, Goto, Fresh
  <2> QED BY <1>2, <2>2, <2>3, <2>4
<1>3. ASSUME NEW r \in Requests, SaveLoad(r)
      PROVE  Current'
  <2>1. pc[r] = "save_load" /\ pc'[r] = "save_commit" /\ loaded'[r] = row
    BY <1>0, <1>3 DEF SaveLoad, Goto
  <2>2. ~overtaken => Fresh(r)
    BY <2>1 DEF Current
  <2> QED BY <1>3, <2>1, <2>2, QuietCurrent DEF SaveLoad, Goto, Fresh
<1>4. ASSUME NEW r \in Requests, SaveCommit(r)
      PROVE  Current'
  <2> SUFFICES ASSUME ~overtaken' PROVE Current'
    BY DEF Current
  <2>1. ~overtaken /\ \A x \in Requests \ {r} : pc[x] \in {"idle", "get"}
    BY <1>4, AloneAtSave
  <2>2. Fresh(r) /\ PromptShowsRow
    BY <1>4, <2>1 DEF Current, SaveCommit
  <2>3. row' = [payload |-> record[r], status |-> record[r].status]
    BY <1>4, <2>1, <2>2, SavedFresh DEF PromptShowsRow
  <2>4. op[r] \in Op /\ record[r] \in DecisionRecord
    BY <1>4 DEF IInv, Carried, SaveCommit
  <2>5. row' # None
    BY <2>3, <2>4, NoneAssumption DEF Row, DecisionRecord
  <2>6. Shown(r)'
    <3>1. row' # None /\ row'.payload = record'[r] /\ record'[r] = record[r] /\ op'[r] = op[r]
      BY <1>4, <2>3, <2>5 DEF SaveCommit
    <3>2. op[r].kind = "create" => record[r].intent = op[r].intent
      BY <2>2 DEF Fresh, Proposed
    <3>3. op[r].kind = "act" => record[r].owner_action = op[r].action
      <4>1. ASSUME op[r].kind = "act" PROVE row.payload \in DecisionRecord
        BY <2>2, <4>1 DEF Fresh, IInv, TypeOK, Row
      <4> QED BY <2>2, <4>1 DEF Fresh, Applied, DecisionRecord
    <3> QED BY <3>1, <3>2, <3>3 DEF Shown
  <2>7. prompted' \subseteq {row'.payload.intent}
    <3>1. CASE row = None
      BY <1>4, <2>3, <3>1 DEF IInv, AnsweredAudited, SaveCommit
    <3>2. CASE row # None
      <4>1. op[r].kind = "act" /\ row.payload \in DecisionRecord
        BY <2>2, <2>4, <3>2 DEF Fresh, Op, IInv, TypeOK, Row
      <4>2. record[r].intent = row.payload.intent
        BY <2>2, <4>1 DEF Fresh, Applied, DecisionRecord
      <4> QED BY <1>4, <2>1, <2>2, <2>3, <3>2, <4>2 DEF PromptShowsRow, SaveCommit
    <3> QED BY <3>1, <3>2
  <2>8. /\ pc'[r] \in {"event_select", "event_insert"}
        /\ \A x \in Requests \ {r} : pc'[x] \in {"idle", "get"}
    BY <1>0, <1>4, <2>1 DEF SaveCommit, Goto
  <2> QED BY <2>3, <2>6, <2>7, <2>8 DEF Current, PromptShowsRow
<1>5. ASSUME NEW r \in Requests, EventSelect(r) \/ EventInsert(r)
      PROVE  Current'
  <2>1. pc[r] \in {"event_select", "event_insert"} /\ pc'[r] \in {"event_insert", "answer"}
    BY <1>0, <1>5 DEF EventSelect, EventInsert, Goto
  <2>2. ~overtaken => Shown(r)
    BY <2>1 DEF Current
  <2>3. /\ UNCHANGED <<row, prompted, overtaken, op, record, loaded>>
        /\ \A x \in Requests \ {r} : pc'[x] = pc[x]
    BY <1>0, <1>5 DEF EventSelect, EventInsert, Goto
  <2>4. ~overtaken => Shown(r)'
    BY <2>2, <2>3 DEF Shown
  <2> QED BY <2>1, <2>3, <2>4, QuietCurrent
<1>6. ASSUME NEW r \in Requests, Answer(r)
      PROVE  Current'
  <2>1. pc[r] = "answer" /\ pc'[r] = "idle" /\ \A x \in Requests \ {r} : pc'[x] = pc[x]
    BY <1>0, <1>6 DEF Answer, Release, Goto
  <2>2. ~overtaken => Shown(r) /\ PromptShowsRow
    BY <2>1 DEF Current
  <2>3. PromptShowsRow'
    BY <1>6, <2>2 DEF Answer, Shown, PromptShowsRow
  <2> QED BY <1>6, <2>1, <2>3 DEF Current, Answer, Release, Fresh, Shown
<1>7. ASSUME NEW r \in Requests, Refuse(r) \/ SaveFails(r) \/ EventFails(r) \/ Abort(r)
      PROVE  Current'
  <2>1. Release(r) /\ UNCHANGED <<stored, replies, overtaken>>
    BY <1>7 DEF Refuse, SaveFails, EventFails, Abort
  <2>2. pc'[r] = "idle"
    BY <1>0, <2>1 DEF Release, Goto
  <2> QED BY <2>1, <2>2, QuietCurrent DEF Release, Goto
<1>8. CASE UNCHANGED vars
  BY <1>8 DEF vars, local, Current, PromptShowsRow, Fresh, Shown
<1> QED BY <1>1, <1>2, <1>3, <1>4, <1>5, <1>6, <1>7, <1>8 DEF Next

LEMMA CurrentInvariance == Spec => [](IInv /\ Current)
BY InitInv, NextInv, InitCurrent, NextCurrent, PTL DEF Spec

(***************************************************************************)
(* Until a request saves between the read and the answer of another one,   *)
(* prompts show the question of the row and its status column agrees with  *)
(* the payload, for any number of requests, with retries and failures.     *)
(***************************************************************************)
THEOREM PromptsShowTheRow == Spec => []PromptShowsRow
<1>1. Current => PromptShowsRow
  BY DEF Current, PromptShowsRow
<1> QED BY <1>1, CurrentInvariance, PTL

-----------------------------------------------------------------------------
LEMMA LedgerStep ==
    IInv /\ Current /\ [Next]_vars => [~overtaken' => Ledger!Next]_(Ledger!vars)
<1> SUFFICES ASSUME IInv, Current, [Next]_vars, ~overtaken', ~UNCHANGED (Ledger!vars)
             PROVE  Ledger!Next
  OBVIOUS
<1> USE DEF stored, replies
<1>1. CASE UNCHANGED <<row, answered>>
  BY <1>1 DEF Ledger!vars
<1>2. ASSUME NEW r \in Requests, SaveCommit(r)
      PROVE  Ledger!Next
  <2>1. ~overtaken
    BY <1>2, AloneAtSave
  <2>2. Fresh(r) /\ PromptShowsRow
    BY <1>2, <2>1 DEF Current, SaveCommit
  <2>3. row' = [payload |-> record[r], status |-> record[r].status]
    BY <1>2, <2>1, <2>2, SavedFresh DEF PromptShowsRow
  <2>4. op[r] \in Op /\ record[r] \in DecisionRecord
    BY <1>2 DEF IInv, Carried, SaveCommit
  <2>5. row' # None /\ row'.payload = record[r] /\ UNCHANGED answered
    BY <1>2, <2>3, <2>4, NoneAssumption DEF Row, DecisionRecord, SaveCommit
  <2>6. CASE op[r].kind = "create"
    <3>1. op[r].intent \in Intents /\ Ledger!Open(op[r].intent)
      BY <2>2, <2>4, <2>5, <2>6 DEF Op, Fresh, Proposed, Ledger!Open
    <3> QED BY <3>1 DEF Ledger!Next
  <2>7. CASE op[r].kind = "act"
    <3>1. op[r].action \in Actions /\ op[r].refs \in SUBSET Evidence
      BY <2>4, <2>7, OfferedAssumption DEF Op
    <3>2. row # None /\ row.payload \in DecisionRecord /\ Accepts(row.payload, op[r].action)
      BY <2>2, <2>7 DEF Fresh, IInv, TypeOK, Row
    <3>3. row'.payload = Applied(row.payload, op[r].action, op[r].refs)
      BY <2>2, <2>5, <2>7 DEF Fresh
    <3>4. row.payload # None /\ row'.payload # None
      BY <2>4, <2>5, <3>2, NoneAssumption
    <3>5. Ledger!Act(op[r].action, op[r].refs)
      BY <2>5, <3>1, <3>2, <3>3, <3>4 DEF Accepts, Applied, Final, DecisionRecord, Ledger!Act, Ledger!Final
    <3> QED BY <3>1, <3>5 DEF Ledger!Next, Ledger!Actions, Actions
  <2> QED BY <2>4, <2>6, <2>7 DEF Op
<1>3. ASSUME NEW r \in Requests, Answer(r), ~UNCHANGED answered
      PROVE  Ledger!Next
  <2>1. pc[r] = "answer" /\ ~overtaken /\ UNCHANGED row /\ op[r].kind # "create"
        /\ answered' = answered \cup {op[r].action}
    BY <1>3 DEF Answer
  <2>2. op[r] \in Op /\ Shown(r) /\ record[r] \in DecisionRecord
    BY <2>1 DEF IInv, Carried, Current
  <2>3. op[r].kind = "act" /\ op[r].action \in Actions
    BY <2>1, <2>2, OfferedAssumption DEF Op
  <2>4. row # None /\ row.payload.owner_action = op[r].action /\ row.payload # None
    BY <2>2, <2>3, NoneAssumption DEF Shown
  <2>5. Ledger!Ack(op[r].action)
    BY <2>1, <2>4 DEF Ledger!Ack
  <2> QED BY <2>3, <2>5 DEF Ledger!Next, Ledger!Actions, Actions
<1>4. ASSUME NEW r \in Requests,
             \/ \E o \in Op : Receive(r, o)
             \/ Propose(r) \/ Reuse(r) \/ ApplyOwnerAction(r)
             \/ Refuse(r) \/ SaveLoad(r) \/ SaveFails(r)
             \/ EventSelect(r) \/ EventInsert(r) \/ EventFails(r) \/ Abort(r)
      PROVE  UNCHANGED <<row, answered>>
  BY <1>4 DEF Receive, Propose, Reuse, ApplyOwnerAction, Proceed, Refuse, SaveLoad, SaveFails,
     EventSelect, EventInsert, EventFails, Abort
<1>5. ASSUME NEW r \in Requests, Answer(r)
      PROVE  UNCHANGED row
  BY <1>5 DEF Answer
<1>6. CASE UNCHANGED vars
  BY <1>1, <1>6 DEF vars
<1> QED BY <1>1, <1>2, <1>3, <1>4, <1>5, <1>6 DEF Next

(***************************************************************************)
(* Until a request saves between the read and the answer of another one,   *)
(* every step of the store is a step of the decision ledger or leaves it   *)
(* as it is, for any number of requests, with retries and failures.        *)
(***************************************************************************)
THEOREM StoreImplementsLedger == Spec => ImplementsLedger
<1>1. Init => Ledger!Init
  BY DEF Init, Ledger!Init
<1> QED BY <1>1, LedgerStep, CurrentInvariance, PTL DEF Spec, ImplementsLedger
=============================================================================
