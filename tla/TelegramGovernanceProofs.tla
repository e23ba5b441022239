---------------------- MODULE TelegramGovernanceProofs ----------------------
(***************************************************************************)
(* Safety of the Telegram owner channel, for any number of decisions,      *)
(* presses, messages, days and failures.  The invariant says, beside the   *)
(* types, what each thread relies on between two of its steps: that the    *)
(* presses below the one being handled have been answered, that a message  *)
(* being sent has room and a decision without a registration, and that     *)
(* memory knows at least what the file knows of open decisions.            *)
(***************************************************************************)
EXTENDS TelegramGovernance, FiniteSetTheorems, SequenceTheorems, WellFoundedInduction, TLAPS

Handling == {"handle", "get", "apply", "save", "answer", "clear", "mark", "ack"}

Within ==
    /\ today \in 0..MaxDays
    /\ Len(presses) <= MaxPresses
    /\ Len(messages) <= MaxMessages
    /\ npc \in {"get", "send"} => Len(messages) < MaxMessages
    /\ npc = "save" => Len(messages) # 0

\* Updates are confirmed and handled in order, each after its answer.
Ordered ==
    /\ ppc \in Handling => batch # {}
    /\ ppc \in {"clear", "mark", "ack"} => Current \in answered
    /\ 1..mem.offset \subseteq answered
    /\ 1..disk.offset \subseteq answered
    /\ \A b \in batch : 1..b \subseteq batch \cup answered

\* A decision that is resolved without an overlap is so once, and no request about it
\* that read it as open is left.
Resolved ==
    /\ \A i \in Updates : saving[i] > 0 => i \in DOMAIN presses
    /\ \A d \in Decisions : forge[d] # "OPEN" => resolutions[d] > 0
    /\ \A d \in Decisions \ overlapped :
          \/ resolutions[d] = 0 /\ forge[d] = "OPEN"
          \/ resolutions[d] = 1 /\ forge[d] = "RESOLVED" /\ ~Outstanding(d)

\* Memory may be ahead of the file, and behind it only for decisions that are closed.
Remembered ==
    /\ npc # "idle" => mem.notifications[note.decision] = None
    /\ \A d \in Decisions \ Closed :
          disk.notifications[d] # None => mem.notifications[d] = disk.notifications[d]

\* A registration names the message sent for it, with the keyboard it was sent with as
\* long as the decision is not closed.
Shows(n, d) ==
    /\ n.message \in DOMAIN messages
    /\ d \notin Closed => messages[n.message] = [decision |-> d, buttons |-> n.safe]

\* A keyboard is cleared only for a press that found, or made, its decision closed.
Usable ==
    /\ \A i \in DOMAIN presses : /\ presses[i].message \in DOMAIN messages
                                 /\ messages[presses[i].message].decision = presses[i].decision
    /\ npc = "save" => Shows([safe |-> note.safe, message |-> Len(messages)], note.decision)
    /\ \A d \in Decisions : mem.notifications[d] # None => Shows(mem.notifications[d], d)
    /\ \A d \in Decisions : disk.notifications[d] # None => Shows(disk.notifications[d], d)
    /\ ppc \in {"apply", "save"} =>
          ~(presses[Current].action = "DEFER" /\ presses[Current].decision \in Hard)
    /\ ppc = "clear" \/ (ppc = "answer" /\ Clears) => presses[Current].decision \in Closed

IInv == TypeOK /\ Within /\ Ordered /\ Resolved /\ Remembered /\ Usable

-----------------------------------------------------------------------------
\* Bounds, least and greatest elements, the tail of a sequence

LEMMA Bounds ==
    /\ MaxProcessed \in Nat \ {0} /\ MaxPresses \in Nat \ {0} /\ MaxMessages \in Nat \ {0}
    /\ MaxDays \in Nat \ {0} /\ MaxFaults \in Nat \ {0}
BY BoundAssumption

LEMMA Least ==
    ASSUME NEW S \in SUBSET Nat, S # {}
    PROVE  Min(S) \in S /\ \A x \in S : Min(S) <= x
<1> DEFINE R == OpToRel(<, Nat)
<1>1. IsWellFoundedOn(R, Nat)
  BY NatLessThanWellFounded
<1>2. \A x, y \in Nat : y < x => <<y, x>> \in R
  BY DEF OpToRel
<1> HIDE DEF R
<1>3. PICK x \in S : \A y \in S : ~(<<y, x>> \in R)
  BY <1>1, WFMin, Zenon
<1>4. \A y \in S : ~(y < x)
  BY <1>2, <1>3
<1>5. \E z \in S : \A y \in S : z <= y
  BY <1>4
<1> QED BY <1>5, Zenon DEF Min

LEMMA Greater ==
    ASSUME NEW a \in Nat, NEW b \in Nat
    PROVE  Max({a, b}) \in {a, b} /\ Max({a, b}) >= a /\ Max({a, b}) >= b
<1>1. \E x \in {a, b} : \A y \in {a, b} : x >= y
  <2>1. CASE a >= b
    BY <2>1
  <2>2. CASE ~(a >= b)
    BY <2>2
  <2> QED BY <2>1, <2>2
<1> QED BY <1>1 DEF Max

LEMMA LatestBounded ==
    ASSUME NEW S, NEW s \in Seq(S), NEW n \in Nat \ {0}
    PROVE  Latest(s, n) \in SeqOf(S, n)
<1> DEFINE m == IF Len(s) > n THEN Len(s) - n + 1 ELSE 1
<1>1. Len(s) \in Nat /\ m \in 1..(Len(s) + 1) /\ m \in Int /\ \A i \in m..Len(s) : s[i] \in S
  OBVIOUS
<1>2. /\ Latest(s, n) \in Seq(S)
      /\ Len(Latest(s, n)) = IF m <= Len(s) THEN Len(s) - m + 1 ELSE 0
  <2> HIDE DEF m
  <2>1. Latest(s, n) = SubSeq(s, m, Len(s))
    BY DEF Latest, m
  <2> QED BY <1>1, <2>1, SubSeqProperties
<1>3. Len(Latest(s, n)) \in 0..n
  BY <1>1, <1>2
<1>4. \A t \in Seq(S) : t \in [1..Len(t) -> S]
  OBVIOUS
<1>5. Latest(s, n) \in [1..Len(Latest(s, n)) -> S]
  BY <1>2, <1>4
<1> QED BY <1>3, <1>5 DEF SeqOf

LEMMA Elements ==
    ASSUME TypeOK, Within
    PROVE  /\ Len(presses) \in Nat /\ DOMAIN presses = 1..Len(presses)
           /\ DOMAIN presses \subseteq Updates
           /\ \A i \in DOMAIN presses : /\ presses[i].decision \in Decisions
                                         /\ presses[i].action \in Offered \cup {None}
                                         /\ presses[i].message \in 1..MaxMessages
           /\ Len(messages) \in Nat /\ DOMAIN messages = 1..Len(messages)
           /\ \A m \in DOMAIN messages : /\ m \in 1..MaxMessages
                                          /\ messages[m].decision \in Decisions
                                          /\ messages[m].buttons \in BOOLEAN
<1> DEFINE P == [decision : Decisions, action : Offered \cup {None}, message : 1..MaxMessages]
           M == [decision : Decisions, buttons : BOOLEAN]
<1>1. /\ presses \in Seq(P) /\ Len(presses) <= MaxPresses
      /\ messages \in Seq(M) /\ Len(messages) <= MaxMessages
  BY DEF TypeOK, Within
<1>2. /\ \A x \in P : x.decision \in Decisions /\ x.action \in Offered \cup {None} /\ x.message \in 1..MaxMessages
      /\ \A x \in M : x.decision \in Decisions /\ x.buttons \in BOOLEAN
  OBVIOUS
<1>3. /\ Len(presses) \in Nat /\ DOMAIN presses = 1..Len(presses)
      /\ \A i \in 1..Len(presses) : presses[i] \in P
      /\ Len(messages) \in Nat /\ DOMAIN messages = 1..Len(messages)
      /\ \A m \in 1..Len(messages) : messages[m] \in M
  <2> HIDE DEF P, M
  <2> QED BY <1>1
<1>4. 1..Len(presses) \subseteq Updates /\ 1..Len(messages) \subseteq 1..MaxMessages
  BY <1>1, <1>3, Bounds DEF Updates
<1> HIDE DEF P, M
<1> QED BY <1>2, <1>3, <1>4

LEMMA CurrentFirst ==
    ASSUME TypeOK, Within, batch # {}
    PROVE  /\ Current \in batch /\ Current \in DOMAIN presses /\ Current \in Updates
           /\ \A b \in batch : Current <= b
<1>1. batch \subseteq DOMAIN presses /\ DOMAIN presses \subseteq Updates
      /\ DOMAIN presses \in SUBSET Nat
  BY Elements DEF TypeOK, Updates
<1>2. Current \in batch /\ \A b \in batch : Current <= b
  BY <1>1, Least DEF Current
<1> QED BY <1>1, <1>2

\* The stored state with one of its fields replaced.
LEMMA StateFields ==
    ASSUME NEW s \in StoredState
    PROVE  /\ s.offset \in 0..MaxPresses
           /\ s.notifications \in [Decisions -> Notification \cup {None}]
           /\ s.processed \in SeqOf(Updates, MaxProcessed)
           /\ s.digest \in 0..MaxDays
BY DEF StoredState

LEMMA StateChanged ==
    ASSUME NEW s \in StoredState
    PROVE  /\ \A o \in 0..MaxPresses : [s EXCEPT !.offset = o] \in StoredState
           /\ \A n \in [Decisions -> Notification \cup {None}] :
                 [s EXCEPT !.notifications = n] \in StoredState
           /\ \A p \in SeqOf(Updates, MaxProcessed) : [s EXCEPT !.processed = p] \in StoredState
           /\ \A t \in 0..MaxDays : [s EXCEPT !.digest = t] \in StoredState
BY DEF StoredState

-----------------------------------------------------------------------------
\* The governance API: what happens to decisions and to requests about them

LEMMA PressNew ==
    ASSUME IInv, NEW m \in DOMAIN messages, NEW a \in Offered \cup {None}, Press(m, a)
    PROVE  /\ Len(presses') = Len(presses) + 1 /\ Len(presses') <= MaxPresses
           /\ presses' \in Seq([decision : Decisions, action : Offered \cup {None},
                                message : 1..MaxMessages])
           /\ \A i \in DOMAIN presses : i \in DOMAIN presses' /\ presses'[i] = presses[i]
           /\ \A i \in DOMAIN presses' : i \in DOMAIN presses
                 \/ presses'[i] = [decision |-> messages[m].decision, action |-> a, message |-> m]
<1> DEFINE p == [decision |-> messages[m].decision, action |-> a, message |-> m]
           P == [decision : Decisions, action : Offered \cup {None}, message : 1..MaxMessages]
           n == Len(presses) + 1
<1>1. /\ presses \in Seq(P) /\ Len(presses) \in Nat
      /\ Len(presses) < MaxPresses /\ presses' = Append(presses, p)
  BY DEF Press, IInv, TypeOK
<1>2. p \in P
  <2>1. m \in 1..MaxMessages /\ messages[m].decision \in Decisions
    BY Elements DEF IInv
  <2> QED BY <2>1
<1>3. /\ presses' \in Seq(P) /\ Len(presses') = n /\ presses'[n] = p
      /\ \A i \in 1..Len(presses) : presses'[i] = presses[i]
  <2> HIDE DEF p, P
  <2> QED BY <1>1, <1>2
<1> HIDE DEF p
<1>4. DOMAIN presses = 1..Len(presses) /\ DOMAIN presses' = 1..n /\ n <= MaxPresses
  BY <1>1, <1>3, Bounds
<1>5. /\ \A i \in DOMAIN presses : i \in DOMAIN presses' /\ presses'[i] = presses[i]
      /\ \A i \in DOMAIN presses' : i \in DOMAIN presses \/ presses'[i] = p
  BY <1>1, <1>3, <1>4
<1> QED BY <1>1, <1>3, <1>4, <1>5 DEF p

\* What a step may do to the queue of presses.
LEMMA QueueStep ==
    ASSUME IInv, [Next]_vars
    PROVE  /\ presses' \in Seq([decision : Decisions, action : Offered \cup {None},
                                message : 1..MaxMessages])
           /\ Len(presses') <= MaxPresses
           /\ \A i \in DOMAIN presses : i \in DOMAIN presses' /\ presses'[i] = presses[i]
           /\ \/ UNCHANGED presses
              \/ \E m \in DOMAIN messages, a \in Offered \cup {None} : Press(m, a)
<1> DEFINE Goal == /\ presses' \in Seq([decision : Decisions, action : Offered \cup {None},
                                       message : 1..MaxMessages])
                   /\ Len(presses') <= MaxPresses
                   /\ \A i \in DOMAIN presses : i \in DOMAIN presses' /\ presses'[i] = presses[i]
<1>1. CASE UNCHANGED presses
  BY <1>1 DEF IInv, TypeOK, Within
<1>2. ASSUME NEW m \in DOMAIN messages, NEW a \in Offered \cup {None}, Press(m, a)
      PROVE  Goal
  BY <1>2, PressNew
<1> HIDE DEF Goal
<1>3. UNCHANGED presses \/ ~(NotifyStep \/ NotifyFails \/ NotifySaveFails \/ PollStep
         \/ PruneFails \/ DigestFails \/ ApplyFails \/ CallFails \/ Crash)
  BY DEF telegram, NotifyStep, NotifyGet, NotifyRefused, NotifySend, NotifySave, NotifyFails,
         NotifySaveFails, PollStep, DigestNotDue, DigestDue, PruneFetch, PruneSave, DigestSent,
         GetUpdates, Dispatch, GetDecision, ApplyRead, ApplySave, AnswerCallback, ClearKeyboard,
         MarkProcessed, AdvanceOffset, PruneFails, DigestFails, ApplyFails, CallFails, Crash
<1>4. UNCHANGED presses \/ ~(UNCHANGED vars \/ DigestHourPasses \/ RequestStep
         \/ \E d \in Decisions, safe \in BOOLEAN : Notify(d, safe))
  BY DEF vars, telegram, DigestHourPasses, Notify, RequestStep, ElsewhereRead, ElsewhereSave,
         LateRead, LateSave
<1>5. \/ UNCHANGED presses
      \/ \E m \in DOMAIN messages, a \in Offered \cup {None} : Press(m, a)
  BY <1>3, <1>4 DEF Next
<1> QED BY <1>1, <1>2, <1>5 DEF Goal

LEMMA AtCurrent ==
    ASSUME IInv, ppc \in Handling
    PROVE  /\ Current \in DOMAIN presses /\ Current \in Updates
           /\ presses[Current].decision \in Decisions
BY CurrentFirst, Elements DEF IInv, Ordered

\* The requests under way: a decision is read as open before it is to be saved.
LEMMA RequestsStep ==
    ASSUME IInv, [Next]_vars
    PROVE  /\ late' \in [Updates -> Nat] /\ saving' \in [Updates -> Nat]
           /\ elsewhere' \in [Decisions -> {None, "OPEN", "RESOLVED"}]
           /\ \A d \in Decisions : elsewhere'[d] # None => elsewhere[d] # None \/ forge[d] = "OPEN"
           /\ \A i \in Updates : saving'[i] > 0 => i \in DOMAIN presses
                 /\ (saving[i] > 0 \/ forge[presses[i].decision] = "OPEN"
                       \/ (ppc = "save" /\ Current = i))
<1> DEFINE Goal ==
        /\ late' \in [Updates -> Nat] /\ saving' \in [Updates -> Nat]
        /\ elsewhere' \in [Decisions -> {None, "OPEN", "RESOLVED"}]
        /\ \A d \in Decisions : elsewhere'[d] # None => elsewhere[d] # None \/ forge[d] = "OPEN"
        /\ \A i \in Updates : saving'[i] > 0 => i \in DOMAIN presses
              /\ (saving[i] > 0 \/ forge[presses[i].decision] = "OPEN"
                    \/ (ppc = "save" /\ Current = i))
<1> SUFFICES Goal
  OBVIOUS
<1>1. /\ late \in [Updates -> Nat] /\ saving \in [Updates -> Nat]
      /\ elsewhere \in [Decisions -> {None, "OPEN", "RESOLVED"}]
      /\ \A i \in Updates : saving[i] > 0 => i \in DOMAIN presses
      /\ DOMAIN presses \subseteq Updates
  BY Elements DEF IInv, TypeOK, Resolved
<1>2. CASE UNCHANGED requests
  BY <1>1, <1>2 DEF requests
<1>3. ASSUME NEW d \in Shared, NEW a \in Offered, ElsewhereRead(d, a)
      PROVE  Goal
  BY <1>1, <1>3, SubsetAssumption DEF ElsewhereRead, Accepts, After
<1>4. ASSUME NEW d \in Shared, ElsewhereSave(d)
      PROVE  Goal
  BY <1>1, <1>4 DEF ElsewhereSave
<1>5. ASSUME NEW i \in DOMAIN presses, LateRead(i)
      PROVE  Goal
  BY <1>1, <1>5 DEF LateRead, Accepts
<1>6. ASSUME NEW i \in DOMAIN presses, LateSave(i)
      PROVE  Goal
  BY <1>1, <1>6 DEF LateSave
<1>7. CASE Abandon /\ UNCHANGED elsewhere
  <2>1. Current \in DOMAIN presses /\ Current \in Updates
    BY <1>7, AtCurrent DEF Abandon, Handling
  <2> HIDE DEF Current
  <2> QED BY <1>1, <1>7, <2>1 DEF Abandon
<1> HIDE DEF Goal
<1>8. CASE RequestStep
  BY <1>3, <1>4, <1>5, <1>6, <1>8 DEF RequestStep
<1>9. CASE ApplyFails \/ Crash
  BY <1>2, <1>7, <1>9 DEF ApplyFails, Crash, api, requests
<1>10. UNCHANGED requests
          \/ ~(NotifyStep \/ NotifyFails \/ NotifySaveFails \/ PollStep \/ PruneFails
                 \/ DigestFails \/ CallFails)
  BY DEF api, NotifyStep, NotifyGet, NotifyRefused, NotifySend, NotifySave, NotifyFails,
         NotifySaveFails, PollStep, DigestNotDue, DigestDue, PruneFetch, PruneSave, DigestSent,
         GetUpdates, Dispatch, GetDecision, ApplyRead, ApplySave, AnswerCallback, ClearKeyboard,
         MarkProcessed, AdvanceOffset, PruneFails, DigestFails, CallFails
<1>11. UNCHANGED requests \/ ~(UNCHANGED vars \/ DigestHourPasses
         \/ (\E m \in DOMAIN messages, a \in Offered \cup {None} : Press(m, a))
         \/ \E d \in Decisions, safe \in BOOLEAN : Notify(d, safe))
  BY DEF vars, api, DigestHourPasses, Notify, Press
<1> QED BY <1>2, <1>8, <1>9, <1>10, <1>11 DEF Next

\* The decisions change only when a request that is outstanding saves one.
LEMMA SaveStep ==
    ASSUME IInv, [Next]_vars
    PROVE  \/ UNCHANGED <<forge, past>>
           \/ \E d \in Decisions, status \in {"OPEN", "RESOLVED"} : Outstanding(d) /\ Save(d, status)
<1> DEFINE Goal ==
        \/ UNCHANGED <<forge, past>>
        \/ \E d \in Decisions, status \in {"OPEN", "RESOLVED"} : Outstanding(d) /\ Save(d, status)
<1> SUFFICES Goal
  OBVIOUS
<1>1. \A a : After(a) \in {"OPEN", "RESOLVED"}
  BY DEF After
<1>2. ASSUME NEW d \in Shared, ElsewhereSave(d)
      PROVE  Goal
  <2>1. d \in Decisions /\ elsewhere[d] \in {"OPEN", "RESOLVED"} /\ Outstanding(d)
    BY <1>2, SubsetAssumption DEF ElsewhereSave, IInv, TypeOK, Outstanding
  <2>2. Save(d, elsewhere[d])
    BY <1>2 DEF ElsewhereSave
  <2> HIDE DEF Save
  <2> QED BY <2>1, <2>2
<1>3. ASSUME NEW i \in DOMAIN presses, LateSave(i)
      PROVE  Goal
  <2>1. presses[i].decision \in Decisions /\ Outstanding(presses[i].decision)
    BY <1>3, Elements DEF LateSave, IInv, Outstanding
  <2>2. PICK d \in {presses[i].decision} : Save(d, After(presses[i].action))
    BY <1>3 DEF LateSave, SavePress
  <2> QED BY <1>1, <2>1, <2>2
<1>4. CASE ppc = "save" /\ SavePress(Current)
  <2>1. presses[Current].decision \in Decisions /\ Outstanding(presses[Current].decision)
    BY <1>4, AtCurrent DEF Handling, Outstanding
  <2>2. PICK d \in {presses[Current].decision} : Save(d, After(presses[Current].action))
    BY <1>4 DEF SavePress
  <2> HIDE DEF Current
  <2> QED BY <1>1, <2>1, <2>2
<1>5. UNCHANGED <<forge, past>> => Goal
  OBVIOUS
<1> HIDE DEF Goal
<1>6. CASE RequestStep
  <2>1. CASE \E d \in Shared, a \in Offered : ElsewhereRead(d, a)
    BY <1>5, <2>1 DEF ElsewhereRead
  <2>2. CASE \E i \in DOMAIN presses : LateRead(i)
    BY <1>5, <2>2 DEF LateRead
  <2> QED BY <1>2, <1>3, <1>6, <2>1, <2>2 DEF RequestStep
<1>7. CASE ApplySave \/ ApplyFails
  BY <1>4, <1>5, <1>7 DEF ApplySave, ApplyFails, api
<1>8. UNCHANGED <<forge, past>> \/ ApplySave
          \/ ~(NotifyStep \/ NotifyFails \/ NotifySaveFails \/ PollStep \/ PruneFails
                 \/ DigestFails \/ CallFails \/ Crash)
  BY DEF api, NotifyStep, NotifyGet, NotifyRefused, NotifySend, NotifySave, NotifyFails,
         NotifySaveFails, PollStep, DigestNotDue, DigestDue, PruneFetch, PruneSave, DigestSent,
         GetUpdates, Dispatch, GetDecision, ApplyRead, AnswerCallback, ClearKeyboard,
         MarkProcessed, AdvanceOffset, PruneFails, DigestFails, CallFails, Crash
<1>9. UNCHANGED <<forge, past>> \/ ~(UNCHANGED vars \/ DigestHourPasses
         \/ (\E m \in DOMAIN messages, a \in Offered \cup {None} : Press(m, a))
         \/ \E d \in Decisions, safe \in BOOLEAN : Notify(d, safe))
  BY DEF vars, api, DigestHourPasses, Notify, Press
<1> QED BY <1>5, <1>6, <1>7, <1>8, <1>9 DEF Next

\* The request the poll thread waits for.
LEMMA AwaitedStep ==
    ASSUME IInv, [Next]_vars, ppc' = "save"
    PROVE  /\ UNCHANGED batch
           /\ ppc = "save" \/ (ppc = "apply" /\ forge[presses[Current].decision] = "OPEN")
<1> DEFINE Goal == /\ UNCHANGED batch
                   /\ ppc = "save" \/ (ppc = "apply" /\ forge[presses[Current].decision] = "OPEN")
<1>1. CASE UNCHANGED <<ppc, batch>>
  BY <1>1
<1>2. CASE ApplyRead
  BY <1>2 DEF ApplyRead, Accepts, Goto
<1> HIDE DEF Goal
<1>3. UNCHANGED <<ppc, batch>> \/ ApplyRead \/ ~(PollStep \/ PruneFails \/ DigestFails \/ ApplyFails
                 \/ CallFails \/ Crash)
  BY DEF PollStep, DigestNotDue, DigestDue, PruneFetch, PruneSave, DigestSent, GetUpdates, Dispatch,
         GetDecision, ApplySave, AnswerCallback, ClearKeyboard, MarkProcessed, AdvanceOffset,
         PruneFails, DigestFails, ApplyFails, CallFails, Crash, Goto, NextRound
<1>4. UNCHANGED <<ppc, batch>> \/ ~(UNCHANGED vars \/ DigestHourPasses \/ RequestStep \/ NotifyStep
         \/ NotifyFails \/ NotifySaveFails
         \/ (\E m \in DOMAIN messages, a \in Offered \cup {None} : Press(m, a))
         \/ \E d \in Decisions, safe \in BOOLEAN : Notify(d, safe))
  BY DEF vars, poll, DigestHourPasses, RequestStep, ElsewhereRead, ElsewhereSave, LateRead, LateSave,
         NotifyStep, NotifyGet, NotifyRefused, NotifySend, NotifySave, NotifyFails, NotifySaveFails,
         Notify, Press
<1>5. UNCHANGED <<ppc, batch>> \/ ApplyRead
  BY <1>3, <1>4 DEF Next
<1> QED BY <1>1, <1>2, <1>5 DEF Goal

LEMMA OutstandingStep ==
    ASSUME IInv, [Next]_vars, NEW d \in Decisions, Outstanding(d)'
    PROVE  Outstanding(d) \/ forge[d] = "OPEN"
<1>1. /\ \A i \in DOMAIN presses : presses'[i] = presses[i]
      /\ DOMAIN presses \subseteq Updates /\ DOMAIN presses' \subseteq Updates
  <2>1. /\ presses' \in Seq([decision : Decisions, action : Offered \cup {None},
                             message : 1..MaxMessages])
        /\ Len(presses') <= MaxPresses
    BY QueueStep
  <2>2. DOMAIN presses' \subseteq Updates
    BY <2>1, Bounds DEF Updates
  <2> QED BY <2>2, QueueStep, Elements DEF IInv
<1>2. CASE elsewhere'[d] # None
  BY <1>2, RequestsStep DEF Outstanding
<1>3. CASE ppc' = "save" /\ presses'[Current'].decision = d
  <2>1. Current' = Current /\ ppc \in {"save", "apply"}
    BY <1>3, AwaitedStep DEF Current
  <2>2. Current \in DOMAIN presses
    BY <2>1, AtCurrent DEF Handling
  <2>3. presses[Current].decision = d
    <3> HIDE DEF Current
    <3> QED BY <1>1, <1>3, <2>1, <2>2
  <2> HIDE DEF Current
  <2> QED BY <1>3, <2>3, AwaitedStep DEF Outstanding
<1>4. ASSUME NEW i \in DOMAIN presses', presses'[i].decision = d, saving'[i] > 0
      PROVE  Outstanding(d) \/ forge[d] = "OPEN"
  <2>1. /\ i \in DOMAIN presses
        /\ saving[i] > 0 \/ forge[presses[i].decision] = "OPEN" \/ (ppc = "save" /\ Current = i)
    BY <1>1, <1>4, RequestsStep
  <2>2. presses[i].decision = d
    BY <1>1, <1>4, <2>1
  <2> HIDE DEF Current
  <2> QED BY <2>1, <2>2 DEF Outstanding
<1> HIDE DEF Current
<1> QED BY <1>2, <1>3, <1>4 DEF Outstanding

LEMMA SavedIs ==
    ASSUME IInv, NEW c \in Decisions, NEW status \in {"OPEN", "RESOLVED"}, Save(c, status)
    PROVE  /\ forge' \in [Decisions -> {"OPEN", "RESOLVED"}] /\ forge'[c] = status
           /\ resolutions' \in [Decisions -> Nat]
           /\ resolutions'[c] = IF status = "OPEN" THEN resolutions[c] ELSE resolutions[c] + 1
           /\ \A d \in Decisions : d # c => forge'[d] = forge[d] /\ resolutions'[d] = resolutions[d]
           /\ overlapped \subseteq overlapped' /\ overlapped' \subseteq overlapped \cup {c}
           /\ status = "RESOLVED" /\ Outstanding(c)' => c \in overlapped'
<1>1. /\ forge \in [Decisions -> {"OPEN", "RESOLVED"}] /\ resolutions \in [Decisions -> Nat]
  BY DEF IInv, TypeOK
<1>2. /\ forge' = [forge EXCEPT ![c] = status]
      /\ IF status = "OPEN" THEN resolutions' = resolutions /\ overlapped' = overlapped
         ELSE /\ resolutions' = [resolutions EXCEPT ![c] = @ + 1]
              /\ overlapped' = IF Outstanding(c)' THEN overlapped \cup {c} ELSE overlapped
  BY DEF Save, past
<1>3. /\ forge' \in [Decisions -> {"OPEN", "RESOLVED"}] /\ forge'[c] = status
      /\ \A d \in Decisions : d # c => forge'[d] = forge[d]
  BY <1>1, <1>2
<1>4. /\ resolutions' \in [Decisions -> Nat]
      /\ resolutions'[c] = IF status = "OPEN" THEN resolutions[c] ELSE resolutions[c] + 1
      /\ \A d \in Decisions : d # c => resolutions'[d] = resolutions[d]
  BY <1>1, <1>2
<1>5. /\ overlapped \subseteq overlapped' /\ overlapped' \subseteq overlapped \cup {c}
      /\ status = "RESOLVED" /\ Outstanding(c)' => c \in overlapped'
  BY <1>2, Zenon
<1> QED BY <1>3, <1>4, <1>5

LEMMA ApiStep ==
    ASSUME IInv, [Next]_vars
    PROVE  /\ forge' \in [Decisions -> {"OPEN", "RESOLVED"}]
           /\ resolutions' \in [Decisions -> Nat] /\ overlapped' \subseteq Decisions
           /\ Closed \subseteq Closed'
           /\ Resolved'
<1> DEFINE Once(d) == \/ resolutions[d] = 0 /\ forge[d] = "OPEN"
                      \/ resolutions[d] = 1 /\ forge[d] = "RESOLVED" /\ ~Outstanding(d)
<1>1. /\ forge \in [Decisions -> {"OPEN", "RESOLVED"}] /\ resolutions \in [Decisions -> Nat]
      /\ overlapped \subseteq Decisions
      /\ \A d \in Decisions : forge[d] # "OPEN" => resolutions[d] > 0
      /\ \A d \in Decisions \ overlapped : Once(d)
  BY DEF IInv, TypeOK, Resolved
<1>2. \A i \in Updates : saving'[i] > 0 => i \in DOMAIN presses'
  BY RequestsStep, QueueStep
<1>3. CASE UNCHANGED <<forge, past>>
  <2>1. UNCHANGED <<forge, resolutions, overlapped>>
    BY <1>3 DEF past
  <2>2. ASSUME NEW d \in Decisions \ overlapped'
        PROVE  (Once(d))'
    BY <1>1, <2>1, <2>2, OutstandingStep
  <2>3. Closed' = Closed
    BY <2>1 DEF Closed
  <2> QED BY <1>1, <1>2, <2>1, <2>2, <2>3 DEF Resolved
<1>4. ASSUME NEW c \in Decisions, NEW status \in {"OPEN", "RESOLVED"}, Outstanding(c), Save(c, status)
      PROVE  /\ forge' \in [Decisions -> {"OPEN", "RESOLVED"}]
             /\ resolutions' \in [Decisions -> Nat] /\ overlapped' \subseteq Decisions
             /\ Closed \subseteq Closed'
             /\ Resolved'
  <2>1. /\ forge' \in [Decisions -> {"OPEN", "RESOLVED"}] /\ forge'[c] = status
        /\ resolutions' \in [Decisions -> Nat]
        /\ resolutions'[c] = IF status = "OPEN" THEN resolutions[c] ELSE resolutions[c] + 1
        /\ \A d \in Decisions : d # c => forge'[d] = forge[d] /\ resolutions'[d] = resolutions[d]
        /\ overlapped \subseteq overlapped' /\ overlapped' \subseteq overlapped \cup {c}
        /\ status = "RESOLVED" /\ Outstanding(c)' => c \in overlapped'
    BY <1>4, SavedIs
  <2>2. ASSUME NEW d \in Decisions \ overlapped'
        PROVE  (Once(d))'
    <3>1. Once(d)
      BY <1>1, <2>1, <2>2
    <3>2. CASE d = c
      BY <1>4, <2>1, <2>2, <3>1, <3>2
    <3>3. CASE d # c
      BY <2>1, <3>1, <3>3, OutstandingStep
    <3> QED BY <3>2, <3>3
  <2>3. \A d \in Decisions : resolutions'[d] >= resolutions[d]
    BY <1>1, <2>1
  <2>4. \A d \in Decisions : forge'[d] # "OPEN" => resolutions'[d] > 0
    BY <1>1, <2>1
  <2>5. Closed \subseteq Closed'
    BY <1>1, <2>1, <2>3 DEF Closed
  <2> QED BY <1>1, <1>2, <2>1, <2>2, <2>4, <2>5 DEF Resolved
<1> QED BY <1>3, <1>4, SaveStep

-----------------------------------------------------------------------------
\* The chat and Telegram's queue

LEMMA ClearedKeeps ==
    ASSUME IInv, Cleared
    PROVE  /\ messages' \in Seq([decision : Decisions, buttons : BOOLEAN])
           /\ Len(messages') = Len(messages)
<1> DEFINE M == [decision : Decisions, buttons : BOOLEAN]
           k == presses[Current].message
<1>1. messages \in Seq(M) /\ messages' = [messages EXCEPT ![k].buttons = FALSE]
  BY DEF IInv, TypeOK, Cleared
<1>2. \A m \in M : [m EXCEPT !.buttons = FALSE] \in M
  OBVIOUS
<1> HIDE DEF M, k
<1>3. Len(messages) \in Nat /\ messages \in [1..Len(messages) -> M]
  BY <1>1
<1>4. messages' \in [1..Len(messages) -> M]
  <2>1. DOMAIN messages' = 1..Len(messages)
    BY <1>1, <1>3
  <2>2. \A i \in 1..Len(messages) : messages'[i] \in M
    BY <1>1, <1>2, <1>3
  <2>3. messages' = [i \in 1..Len(messages) |-> messages'[i]]
    BY <1>1, <1>3
  <2> QED BY <2>1, <2>2, <2>3
<1>5. messages' \in Seq(M) /\ Len(messages') = Len(messages)
  BY <1>3, <1>4
<1> QED BY <1>5 DEF M

LEMMA SendAppends ==
    ASSUME IInv, npc = "send", Send
    PROVE  /\ messages' \in Seq([decision : Decisions, buttons : BOOLEAN])
           /\ Len(messages') = Len(messages) + 1
           /\ Len(messages') <= MaxMessages /\ Len(messages') # 0
<1> DEFINE M == [decision : Decisions, buttons : BOOLEAN]
           m == [decision |-> note.decision, buttons |-> note.safe]
<1>1. /\ messages \in Seq(M) /\ messages' = Append(messages, m)
      /\ Len(messages) < MaxMessages /\ note \in [decision : Decisions, safe : BOOLEAN]
  BY DEF IInv, TypeOK, Within, Send
<1>2. m \in M
  BY <1>1
<1>3. Len(messages) \in Nat /\ messages' \in Seq(M) /\ Len(messages') = Len(messages) + 1
  <2> HIDE DEF M, m
  <2> QED BY <1>1, <1>2
<1> QED BY <1>1, <1>3, Bounds

\* What a step may do to the chat.
LEMMA ChatStep ==
    ASSUME IInv, [Next]_vars
    PROVE  /\ messages' \in Seq([decision : Decisions, buttons : BOOLEAN])
           /\ \/ Len(messages') = Len(messages)
              \/ npc = "send" /\ npc' \in {"idle", "save"} /\ Len(messages') = Len(messages) + 1
<1> DEFINE Goal == /\ messages' \in Seq([decision : Decisions, buttons : BOOLEAN])
                   /\ \/ Len(messages') = Len(messages)
                      \/ npc = "send" /\ npc' \in {"idle", "save"}
                            /\ Len(messages') = Len(messages) + 1
<1> SUFFICES Goal
  OBVIOUS
<1>1. CASE UNCHANGED messages
  BY <1>1 DEF IInv, TypeOK
<1>2. CASE Cleared
  BY <1>2, ClearedKeeps
<1>3. CASE npc = "send" /\ npc' \in {"idle", "save"} /\ Send
  BY <1>3, SendAppends
<1> HIDE DEF Goal
<1>4. CASE NotifyStep \/ NotifyFails \/ NotifySaveFails
  BY <1>1, <1>3, <1>4 DEF NotifyStep, NotifyGet, NotifyRefused, NotifySend, NotifySave, NotifyFails,
     NotifySaveFails, EndNotify, telegram
<1>5. CASE PollStep \/ PruneFails \/ DigestFails \/ ApplyFails \/ CallFails \/ Crash
  BY <1>1, <1>2, <1>5 DEF PollStep, DigestNotDue, DigestDue, PruneFetch, PruneSave, DigestSent, GetUpdates,
     Dispatch, GetDecision, ApplyRead, ApplySave, AnswerCallback, ClearKeyboard, MarkProcessed,
     AdvanceOffset, PruneFails, DigestFails, ApplyFails, CallFails, Crash, telegram
<1>6. CASE \/ \E m \in DOMAIN messages, a \in Offered \cup {None} : Press(m, a)
           \/ RequestStep
           \/ DigestHourPasses
           \/ \E d \in Decisions, safe \in BOOLEAN : Notify(d, safe)
           \/ UNCHANGED vars
  BY <1>1, <1>6 DEF Press, RequestStep, ElsewhereRead, ElsewhereSave, LateRead, LateSave, DigestHourPasses, Notify, telegram, vars
<1> QED BY <1>4, <1>5, <1>6 DEF Next

\* The steps of the notify thread, the only ones that open or close its request.
LEMMA NotifyControl ==
    ASSUME IInv, [Next]_vars
    PROVE  \/ UNCHANGED <<npc, note>>
           \/ npc' = "idle"
           \/ \E d \in Decisions, safe \in BOOLEAN : Notify(d, safe)
           \/ NotifyGet \/ NotifySend
<1> DEFINE Still == UNCHANGED <<npc, note>> \/ npc' = "idle"
<1>1. Still \/ NotifyGet \/ NotifySend
         \/ ~(NotifyStep \/ NotifyFails \/ NotifySaveFails \/ UNCHANGED vars)
  BY DEF NotifyStep, NotifyRefused, NotifySave, NotifyFails, NotifySaveFails, EndNotify, vars, notify
<1>2. Still \/ ~(PollStep \/ PruneFails \/ DigestFails \/ ApplyFails \/ CallFails \/ Crash)
  BY DEF PollStep, DigestNotDue, DigestDue, PruneFetch, PruneSave, DigestSent, GetUpdates, Dispatch, GetDecision,
     ApplyRead, ApplySave, AnswerCallback, ClearKeyboard, MarkProcessed, AdvanceOffset, PruneFails,
     DigestFails, ApplyFails, CallFails, Crash, notify
<1>3. Still \/ ~(DigestHourPasses
         \/ (\E m \in DOMAIN messages, a \in Offered \cup {None} : Press(m, a))
         \/ RequestStep)
  BY DEF Press, RequestStep, ElsewhereRead, ElsewhereSave, LateRead, LateSave, DigestHourPasses, notify
<1> QED BY <1>1, <1>2, <1>3 DEF Next

LEMMA DaysStep ==
    ASSUME IInv, [Next]_vars
    PROVE  today' \in 0..MaxDays
<1>1. today \in 0..MaxDays
  BY DEF IInv, Within
<1>2. CASE DigestHourPasses
  BY <1>1, <1>2, Bounds DEF DigestHourPasses
<1>3. UNCHANGED today \/ ~(NotifyStep \/ NotifyFails \/ NotifySaveFails \/ UNCHANGED vars)
  BY DEF NotifyStep, NotifyGet, NotifyRefused, NotifySend, NotifySave, NotifyFails,
         NotifySaveFails, vars
<1>4. UNCHANGED today
         \/ ~(PollStep \/ PruneFails \/ DigestFails \/ ApplyFails \/ CallFails \/ Crash)
  BY DEF PollStep, DigestNotDue, DigestDue, PruneFetch, PruneSave, DigestSent, GetUpdates, Dispatch, GetDecision,
     ApplyRead, ApplySave, AnswerCallback, ClearKeyboard, MarkProcessed, AdvanceOffset, PruneFails,
     DigestFails, ApplyFails, CallFails, Crash
<1>5. UNCHANGED today
         \/ ~((\E m \in DOMAIN messages, a \in Offered \cup {None} : Press(m, a))
         \/ RequestStep
         \/ (\E d \in Decisions, safe \in BOOLEAN : Notify(d, safe)))
  BY DEF Press, RequestStep, ElsewhereRead, ElsewhereSave, LateRead, LateSave, Notify
<1> QED BY <1>1, <1>2, <1>3, <1>4, <1>5 DEF Next

LEMMA WithinStep ==
    ASSUME IInv, [Next]_vars
    PROVE  Within'
<1>1. Len(messages) \in Nat /\ Len(messages) <= MaxMessages
      /\ (npc \in {"get", "send"} => Len(messages) < MaxMessages)
      /\ (npc = "save" => Len(messages) # 0)
  BY Elements DEF IInv, Within
<1>2. /\ Len(messages') \in Nat
      /\ \/ Len(messages') = Len(messages)
         \/ npc = "send" /\ npc' \in {"idle", "save"} /\ Len(messages') = Len(messages) + 1
  BY <1>1, ChatStep
<1>3. Len(messages') <= MaxMessages
  BY <1>1, <1>2, Bounds
<1>4. /\ npc' \in {"get", "send"} => Len(messages') < MaxMessages
      /\ npc' = "save" => Len(messages') # 0
  <2>1. CASE UNCHANGED <<npc, note>>
    BY <1>1, <1>2, <2>1
  <2>2. CASE npc' = "idle"
    BY <2>2
  <2>3. ASSUME NEW d \in Decisions, NEW safe \in BOOLEAN, Notify(d, safe)
        PROVE  npc' = "get" /\ Len(messages') < MaxMessages
    BY <2>3 DEF Notify, telegram
  <2>4. CASE NotifyGet
    BY <1>1, <2>4 DEF NotifyGet, telegram
  <2>5. CASE NotifySend
    <3>1. npc = "send" /\ Send /\ npc' = "save"
      BY <2>5 DEF NotifySend
    <3> QED BY <3>1, SendAppends
  <2> QED BY <2>1, <2>2, <2>3, <2>4, <2>5, NotifyControl
<1> QED BY <1>3, <1>4, DaysStep, QueueStep DEF Within

\* Who holds the lock follows from where the two threads are.
LEMMA ControlStep ==
    ASSUME IInv, [Next]_vars
    PROVE  /\ lock' \in {"free", "notify", "poll"}
           /\ ppc' \in {"loop", "prune", "digest", "poll", "handle", "get", "apply", "save", "answer",
                        "clear", "mark", "ack"}
           /\ npc' \in {"idle", "get", "send", "save"}
           /\ npc' # "idle" => note' \in [decision : Decisions, safe : BOOLEAN]
           /\ lock' = "notify" <=> npc' # "idle"
           /\ lock' = "poll" <=> ppc' \in {"prune", "digest"}
<1> DEFINE Control(l, p, n, x) ==
               /\ l \in {"free", "notify", "poll"}
               /\ p \in {"loop", "prune", "digest", "poll", "handle", "get", "apply", "save", "answer",
                         "clear", "mark", "ack"}
               /\ n \in {"idle", "get", "send", "save"}
               /\ n # "idle" => x \in [decision : Decisions, safe : BOOLEAN]
               /\ l = "notify" <=> n # "idle"
               /\ l = "poll" <=> p \in {"prune", "digest"}
           Goal == Control(lock', ppc', npc', note')
<1> SUFFICES Goal
  OBVIOUS
<1>1. Control(lock, ppc, npc, note)
  BY DEF IInv, TypeOK
<1>2. CASE NotifyStep \/ NotifyFails \/ NotifySaveFails
  BY <1>1, <1>2 DEF NotifyStep, NotifyGet, NotifyRefused, NotifySend, NotifySave, NotifyFails,
     NotifySaveFails, EndNotify, poll
<1>3. CASE PollStep
  BY <1>1, <1>3 DEF PollStep, DigestNotDue, DigestDue, PruneFetch, PruneSave, DigestSent, GetUpdates, Dispatch,
     GetDecision, ApplyRead, ApplySave, AnswerCallback, ClearKeyboard, MarkProcessed, AdvanceOffset, Goto,
     NextRound, notify
<1>4. CASE PruneFails \/ DigestFails \/ ApplyFails \/ CallFails \/ Crash
  BY <1>1, <1>4 DEF PruneFails, DigestFails, ApplyFails, CallFails, Crash, NextRound, notify
<1>5. CASE UNCHANGED <<lock, ppc, npc, note>>
  BY <1>1, <1>5
<1>6. ASSUME NEW d \in Decisions, NEW safe \in BOOLEAN, Notify(d, safe)
      PROVE  Goal
  BY <1>1, <1>6 DEF Notify, poll
<1> HIDE DEF Goal
<1>7. UNCHANGED <<lock, ppc, npc, note>> \/ ~(DigestHourPasses \/ UNCHANGED vars
         \/ (\E m \in DOMAIN messages, a \in Offered \cup {None} : Press(m, a))
         \/ RequestStep)
  BY DEF Press, RequestStep, ElsewhereRead, ElsewhereSave, LateRead, LateSave, DigestHourPasses, poll, notify, vars
<1> QED BY <1>2, <1>3, <1>4, <1>5, <1>6, <1>7 DEF Next

-----------------------------------------------------------------------------
\* The state in memory and in the file

LEMMA RegisteredIs ==
    ASSUME IInv, npc = "save"
    PROVE  /\ Registered \in StoredState
           /\ Registered.offset = mem.offset
           /\ \A d \in Decisions :
                 /\ mem.notifications[d] # None => Registered.notifications[d] = mem.notifications[d]
                 /\ \/ Registered.notifications[d] = mem.notifications[d]
                    \/ /\ d = note.decision
                       /\ Registered.notifications[d] =
                             [safe |-> note.safe, message |-> Len(messages)]
<1> DEFINE n == [safe |-> note.safe, message |-> Len(messages)]
           N == [mem.notifications EXCEPT ![note.decision] = n]
<1>1. /\ mem \in StoredState /\ note \in [decision : Decisions, safe : BOOLEAN]
      /\ mem.notifications[note.decision] = None
  BY DEF IInv, TypeOK, Remembered
<1>2. n \in Notification
  <2>1. Len(messages) \in 1..MaxMessages
    BY Elements, Bounds DEF IInv, Within
  <2> QED BY <1>1, <2>1 DEF Notification
<1>3. mem.notifications \in [Decisions -> Notification \cup {None}]
  BY <1>1, StateFields
<1>4. /\ N \in [Decisions -> Notification \cup {None}]
      /\ \A d \in Decisions : /\ mem.notifications[d] # None => N[d] = mem.notifications[d]
                              /\ N[d] = mem.notifications[d] \/ (d = note.decision /\ N[d] = n)
  <2> HIDE DEF n
  <2> QED BY <1>1, <1>2, <1>3
<1>5. Registered = [mem EXCEPT !.notifications = N]
  BY DEF Registered
<1> HIDE DEF N
<1>6. Registered \in StoredState
  BY <1>1, <1>4, <1>5, StateChanged
<1>7. Registered.offset = mem.offset /\ Registered.notifications = N
  BY <1>1, <1>5 DEF StoredState
<1> QED BY <1>4, <1>6, <1>7

LEMMA FetchedIs ==
    ASSUME IInv, NEW c \in Decisions, PruneFetch(c)
    PROVE  /\ mem' \in StoredState /\ mem'.offset = mem.offset
           /\ \A d \in Decisions :
                 /\ mem'.notifications[d] \in {mem.notifications[d], None}
                 /\ d \notin Closed => mem'.notifications[d] = mem.notifications[d]
<1> DEFINE N == [mem.notifications EXCEPT ![c] = None]
<1>1. mem \in StoredState
  BY DEF IInv, TypeOK
<1>2. CASE UNCHANGED mem
  BY <1>1, <1>2
<1>3. CASE forge[c] # "OPEN" /\ mem' = [mem EXCEPT !.notifications = N]
  <2>1. mem.notifications \in [Decisions -> Notification \cup {None}]
    BY <1>1, StateFields
  <2>2. c \in Closed
    BY <1>3 DEF IInv, Resolved, Closed
  <2>3. /\ N \in [Decisions -> Notification \cup {None}]
        /\ \A d \in Decisions : /\ N[d] \in {mem.notifications[d], None}
                                /\ d \notin Closed => N[d] = mem.notifications[d]
    BY <2>1, <2>2
  <2> HIDE DEF N
  <2>4. mem' \in StoredState
    BY <1>1, <1>3, <2>3, StateChanged
  <2>5. mem'.offset = mem.offset /\ mem'.notifications = N
    BY <1>1, <1>3 DEF StoredState
  <2> QED BY <2>3, <2>4, <2>5
<1>4. UNCHANGED mem \/ (forge[c] # "OPEN" /\ mem' = [mem EXCEPT !.notifications = N])
  BY DEF PruneFetch
<1> QED BY <1>2, <1>3, <1>4

\* What a step does to the two copies.
LEMMA MemoryStep ==
    ASSUME IInv, [Next]_vars
    PROVE  /\ mem' \in StoredState /\ disk' \in StoredState
           /\ \A d \in Decisions \ Closed : disk.notifications[d] # None =>
                 /\ disk'.notifications[d] = disk.notifications[d]
                 /\ mem'.notifications[d] = disk.notifications[d]
           /\ disk' \in {disk, mem'}
           /\ npc' # "idle" => \A d \in Decisions :
                 mem.notifications[d] = None => mem'.notifications[d] = None
           /\ \/ {mem'.offset, disk'.offset} \subseteq {mem.offset, disk.offset}
              \/ AdvanceOffset
           /\ \A d \in Decisions :
                 \/ mem'.notifications[d] \in {mem.notifications[d], disk.notifications[d], None}
                 \/ /\ npc = "save" /\ UNCHANGED messages /\ d = note.decision
                    /\ mem'.notifications[d] = [safe |-> note.safe, message |-> Len(messages)]
<1> DEFINE Goal == /\ mem' \in StoredState /\ disk' \in StoredState
                   /\ \A d \in Decisions \ Closed : disk.notifications[d] # None =>
                         /\ disk'.notifications[d] = disk.notifications[d]
                         /\ mem'.notifications[d] = disk.notifications[d]
                   /\ disk' \in {disk, mem'}
                   /\ npc' # "idle" => \A d \in Decisions :
                         mem.notifications[d] = None => mem'.notifications[d] = None
                   /\ \/ {mem'.offset, disk'.offset} \subseteq {mem.offset, disk.offset}
                      \/ AdvanceOffset
                   /\ \A d \in Decisions :
                         \/ mem'.notifications[d] \in {mem.notifications[d], disk.notifications[d], None}
                         \/ /\ npc = "save" /\ UNCHANGED messages /\ d = note.decision
                            /\ mem'.notifications[d] = [safe |-> note.safe, message |-> Len(messages)]
<1> SUFFICES Goal
  OBVIOUS
<1>1. /\ mem \in StoredState /\ disk \in StoredState
      /\ \A d \in Decisions \ Closed : disk.notifications[d] # None
            => mem.notifications[d] = disk.notifications[d]
  BY DEF IInv, TypeOK, Remembered
<1>2. CASE UNCHANGED <<mem, disk>>
  BY <1>1, <1>2
<1>3. CASE NotifySave \/ NotifySaveFails
  <2>1. npc = "save" /\ npc' = "idle" /\ mem' = Registered /\ disk' \in {disk, mem'}
        /\ UNCHANGED messages
    BY <1>3 DEF NotifySave, NotifySaveFails, EndNotify, telegram
  <2> QED BY <1>1, <2>1, RegisteredIs
<1>4. ASSUME NEW d \in Decisions, PruneFetch(d)
      PROVE  Goal
  <2>1. disk' = disk
    BY <1>4 DEF PruneFetch
  <2> QED BY <1>1, <1>4, <2>1, FetchedIs
<1>11. CASE PruneSave
  <2>1. mem' = mem /\ disk' \in {disk, mem'}
    BY <1>11 DEF PruneSave
  <2> QED BY <1>1, <2>1
<1>5. CASE DigestSent
  <2>1. mem' = [mem EXCEPT !.digest = today] /\ disk' = mem' /\ today \in 0..MaxDays
    BY <1>5 DEF DigestSent, IInv, Within
  <2>2. mem' \in StoredState
    BY <1>1, <2>1, StateChanged
  <2>3. mem'.offset = mem.offset /\ mem'.notifications = mem.notifications
    BY <1>1, <2>1 DEF StoredState
  <2> QED BY <1>1, <2>1, <2>2, <2>3
<1>6. CASE MarkProcessed
  <2> DEFINE p == Latest(Append(mem.processed, Current), MaxProcessed)
  <2>1. mem' = [mem EXCEPT !.processed = p] /\ disk' = disk
    BY <1>6 DEF MarkProcessed
  <2>2. Current \in Updates
    BY <1>6, CurrentFirst DEF MarkProcessed, IInv, Ordered, Handling
  <2>3. Append(mem.processed, Current) \in Seq(Updates)
    <3>1. mem.processed \in Seq(Updates)
      BY <1>1, StateFields DEF SeqOf
    <3> HIDE DEF Current
    <3> QED BY <2>2, <3>1
  <2>4. p \in SeqOf(Updates, MaxProcessed)
    <3>1. \A q \in Seq(Updates) : Latest(q, MaxProcessed) \in SeqOf(Updates, MaxProcessed)
      BY Bounds, LatestBounded
    <3> QED BY <2>3, <3>1, Zenon
  <2> HIDE DEF p
  <2>5. mem' \in StoredState
    BY <1>1, <2>1, <2>4, StateChanged
  <2>6. mem'.offset = mem.offset /\ mem'.notifications = mem.notifications
    BY <1>1, <2>1 DEF StoredState
  <2> QED BY <1>1, <2>1, <2>5, <2>6
<1>7. CASE AdvanceOffset
  <2>1. mem' = [mem EXCEPT !.offset = Max({mem.offset, Current})] /\ disk' = mem'
    BY <1>7 DEF AdvanceOffset
  <2>2. Current \in 0..MaxPresses /\ mem.offset \in 0..MaxPresses
    BY <1>1, <1>7, CurrentFirst, StateFields, Bounds
       DEF AdvanceOffset, IInv, Ordered, Handling, Updates
  <2>3. Max({mem.offset, Current}) \in 0..MaxPresses
    BY <2>2, Greater, Bounds
  <2>4. mem' \in StoredState
    BY <1>1, <2>1, <2>3, StateChanged
  <2>5. mem'.notifications = mem.notifications
    BY <1>1, <2>1 DEF StoredState
  <2> QED BY <1>1, <1>7, <2>1, <2>4, <2>5
<1>8. CASE Crash
  BY <1>1, <1>8 DEF Crash
<1> HIDE DEF Goal
<1>9. UNCHANGED <<mem, disk>> \/ DigestSent \/ (\E d \in Decisions : PruneFetch(d)) \/ PruneSave
         \/ MarkProcessed \/ AdvanceOffset \/ NotifySave
         \/ ~(NotifyStep \/ NotifyFails \/ PollStep \/ PruneFails \/ DigestFails \/ ApplyFails
                 \/ CallFails)
  BY DEF NotifyStep, NotifyGet, NotifyRefused, NotifySend, NotifyFails, PollStep, PruneFails, DigestNotDue,
         DigestDue, GetUpdates, Dispatch, GetDecision, ApplyRead, ApplySave, AnswerCallback, ClearKeyboard,
         DigestFails, ApplyFails, CallFails
<1>10. UNCHANGED <<mem, disk>> \/ ~(DigestHourPasses \/ UNCHANGED vars
         \/ (\E m \in DOMAIN messages, a \in Offered \cup {None} : Press(m, a))
         \/ RequestStep
         \/ (\E d \in Decisions, safe \in BOOLEAN : Notify(d, safe)))
  BY DEF Press, RequestStep, ElsewhereRead, ElsewhereSave, LateRead, LateSave, Notify, DigestHourPasses, vars
<1> QED BY <1>2, <1>3, <1>4, <1>5, <1>6, <1>7, <1>8, <1>9, <1>10, <1>11 DEF Next

LEMMA RememberStep ==
    ASSUME IInv, [Next]_vars
    PROVE  Remembered'
<1>1. ASSUME npc' # "idle"
      PROVE  mem'.notifications[note'.decision] = None
  <2>1. npc \in {"get", "send"} => note.decision \in Decisions /\ mem.notifications[note.decision] = None
    BY DEF IInv, TypeOK, Remembered
  <2>2. CASE UNCHANGED <<npc, note>>
    <3>1. note.decision \in Decisions /\ mem.notifications[note.decision] = None
      BY <1>1, <2>2 DEF IInv, TypeOK, Remembered
    <3> QED BY <1>1, <2>2, <3>1, MemoryStep
  <2>3. ASSUME NEW d \in Decisions, NEW safe \in BOOLEAN, Notify(d, safe)
        PROVE  mem'.notifications[note'.decision] = None
    BY <2>3 DEF Notify
  <2>4. CASE NotifyGet \/ NotifySend
    BY <1>1, <2>1, <2>4, MemoryStep DEF NotifyGet, NotifySend
  <2> QED BY <1>1, <2>2, <2>3, <2>4, NotifyControl
<1>2. ASSUME NEW d \in Decisions \ Closed', disk'.notifications[d] # None
      PROVE  mem'.notifications[d] = disk'.notifications[d]
  <2>1. d \in Decisions \ Closed
    BY <1>2, ApiStep
  <2> QED BY <1>2, <2>1, MemoryStep
<1> QED BY <1>1, <1>2 DEF Remembered

-----------------------------------------------------------------------------
\* The poll thread

\* Where its steps lead, and what they do to the updates in hand.
LEMMA PollControl ==
    ASSUME IInv, [Next]_vars
    PROVE  /\ \/ answered' = answered
              \/ ppc = "answer" /\ answered' = answered \cup {Current}
           /\ \/ batch' = {} /\ ppc' = "loop"
              \/ /\ UNCHANGED batch
                 /\ ppc' \in Handling => ppc \in Handling
                 /\ ppc' \in {"clear", "mark", "ack"} =>
                       ppc \in {"clear", "mark", "ack"} \/ Current \in answered'
              \/ /\ ppc = "poll" /\ ppc' = "handle" /\ batch' # {}
                 /\ batch' = {i \in DOMAIN presses : i > mem.offset}
              \/ AdvanceOffset
<1> DEFINE A == \/ answered' = answered
                \/ ppc = "answer" /\ answered' = answered \cup {Current}
           Same == /\ UNCHANGED batch
                   /\ ppc' \in Handling => ppc \in Handling
                   /\ ppc' \in {"clear", "mark", "ack"} =>
                         ppc \in {"clear", "mark", "ack"} \/ Current \in answered'
           Goal == /\ A
                   /\ \/ batch' = {} /\ ppc' = "loop"
                      \/ Same
                      \/ /\ ppc = "poll" /\ ppc' = "handle" /\ batch' # {}
                         /\ batch' = {i \in DOMAIN presses : i > mem.offset}
                      \/ AdvanceOffset
<1> SUFFICES Goal
  OBVIOUS
<1>1. CASE UNCHANGED <<ppc, batch, answered>>
  BY <1>1
<1>2. CASE DigestNotDue \/ DigestDue \/ (\E d \in Decisions : PruneFetch(d)) \/ PruneSave \/ DigestSent
  BY <1>2 DEF DigestNotDue, DigestDue, PruneFetch, PruneSave, DigestSent, Goto, telegram, Handling
<1>3. CASE PruneFails \/ DigestFails \/ ApplyFails \/ Crash
  BY <1>3 DEF PruneFails, DigestFails, ApplyFails, Crash, NextRound, telegram
<1>4. CASE CallFails
  <2>1. A
    BY <1>4 DEF CallFails
  <2> QED BY <1>4, <2>1 DEF CallFails, NextRound
<1>5. CASE GetUpdates
  BY <1>5 DEF GetUpdates, NextRound, telegram
<1>6. CASE Dispatch \/ GetDecision \/ ApplyRead \/ ApplySave
  <2>1. ppc \in Handling /\ ppc' \in {"get", "apply", "save", "answer"} /\ UNCHANGED <<batch, answered>>
    BY <1>6 DEF Dispatch, GetDecision, ApplyRead, ApplySave, Goto, telegram, Handling
  <2> QED BY <2>1
<1>7. CASE AnswerCallback
  <2>1. /\ ppc = "answer" /\ UNCHANGED batch
        /\ answered' = answered \cup {Current}
    BY <1>7 DEF AnswerCallback, Goto
  <2> QED BY <2>1 DEF Handling
<1>8. CASE ClearKeyboard \/ MarkProcessed
  BY <1>8 DEF ClearKeyboard, MarkProcessed, Goto, telegram, Handling
<1>9. CASE AdvanceOffset
  BY <1>9 DEF AdvanceOffset, telegram
<1> HIDE DEF Goal
<1>10. UNCHANGED <<ppc, batch, answered>>
          \/ ~(NotifyStep \/ NotifyFails \/ NotifySaveFails \/ UNCHANGED vars)
  BY DEF NotifyStep, NotifyGet, NotifyRefused, NotifySend, NotifySave, NotifyFails,
         NotifySaveFails, telegram, poll, vars
<1>11. UNCHANGED <<ppc, batch, answered>> \/ ~(DigestHourPasses
         \/ (\E m \in DOMAIN messages, a \in Offered \cup {None} : Press(m, a))
         \/ RequestStep
         \/ (\E d \in Decisions, safe \in BOOLEAN : Notify(d, safe)))
  BY DEF Press, RequestStep, ElsewhereRead, ElsewhereSave, LateRead, LateSave, Notify, DigestHourPasses, telegram, poll
<1> QED BY <1>1, <1>2, <1>3, <1>4, <1>5, <1>6, <1>7, <1>8, <1>9, <1>10, <1>11 DEF Next, PollStep

LEMMA AdvanceOrdered ==
    ASSUME IInv, AdvanceOffset
    PROVE  Ordered' /\ batch' \subseteq batch /\ UNCHANGED <<presses, answered>>
<1> DEFINE o == Max({mem.offset, Current})
<1>1. /\ ppc = "ack" /\ mem' = [mem EXCEPT !.offset = o] /\ disk' = mem'
      /\ batch' = batch \ {Current} /\ ppc' = IF batch' = {} THEN "loop" ELSE "handle"
      /\ UNCHANGED <<presses, answered>>
  BY DEF AdvanceOffset, telegram
<1>2. /\ mem \in StoredState /\ mem.offset \in Nat /\ batch # {} /\ Current \in answered
      /\ 1..mem.offset \subseteq answered /\ batch \subseteq DOMAIN presses
      /\ \A b \in batch : 1..b \subseteq batch \cup answered
  <2>1. mem \in StoredState /\ batch \subseteq DOMAIN presses
    BY DEF IInv, TypeOK
  <2>2. mem.offset \in Nat
    BY <2>1, StateFields, Bounds
  <2> QED BY <1>1, <2>1, <2>2 DEF IInv, Ordered, Handling
<1>3. /\ Current \in batch /\ Current \in Nat /\ \A b \in batch : Current <= b
  BY <1>2, CurrentFirst, Bounds DEF IInv, Updates
<1> HIDE DEF Current
<1>4. o \in {mem.offset, Current}
  BY <1>2, <1>3, Greater
<1>5. \A i \in 1..Current : i \in answered
  <2> SUFFICES ASSUME NEW i \in 1..Current PROVE i \in answered
    OBVIOUS
  <2>1. i \in batch \cup answered
    BY <1>2, <1>3
  <2>2. i \in batch => i = Current
    BY <1>3
  <2> QED BY <1>2, <2>1, <2>2
<1>6. 1..o \subseteq answered
  BY <1>2, <1>4, <1>5
<1>7. mem'.offset = o /\ disk'.offset = o
  <2> HIDE DEF o
  <2> QED BY <1>1, <1>2 DEF StoredState
<1>8. \A b \in batch' : 1..b \subseteq batch' \cup answered'
  BY <1>1, <1>2
<1>9. Ordered'
  <2> HIDE DEF o
  <2> QED BY <1>1, <1>6, <1>7, <1>8 DEF Ordered, Handling
<1> QED BY <1>1, <1>9

LEMMA OrderStep ==
    ASSUME IInv, [Next]_vars
    PROVE  Ordered' /\ batch' \subseteq DOMAIN presses' /\ answered' \subseteq DOMAIN presses'
<1>1. /\ DOMAIN presses \subseteq DOMAIN presses'
      /\ batch \subseteq DOMAIN presses /\ answered \subseteq DOMAIN presses
  BY QueueStep DEF IInv, TypeOK
<1>2. CASE AdvanceOffset
  BY <1>1, <1>2, AdvanceOrdered
<1>3. CASE ~AdvanceOffset
  <2>1. /\ answered \subseteq answered'
        /\ answered' \subseteq DOMAIN presses
    <3>1. ppc = "answer" => Current \in DOMAIN presses
      BY CurrentFirst DEF IInv, Ordered, Handling
    <3> HIDE DEF Current
    <3> QED BY <1>1, <3>1, PollControl
  <2>2. 1..mem'.offset \subseteq answered' /\ 1..disk'.offset \subseteq answered'
    <3>1. mem'.offset \in {mem.offset, disk.offset} /\ disk'.offset \in {mem.offset, disk.offset}
      BY <1>3, MemoryStep
    <3> QED BY <2>1, <3>1 DEF IInv, Ordered
  <2>3. CASE batch' = {} /\ ppc' = "loop"
    BY <1>1, <2>1, <2>2, <2>3 DEF Ordered, Handling
  <2>4. CASE /\ UNCHANGED batch
             /\ ppc' \in Handling => ppc \in Handling
             /\ ppc' \in {"clear", "mark", "ack"} =>
                   ppc \in {"clear", "mark", "ack"} \/ Current \in answered'
    <3>1. Current' = Current
      BY <2>4 DEF Current
    <3> HIDE DEF Current
    <3> QED BY <1>1, <2>1, <2>2, <2>4, <3>1 DEF IInv, Ordered
  <2>5. CASE /\ ppc = "poll" /\ ppc' = "handle" /\ batch' # {}
             /\ batch' = {i \in DOMAIN presses : i > mem.offset}
    <3>1. /\ Len(presses) \in Nat /\ DOMAIN presses = 1..Len(presses)
          /\ mem.offset \in Nat /\ 1..mem.offset \subseteq answered
      <4>1. mem \in StoredState
        BY DEF IInv, TypeOK
      <4>2. mem.offset \in Nat
        BY <4>1, StateFields, Bounds
      <4> QED BY <4>2, Elements DEF IInv, Ordered
    <3>2. \A b \in batch' : 1..b \subseteq batch' \cup answered'
      BY <2>1, <2>5, <3>1
    <3>3. batch' \subseteq DOMAIN presses
      BY <2>5
    <3> QED BY <1>1, <2>1, <2>2, <2>5, <3>2, <3>3 DEF Ordered
  <2> QED BY <1>3, <2>3, <2>4, <2>5, PollControl
<1> QED BY <1>2, <1>3

-----------------------------------------------------------------------------
\* The keyboards of the messages

\* Messages stay, and show their buttons until their decision is closed.
LEMMA MessagesStep ==
    ASSUME IInv, [Next]_vars
    PROVE  \A m \in DOMAIN messages :
               /\ m \in DOMAIN messages' /\ messages'[m].decision = messages[m].decision
               /\ messages[m].decision \notin Closed => messages'[m] = messages[m]
<1> DEFINE Goal == \A m \in DOMAIN messages :
               /\ m \in DOMAIN messages' /\ messages'[m].decision = messages[m].decision
               /\ messages[m].decision \notin Closed => messages'[m] = messages[m]
           M == [decision : Decisions, buttons : BOOLEAN]
<1> SUFFICES Goal
  OBVIOUS
<1>1. messages \in Seq(M)
  BY DEF IInv, TypeOK
<1>2. CASE UNCHANGED messages
  BY <1>2
<1>3. CASE ppc = "clear" /\ Cleared
  <2> DEFINE k == presses[Current].message
  <2>1. /\ Current \in DOMAIN presses /\ presses[Current].decision \in Closed
    BY <1>3, AtCurrent DEF Handling, IInv, Usable
  <2>2. k \in DOMAIN messages /\ messages[k].decision \in Closed
    <3> HIDE DEF Current
    <3> QED BY <2>1 DEF IInv, Usable
  <2>3. messages' = [messages EXCEPT ![k].buttons = FALSE]
    BY <1>3 DEF Cleared
  <2>4. /\ DOMAIN messages' = DOMAIN messages
        /\ \A m \in DOMAIN messages : m # k => messages'[m] = messages[m]
        /\ messages'[k] = [messages[k] EXCEPT !.buttons = FALSE]
    <3> HIDE DEF k
    <3> QED BY <1>1, <2>2, <2>3
  <2>5. messages[k] \in M
    <3> HIDE DEF k, M
    <3> QED BY <1>1, <2>2
  <2>6. messages'[k].decision = messages[k].decision
    <3> HIDE DEF k
    <3> QED BY <2>4, <2>5
  <2> HIDE DEF k
  <2> QED BY <2>2, <2>4, <2>6
<1>4. CASE Send
  <2> DEFINE x == [decision |-> note.decision, buttons |-> note.safe]
  <2>1. messages' = Append(messages, x)
    BY <1>4 DEF Send
  <2> HIDE DEF x, M
  <2>2. \A m \in DOMAIN messages : m \in DOMAIN messages' /\ messages'[m] = messages[m]
    BY <1>1, <2>1
  <2> QED BY <2>2
<1> HIDE DEF Goal
<1>5. CASE NotifyStep \/ NotifyFails \/ NotifySaveFails
  BY <1>2, <1>4, <1>5 DEF NotifyStep, NotifyGet, NotifyRefused, NotifySend, NotifySave, NotifyFails,
     NotifySaveFails, telegram
<1>6. CASE PollStep \/ PruneFails \/ DigestFails \/ ApplyFails \/ CallFails \/ Crash
  BY <1>2, <1>3, <1>6 DEF PollStep, DigestNotDue, DigestDue, PruneFetch, PruneSave, DigestSent,
     GetUpdates, Dispatch, GetDecision, ApplyRead, ApplySave, AnswerCallback, ClearKeyboard,
     MarkProcessed, AdvanceOffset, PruneFails, DigestFails, ApplyFails, CallFails, Crash, telegram
<1>7. CASE \/ \E m \in DOMAIN messages, a \in Offered \cup {None} : Press(m, a)
           \/ RequestStep
           \/ DigestHourPasses
           \/ \E d \in Decisions, safe \in BOOLEAN : Notify(d, safe)
           \/ UNCHANGED vars
  BY <1>2, <1>7 DEF Press, RequestStep, ElsewhereRead, ElsewhereSave, LateRead, LateSave,
     DigestHourPasses, Notify, telegram, vars
<1> QED BY <1>5, <1>6, <1>7 DEF Next

LEMMA ShowsStep ==
    ASSUME IInv, [Next]_vars, NEW n, NEW d \in Decisions, Shows(n, d)
    PROVE  /\ n.message \in DOMAIN messages'
           /\ d \notin Closed' => messages'[n.message] = [decision |-> d, buttons |-> n.safe]
<1>1. n.message \in DOMAIN messages' /\ Closed \subseteq Closed'
  BY MessagesStep, ApiStep DEF Shows
<1>2. ASSUME d \notin Closed'
      PROVE  messages'[n.message] = [decision |-> d, buttons |-> n.safe]
  <2>1. /\ n.message \in DOMAIN messages /\ d \notin Closed
        /\ messages[n.message] = [decision |-> d, buttons |-> n.safe]
    BY <1>1, <1>2 DEF Shows
  <2>2. messages[n.message].decision = d
    BY <2>1
  <2> QED BY <2>1, <2>2, MessagesStep
<1> QED BY <1>1, <1>2

\* A message that has just been sent.
LEMMA SentShows ==
    ASSUME IInv, npc = "send", Send
    PROVE  /\ Len(messages') \in DOMAIN messages'
           /\ messages'[Len(messages')] = [decision |-> note.decision, buttons |-> note.safe]
<1> DEFINE x == [decision |-> note.decision, buttons |-> note.safe]
           M == [decision : Decisions, buttons : BOOLEAN]
<1>1. messages \in Seq(M) /\ messages' = Append(messages, x)
  BY DEF Send, IInv, TypeOK
<1>2. note.decision \in Decisions /\ note.safe \in BOOLEAN
  BY DEF IInv, TypeOK
<1>3. x \in M
  BY <1>2
<1>4. Len(messages') \in DOMAIN messages' /\ messages'[Len(messages')] = x
  <2> HIDE DEF x, M
  <2> QED BY <1>1, <1>3
<1> QED BY <1>4 DEF x

\* The verdict on a press, and what it says of its decision.
LEMMA VerdictStep ==
    ASSUME IInv, [Next]_vars
    PROVE  /\ ppc' \in {"apply", "save"} =>
                 ~(presses'[Current'].action = "DEFER" /\ presses'[Current'].decision \in Hard)
           /\ ppc' = "clear" \/ (ppc' = "answer" /\ Clears') => presses'[Current'].decision \in Closed'
<1> DEFINE Allowed == ~(presses[Current].action = "DEFER" /\ presses[Current].decision \in Hard)
           Done == presses[Current].decision \in Closed
           A == ppc' \in {"apply", "save"} => Allowed'
           B == ppc' = "clear" \/ (ppc' = "answer" /\ Clears') => Done'
           Same == UNCHANGED batch /\ ppc \in Handling
<1> SUFFICES A /\ B
  OBVIOUS
<1>1. /\ ppc \in {"apply", "save"} => Allowed
      /\ ppc = "clear" \/ (ppc = "answer" /\ Clears) => Done
      /\ Closed \subseteq Closed'
  BY ApiStep DEF IInv, Usable
<1>2. ASSUME UNCHANGED batch, ppc \in Handling
      PROVE  /\ Current' = Current /\ presses'[Current'] = presses[Current]
             /\ Allowed' = Allowed /\ (Done => Done')
  <2>1. Current' = Current
    BY <1>2 DEF Current
  <2>2. Current \in DOMAIN presses
    BY <1>2, AtCurrent
  <2>3. presses'[Current'] = presses[Current]
    <3> HIDE DEF Current
    <3> QED BY <2>1, <2>2, QueueStep
  <2> HIDE DEF Current
  <2> QED BY <1>1, <2>1, <2>3
<1>3. CASE UNCHANGED <<ppc, batch, verdict>>
  <2>1. CASE ppc \in Handling
    <3>1. Clears' = Clears
      BY <1>2, <1>3, <2>1 DEF Clears
    <3> HIDE DEF Allowed, Done
    <3> QED BY <1>1, <1>2, <1>3, <2>1, <3>1
  <2>2. CASE ppc \notin Handling
    BY <1>3, <2>2 DEF Handling
  <2> QED BY <2>1, <2>2
<1>4. CASE Dispatch
  <2>1. ppc' = "get" \/ (ppc' = "answer" /\ verdict' \in {"already_processed", "rejected"})
    BY <1>4 DEF Dispatch, Goto
  <2> QED BY <2>1 DEF Clears
<1>5. CASE GetDecision
  <2>1. \/ ppc' = "apply" /\ Allowed
        \/ ppc' = "answer" /\ verdict' = "rejected"
    BY <1>5 DEF GetDecision, Goto
  <2>2. UNCHANGED batch /\ ppc \in Handling
    BY <1>5 DEF GetDecision, Goto, Handling
  <2>3. Allowed' = Allowed
    BY <1>2, <2>2
  <2> HIDE DEF Allowed, Done
  <2> QED BY <2>1, <2>3 DEF Clears
<1>6. CASE ApplyRead
  <2>1. UNCHANGED batch /\ ppc = "apply" /\ ppc \in Handling
    BY <1>6 DEF ApplyRead, Goto, Handling
  <2>2. \/ ppc' = "save"
        \/ ppc' = "answer" /\ (Allowed => forge[presses[Current].decision] # "OPEN")
    BY <1>6 DEF ApplyRead, Accepts, Goto
  <2>3. forge[presses[Current].decision] # "OPEN" => Done
    <3> HIDE DEF Current
    <3>1. presses[Current].decision \in Decisions
      BY <2>1, AtCurrent DEF Handling
    <3> QED BY <3>1 DEF IInv, Resolved, Closed
  <2> HIDE DEF Allowed, Done
  <2> QED BY <1>1, <1>2, <2>1, <2>2, <2>3
<1>7. CASE ApplySave
  <2>1. /\ UNCHANGED batch /\ ppc \in Handling /\ ppc' = "answer" /\ verdict' = "applied"
        /\ SavePress(Current)
    BY <1>7 DEF ApplySave, Handling
  <2>2. PICK d \in {presses[Current].decision} : Save(d, After(presses[Current].action))
    BY <2>1 DEF SavePress
  <2>3. ASSUME presses[Current].action \in Final
        PROVE  Done'
    <3>1. d \in Decisions /\ d = presses[Current].decision /\ resolutions \in [Decisions -> Nat]
      BY <2>1, AtCurrent DEF IInv, TypeOK
    <3>2. After(presses[Current].action) = "RESOLVED"
      BY <2>3 DEF After
    <3>3. Save(d, "RESOLVED")
      BY <2>2, <3>2
    <3>4. resolutions'[d] = resolutions[d] + 1
      BY <3>1, <3>3, SavedIs
    <3>5. d \in Closed'
      BY <3>1, <3>4 DEF Closed
    <3>6. presses'[Current'] = presses[Current]
      BY <1>2, <2>1
    <3> HIDE DEF Current
    <3> QED BY <3>1, <3>5, <3>6
  <2>4. Clears' => presses[Current].action \in Final
    <3>1. presses'[Current'] = presses[Current]
      BY <1>2, <2>1
    <3> QED BY <2>1, <3>1 DEF Clears
  <2> HIDE DEF Allowed, Done, Current
  <2> QED BY <2>1, <2>3, <2>4
<1>8. CASE AnswerCallback
  <2>1. /\ UNCHANGED batch /\ ppc \in Handling /\ ppc = "answer"
        /\ ppc' \in {"ack", "clear", "mark"} /\ (ppc' = "clear" => Clears)
    BY <1>8 DEF AnswerCallback, Goto, Handling
  <2> HIDE DEF Allowed, Done
  <2> QED BY <1>1, <1>2, <2>1
<1>9. ppc' \notin {"apply", "save", "answer", "clear"} => A /\ B
  OBVIOUS
<1> HIDE DEF A, B
<1>10. CASE PollStep \/ PruneFails \/ DigestFails \/ ApplyFails \/ CallFails \/ Crash
  <2>1. CASE ~(Dispatch \/ GetDecision \/ ApplyRead \/ ApplySave \/ AnswerCallback)
    <3>1. ppc' \notin {"apply", "save", "answer", "clear"} \/ UNCHANGED <<ppc, batch, verdict>>
      BY <1>10, <2>1 DEF PollStep, DigestNotDue, DigestDue, PruneFetch, PruneSave, DigestSent,
         GetUpdates, ClearKeyboard, MarkProcessed, AdvanceOffset, PruneFails, DigestFails, ApplyFails,
         CallFails, Crash, Goto, NextRound
    <3> QED BY <1>3, <1>9, <3>1
  <2> QED BY <1>4, <1>5, <1>6, <1>7, <1>8, <2>1
<1>11. UNCHANGED <<ppc, batch, verdict>> \/ ~(UNCHANGED vars \/ DigestHourPasses \/ RequestStep
         \/ NotifyStep \/ NotifyFails \/ NotifySaveFails
         \/ (\E m \in DOMAIN messages, a \in Offered \cup {None} : Press(m, a))
         \/ \E d \in Decisions, safe \in BOOLEAN : Notify(d, safe))
  BY DEF vars, poll, DigestHourPasses, RequestStep, ElsewhereRead, ElsewhereSave, LateRead, LateSave,
         NotifyStep, NotifyGet, NotifyRefused, NotifySend, NotifySave, NotifyFails, NotifySaveFails,
         Notify, Press
<1> QED BY <1>3, <1>10, <1>11 DEF Next

LEMMA UsableStep ==
    ASSUME IInv, [Next]_vars
    PROVE  Usable'
<1>1. ASSUME NEW i \in DOMAIN presses'
      PROVE  /\ presses'[i].message \in DOMAIN messages'
             /\ messages'[presses'[i].message].decision = presses'[i].decision
  <2>1. CASE i \in DOMAIN presses
    <3>1. /\ presses'[i] = presses[i] /\ presses[i].message \in DOMAIN messages
          /\ messages[presses[i].message].decision = presses[i].decision
      BY <2>1, QueueStep DEF IInv, Usable
    <3> QED BY <3>1, MessagesStep
  <2>2. ASSUME NEW m \in DOMAIN messages, NEW a \in Offered \cup {None}, Press(m, a),
               i \notin DOMAIN presses
        PROVE  /\ presses'[i].message \in DOMAIN messages'
               /\ messages'[presses'[i].message].decision = presses'[i].decision
    <3>1. presses'[i] = [decision |-> messages[m].decision, action |-> a, message |-> m]
      BY <1>1, <2>2, PressNew
    <3>2. presses'[i].message = m /\ presses'[i].decision = messages[m].decision
      BY <3>1
    <3> QED BY <3>2, MessagesStep
  <2> QED BY <1>1, <2>1, <2>2, QueueStep
<1>2. npc' = "save" => (Shows([safe |-> note.safe, message |-> Len(messages)], note.decision))'
  <2>1. CASE npc = "save" /\ UNCHANGED <<npc, note>>
    <3> DEFINE n == [safe |-> note.safe, message |-> Len(messages)]
    <3>1. /\ Shows(n, note.decision) /\ note.decision \in Decisions
          /\ note' = note /\ n.safe = note.safe /\ n.message = Len(messages)
      BY <2>1 DEF IInv, TypeOK, Usable
    <3>2. Len(messages') = Len(messages)
      BY <2>1, ChatStep
    <3>3. /\ n.message \in DOMAIN messages'
          /\ note.decision \notin Closed'
                => messages'[n.message] = [decision |-> note.decision, buttons |-> n.safe]
      <4> HIDE DEF n
      <4> QED BY <3>1, ShowsStep
    <3> QED BY <3>1, <3>2, <3>3 DEF Shows
  <2>2. CASE NotifySend
    <3>1. npc = "send" /\ Send /\ note' = note
      BY <2>2 DEF NotifySend
    <3> QED BY <3>1, SentShows DEF Shows
  <2>3. ASSUME NEW d \in Decisions, NEW safe \in BOOLEAN, Notify(d, safe)
        PROVE  npc' # "save"
    BY <2>3 DEF Notify
  <2>4. CASE NotifyGet
    BY <2>4 DEF NotifyGet
  <2> QED BY <2>1, <2>2, <2>3, <2>4, NotifyControl
<1>3. ASSUME NEW d \in Decisions, mem'.notifications[d] # None
      PROVE  (Shows(mem.notifications[d], d))'
  <2>1. CASE mem'.notifications[d] \in {mem.notifications[d], disk.notifications[d], None}
    <3>1. Shows(mem'.notifications[d], d)
      BY <1>3, <2>1 DEF IInv, Usable
    <3> QED BY <3>1, ShowsStep DEF Shows
  <2>2. CASE /\ npc = "save" /\ UNCHANGED messages /\ d = note.decision
             /\ mem'.notifications[d] = [safe |-> note.safe, message |-> Len(messages)]
    <3>1. Shows(mem'.notifications[d], d)
      BY <2>2 DEF IInv, Usable
    <3> QED BY <3>1, ShowsStep DEF Shows
  <2> QED BY <2>1, <2>2, MemoryStep
<1>4. ASSUME NEW d \in Decisions, disk'.notifications[d] # None
      PROVE  (Shows(disk.notifications[d], d))'
  <2>1. CASE disk' = disk
    <3>1. Shows(disk'.notifications[d], d)
      BY <1>4, <2>1 DEF IInv, Usable
    <3> QED BY <3>1, ShowsStep DEF Shows
  <2>2. CASE disk' = mem'
    BY <1>3, <1>4, <2>2 DEF Shows
  <2> QED BY <2>1, <2>2, MemoryStep
<1> QED BY <1>1, <1>2, <1>3, <1>4, VerdictStep DEF Usable

-----------------------------------------------------------------------------
LEMMA PruneStep ==
    ASSUME IInv, [Next]_vars
    PROVE  unfetched' \subseteq Decisions /\ changed' \in BOOLEAN
<1>1. unfetched \subseteq Decisions /\ changed \in BOOLEAN
  BY DEF IInv, TypeOK
<1>2. CASE UNCHANGED prune
  BY <1>1, <1>2 DEF prune
<1>3. CASE NextRound
  BY <1>3 DEF NextRound
<1>4. CASE PollStep
  BY <1>1, <1>2, <1>3, <1>4 DEF PollStep, DigestNotDue, DigestDue, PruneFetch, PruneSave, DigestSent,
     GetUpdates, Dispatch, GetDecision, ApplyRead, ApplySave, AnswerCallback, ClearKeyboard,
     MarkProcessed, AdvanceOffset, Goto, Known
<1>5. CASE PruneFails \/ DigestFails \/ ApplyFails \/ CallFails \/ Crash
  BY <1>3, <1>5 DEF PruneFails, DigestFails, ApplyFails, CallFails, Crash
<1>6. UNCHANGED prune \/ ~(UNCHANGED vars \/ DigestHourPasses \/ RequestStep
         \/ NotifyStep \/ NotifyFails \/ NotifySaveFails
         \/ (\E m \in DOMAIN messages, a \in Offered \cup {None} : Press(m, a))
         \/ \E d \in Decisions, safe \in BOOLEAN : Notify(d, safe))
  BY DEF vars, poll, DigestHourPasses, RequestStep, ElsewhereRead, ElsewhereSave, LateRead, LateSave,
         NotifyStep, NotifyGet, NotifyRefused, NotifySend, NotifySave, NotifyFails, NotifySaveFails,
         Notify, Press
<1> QED BY <1>2, <1>4, <1>5, <1>6 DEF Next

LEMMA TypeStep ==
    ASSUME IInv, [Next]_vars
    PROVE  TypeOK'
<1>1. mem' \in StoredState /\ disk' \in StoredState
  BY MemoryStep
<1>2. /\ forge' \in [Decisions -> {"OPEN", "RESOLVED"}]
      /\ resolutions' \in [Decisions -> Nat] /\ overlapped' \subseteq Decisions
      /\ late' \in [Updates -> Nat] /\ saving' \in [Updates -> Nat]
      /\ elsewhere' \in [Decisions -> {None, "OPEN", "RESOLVED"}]
  BY ApiStep, RequestsStep
<1>3. /\ messages' \in Seq([decision : Decisions, buttons : BOOLEAN])
      /\ presses' \in Seq([decision : Decisions, action : Offered \cup {None},
                           message : 1..MaxMessages])
      /\ answered' \subseteq DOMAIN presses' /\ batch' \subseteq DOMAIN presses'
  BY ChatStep, QueueStep, OrderStep
<1> QED BY <1>1, <1>2, <1>3, PruneStep, ControlStep DEF TypeOK

LEMMA Start == Init => IInv
<1> SUFFICES ASSUME Init PROVE IInv
  OBVIOUS
<1>1. EmptyState \in StoredState
  <2>1. <<>> \in SeqOf(Updates, MaxProcessed)
    <3>1. <<>> \in [1..0 -> Updates] /\ 0 \in 0..MaxProcessed
      BY Bounds
    <3> QED BY <3>1 DEF SeqOf
  <2> QED BY <2>1, Bounds DEF EmptyState, StoredState
<1>2. TypeOK
  <2>1. messages = <<>> /\ presses = <<>> /\ DOMAIN <<>> = {}
    BY DEF Init
  <2>2. /\ <<>> \in Seq([decision : Decisions, buttons : BOOLEAN])
        /\ <<>> \in Seq([decision : Decisions, action : Offered \cup {None},
                         message : 1..MaxMessages])
    OBVIOUS
  <2>3. /\ late \in [Updates -> Nat] /\ saving \in [Updates -> Nat]
        /\ elsewhere \in [Decisions -> {None, "OPEN", "RESOLVED"}]
        /\ resolutions \in [Decisions -> Nat] /\ overlapped \subseteq Decisions
        /\ forge \in [Decisions -> {"OPEN", "RESOLVED"}]
    BY DEF Init
  <2>4. /\ lock = "free" /\ ppc = "loop" /\ npc = "idle" /\ batch = {} /\ answered = {}
        /\ unfetched = {} /\ changed = FALSE
        /\ mem \in StoredState /\ disk \in StoredState
    BY <1>1 DEF Init
  <2> QED BY <2>1, <2>2, <2>3, <2>4 DEF TypeOK
<1>3. Within
  BY Bounds DEF Init, Within
<1>4. Ordered /\ Remembered
  BY Bounds DEF Init, Ordered, Remembered, EmptyState, Handling, Updates
<1>5. Resolved /\ Usable
  BY DEF Init, Resolved, Outstanding, Usable, EmptyState
<1> QED BY <1>2, <1>3, <1>4, <1>5 DEF IInv

LEMMA Invariance == Spec => []IInv
<1>1. IInv /\ [Next]_vars => IInv'
  BY TypeStep, WithinStep, OrderStep, ApiStep, RememberStep, UsableStep DEF IInv
<1> QED BY <1>1, Start, PTL DEF Spec

(***************************************************************************)
(* Every variable of the two threads, of the two copies of the state and   *)
(* of the APIs keeps its type, the lock is held exactly while the notify   *)
(* thread works or a digest is prepared, and only updates that Telegram    *)
(* holds are handled or answered.                                          *)
(***************************************************************************)
THEOREM TypeCorrect == Spec => []TypeOK
<1>1. IInv => TypeOK
  BY DEF IInv
<1> QED BY <1>1, Invariance, PTL

(***************************************************************************)
(* An update is confirmed to Telegram only after its press has been        *)
(* answered, whatever calls fail and whenever the process dies.            *)
(***************************************************************************)
THEOREM ConfirmedAfterAnswer == Spec => []ConfirmedAnswered
<1>1. IInv => ConfirmedAnswered
  BY DEF IInv, Ordered, ConfirmedAnswered
<1> QED BY <1>1, Invariance, PTL

(***************************************************************************)
(* Presses that are retried, lost, handled late or raced by another        *)
(* interface resolve a decision once and for good, unless it was resolved  *)
(* while another request had read it as open and was still to save it.     *)
(***************************************************************************)
THEOREM ResolvesOnce == Spec => []ResolvedOnce
<1>1. IInv => ResolvedOnce
  BY DEF IInv, Resolved, ResolvedOnce
<1> QED BY <1>1, Invariance, PTL

(***************************************************************************)
(* As long as a decision has not been resolved, the message registered for *)
(* it keeps its buttons, whatever is pressed, refused, retried or lost.    *)
(***************************************************************************)
THEOREM KeyboardsStay == Spec => []OpenCanBePressed
<1>1. IInv => OpenCanBePressed
  BY DEF IInv, Usable, Shows, OpenCanBePressed
<1> QED BY <1>1, Invariance, PTL

(***************************************************************************)
(* No save of either thread drops or changes the registration of a         *)
(* decision that has not been resolved, once the state file has it.        *)
(***************************************************************************)
THEOREM RegistrationKept == Spec => OpenStaysRegistered
<1>1. IInv /\ [Next]_vars
        => [\A d \in Decisions \ Closed :
               disk.notifications[d] # None
                  => disk'.notifications[d] = disk.notifications[d]]_disk
  BY MemoryStep
<1> QED BY <1>1, Invariance, PTL DEF Spec, OpenStaysRegistered
=============================================================================
