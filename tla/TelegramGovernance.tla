-------------------------- MODULE TelegramGovernance --------------------------
(***************************************************************************)
(* The Telegram owner channel: TelegramGovernanceService with its two      *)
(* threads (the poll loop of run_forever, and the notify endpoint on the   *)
(* Unix socket, which holds the service lock while it talks to Forge and   *)
(* Telegram), its state file, crashes and restarts, and the failures of    *)
(* the two HTTP APIs it calls.                                             *)
(*                                                                         *)
(* External, as the code uses it: Telegram keeps updates until an offset   *)
(* confirms them, and a failed call may or may not have taken effect.  The *)
(* governance API reads a decision and saves the result of an owner action *)
(* in two transactions, possibly after the caller gave up (DecisionStore   *)
(* looks inside).                                                          *)
(*                                                                         *)
(*   forge     status of each decision in the governance API               *)
(*   messages  the messages sent to the owner's chat, by message id        *)
(*   presses   the callback updates Telegram holds, by update id           *)
(*   mem, disk the TelegramState in memory and in the state file; offset   *)
(*             is the last confirmed update id (update_offset - 1)         *)
(*   lock      who holds the service lock across a network call            *)
(*   today     number of digest hours that have passed                     *)
(*   ppc, batch, verdict   the poll thread; unfetched, changed: its local  *)
(*             variables in _open_notifications_and_prune                  *)
(*   npc, note             the notify thread                               *)
(*   late      owner-action requests of each press whose caller gave up    *)
(*             and that have not read their decision yet                   *)
(*   saving    those that have read it as open and go on to save it        *)
(*   elsewhere what the request of another interface on each decision,     *)
(*             which has read it as open, is going to save                 *)
(*   resolutions  history: how often a request resolved each decision      *)
(*   overlapped   history: the decisions resolved while another request    *)
(*             that had read them as open was still to save them           *)
(*   answered  history: the presses the owner has seen answered            *)
(*   faults    failures so far                                             *)
(***************************************************************************)
EXTENDS Integers, Sequences, FiniteSets, SequencesExt, FiniteSetsExt

CONSTANTS Decisions,    \* decision ids
          Hard,         \* those that do not allow DEFER
          Shared,       \* bound: the decisions that other interfaces act on
          Offered,      \* bound: the owner actions that are pressed
          MaxProcessed, \* _MAX_PROCESSED_CALLBACKS
          MaxPresses,   \* bound on callback updates
          MaxMessages,  \* bound on notification messages
          MaxDays,      \* bound on digest hours
          MaxFaults,    \* bound on failed calls, failed saves and crashes
          None          \* no notification, no request, no action

Final == {"YES", "NO"}

ASSUME OfferedAssumption == Offered \subseteq {"YES", "NO", "DEFER", "MORE_INFO"}
ASSUME SubsetAssumption == Hard \subseteq Decisions /\ Shared \subseteq Decisions
ASSUME BoundAssumption ==
    {MaxProcessed, MaxPresses, MaxMessages, MaxDays, MaxFaults} \subseteq Nat \ {0}

Updates == 1..MaxPresses

VARIABLES forge, messages, presses, mem, disk, lock, today, ppc, batch, verdict, unfetched,
          changed, npc, note, late, saving, elsewhere, resolutions, overlapped, answered, faults

telegram == <<messages, presses, answered>>
requests == <<late, saving, elsewhere>>
past == <<resolutions, overlapped>>
api == <<forge, requests, past>>
prune == <<unfetched, changed>>
poll == <<ppc, batch, verdict, prune>>
notify == <<npc, note>>
vars == <<telegram, api, mem, disk, lock, today, poll, notify, faults>>

EmptyState ==
    [offset |-> 0, notifications |-> [d \in Decisions |-> None], processed |-> <<>>, digest |-> 0]

Init ==
    /\ forge = [d \in Decisions |-> "OPEN"]
    /\ messages = <<>>
    /\ presses = <<>>
    /\ mem = EmptyState
    /\ disk = EmptyState
    /\ lock = "free"
    /\ today = 0
    /\ ppc = "loop"
    /\ batch = {}
    /\ verdict = "none"
    /\ unfetched = {}
    /\ changed = FALSE
    /\ npc = "idle"
    /\ note = None
    /\ late = [i \in Updates |-> 0]
    /\ saving = [i \in Updates |-> 0]
    /\ elsewhere = [d \in Decisions |-> None]
    /\ resolutions = [d \in Decisions |-> 0]
    /\ overlapped = {}
    /\ answered = {}
    /\ faults = 0

\* The update being handled: updates are handled in the order of their ids.
Current == Min(batch)

-----------------------------------------------------------------------------
(***************************************************************************)
(* The owner, other callers of the governance API, and time.               *)
(***************************************************************************)
\* A button of a message that still shows its keyboard is pressed, or (None) an
\* update arrives that is not the owner's or does not authenticate.  A keyboard may
\* offer DEFER for a decision in Hard: two creations that race under one id can store
\* different classifications (DecisionStore), with the message sent in between.
Press(m, a) ==
    /\ Len(presses) < MaxPresses
    /\ messages[m].buttons
    /\ presses' = Append(presses, [decision |-> messages[m].decision, action |-> a, message |-> m])
    /\ UNCHANGED <<messages, answered, api, mem, disk, lock, today, poll, notify, faults>>

DigestHourPasses ==
    /\ today < MaxDays
    /\ today' = today + 1
    /\ UNCHANGED <<telegram, api, mem, disk, lock, poll, notify, faults>>

-----------------------------------------------------------------------------
(***************************************************************************)
(* POST .../owner-action inside the governance API: the decision is read,  *)
(* checked and saved whole, without a lock over the two transactions.      *)
(***************************************************************************)
\* Mutant: a decision that is already resolved accepts another action.
AcceptsAgain(d, a) == a = "DEFER" => d \notin Hard

\* apply_owner_action raises for the rest, and HTTP 409 is the answer.
Accepts(d, a) == forge[d] = "OPEN" /\ (a = "DEFER" => d \notin Hard)

After(a) == IF a \in Final THEN "RESOLVED" ELSE "OPEN"

\* A request that has read the decision as open is still to save it.
Outstanding(d) ==
    \/ elsewhere[d] # None
    \/ ppc = "save" /\ presses[Current].decision = d
    \/ \E i \in DOMAIN presses : presses[i].decision = d /\ saving[i] > 0

\* save_decision writes the status computed from what was read, whatever it is now.
Save(d, status) ==
    /\ forge' = [forge EXCEPT ![d] = status]
    /\ IF status = "OPEN" THEN UNCHANGED past
       ELSE /\ resolutions' = [resolutions EXCEPT ![d] = @ + 1]
            /\ overlapped' = IF Outstanding(d)' THEN overlapped \cup {d} ELSE overlapped

\* What the request of press i saves.
SavePress(i) == \E d \in {presses[i].decision} : Save(d, After(presses[i].action))

\* A request whose caller gave up is handled after all.
LateRead(i) ==
    /\ late[i] > 0
    /\ late' = [late EXCEPT ![i] = @ - 1]
    /\ saving' = IF Accepts(presses[i].decision, presses[i].action)
                 THEN [saving EXCEPT ![i] = @ + 1] ELSE saving
    /\ UNCHANGED <<telegram, forge, elsewhere, past, mem, disk, lock, today, poll, notify, faults>>

LateSave(i) ==
    /\ saving[i] > 0
    /\ saving' = [saving EXCEPT ![i] = @ - 1]
    /\ UNCHANGED <<telegram, late, elsewhere, mem, disk, lock, today, poll, notify, faults>>
    /\ SavePress(i)

\* The same request from another trusted interface, one at a time for a decision.
ElsewhereRead(d, a) ==
    /\ elsewhere[d] = None
    /\ Accepts(d, a)
    /\ elsewhere' = [elsewhere EXCEPT ![d] = After(a)]
    /\ UNCHANGED <<telegram, forge, late, saving, past, mem, disk, lock, today, poll, notify, faults>>

ElsewhereSave(d) ==
    /\ elsewhere[d] # None
    /\ elsewhere' = [elsewhere EXCEPT ![d] = None]
    /\ UNCHANGED <<telegram, late, saving, mem, disk, lock, today, poll, notify, faults>>
    /\ Save(d, elsewhere[d])

Fault == faults < MaxFaults /\ faults' = faults + 1

-----------------------------------------------------------------------------
(***************************************************************************)
(* register_notification.  The lock is held from Notify to its end.        *)
(***************************************************************************)
\* Mutant: the lock is not released.
EndNotifyKeepsLock == npc' = "idle" /\ note' = None /\ UNCHANGED lock

EndNotify == lock' = "free" /\ npc' = "idle" /\ note' = None

\* A decision that is registered is answered from memory, with success or HTTP
\* 409, and nothing changes; any other one takes the lock and is fetched.
Notify(d, safe) ==
    /\ npc = "idle"
    /\ lock = "free"
    /\ mem.notifications[d] = None
    /\ Len(messages) < MaxMessages
    /\ lock' = "notify"
    /\ npc' = "get"
    /\ note' = [decision |-> d, safe |-> safe]
    /\ UNCHANGED <<telegram, api, mem, disk, today, poll, faults>>

NotifyGet ==
    /\ npc = "get"
    /\ forge[note.decision] = "OPEN"
    /\ npc' = "send"
    /\ UNCHANGED <<telegram, api, mem, disk, lock, today, poll, note, faults>>

\* Only an open decision can be notified.
NotifyRefused ==
    /\ npc = "get"
    /\ forge[note.decision] # "OPEN"
    /\ EndNotify
    /\ UNCHANGED <<telegram, api, mem, disk, today, poll, faults>>

Send == messages' = Append(messages, [decision |-> note.decision, buttons |-> note.safe])

NotifySend ==
    /\ npc = "send"
    /\ Send
    /\ npc' = "save"
    /\ UNCHANGED <<presses, answered, api, mem, disk, lock, today, poll, note, faults>>

\* A call of the notify thread fails; the message may have been sent.
NotifyFails ==
    /\ npc \in {"get", "send"}
    /\ Fault
    /\ \/ UNCHANGED messages
       \/ npc = "send" /\ Send
    /\ EndNotify
    /\ UNCHANGED <<presses, answered, api, mem, disk, today, poll>>

Registered ==
    [mem EXCEPT !.notifications[note.decision] = [safe |-> note.safe, message |-> Len(messages)]]

\* Mutant: the notification is not remembered before the lock is released.
NotifySaveForgets ==
    /\ npc = "save"
    /\ disk' = Registered
    /\ EndNotify
    /\ UNCHANGED <<telegram, api, mem, today, poll, faults>>

NotifySave ==
    /\ npc = "save"
    /\ mem' = Registered
    /\ disk' = mem'
    /\ EndNotify
    /\ UNCHANGED <<telegram, api, today, poll, faults>>

\* The state file cannot be written: HTTP 500, but memory keeps the entry.
NotifySaveFails ==
    /\ npc = "save"
    /\ Fault
    /\ mem' = Registered
    /\ EndNotify
    /\ UNCHANGED <<telegram, api, disk, today, poll>>

-----------------------------------------------------------------------------
(***************************************************************************)
(* maybe_send_daily_digest, the first half of a round of run_forever.      *)
(***************************************************************************)
Goto(step) == ppc' = step /\ UNCHANGED <<batch, verdict, prune>>

\* An exception: run_forever sleeps and starts the round again.
NextRound ==
    /\ ppc' = "loop"
    /\ batch' = {}
    /\ verdict' = "none"
    /\ unfetched' = {}
    /\ changed' = FALSE

DigestNotDue ==
    /\ ppc = "loop"
    /\ lock = "free"
    /\ mem.digest = today
    /\ Goto("poll")
    /\ UNCHANGED <<telegram, api, mem, disk, lock, today, notify, faults>>

Known == {d \in Decisions : mem.notifications[d] # None}

\* The lock is held from here to the end of the digest.
DigestDue ==
    /\ ppc = "loop"
    /\ lock = "free"
    /\ mem.digest # today
    /\ lock' = "poll"
    /\ ppc' = "prune"
    /\ unfetched' = Known
    /\ UNCHANGED <<telegram, api, mem, disk, today, batch, verdict, changed, notify, faults>>

\* _open_notifications_and_prune fetches the registered decisions one by one (in
\* any order here) and saves at the end if it dropped one.
PruneFetch(d) ==
    /\ ppc = "prune"
    /\ d \in unfetched
    /\ unfetched' = unfetched \ {d}
    /\ IF forge[d] = "OPEN" THEN UNCHANGED <<mem, changed>>
       ELSE mem' = [mem EXCEPT !.notifications[d] = None] /\ changed' = TRUE
    /\ UNCHANGED <<telegram, api, disk, lock, today, ppc, batch, verdict, notify, faults>>

PruneSave ==
    /\ ppc = "prune"
    /\ unfetched = {}
    /\ disk' = IF changed THEN mem ELSE disk
    /\ changed' = FALSE
    /\ ppc' = "digest"
    /\ UNCHANGED <<telegram, api, mem, lock, today, batch, verdict, unfetched, notify, faults>>

\* A call fails: what has left memory stays away, and nothing is saved.
PruneFails ==
    /\ ppc = "prune"
    /\ unfetched # {}
    /\ Fault
    /\ lock' = "free"
    /\ NextRound
    /\ UNCHANGED <<telegram, api, mem, disk, today, notify>>

\* The digest is sent and its date saved.
DigestSent ==
    /\ ppc = "digest"
    /\ mem' = [mem EXCEPT !.digest = today]
    /\ disk' = mem'
    /\ lock' = "free"
    /\ Goto("poll")
    /\ UNCHANGED <<telegram, api, today, notify, faults>>

DigestFails ==
    /\ ppc = "digest"
    /\ Fault
    /\ lock' = "free"
    /\ NextRound
    /\ UNCHANGED <<telegram, api, mem, disk, today, notify>>

-----------------------------------------------------------------------------
(***************************************************************************)
(* poll_once and _handle_update.                                           *)
(***************************************************************************)
\* Mutant: the offset is advanced when updates arrive.
GetUpdatesConfirms ==
    /\ ppc = "poll"
    /\ LET got == {i \in DOMAIN presses : i > mem.offset}
       IN  IF got = {} THEN NextRound /\ UNCHANGED <<mem, disk>>
           ELSE /\ ppc' = "handle" /\ batch' = got /\ UNCHANGED <<verdict, prune>>
                /\ mem' = [mem EXCEPT !.offset = Max(got)]
                /\ disk' = mem'
    /\ UNCHANGED <<telegram, api, lock, today, notify, faults>>

GetUpdates ==
    /\ ppc = "poll"
    /\ LET got == {i \in DOMAIN presses : i > mem.offset}
       IN  IF got = {} THEN NextRound
           ELSE ppc' = "handle" /\ batch' = got /\ UNCHANGED <<verdict, prune>>
    /\ UNCHANGED <<telegram, api, mem, disk, lock, today, notify, faults>>

\* The two sections under the lock: has the callback been processed, and is there
\* one actionable notification for its decision?
Dispatch ==
    /\ ppc = "handle"
    /\ lock = "free"
    /\ LET p == presses[Current]
           n == mem.notifications[p.decision]
           step == IF Contains(mem.processed, Current) THEN "already_processed"
                   ELSE IF p.action = None \/ n = None THEN "rejected"
                   ELSE IF ~n.safe THEN "rejected" ELSE "get"
       IN  IF step = "get" THEN Goto("get")
           ELSE ppc' = "answer" /\ verdict' = step /\ UNCHANGED <<batch, prune>>
    /\ UNCHANGED <<telegram, api, mem, disk, lock, today, notify, faults>>

\* Mutant: the classification of the decision is not looked at.
GetDecisionStatus ==
    /\ ppc = "get"
    /\ IF forge[presses[Current].decision] = "OPEN" THEN Goto("apply")
       ELSE ppc' = "answer" /\ verdict' = "rejected" /\ UNCHANGED <<batch, prune>>
    /\ UNCHANGED <<telegram, api, mem, disk, lock, today, notify, faults>>

\* The decision is fetched again: is it open, and does it allow the action?
GetDecision ==
    /\ ppc = "get"
    /\ LET p == presses[Current]
       IN  IF forge[p.decision] = "OPEN" /\ ~(p.action = "DEFER" /\ p.decision \in Hard)
           THEN Goto("apply")
           ELSE ppc' = "answer" /\ verdict' = "rejected" /\ UNCHANGED <<batch, prune>>
    /\ UNCHANGED <<telegram, api, mem, disk, lock, today, notify, faults>>

\* apply_action sends the request; the API reads the decision ...
ApplyRead ==
    /\ ppc = "apply"
    /\ IF Accepts(presses[Current].decision, presses[Current].action) THEN Goto("save")
       ELSE ppc' = "answer" /\ verdict' = "already_handled" /\ UNCHANGED <<batch, prune>>
    /\ UNCHANGED <<telegram, api, mem, disk, lock, today, notify, faults>>

\* ... and saves it, and the answer arrives: HTTP 200.
ApplySave ==
    /\ ppc = "save"
    /\ ppc' = "answer"
    /\ verdict' = "applied"
    /\ UNCHANGED <<telegram, requests, mem, disk, lock, today, batch, prune, notify, faults>>
    /\ SavePress(Current)

\* The caller no longer waits for the request it has sent.
Abandon ==
    \/ ppc = "apply" /\ late' = [late EXCEPT ![Current] = @ + 1] /\ UNCHANGED saving
    \/ ppc = "save" /\ saving' = [saving EXCEPT ![Current] = @ + 1] /\ UNCHANGED late

\* apply_action raises: the request was not sent or came to nothing, was handled
\* without its event or without the answer arriving, or outlives the time-out.
ApplyFails ==
    /\ ppc \in {"apply", "save"}
    /\ Fault
    /\ NextRound
    /\ UNCHANGED <<telegram, mem, disk, lock, today, notify>>
    /\ \/ UNCHANGED api
       \/ ppc = "save" /\ UNCHANGED requests /\ SavePress(Current)
       \/ Abandon /\ UNCHANGED <<forge, elsewhere, past>>

\* A keyboard goes away for YES, NO and a conflict.
Clears == verdict = "already_handled"
              \/ (verdict = "applied" /\ presses[Current].action \in Final)

\* answer_callback_query.  A processed callback is answered under the lock.
AnswerCallback ==
    /\ ppc = "answer"
    /\ verdict = "already_processed" => lock = "free"
    /\ answered' = answered \cup {Current}
    /\ Goto(CASE verdict = "already_processed" -> "ack"
              [] Clears -> "clear"
              [] OTHER -> "mark")
    /\ UNCHANGED <<messages, presses, api, mem, disk, lock, today, notify, faults>>

Cleared == messages' = [messages EXCEPT ![presses[Current].message].buttons = FALSE]

ClearKeyboard ==
    /\ ppc = "clear"
    /\ Cleared
    /\ Goto("mark")
    /\ UNCHANGED <<presses, answered, api, mem, disk, lock, today, notify, faults>>

\* A call of the poll thread fails; Telegram may have done what it was asked.
CallFails ==
    /\ ppc \in {"poll", "get", "answer", "clear"}
    /\ Fault
    /\ \/ UNCHANGED <<messages, answered>>
       \/ ppc = "answer" /\ answered' = answered \cup {Current} /\ UNCHANGED messages
       \/ ppc = "clear" /\ Cleared /\ UNCHANGED answered
    /\ NextRound
    /\ UNCHANGED <<presses, api, mem, disk, lock, today, notify>>

\* The last n entries of a sequence.
Latest(s, n) == SubSeq(s, IF Len(s) > n THEN Len(s) - n + 1 ELSE 1, Len(s))

\* _mark_callback_processed: nothing is saved yet.
MarkProcessed ==
    /\ ppc = "mark"
    /\ lock = "free"
    /\ mem' = [mem EXCEPT !.processed = Latest(Append(@, Current), MaxProcessed)]
    /\ Goto("ack")
    /\ UNCHANGED <<telegram, api, disk, lock, today, notify, faults>>

\* Mutant: the offset is the id of the update, not the next one.
AdvanceOffsetSkips ==
    /\ ppc = "ack"
    /\ lock = "free"
    /\ mem' = [mem EXCEPT !.offset = Max({@, Current}) - 1]
    /\ disk' = mem'
    /\ batch' = batch \ {Current}
    /\ ppc' = IF batch' = {} THEN "loop" ELSE "handle"
    /\ verdict' = "none"
    /\ UNCHANGED <<telegram, api, lock, today, prune, notify, faults>>

\* The offset moves past the update and the state is saved.
AdvanceOffset ==
    /\ ppc = "ack"
    /\ lock = "free"
    /\ mem' = [mem EXCEPT !.offset = Max({@, Current})]
    /\ disk' = mem'
    /\ batch' = batch \ {Current}
    /\ ppc' = IF batch' = {} THEN "loop" ELSE "handle"
    /\ verdict' = "none"
    /\ UNCHANGED <<telegram, api, lock, today, prune, notify, faults>>

\* The process dies (a failed save in the poll thread ends it too) and systemd
\* starts it again from the state file.  A request in flight may still be handled.
Crash ==
    /\ Fault
    /\ mem' = disk
    /\ lock' = "free"
    /\ NextRound
    /\ npc' = "idle"
    /\ note' = None
    /\ UNCHANGED <<late, saving>> \/ Abandon
    /\ UNCHANGED <<telegram, forge, elsewhere, past, disk, today>>

-----------------------------------------------------------------------------
PollStep ==
    \/ DigestNotDue \/ DigestDue \/ PruneSave \/ DigestSent
    \/ \E d \in Decisions : PruneFetch(d)
    \/ GetUpdates \/ Dispatch \/ GetDecision \/ ApplyRead \/ ApplySave
    \/ AnswerCallback \/ ClearKeyboard \/ MarkProcessed \/ AdvanceOffset

RequestStep ==
    \/ \E d \in Shared, a \in Offered : ElsewhereRead(d, a)
    \/ \E d \in Shared : ElsewhereSave(d)
    \/ \E i \in DOMAIN presses : LateRead(i) \/ LateSave(i)

NotifyStep == NotifyGet \/ NotifyRefused \/ NotifySend \/ NotifySave

Next ==
    \/ \E m \in DOMAIN messages, a \in Offered \cup {None} : Press(m, a)
    \/ RequestStep
    \/ DigestHourPasses
    \/ \E d \in Decisions, safe \in BOOLEAN : Notify(d, safe)
    \/ NotifyStep
    \/ NotifyFails
    \/ NotifySaveFails
    \/ PollStep
    \/ PruneFails
    \/ DigestFails
    \/ ApplyFails
    \/ CallFails
    \/ Crash

Spec == Init /\ [][Next]_vars

\* Both threads run; a lock that is released again and again is obtained, because
\* the poll thread asks for it again and again.
Fairness == WF_vars(NotifyStep \/ NotifyFails \/ NotifySaveFails) /\ SF_vars(PollStep)

FairSpec == Spec /\ Fairness
-----------------------------------------------------------------------------
Notification == [safe : BOOLEAN, message : 1..MaxMessages]

StoredState ==
    [offset : 0..MaxPresses,
     notifications : [Decisions -> Notification \cup {None}],
     processed : SeqOf(Updates, MaxProcessed),
     digest : 0..MaxDays]

TypeOK ==
    /\ forge \in [Decisions -> {"OPEN", "RESOLVED"}]
    /\ messages \in Seq([decision : Decisions, buttons : BOOLEAN])
    /\ presses \in Seq([decision : Decisions, action : Offered \cup {None},
                        message : 1..MaxMessages])
    /\ mem \in StoredState /\ disk \in StoredState
    /\ lock \in {"free", "notify", "poll"}
    /\ ppc \in {"loop", "prune", "digest", "poll", "handle", "get", "apply", "save",
                "answer", "clear", "mark", "ack"}
    /\ batch \subseteq DOMAIN presses
    /\ unfetched \subseteq Decisions /\ changed \in BOOLEAN
    /\ npc \in {"idle", "get", "send", "save"}
    /\ npc # "idle" => note \in [decision : Decisions, safe : BOOLEAN]
    /\ lock = "notify" <=> npc # "idle"
    /\ lock = "poll" <=> ppc \in {"prune", "digest"}
    /\ late \in [Updates -> Nat] /\ saving \in [Updates -> Nat]
    /\ elsewhere \in [Decisions -> {None, "OPEN", "RESOLVED"}]
    /\ resolutions \in [Decisions -> Nat] /\ overlapped \subseteq Decisions
    /\ answered \subseteq DOMAIN presses

(***************************************************************************)
(* "A crash before acknowledgement therefore retries instead of silently   *)
(* dropping an owner action": an update is confirmed to Telegram, even     *)
(* across failures and restarts, only after its press has been answered.   *)
(***************************************************************************)
ConfirmedAnswered == 1..disk.offset \subseteq answered

(***************************************************************************)
(* However presses are retried, lost in crashes, handled late or raced by  *)
(* another interface, a decision is resolved once and for good, by one     *)
(* request, unless it was resolved between the read and the save of        *)
(* another one (the API holds no lock from the one to the other).          *)
(***************************************************************************)
ResolvedOnce ==
    \A d \in Decisions \ overlapped :
        resolutions[d] <= 1 /\ (resolutions[d] = 1 <=> forge[d] = "RESOLVED")

\* The decisions that have ever been resolved.
Closed == {d \in Decisions : resolutions[d] > 0}

(***************************************************************************)
(* The owner can act on what waits for him: as long as a decision has not  *)
(* been resolved, the message that the state file registers for it shows   *)
(* its buttons, whatever was pressed, refused, retried or lost.            *)
(***************************************************************************)
OpenCanBePressed ==
    \A d \in Decisions \ Closed :
        LET n == disk.notifications[d]
        IN  n # None => messages[n.message] = [decision |-> d, buttons |-> n.safe]

(***************************************************************************)
(* The keyboard of an open gate stays usable: once the state file has the  *)
(* registration of a decision, no save of either thread drops or changes   *)
(* it until the decision has been resolved.                                *)
(***************************************************************************)
OpenStaysRegistered ==
    [][\A d \in Decisions \ Closed :
          disk.notifications[d] # None
              => disk'.notifications[d] = disk.notifications[d]]_disk

(***************************************************************************)
(* Every update Telegram holds is eventually handled and confirmed, as     *)
(* long as calls do not fail for ever.                                     *)
(***************************************************************************)
UpdatesConfirmed == \A i \in Updates : i \in DOMAIN presses ~> i <= disk.offset
=============================================================================
