----------------------------- MODULE DenialLedger -----------------------------
(***************************************************************************)
(* What the denial tracker promises about one (project, task, signature):  *)
(* denials and successful safe alternatives happen one at a time, each     *)
(* denial is counted once, and the owner is interrupted by exactly those   *)
(* denials that are material or reach a threshold.                         *)
(***************************************************************************)
EXTENDS Integers

CONSTANTS ConsecutiveLimit,  \* DenialPolicy.consecutive_before_escalate
          TotalLimit         \* DenialPolicy.total_before_escalate

VARIABLES consecutive,  \* denials since the last successful safe alternative
          total,        \* denials ever
          decided,      \* the outcome of every denial
          answered      \* the outcomes callers have been told

vars == <<consecutive, total, decided, answered>>

Escalates(c, t, material) == material \/ c >= ConsecutiveLimit \/ t >= TotalLimit

Init == consecutive = 0 /\ total = 0 /\ decided = {} /\ answered = {}

Deny(material) ==
    /\ consecutive' = consecutive + 1
    /\ total' = total + 1
    /\ decided' = decided \cup
          {[consecutive |-> consecutive', total |-> total',
            escalate |-> Escalates(consecutive', total', material)]}
    /\ UNCHANGED answered

SafeAlternative ==
    /\ consecutive' = 0
    /\ UNCHANGED <<total, decided, answered>>

Answer(o) ==
    /\ o \in decided
    /\ answered' = answered \cup {o}
    /\ UNCHANGED <<consecutive, total, decided>>

Next ==
    \/ \E material \in BOOLEAN : Deny(material)
    \/ SafeAlternative
    \/ \E o \in decided : Answer(o)

Spec == Init /\ [][Next]_vars
=============================================================================
