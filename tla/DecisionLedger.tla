---------------------------- MODULE DecisionLedger ----------------------------
(***************************************************************************)
(* What the governance API promises about one owner decision: it is opened *)
(* once, with one question; while it is open the owner may defer it or ask *)
(* for more information; the first YES or NO resolves it for good; the     *)
(* evidence attached to it is never lost; and an owner action is           *)
(* acknowledged only when it is the one the decision shows.                *)
(***************************************************************************)
CONSTANTS Intents,   \* what a decision asks, with its classification
          Hard,      \* the intents classified L3, which the owner may not defer
          Evidence,  \* evidence references attached by owner actions
          None       \* no decision, no action

VARIABLES decision, answered

vars == <<decision, answered>>

Actions == {"YES", "NO", "DEFER", "MORE_INFO"}

Final == {"YES", "NO"}

Init == decision = None /\ answered = {}

Open(i) ==
    /\ decision = None
    /\ decision' = [intent |-> i, status |-> "OPEN", owner_action |-> None, evidence |-> {}]
    /\ UNCHANGED answered

Act(a, refs) ==
    /\ decision # None
    /\ decision.status = "OPEN"
    /\ a = "DEFER" => decision.intent \notin Hard
    /\ decision' = [decision EXCEPT
                       !.status = IF a \in Final THEN "RESOLVED" ELSE "OPEN",
                       !.owner_action = a,
                       !.evidence = @ \cup refs]
    /\ UNCHANGED answered

Ack(a) ==
    /\ decision # None
    /\ decision.owner_action = a
    /\ answered' = answered \cup {a}
    /\ UNCHANGED decision

Next ==
    \/ \E i \in Intents : Open(i)
    \/ \E a \in Actions : Ack(a) \/ \E refs \in SUBSET Evidence : Act(a, refs)

Spec == Init /\ [][Next]_vars
=============================================================================
