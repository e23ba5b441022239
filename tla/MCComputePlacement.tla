------------------------- MODULE MCComputePlacement -------------------------
(***************************************************************************)
(* ComputePlacement for TLC.  Operators put a row that is not yet          *)
(* qualified, a qualified local one that takes internal work only, and a   *)
(* paid one for development only that waits for a reset; discovery would   *)
(* accept public work.  One request asks for public work without paying,   *)
(* the other one for internal work at any price.                           *)
(***************************************************************************)
EXTENDS ComputePlacement, TLC

CONSTANT coding

PutRow(enabled, state, retry_at, cost, accepted, score, development) ==
    [enabled |-> enabled, state |-> state, retry_at |-> retry_at, cost_class |-> cost,
     accepted_sensitivity |-> accepted, capability_scores |-> [c \in {coding} |-> score],
     reliability |-> 50, latency_score |-> 50, development_only |-> development]

MCTarget == [cost_class |-> "free_api", accepted_sensitivity |-> {"PUBLIC"}]

MCPuts == {PutRow(FALSE, "QUARANTINED", None, "free_api", {"INTERNAL"}, 0, FALSE),
           PutRow(TRUE, "AVAILABLE", None, "local", {"INTERNAL"}, 40, FALSE),
           PutRow(TRUE, "QUOTA_EXHAUSTED", 2, "paid", {"PUBLIC", "INTERNAL"}, 80, TRUE)}

MCKinds == {[capability |-> coding, sensitivity |-> "PUBLIC",
             allow_paid |-> FALSE, prefer_local |-> FALSE],
            [capability |-> coding, sensitivity |-> "INTERNAL",
             allow_paid |-> TRUE, prefer_local |-> TRUE]}

ProviderSignal(status, delay, long) == [status |-> status, delay |-> delay, long |-> long]

MCObservations == {ProviderSignal("ok", None, FALSE),
                   ProviderSignal("limited", 1, FALSE),
                   ProviderSignal("limited", None, TRUE)}

Symmetry == Permutations(Requests)
=============================================================================
