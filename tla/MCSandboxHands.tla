--------------------------- MODULE MCSandboxHands ---------------------------
(***************************************************************************)
(* SandboxHands for TLC: a request that is posted twice, and one session.  *)
(***************************************************************************)
EXTENDS SandboxHands

CONSTANTS request, codex

MCNames == {request, codex}
MCNameOf == [h \in Hands |-> IF h \in Runs THEN request ELSE codex]

\* The services share only the daemon, which serves each name on its own and never a
\* name of both: what each of them does is seen while the other has not begun.
OneServiceAtATime ==
    \/ \A r \in Runs : run[r] = "idle"
    \/ \A s \in Sessions : session[s] = "idle"
=============================================================================
