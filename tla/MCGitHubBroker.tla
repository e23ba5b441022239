--------------------------- MODULE MCGitHubBroker ---------------------------
(***************************************************************************)
(* GitHubBroker for TLC: one grant of a task branch, in force during the   *)
(* first step of the clock, in a repository where the owner makes now main *)
(* and now the task branch the default.                                    *)
(***************************************************************************)
EXTENDS GitHubBroker, TLC

CONSTANTS main, task, scope

GrantOf(branch, operations, issued, expires) ==
    [scope |-> scope, operations |-> operations, branch |-> branch,
     issued |-> issued, expires |-> expires, revoked |-> FALSE]

MCOffered == {GrantOf(task, {"branch.push", "pr.create"}, 0, 1)}

Symmetry == Permutations(Requests)
=============================================================================
