----------------------------- MODULE CapsuleLog -----------------------------
(***************************************************************************)
(* What the Task Capsule service promises its callers, whatever the        *)
(* interleaving of requests inside the controller: every task has one      *)
(* append-only history of revisions, numbered without holes, under one     *)
(* capsule identity that belongs to no other task; and only what is in     *)
(* that history is ever acknowledged.                                      *)
(*                                                                         *)
(*   log     the recorded capsules, one per (task, revision)               *)
(*   acked   the capsules whose checkpoint has been answered with success  *)
(***************************************************************************)
EXTENDS Integers

CONSTANT Capsule   \* records with at least task, capsule_id and revision

VARIABLES log, acked

vars == <<log, acked>>

\* The first revision of a task: the task and the identity are both new.
Opens(c) ==
    /\ c.revision = 1
    /\ \A x \in log : x.task # c.task /\ x.capsule_id # c.capsule_id

\* A later revision: the successor of a recorded one, under its identity.
Continues(c) ==
    /\ \E x \in log : /\ x.task = c.task
                      /\ x.capsule_id = c.capsule_id
                      /\ x.revision + 1 = c.revision
    /\ \A x \in log : x.task = c.task => x.revision # c.revision

Init == log = {} /\ acked = {}

Append(c) ==
    /\ Opens(c) \/ Continues(c)
    /\ log' = log \cup {c}
    /\ UNCHANGED acked

Ack(c) ==
    /\ c \in log
    /\ acked' = acked \cup {c}
    /\ UNCHANGED log

Next == \E c \in Capsule : Append(c) \/ Ack(c)

Spec == Init /\ [][Next]_vars
=============================================================================
