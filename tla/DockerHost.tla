----------------------------- MODULE DockerHost -----------------------------
(***************************************************************************)
(* External: the Docker daemon and the docker command-line clients that    *)
(* the sandbox broker and the Codex bridge start, as their code uses them. *)
(*                                                                         *)
(* A hand is one `docker run --rm --name`: its client asks the daemon for  *)
(* a container, stays attached to it, and ends when the container has been *)
(* removed.  A name belongs to one container at a time.  Killing a client  *)
(* does not touch its container, and `docker rm -f` removes whatever       *)
(* container has the name.  A client killed before its container exists    *)
(* leaves none.                                                            *)
(*                                                                         *)
(*   containers  per name: the hand whose container has it, or None        *)
(*   client      per hand: its docker run client                           *)
(*   faults      the faults so far, only for the bound                     *)
(***************************************************************************)
EXTENDS Integers, Sequences

CONSTANTS Runs,      \* runs that the sandbox broker accepts
          Sessions,  \* connections to the Codex bridge
          Names,     \* container names
          NameOf,    \* the name each hand asks for
          MaxFaults, \* bound on faults
          None       \* no hand, no answer, no result, no frame

Hands == Runs \cup Sessions

\* A run is named after its task and request (_container_name of sandbox.py): a
\* repeated request asks for the same name.  A session draws a fresh one
\* (_container_name of codex_runtime.py).
ASSUME NameAssumption ==
    /\ NameOf \in [Hands -> Names]
    /\ \A s \in Sessions, h \in Hands : NameOf[h] = NameOf[s] => h = s
ASSUME NoneAssumption == None \notin {"exit", "timeout", "error"}
ASSUME HandAssumption == Runs \cap Sessions = {} /\ None \notin Hands
ASSUME FaultAssumption == MaxFaults \in Nat

VARIABLES containers, client, faults
dockerVars == <<containers, client, faults>>

Up(h) == containers[NameOf[h]] = h

Ended(h) == client[h] \in {"exited", "dead"}

Fault == faults < MaxFaults /\ faults' = faults + 1
NoFault == UNCHANGED faults

DockerTypeOK ==
    /\ containers \in [Names -> Hands \cup {None}]
    /\ client \in [Hands -> {"none", "spawned", "attached", "exited", "dead"}]
    /\ faults \in 0..MaxFaults

DockerInit ==
    /\ containers = [n \in Names |-> None]
    /\ client = [h \in Hands |-> "none"]
    /\ faults = 0

\* The daemon creates and starts the container, or refuses (a name in use, no such image).
Create(h) ==
    /\ client[h] = "spawned"
    /\ \/ /\ containers[NameOf[h]] = None
          /\ containers' = [containers EXCEPT ![NameOf[h]] = h]
          /\ client' = [client EXCEPT ![h] = "attached"]
       \/ /\ client' = [client EXCEPT ![h] = "exited"]
          /\ UNCHANGED containers
    /\ NoFault

\* The process of the container ends and --rm removes the container.
Finish(h) ==
    /\ Up(h)
    /\ containers' = [containers EXCEPT ![NameOf[h]] = None]
    /\ client' = [client EXCEPT ![h] = IF @ = "attached" THEN "exited" ELSE @]
    /\ NoFault

\* The client is killed by the host, and its container stays.
ClientDies(h) ==
    /\ client[h] \in {"spawned", "attached"}
    /\ client' = [client EXCEPT ![h] = "dead"]
    /\ Fault
    /\ UNCHANGED containers

\* The clients of the hands hs are killed by the process that started them.
Killed(hs) ==
    [h \in Hands |-> IF h \in hs /\ client[h] \in {"spawned", "attached"}
                     THEN "dead" ELSE client[h]]

\* docker rm -f: the client attached to the removed container ends.
RemoveByName(n) ==
    /\ containers' = [containers EXCEPT ![n] = None]
    /\ client' = [h \in Hands |->
                    IF NameOf[h] = n /\ Up(h) /\ client[h] = "attached"
                    THEN "exited" ELSE client[h]]

DockerNext == \E h \in Hands : Create(h) \/ Finish(h) \/ ClientDies(h)
=============================================================================
