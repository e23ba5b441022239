---------------------------- MODULE SandboxBroker ----------------------------
(***************************************************************************)
(* The sandbox broker: POST /v1/sandboxes/run plans a sandbox, runs it as  *)
(* a Docker container under a time limit and answers with what it saw.  A  *)
(* run that exceeds the limit has its client killed and its container      *)
(* removed by name.  Its caller, SandboxBrokerClient, gives up earlier     *)
(* than that and may post the same request again while the first run is    *)
(* still going on.                                                         *)
(*                                                                         *)
(*   run     per run: where its handler is                                 *)
(*   answer  per run: the body of its answer, None before                  *)
(*   caller  per run: what the client that posted it knows                 *)
(***************************************************************************)
EXTENDS DockerHost

VARIABLES run, answer, caller
brokerVars == <<run, answer, caller>>

\* A request as far as the planner looks at it.  workspace: how the resolved path
\* lies to the workspace root; grants: which capability grants it refers to.
Request ==
    [profile : {"normal", "codex-probation", "other"},
     workspace : {"child", "root", "outside"},
     grants : {"none", "codex", "others"},
     secretRefs : BOOLEAN, reservedEnvironment : BOOLEAN]

Planned(q) ==
    /\ q.workspace = "child"
    /\ q.profile \in {"normal", "codex-probation"}
    /\ q.profile = "codex-probation" =>
          q.grants = "codex" /\ ~q.secretRefs /\ ~q.reservedEnvironment

\* The return code is a signal ("signalled") when the docker client was killed.
Answer == [timedOut : BOOLEAN, returncode : {"exited", "signalled"},
           cleanup : {"none", "ok", "failed"}]

BrokerTypeOK ==
    /\ run \in [Runs -> {"idle", "running", "cleaning", "answered", "refused",
                         "failed", "lost"}]
    /\ answer \in [Runs -> Answer \cup {None}]
    /\ caller \in [Runs -> {"idle", "waiting", "told", "unreachable"}]

BrokerInit ==
    /\ run = [r \in Runs |-> "idle"]
    /\ answer = [r \in Runs |-> None]
    /\ caller = [r \in Runs |-> "idle"]

-----------------------------------------------------------------------------
ReturnCode(r) == IF client[r] = "dead" THEN "signalled" ELSE "exited"

Answered(r, timedOut, cleanup) ==
    /\ run' = [run EXCEPT ![r] = "answered"]
    /\ answer' = [answer EXCEPT ![r] = [timedOut |-> timedOut, cleanup |-> cleanup,
                                        returncode |-> ReturnCode(r)]]
    /\ UNCHANGED caller

\* The plan is accepted and docker run is started; the key may be wrong, the broker
\* disabled or docker missing instead.
Post(r) ==
    /\ run[r] = "idle"
    /\ caller' = [caller EXCEPT ![r] = "waiting"]
    /\ \/ /\ \E q \in Request : Planned(q)
          /\ run' = [run EXCEPT ![r] = "running"]
          /\ client' = [client EXCEPT ![r] = "spawned"]
          /\ NoFault
       \/ /\ run' = [run EXCEPT ![r] = "refused"]
          /\ NoFault
          /\ UNCHANGED client
       \/ /\ run' = [run EXCEPT ![r] = "failed"]
          /\ Fault
          /\ UNCHANGED client
    /\ UNCHANGED <<containers, answer>>

\* communicate() returns within the limit, and nothing is cleaned up.
Observe(r) ==
    /\ run[r] = "running" /\ Ended(r)
    /\ Answered(r, FALSE, "none")
    /\ UNCHANGED dockerVars

\* Mutant: the client of a run past its limit is killed and nothing is cleaned up.
ExpireRunOnly(r) ==
    /\ run[r] = "running"
    /\ client' = Killed({r})
    /\ run' = [run EXCEPT ![r] = "answered"]
    /\ answer' = [answer EXCEPT ![r] = [timedOut |-> TRUE, cleanup |-> "none",
                                        returncode |-> "signalled"]]
    /\ NoFault
    /\ UNCHANGED <<containers, caller>>

\* The limit passes: process.kill().  If the client has just ended, the call may find
\* no process, and its exception leaves the handler.
ExpireRun(r) ==
    /\ run[r] = "running"
    /\ \/ /\ client' = Killed({r})
          /\ run' = [run EXCEPT ![r] = "cleaning"]
       \/ /\ Ended(r)
          /\ run' = [run EXCEPT ![r] = "failed"]
          /\ UNCHANGED client
    /\ NoFault
    /\ UNCHANGED <<containers, answer, caller>>

\* docker rm -f removes what has the name now; with nothing to remove it may
\* report an error.
Clean(r) ==
    /\ run[r] = "cleaning"
    /\ RemoveByName(NameOf[r])
    /\ \E code \in {"ok", "failed"} :
          /\ code = "failed" => containers[NameOf[r]] = None
          /\ Answered(r, TRUE, code)
    /\ NoFault

\* docker rm fails or is killed after 30 seconds, with or without effect.
CleanFails(r) ==
    /\ run[r] = "cleaning"
    /\ RemoveByName(NameOf[r]) \/ UNCHANGED <<containers, client>>
    /\ Answered(r, TRUE, "failed")
    /\ Fault

\* docker rm cannot be started: the exception leaves the handler.
CleanRaises(r) ==
    /\ run[r] = "cleaning"
    /\ run' = [run EXCEPT ![r] = "failed"]
    /\ Fault
    /\ UNCHANGED <<containers, client, answer, caller>>

\* The caller reads the answer, or its own timeout passes first.
Tell(r) ==
    /\ caller[r] = "waiting"
    /\ run[r] \in {"answered", "refused", "failed"}
    /\ caller' = [caller EXCEPT ![r] = "told"]
    /\ UNCHANGED <<dockerVars, run, answer>>

GiveUp(r) ==
    /\ caller[r] = "waiting"
    /\ caller' = [caller EXCEPT ![r] = "unreachable"]
    /\ UNCHANGED <<dockerVars, run, answer>>

\* The service stops with its docker clients; a new one knows none of its runs.
BrokerCrash ==
    /\ \E r \in Runs : run[r] \in {"running", "cleaning"}
    /\ LET flying == {r \in Runs : run[r] \in {"running", "cleaning"}}
       IN /\ client' = Killed(flying)
          /\ run' = [r \in Runs |-> IF r \in flying THEN "lost" ELSE run[r]]
    /\ Fault
    /\ UNCHANGED <<containers, answer, caller>>

RunStep(r) == Observe(r) \/ ExpireRun(r) \/ Clean(r) \/ CleanFails(r) \/ CleanRaises(r)

BrokerNext ==
    \/ \E r \in Runs : Post(r) \/ RunStep(r) \/ Tell(r) \/ GiveUp(r)
    \/ BrokerCrash

-----------------------------------------------------------------------------
\* An answer accounts for the container of its run (execute of DockerGVisorRuntime):
\* a container still there means a docker client that was killed and, after a
\* timeout, a clean-up that was tried and is reported as failed.  A return code that
\* is no signal, or a clean-up with code 0, means that nothing of the run is left.
AnswerAccountsForContainer ==
    \A r \in Runs : answer[r] # None /\ Up(r) =>
        /\ answer[r].returncode = "signalled"
        /\ answer[r].timedOut => answer[r].cleanup = "failed"
        /\ answer[r].cleanup # "ok"
=============================================================================
