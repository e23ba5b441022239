------------------------- MODULE SandboxHandsProofs -------------------------
(***************************************************************************)
(* Safety of the sandbox broker and the Codex bridge on one Docker host,   *)
(* for any runs, sessions, streams and names, however runs share names.    *)
(* Every step but a docker run treats the hands it is not about in the     *)
(* same way (Calm): an ended client stays as it is and only a client that  *)
(* has just been started gets a container.  With it, what an answer or the *)
(* end of a session says of a container stays true.  Of the chunks a       *)
(* process writes, a session that still sends loses none (Conserved).      *)
(***************************************************************************)
EXTENDS SandboxHands, FiniteSetTheorems, SequenceTheorems, TLAPS

\* A container belongs to a client that is attached to it or was killed.
Attached(h) ==
    /\ Up(h) => client[h] \in {"attached", "dead"}
    /\ client[h] = "attached" => Up(h)

RunAccounted(r) ==
    /\ run[r] = "idle" => client[r] = "none"
    /\ run[r] = "running" => client[r] # "none"
    /\ run[r] = "cleaning" => Ended(r)
    /\ answer[r] # None =>
          /\ run[r] = "answered"
          /\ Ended(r)
          /\ answer[r].returncode = "exited" => client[r] = "exited"
          /\ answer[r].returncode \in {"exited", "signalled"}
          /\ answer[r].cleanup = "ok" => ~Up(r)
          /\ answer[r].timedOut => answer[r].cleanup \in {"ok", "failed"}

SessionAccounted(s) ==
    /\ session[s] \in {"idle", "accept", "launch"} => client[s] = "none"
    /\ session[s] = "send" => final[s] # None
    /\ session[s] = "remove" => Ended(s)
    /\ session[s] = "closed" =>
          /\ client[s] = "none" \/ Ended(s)
          /\ Up(s) => removal[s] = "failed"

IInv ==
    /\ TypeOK
    /\ \A h \in Hands : Attached(h)
    /\ \A r \in Runs : RunAccounted(r)
    /\ \A s \in Sessions : SessionAccounted(s)

Calm(h) ==
    /\ client[h] = "none" <=> client'[h] = "none"
    /\ Ended(h) => client'[h] = client[h]
    /\ Up(h)' => Up(h) \/ client[h] = "spawned"

-----------------------------------------------------------------------------
\* What a step does to the daemon

LEMMA CalmIfUnchanged ==
    ASSUME NEW h \in Hands, client'[h] = client[h], containers' = containers
    PROVE  Calm(h)
BY DEF Calm, Up

LEMMA KilledStep ==
    ASSUME DockerTypeOK, \A h \in Hands : Attached(h), NEW hs,
           client' = Killed(hs), UNCHANGED containers
    PROVE  /\ client' \in [Hands -> {"none", "spawned", "attached", "exited", "dead"}]
           /\ \A h \in Hands : Attached(h)' /\ Calm(h)
           /\ \A h \in Hands : h \in hs /\ client[h] # "none" => Ended(h)'
<1>1. client' \in [Hands -> {"none", "spawned", "attached", "exited", "dead"}]
  BY DEF DockerTypeOK, Killed
<1>2. ASSUME NEW h \in Hands
      PROVE  /\ Attached(h)' /\ Calm(h)
             /\ h \in hs /\ client[h] # "none" => Ended(h)'
  <2>1. client'[h] = IF h \in hs /\ client[h] \in {"spawned", "attached"}
                     THEN "dead" ELSE client[h]
    BY DEF Killed
  <2>2. client[h] \in {"none", "spawned", "attached", "exited", "dead"}
    BY DEF DockerTypeOK
  <2> QED BY <2>1, <2>2 DEF Attached, Calm, Up, Ended
<1> QED BY <1>1, <1>2

LEMMA RemoveStep ==
    ASSUME DockerTypeOK, \A h \in Hands : Attached(h), NEW n \in Names, RemoveByName(n)
    PROVE  /\ containers' \in [Names -> Hands \cup {None}]
           /\ client' \in [Hands -> {"none", "spawned", "attached", "exited", "dead"}]
           /\ \A h \in Hands : Attached(h)' /\ Calm(h)
           /\ \A h \in Hands : NameOf[h] = n => ~Up(h)' /\ client'[h] # "attached"
<1>1. containers' \in [Names -> Hands \cup {None}]
  BY DEF DockerTypeOK, RemoveByName
<1>2. client' \in [Hands -> {"none", "spawned", "attached", "exited", "dead"}]
  BY DEF DockerTypeOK, RemoveByName
<1>3. ASSUME NEW h \in Hands
      PROVE  /\ Attached(h)' /\ Calm(h)
             /\ NameOf[h] = n => ~Up(h)' /\ client'[h] # "attached"
  <2>1. /\ client'[h] = IF NameOf[h] = n /\ Up(h) /\ client[h] = "attached"
                        THEN "exited" ELSE client[h]
        /\ containers' = [containers EXCEPT ![n] = None]
    BY DEF RemoveByName
  <2>2. /\ client[h] \in {"none", "spawned", "attached", "exited", "dead"}
        /\ NameOf[h] \in Names /\ h # None
    BY NameAssumption, HandAssumption DEF DockerTypeOK
  <2>3. containers'[NameOf[h]] = IF NameOf[h] = n THEN None ELSE containers[NameOf[h]]
    BY <2>1, <2>2 DEF DockerTypeOK
  <2>4. Attached(h)
    OBVIOUS
  <2>5. NameOf[h] = n => ~Up(h)' /\ client'[h] # "attached"
    <3> SUFFICES ASSUME NameOf[h] = n PROVE ~Up(h)' /\ client'[h] # "attached"
      OBVIOUS
    <3>1. ~Up(h)'
      BY <2>2, <2>3 DEF Up
    <3>2. client[h] = "attached" => Up(h)
      BY <2>4 DEF Attached
    <3> QED BY <2>1, <3>1, <3>2
  <2>6. Calm(h)
    BY <2>1, <2>2, <2>3 DEF Calm, Up, Ended
  <2>7. Attached(h)'
    <3>1. CASE NameOf[h] = n
      BY <2>5, <3>1 DEF Attached
    <3>2. CASE NameOf[h] # n
      BY <2>1, <2>3, <2>4, <3>2 DEF Attached, Up
    <3> QED BY <3>1, <3>2
  <2> QED BY <2>5, <2>6, <2>7
<1> QED BY <1>1, <1>2, <1>3

LEMMA SpawnStep ==
    ASSUME DockerTypeOK, \A h \in Hands : Attached(h), NEW new \in Hands,
           client[new] = "none", client' = [client EXCEPT ![new] = "spawned"],
           UNCHANGED containers
    PROVE  /\ client' \in [Hands -> {"none", "spawned", "attached", "exited", "dead"}]
           /\ \A h \in Hands : Attached(h)'
           /\ \A h \in Hands \ {new} : Calm(h)
           /\ client'[new] = "spawned"
BY DEF DockerTypeOK, Attached, Calm, Up, Ended

LEMMA DaemonStep ==
    ASSUME DockerTypeOK, \A h \in Hands : Attached(h), DockerNext
    PROVE  DockerTypeOK' /\ \A h \in Hands : Attached(h)' /\ Calm(h)
<1>0. PICK h \in Hands : Create(h) \/ Finish(h) \/ ClientDies(h)
  BY DEF DockerNext
<1>1. /\ client \in [Hands -> {"none", "spawned", "attached", "exited", "dead"}]
      /\ containers \in [Names -> Hands \cup {None}]
      /\ NameOf[h] \in Names /\ h # None
      /\ \A k \in Hands : NameOf[k] \in Names /\ k # None
  BY NameAssumption, HandAssumption DEF DockerTypeOK
<1>2. faults' \in 0..MaxFaults
  BY <1>0, FaultAssumption DEF DockerTypeOK, Create, Finish, ClientDies, Fault, NoFault
<1>3. CASE Create(h)
  <2>1. DockerTypeOK'
    BY <1>1, <1>2, <1>3 DEF DockerTypeOK, Create
  <2>2. ASSUME NEW k \in Hands PROVE Attached(k)' /\ Calm(k)
    BY <1>1, <1>3 DEF Create, Attached, Calm, Up, Ended
  <2> QED BY <2>1, <2>2
<1>4. CASE Finish(h)
  <2>1. DockerTypeOK'
    BY <1>1, <1>2, <1>4 DEF DockerTypeOK, Finish
  <2>2. ASSUME NEW k \in Hands PROVE Attached(k)' /\ Calm(k)
    BY <1>1, <1>4 DEF Finish, Attached, Calm, Up, Ended
  <2> QED BY <2>1, <2>2
<1>5. CASE ClientDies(h)
  <2>1. DockerTypeOK'
    BY <1>1, <1>2, <1>5 DEF DockerTypeOK, ClientDies
  <2>2. ASSUME NEW k \in Hands PROVE Attached(k)' /\ Calm(k)
    BY <1>1, <1>5 DEF ClientDies, Attached, Calm, Up, Ended
  <2> QED BY <2>1, <2>2
<1> QED BY <1>0, <1>3, <1>4, <1>5

\* What a step leaves accounted

LEMMA RunKept ==
    ASSUME NEW r \in Runs, RunAccounted(r), run'[r] = run[r], answer'[r] = answer[r],
           Calm(r)
    PROVE  RunAccounted(r)'
BY DEF RunAccounted, Calm, Ended

LEMMA SessionKept ==
    ASSUME NEW s \in Sessions, SessionAccounted(s), session'[s] = session[s],
           final'[s] = final[s], removal'[s] = removal[s], Calm(s)
    PROVE  SessionAccounted(s)'
BY DEF SessionAccounted, Calm, Ended

LEMMA BrokerKept ==
    ASSUME IInv, NEW r \in Runs, UNCHANGED bridgeVars,
           DockerTypeOK', BrokerTypeOK',
           \A h \in Hands : Attached(h)',
           \A h \in Hands \ {r} : Calm(h),
           \A q \in Runs \ {r} : run'[q] = run[q] /\ answer'[q] = answer[q],
           RunAccounted(r)'
    PROVE  IInv'
<1>1. TypeOK'
  BY DEF IInv, TypeOK, BridgeTypeOK, bridgeVars, mainVars, pumpVars, peerVars
<1>2. ASSUME NEW q \in Runs PROVE RunAccounted(q)'
  <2>1. CASE q = r
    BY <2>1
  <2>2. CASE q # r
    BY <2>2, RunKept DEF IInv, Hands
  <2> QED BY <2>1, <2>2
<1>3. ASSUME NEW s \in Sessions PROVE SessionAccounted(s)'
  <2>1. s \in Hands \ {r}
    BY HandAssumption DEF Hands
  <2> QED BY <2>1, SessionKept DEF IInv, bridgeVars, mainVars
<1> QED BY <1>1, <1>2, <1>3 DEF IInv

LEMMA BridgeKept ==
    ASSUME IInv, NEW s \in Sessions, UNCHANGED brokerVars,
           DockerTypeOK', BridgeTypeOK',
           \A h \in Hands : Attached(h)',
           \A h \in Hands \ {s} : Calm(h),
           \A x \in Sessions \ {s} :
               session'[x] = session[x] /\ final'[x] = final[x] /\ removal'[x] = removal[x],
           SessionAccounted(s)'
    PROVE  IInv'
<1>1. TypeOK'
  BY DEF IInv, TypeOK, BrokerTypeOK, brokerVars
<1>2. ASSUME NEW x \in Sessions PROVE SessionAccounted(x)'
  <2>1. CASE x = s
    BY <2>1
  <2>2. CASE x # s
    BY <2>2, SessionKept DEF IInv, Hands
  <2> QED BY <2>1, <2>2
<1>3. ASSUME NEW r \in Runs PROVE RunAccounted(r)'
  <2>1. r \in Hands \ {s}
    BY HandAssumption DEF Hands
  <2> QED BY <2>1, RunKept DEF IInv, brokerVars
<1> QED BY <1>1, <1>2, <1>3 DEF IInv

-----------------------------------------------------------------------------
\* Steps of the broker

LEMMA RunStepInv ==
    ASSUME IInv, NEW r \in Runs,
           Post(r) \/ RunStep(r) \/ Tell(r) \/ GiveUp(r), UNCHANGED bridgeVars
    PROVE  IInv'
<1> USE DEF IInv, TypeOK
<1>1. /\ r \in Hands /\ NameOf[r] \in Names
      /\ RunAccounted(r) /\ Attached(r)
      /\ client[r] \in {"none", "spawned", "attached", "exited", "dead"}
  BY NameAssumption DEF Hands, DockerTypeOK
<1>2. ASSUME NEW timedOut \in BOOLEAN, NEW cleanup \in {"none", "ok", "failed"},
             Answered(r, timedOut, cleanup), Ended(r), client'[r] = client[r],
             cleanup = "ok" => ~Up(r)',
             timedOut => cleanup \in {"ok", "failed"}
      PROVE  /\ BrokerTypeOK' /\ RunAccounted(r)'
             /\ \A q \in Runs \ {r} : run'[q] = run[q] /\ answer'[q] = answer[q]
  <2>1. ReturnCode(r) \in {"exited", "signalled"}
    BY DEF ReturnCode
  <2>2. [timedOut |-> timedOut, cleanup |-> cleanup, returncode |-> ReturnCode(r)] \in Answer
    BY <2>1 DEF Answer
  <2>3. BrokerTypeOK'
    BY <1>2, <2>2 DEF BrokerTypeOK, Answered
  <2>4. /\ run'[r] = "answered"
        /\ answer'[r] = [timedOut |-> timedOut, cleanup |-> cleanup,
                         returncode |-> ReturnCode(r)]
    BY <1>2 DEF Answered, BrokerTypeOK
  <2>5. RunAccounted(r)'
    BY <1>2, <2>1, <2>4 DEF RunAccounted, ReturnCode, Ended
  <2>6. \A q \in Runs \ {r} : run'[q] = run[q] /\ answer'[q] = answer[q]
    BY <1>2 DEF Answered, BrokerTypeOK
  <2> QED BY <2>3, <2>5, <2>6
<1>3. ASSUME UNCHANGED <<containers, client>>
      PROVE  \A h \in Hands : Attached(h)' /\ Calm(h)
  BY <1>3, CalmIfUnchanged DEF Attached, Up
<1>4. CASE Post(r)
  <2>1. CASE run' = [run EXCEPT ![r] = "running"] /\ client' = [client EXCEPT ![r] = "spawned"]
    <3>1. client[r] = "none" /\ answer[r] = None
      BY <1>1, <1>4 DEF Post, RunAccounted
    <3>2. DockerTypeOK' /\ BrokerTypeOK'
      BY <1>1, <1>4, <2>1, FaultAssumption
      DEF Post, DockerTypeOK, BrokerTypeOK, Fault, NoFault
    <3>3. /\ \A h \in Hands : Attached(h)'
          /\ \A h \in Hands \ {r} : Calm(h)
          /\ client'[r] = "spawned"
      BY <1>1, <1>4, <2>1, <3>1, SpawnStep DEF Post
    <3>4. RunAccounted(r)'
      BY <1>4, <2>1, <3>1, <3>3 DEF Post, RunAccounted, BrokerTypeOK
    <3>5. \A q \in Runs \ {r} : run'[q] = run[q] /\ answer'[q] = answer[q]
      BY <1>4, <2>1 DEF Post, BrokerTypeOK
    <3> QED BY <3>2, <3>3, <3>4, <3>5, BrokerKept
  <2>2. ASSUME NEW where \in {"refused", "failed"},
               run' = [run EXCEPT ![r] = where], UNCHANGED client
        PROVE  IInv'
    <3>1. DockerTypeOK' /\ BrokerTypeOK'
      BY <1>1, <1>4, <2>2, FaultAssumption
      DEF Post, DockerTypeOK, BrokerTypeOK, Fault, NoFault
    <3>2. \A h \in Hands : Attached(h)' /\ Calm(h)
      BY <1>3, <1>4, <2>2 DEF Post
    <3>3. RunAccounted(r)'
      BY <1>1, <1>4, <2>2 DEF Post, RunAccounted, BrokerTypeOK
    <3>4. \A q \in Runs \ {r} : run'[q] = run[q] /\ answer'[q] = answer[q]
      BY <1>4, <2>2 DEF Post, BrokerTypeOK
    <3> QED BY <3>1, <3>2, <3>3, <3>4, BrokerKept
  <2> QED BY <1>4, <2>1, <2>2 DEF Post
<1>5. CASE Observe(r)
  <2>1. DockerTypeOK' /\ \A h \in Hands : Attached(h)' /\ Calm(h)
    BY <1>3, <1>5 DEF Observe, DockerTypeOK, dockerVars
  <2>2. Ended(r) /\ client'[r] = client[r] /\ Answered(r, FALSE, "none")
    BY <1>5 DEF Observe, dockerVars
  <2> QED BY <1>2, <2>1, <2>2, BrokerKept
<1>6. CASE ExpireRun(r)
  <2>1. CASE client' = Killed({r}) /\ run' = [run EXCEPT ![r] = "cleaning"]
    <3>1. DockerTypeOK' /\ \A h \in Hands : Attached(h)' /\ Calm(h)
      BY <1>6, <2>1, KilledStep DEF ExpireRun, DockerTypeOK, NoFault
    <3>2. Ended(r)'
      BY <1>1, <1>6, <2>1, KilledStep DEF ExpireRun, RunAccounted
    <3>3. BrokerTypeOK' /\ \A q \in Runs \ {r} : run'[q] = run[q] /\ answer'[q] = answer[q]
      BY <1>6, <2>1 DEF ExpireRun, BrokerTypeOK
    <3>4. RunAccounted(r)'
      BY <1>1, <1>6, <2>1, <3>2 DEF ExpireRun, RunAccounted, BrokerTypeOK
    <3> QED BY <3>1, <3>3, <3>4, BrokerKept
  <2>2. CASE run' = [run EXCEPT ![r] = "failed"] /\ UNCHANGED client
    <3>1. DockerTypeOK' /\ \A h \in Hands : Attached(h)' /\ Calm(h)
      BY <1>3, <1>6, <2>2 DEF ExpireRun, DockerTypeOK, NoFault
    <3>2. BrokerTypeOK' /\ \A q \in Runs \ {r} : run'[q] = run[q] /\ answer'[q] = answer[q]
      BY <1>6, <2>2 DEF ExpireRun, BrokerTypeOK
    <3>3. RunAccounted(r)'
      BY <1>1, <1>6, <2>2 DEF ExpireRun, RunAccounted, BrokerTypeOK
    <3> QED BY <3>1, <3>2, <3>3, BrokerKept
  <2> QED BY <1>6, <2>1, <2>2 DEF ExpireRun
<1>7. CASE Clean(r)
  <2>1. DockerTypeOK' /\ \A h \in Hands : Attached(h)' /\ Calm(h)
    BY <1>1, <1>7, RemoveStep DEF Clean, DockerTypeOK, NoFault
  <2>2. ~Up(r)'
    BY <1>1, <1>7, RemoveStep DEF Clean
  <2>3. Ended(r) /\ client'[r] = client[r]
    BY <1>1, <1>7, <2>1 DEF Clean, RunAccounted, Calm
  <2>4. PICK code \in {"ok", "failed"} : Answered(r, TRUE, code)
    BY <1>7 DEF Clean
  <2> QED BY <1>2, <2>1, <2>2, <2>3, <2>4, BrokerKept
<1>8. CASE CleanFails(r)
  <2>1. /\ containers' \in [Names -> Hands \cup {None}]
        /\ client' \in [Hands -> {"none", "spawned", "attached", "exited", "dead"}]
        /\ \A h \in Hands : Attached(h)' /\ Calm(h)
    <3>1. CASE RemoveByName(NameOf[r])
      BY <1>1, <3>1, RemoveStep
    <3>2. CASE UNCHANGED <<containers, client>>
      BY <1>3, <3>2 DEF DockerTypeOK
    <3> QED BY <1>8, <3>1, <3>2 DEF CleanFails
  <2>2. DockerTypeOK'
    BY <1>8, <2>1, FaultAssumption DEF CleanFails, DockerTypeOK, Fault
  <2>3. Ended(r) /\ client'[r] = client[r]
    BY <1>1, <1>8, <2>1 DEF CleanFails, RunAccounted, Calm
  <2>4. Answered(r, TRUE, "failed")
    BY <1>8 DEF CleanFails
  <2> QED BY <1>2, <2>1, <2>2, <2>3, <2>4, BrokerKept
<1>9. CASE CleanRaises(r)
  <2>1. DockerTypeOK' /\ \A h \in Hands : Attached(h)' /\ Calm(h)
    BY <1>3, <1>9, FaultAssumption DEF CleanRaises, DockerTypeOK, Fault
  <2>2. BrokerTypeOK' /\ \A q \in Runs \ {r} : run'[q] = run[q] /\ answer'[q] = answer[q]
    BY <1>9 DEF CleanRaises, BrokerTypeOK
  <2>3. RunAccounted(r)'
    BY <1>1, <1>9 DEF CleanRaises, RunAccounted, BrokerTypeOK
  <2> QED BY <2>1, <2>2, <2>3, BrokerKept
<1>10. CASE Tell(r) \/ GiveUp(r)
  <2>1. DockerTypeOK' /\ \A h \in Hands : Attached(h)' /\ Calm(h)
    BY <1>3, <1>10 DEF Tell, GiveUp, DockerTypeOK, dockerVars
  <2>2. BrokerTypeOK'
    BY <1>10 DEF Tell, GiveUp, BrokerTypeOK
  <2>3. \A q \in Runs : RunAccounted(q)'
    BY <1>10, <2>1, RunKept DEF Tell, GiveUp, Hands
  <2>4. \A q \in Runs : run'[q] = run[q] /\ answer'[q] = answer[q]
    BY <1>10 DEF Tell, GiveUp
  <2> QED BY <2>1, <2>2, <2>3, <2>4, BrokerKept
<1> QED BY <1>4, <1>5, <1>6, <1>7, <1>8, <1>9, <1>10 DEF RunStep

LEMMA BrokerCrashInv ==
    ASSUME IInv, BrokerCrash, UNCHANGED bridgeVars
    PROVE  IInv'
<1> USE DEF IInv, TypeOK
<1> DEFINE flying == {r \in Runs : run[r] \in {"running", "cleaning"}}
<1>1. /\ client' = Killed(flying) /\ UNCHANGED <<containers, answer, caller>>
      /\ run' = [r \in Runs |-> IF r \in flying THEN "lost" ELSE run[r]]
      /\ Fault
  BY DEF BrokerCrash
<1>2. /\ client' \in [Hands -> {"none", "spawned", "attached", "exited", "dead"}]
      /\ \A h \in Hands : Attached(h)' /\ Calm(h)
  BY <1>1, KilledStep
<1>3. TypeOK'
  <2>1. DockerTypeOK'
    BY <1>1, <1>2, FaultAssumption DEF DockerTypeOK, Fault
  <2>2. BrokerTypeOK'
    BY <1>1 DEF BrokerTypeOK
  <2> QED BY <2>1, <2>2 DEF BridgeTypeOK, bridgeVars, mainVars, pumpVars, peerVars
<1>4. ASSUME NEW r \in Runs PROVE RunAccounted(r)'
  <2>1. CASE r \in flying
    <3>1. answer'[r] = None /\ run'[r] = "lost"
      BY <1>1, <2>1 DEF RunAccounted
    <3> QED BY <3>1 DEF RunAccounted
  <2>2. CASE r \notin flying
    BY <1>1, <1>2, <2>2, RunKept DEF Hands
  <2> QED BY <2>1, <2>2
<1>5. ASSUME NEW s \in Sessions PROVE SessionAccounted(s)'
  BY <1>2, SessionKept DEF Hands, bridgeVars, mainVars
<1> QED BY <1>2, <1>3, <1>4, <1>5

-----------------------------------------------------------------------------
\* Steps of the bridge

\* Steps that leave the daemon and the other sessions alone.
LEMMA QuietBridgeInv ==
    ASSUME IInv, NEW s \in Sessions, UNCHANGED <<dockerVars, brokerVars, removal>>,
           BridgeTypeOK',
           NEW label,
           session' = [session EXCEPT ![s] = label],
           \A x \in Sessions \ {s} : final'[x] = final[x],
           \/ label = session[s] /\ final'[s] = final[s]
           \/ session[s] = "idle" /\ label = "accept"
           \/ session[s] = "accept" /\ label = "launch"
           \/ /\ label \notin {"idle", "accept", "launch", "remove", "closed"}
              /\ label = "send" => final'[s] # None
    PROVE  IInv'
<1>1. \A h \in Hands : Attached(h)' /\ Calm(h)
  BY CalmIfUnchanged DEF IInv, Attached, Up, dockerVars
<1>2. DockerTypeOK'
  BY DEF IInv, TypeOK, DockerTypeOK, dockerVars
<1>3. session'[s] = label /\ \A x \in Sessions \ {s} : session'[x] = session[x]
  BY DEF IInv, TypeOK, BridgeTypeOK
<1>4. SessionAccounted(s)'
  <2>1. SessionAccounted(s) /\ Calm(s)
    BY <1>1 DEF IInv, Hands
  <2>2. CASE label = session[s] /\ final'[s] = final[s]
    BY <1>3, <2>1, <2>2, SessionKept
  <2>3. CASE \/ session[s] = "idle" /\ label = "accept"
             \/ session[s] = "accept" /\ label = "launch"
    BY <1>3, <2>1, <2>3 DEF SessionAccounted, Calm
  <2>4. CASE /\ label \notin {"idle", "accept", "launch", "remove", "closed"}
             /\ label = "send" => final'[s] # None
    BY <1>3, <2>4 DEF SessionAccounted
  <2> QED BY <2>2, <2>3, <2>4
<1> QED BY <1>1, <1>2, <1>3, <1>4, BridgeKept

\* Steps of a session that touch neither the daemon nor what it knows of its removal.
QuietStep(s) ==
    \/ Ready(s) \/ StdinEof(s) \/ StdinInvalid(s) \/ StdinLost(s) \/ ProcessEnded(s)
    \/ ExpireSession(s) \/ Gather(s) \/ SendFinal(s) \/ FinalSent(s) \/ PumpStep(s)
    \/ (\E c \in Streams : Produce(s, c))
    \/ LaunchLost(s) \/ Connect(s) \/ SendLaunch(s)
    \/ PeerReads(s) \/ PeerFindsEnd(s) \/ PeerLeaves(s)

LEMMA QuietStepInv ==
    ASSUME IInv, NEW s \in Sessions, QuietStep(s), UNCHANGED brokerVars
    PROVE  IInv'
<1> USE DEF IInv, TypeOK
<1> USE DEF Goto, SendLater, Write, dockerVars, mainVars, pumpVars, peerVars
<1>0. session = [session EXCEPT ![s] = session[s]]
  BY DEF BridgeTypeOK
<1>a. ASSUME NEW frame \in Final, final' = [final EXCEPT ![s] = frame]
      PROVE  final'[s] # None /\ \A x \in Sessions \ {s} : final'[x] = final[x]
  BY <1>a, NoneAssumption DEF BridgeTypeOK, Final
<1>b. ASSUME NEW frame \in {"ready", "chunk"} \cup Final, Write(s, frame)
      PROVE  wire' \in [Sessions -> Seq({"ready", "chunk"} \cup Final)]
  BY <1>b DEF BridgeTypeOK
<1>1. CASE Ready(s)
  <2>1. wire' \in [Sessions -> Seq({"ready", "chunk"} \cup Final)]
    BY <1>1, <1>b DEF Ready, BridgeTypeOK
  <2>3. PICK label \in {"stop", "relay"} : session' = [session EXCEPT ![s] = label]
    BY <1>1 DEF Ready
  <2>a. pump' \in [Sessions -> [Streams -> {"off", "reading", "draining", "ended", "failed"}]]
    <3>1. [c \in Streams |-> "reading"]
             \in [Streams -> {"off", "reading", "draining", "ended", "failed"}]
      OBVIOUS
    <3>2. UNCHANGED pump \/ pump' = [pump EXCEPT ![s] = [c \in Streams |-> "reading"]]
      BY <1>1 DEF Ready
    <3>3. pump \in [Sessions -> [Streams -> {"off", "reading", "draining", "ended", "failed"}]]
      BY DEF BridgeTypeOK
    <3> QED BY <3>1, <3>2, <3>3
  <2>b. stdin' \in [Sessions -> {"off", "feeding", "eof"}]
    BY <1>1 DEF Ready, BridgeTypeOK
  <2>c. session' \in [Sessions -> {"idle", "accept", "launch", "ready", "relay", "gather",
                                   "send", "sent", "stop", "remove", "closed", "crashed"}]
    BY <2>3 DEF BridgeTypeOK
  <2>d. UNCHANGED <<final, removal, pipe, produced, peerVars>>
    BY <1>1 DEF Ready
  <2>e. /\ final' \in [Sessions -> Final \cup {None}]
        /\ removal' \in [Sessions -> {"none", "ok", "failed"}]
        /\ pipe' \in [Sessions -> [Streams -> Nat]]
        /\ produced' \in [Sessions -> 0..MaxChunks]
        /\ peer' \in [Sessions -> {"idle", "wait", "relay", "gone"}]
        /\ result' \in [Sessions -> Final \cup {"none", None}]
        /\ delivered' \in [Sessions -> Nat]
    BY <2>d DEF BridgeTypeOK
  <2>2. BridgeTypeOK'
    BY <2>1, <2>a, <2>b, <2>c, <2>e DEF BridgeTypeOK
  <2> QED BY <1>1, <2>2, <2>3, QuietBridgeInv DEF Ready
<1>2. CASE StdinEof(s)
  <2>1. BridgeTypeOK'
    BY <1>2 DEF StdinEof, BridgeTypeOK
  <2> QED BY <1>0, <1>2, <2>1, QuietBridgeInv DEF StdinEof
<1>3. CASE StdinInvalid(s)
  <2>1. BridgeTypeOK'
    BY <1>3 DEF StdinInvalid, BridgeTypeOK, Final
  <2>2. "error" \in Final
    BY DEF Final
  <2> QED BY <1>a, <1>3, <2>1, <2>2, QuietBridgeInv DEF StdinInvalid
<1>4. CASE StdinLost(s)
  <2>1. BridgeTypeOK'
    BY <1>4 DEF StdinLost, BridgeTypeOK
  <2> QED BY <1>4, <2>1, QuietBridgeInv DEF StdinLost
<1>5. CASE ProcessEnded(s)
  <2>1. BridgeTypeOK'
    BY <1>5 DEF ProcessEnded, BridgeTypeOK
  <2> QED BY <1>5, <2>1, QuietBridgeInv DEF ProcessEnded
<1>6. CASE ExpireSession(s)
  <2>1. BridgeTypeOK'
    BY <1>6 DEF ExpireSession, BridgeTypeOK, Final
  <2>2. "timeout" \in Final
    BY DEF Final
  <2> QED BY <1>a, <1>6, <2>1, <2>2, QuietBridgeInv DEF ExpireSession
<1>7. CASE Gather(s)
  <2>1. BridgeTypeOK'
    BY <1>7 DEF Gather, BridgeTypeOK, Final
  <2>2. "exit" \in Final
    BY DEF Final
  <2>3. CASE SendLater(s, "exit")
    BY <1>a, <1>7, <2>1, <2>2, <2>3, QuietBridgeInv DEF Gather
  <2>4. CASE Goto(s, "stop") /\ UNCHANGED final
    BY <1>7, <2>1, <2>4, QuietBridgeInv DEF Gather
  <2> QED BY <1>7, <2>3, <2>4 DEF Gather
<1>8. CASE SendFinal(s)
  <2>1. final[s] \in Final
    BY <1>8 DEF SendFinal, SessionAccounted, BridgeTypeOK
  <2>2. wire' \in [Sessions -> Seq({"ready", "chunk"} \cup Final)]
    BY <1>8, <1>b, <2>1 DEF SendFinal, BridgeTypeOK
  <2>3. BridgeTypeOK'
    BY <1>8, <2>2 DEF SendFinal, BridgeTypeOK
  <2>4. PICK label \in {"sent", "stop"} : session' = [session EXCEPT ![s] = label]
    BY <1>8 DEF SendFinal
  <2> QED BY <1>8, <2>3, <2>4, QuietBridgeInv DEF SendFinal
<1>9. CASE FinalSent(s)
  <2>1. BridgeTypeOK'
    BY <1>9 DEF FinalSent, BridgeTypeOK
  <2> QED BY <1>9, <2>1, QuietBridgeInv DEF FinalSent
<1>10. CASE PumpStep(s)
  <2>1. PICK c \in Streams : PumpSend(s, c) \/ PumpDrained(s, c) \/ PumpEnds(s, c)
    BY <1>10 DEF PumpStep
  <2>2. /\ UNCHANGED <<dockerVars, mainVars, stdin, produced, peerVars>>
        /\ wire' \in [Sessions -> Seq({"ready", "chunk"} \cup Final)]
    BY <1>b, <2>1 DEF PumpSend, PumpDrained, PumpEnds, BridgeTypeOK
  <2>3. pipe' \in [Sessions -> [Streams -> Nat]]
    <3>1. pipe[s] \in [Streams -> Nat]
      BY DEF BridgeTypeOK
    <3>2. PumpSend(s, c) => pipe[s][c] - 1 \in Nat
      BY <3>1 DEF PumpSend
    <3>3. PumpSend(s, c) => pipe' \in [Sessions -> [Streams -> Nat]]
      BY <3>1, <3>2 DEF PumpSend, BridgeTypeOK
    <3> QED BY <2>1, <3>3 DEF PumpDrained, PumpEnds, BridgeTypeOK
  <2>4. pump' \in [Sessions -> [Streams -> {"off", "reading", "draining", "ended", "failed"}]]
    <3>1. pump[s] \in [Streams -> {"off", "reading", "draining", "ended", "failed"}]
      BY DEF BridgeTypeOK
    <3>2. PICK label \in {"reading", "draining", "ended", "failed"} :
             pump' = [pump EXCEPT ![s][c] = label]
      BY <2>1 DEF PumpSend, PumpDrained, PumpEnds
    <3> QED BY <3>1, <3>2 DEF BridgeTypeOK
  <2>5. BridgeTypeOK'
    BY <2>2, <2>3, <2>4 DEF BridgeTypeOK
  <2> QED BY <1>0, <2>2, <2>5, QuietBridgeInv
<1>11. CASE \E c \in Streams : Produce(s, c)
  <2>1. PICK c \in Streams : Produce(s, c)
    BY <1>11
  <2>2. pipe' \in [Sessions -> [Streams -> Nat]]
    <3>1. pipe[s] \in [Streams -> Nat]
      BY DEF BridgeTypeOK
    <3> QED BY <2>1, <3>1 DEF Produce, BridgeTypeOK
  <2>3. produced' \in [Sessions -> 0..MaxChunks]
    BY <2>1, BridgeAssumption DEF Produce, BridgeTypeOK
  <2>4. BridgeTypeOK'
    BY <2>1, <2>2, <2>3 DEF Produce, BridgeTypeOK
  <2> QED BY <1>0, <2>1, <2>4, QuietBridgeInv DEF Produce
<1>12. CASE Connect(s)
  <2>1. BridgeTypeOK'
    BY <1>12 DEF Connect, BridgeTypeOK
  <2> QED BY <1>12, <2>1, QuietBridgeInv DEF Connect, SessionAccounted
<1>13. CASE PeerReads(s)
  <2>1. wire[s] \in Seq({"ready", "chunk"} \cup Final) /\ wire[s] # <<>>
    BY <1>13 DEF PeerReads, BridgeTypeOK
  <2>2. wire' \in [Sessions -> Seq({"ready", "chunk"} \cup Final)]
    <3>1. wire' = [wire EXCEPT ![s] = <<>>] \/ wire' = [wire EXCEPT ![s] = Tail(wire[s])]
      BY <1>13 DEF PeerReads, Leave
    <3>2. Tail(wire[s]) \in Seq({"ready", "chunk"} \cup Final)
      BY <2>1
    <3>3. <<>> \in Seq({"ready", "chunk"} \cup Final)
      OBVIOUS
    <3> QED BY <3>1, <3>2, <3>3 DEF BridgeTypeOK
  <2>3. delivered' \in [Sessions -> Nat]
    BY <1>13 DEF PeerReads, BridgeTypeOK
  <2>4. peer' \in [Sessions -> {"idle", "wait", "relay", "gone"}]
    <3>1. PICK label \in {"relay", "gone"} : peer' = [peer EXCEPT ![s] = label]
      BY <1>13 DEF PeerReads, Leave
    <3> QED BY <3>1 DEF BridgeTypeOK
  <2>5. result' \in [Sessions -> Final \cup {"none", None}]
    <3>1. UNCHANGED result \/ \E frame \in Final : result' = [result EXCEPT ![s] = frame]
      BY <1>13 DEF PeerReads, Leave
    <3> QED BY <3>1 DEF BridgeTypeOK
  <2>6. BridgeTypeOK'
    BY <1>13, <2>2, <2>3, <2>4, <2>5 DEF PeerReads, BridgeTypeOK
  <2> QED BY <1>0, <1>13, <2>6, QuietBridgeInv DEF PeerReads
<1>14. CASE PeerFindsEnd(s) \/ PeerLeaves(s)
  <2>0. PICK verdict \in {"none", None} : Leave(s, verdict)
    BY <1>14 DEF PeerFindsEnd, PeerLeaves
  <2>a. wire' \in [Sessions -> Seq({"ready", "chunk"} \cup Final)]
    BY <2>0 DEF Leave, BridgeTypeOK
  <2>b. peer' \in [Sessions -> {"idle", "wait", "relay", "gone"}]
    BY <2>0 DEF Leave, BridgeTypeOK
  <2>c. result' \in [Sessions -> Final \cup {"none", None}]
    BY <2>0 DEF Leave, BridgeTypeOK
  <2>1. BridgeTypeOK'
    BY <1>14, <2>a, <2>b, <2>c DEF PeerFindsEnd, PeerLeaves, BridgeTypeOK
  <2> QED BY <1>0, <1>14, <2>1, QuietBridgeInv DEF PeerFindsEnd, PeerLeaves
<1>15. CASE LaunchLost(s) \/ SendLaunch(s)
  <2>1. BridgeTypeOK'
    BY <1>15 DEF LaunchLost, SendLaunch, BridgeTypeOK
  <2> QED BY <1>15, <2>1, QuietBridgeInv DEF LaunchLost, SendLaunch
<1> QED BY <1>1, <1>2, <1>3, <1>4, <1>5, <1>6, <1>7, <1>8, <1>9, <1>10, <1>11, <1>12,
           <1>13, <1>14, <1>15 DEF QuietStep

LEMMA ReadLaunchInv ==
    ASSUME IInv, NEW s \in Sessions, ReadLaunch(s), UNCHANGED brokerVars
    PROVE  IInv'
<1> USE DEF IInv, TypeOK, Goto, SendLater
<1>1. /\ s \in Hands /\ client[s] = "none" /\ ~Up(s)
      /\ UNCHANGED <<containers, removal, stdin, pumpVars, wire, peerVars>>
      /\ faults' \in 0..MaxFaults
  BY FaultAssumption
  DEF Hands, ReadLaunch, SessionAccounted, Attached, Fault, NoFault, DockerTypeOK
<1>2. PICK label \in {"ready", "send", "stop"} :
         /\ session' = [session EXCEPT ![s] = label]
         /\ \/ label # "send" /\ UNCHANGED final
            \/ label = "send" /\ final' = [final EXCEPT ![s] = "error"]
         /\ client' = client \/ client' = [client EXCEPT ![s] = "spawned"]
  BY DEF ReadLaunch
<1>3. BridgeTypeOK'
  BY <1>1, <1>2 DEF BridgeTypeOK, Final, pumpVars, peerVars
<1>4. /\ client' \in [Hands -> {"none", "spawned", "attached", "exited", "dead"}]
      /\ \A h \in Hands : Attached(h)'
      /\ \A h \in Hands \ {s} : Calm(h)
  <2>1. CASE client' = client
    BY <1>1, <2>1, CalmIfUnchanged DEF DockerTypeOK, Attached, Up
  <2>2. CASE client' = [client EXCEPT ![s] = "spawned"]
    BY <1>1, <2>2, SpawnStep
  <2> QED BY <1>2, <2>1, <2>2
<1>5. DockerTypeOK'
  BY <1>1, <1>4 DEF DockerTypeOK
<1>6. SessionAccounted(s)' /\ \A x \in Sessions \ {s} :
         session'[x] = session[x] /\ final'[x] = final[x] /\ removal'[x] = removal[x]
  BY <1>1, <1>2, NoneAssumption DEF SessionAccounted, BridgeTypeOK
<1> QED BY <1>3, <1>4, <1>5, <1>6, BridgeKept

LEMMA RemovalInv ==
    ASSUME IInv, NEW s \in Sessions, UNCHANGED brokerVars,
           Stop(s) \/ Remove(s) \/ RemoveFails(s) \/ RemoveLate(s)
    PROVE  IInv'
<1> USE DEF IInv, TypeOK, Goto
<1>1. /\ s \in Hands /\ NameOf[s] \in Names
      /\ SessionAccounted(s) /\ Attached(s)
      /\ client[s] \in {"none", "spawned", "attached", "exited", "dead"}
  BY NameAssumption DEF Hands, DockerTypeOK
<1>2. CASE Stop(s)
  <2>1. /\ containers' \in [Names -> Hands \cup {None}]
        /\ client' \in [Hands -> {"none", "spawned", "attached", "exited", "dead"}]
        /\ \A h \in Hands : Attached(h)' /\ Calm(h)
        /\ client[s] # "none" => Ended(s)'
    <3>1. CASE client[s] = "attached" /\ RemoveByName(NameOf[s])
      <4>1. client'[s] = "exited"
        BY <1>1, <3>1 DEF RemoveByName, Attached
      <4> QED BY <1>1, <3>1, <4>1, RemoveStep DEF Ended
    <3>2. CASE client' = Killed({s}) /\ UNCHANGED containers
      BY <1>1, <3>2, KilledStep DEF DockerTypeOK
    <3> QED BY <1>2, <3>1, <3>2 DEF Stop, CancelTasks
  <2>2. DockerTypeOK'
    BY <1>2, <2>1 DEF Stop, CancelTasks, NoFault, DockerTypeOK
  <2>3. PICK label \in {"closed", "remove"} :
           /\ session' = [session EXCEPT ![s] = label]
           /\ label = "closed" <=> client[s] = "none"
    BY <1>2 DEF Stop
  <2>4. UNCHANGED <<final, removal, produced, wire, peerVars>>
    BY <1>2 DEF Stop, CancelTasks
  <2>5. /\ stdin' \in [Sessions -> {"off", "feeding", "eof"}]
        /\ pipe' \in [Sessions -> [Streams -> Nat]]
    BY <1>2 DEF Stop, CancelTasks, BridgeTypeOK
  <2>6. pump' \in [Sessions -> [Streams -> {"off", "reading", "draining", "ended", "failed"}]]
    <3>1. [c \in Streams |-> "off"]
             \in [Streams -> {"off", "reading", "draining", "ended", "failed"}]
      OBVIOUS
    <3>2. pump' = [pump EXCEPT ![s] = [c \in Streams |-> "off"]]
      BY <1>2 DEF Stop, CancelTasks
    <3>3. pump \in [Sessions -> [Streams -> {"off", "reading", "draining", "ended", "failed"}]]
      BY DEF BridgeTypeOK
    <3> QED BY <3>1, <3>2, <3>3
  <2>7. BridgeTypeOK'
    BY <2>3, <2>4, <2>5, <2>6 DEF BridgeTypeOK, peerVars
  <2>8. session'[s] = label /\ \A x \in Sessions \ {s} : session'[x] = session[x]
    BY <2>3 DEF BridgeTypeOK
  <2>9. SessionAccounted(s)'
    <3>1. label = "closed" => client'[s] = "none" /\ ~Up(s)'
      BY <1>1, <2>1, <2>3 DEF Calm, Attached
    <3> QED BY <2>1, <2>3, <2>8, <3>1 DEF SessionAccounted
  <2> QED BY <2>1, <2>2, <2>4, <2>7, <2>8, <2>9, BridgeKept
<1>3. CASE Remove(s)
  <2>1. /\ containers' \in [Names -> Hands \cup {None}]
        /\ client' \in [Hands -> {"none", "spawned", "attached", "exited", "dead"}]
        /\ \A h \in Hands : Attached(h)' /\ Calm(h)
        /\ ~Up(s)'
    BY <1>1, <1>3, RemoveStep DEF Remove
  <2>2. DockerTypeOK' /\ BridgeTypeOK'
    BY <1>3, <2>1 DEF Remove, NoFault, DockerTypeOK, BridgeTypeOK, pumpVars, peerVars
  <2>3. SessionAccounted(s)'
    BY <1>1, <1>3, <2>1 DEF Remove, SessionAccounted, BridgeTypeOK, Calm, Ended
  <2>4. \A x \in Sessions \ {s} :
           session'[x] = session[x] /\ final'[x] = final[x] /\ removal'[x] = removal[x]
    BY <1>3 DEF Remove, BridgeTypeOK
  <2> QED BY <2>1, <2>2, <2>3, <2>4, BridgeKept
<1>4. CASE RemoveFails(s)
  <2>1. DockerTypeOK' /\ \A h \in Hands : Attached(h)' /\ Calm(h)
    BY <1>4, FaultAssumption, CalmIfUnchanged
    DEF RemoveFails, Fault, DockerTypeOK, Attached, Up
  <2>2. BridgeTypeOK'
    BY <1>4 DEF RemoveFails, BridgeTypeOK, pumpVars, peerVars
  <2>3. SessionAccounted(s)'
    BY <1>1, <1>4 DEF RemoveFails, SessionAccounted, BridgeTypeOK, Ended
  <2>4. \A x \in Sessions \ {s} :
           session'[x] = session[x] /\ final'[x] = final[x] /\ removal'[x] = removal[x]
    BY <1>4 DEF RemoveFails, BridgeTypeOK
  <2> QED BY <2>1, <2>2, <2>3, <2>4, BridgeKept
<1>5. CASE RemoveLate(s)
  <2>1. /\ containers' \in [Names -> Hands \cup {None}]
        /\ client' \in [Hands -> {"none", "spawned", "attached", "exited", "dead"}]
        /\ \A h \in Hands : Attached(h)' /\ Calm(h)
    BY <1>1, <1>5, RemoveStep DEF RemoveLate
  <2>2. UNCHANGED <<session, final, removal>> /\ DockerTypeOK' /\ BridgeTypeOK'
    BY <1>5, <2>1
    DEF RemoveLate, NoFault, DockerTypeOK, BridgeTypeOK, bridgeVars, mainVars, pumpVars,
        peerVars
  <2>3. SessionAccounted(s)'
    BY <1>1, <2>1, <2>2, SessionKept
  <2> QED BY <2>1, <2>2, <2>3, BridgeKept
<1> QED BY <1>2, <1>3, <1>4, <1>5

LEMMA BridgeCrashInv ==
    ASSUME IInv, BridgeCrash, UNCHANGED brokerVars
    PROVE  IInv'
<1> USE DEF IInv, TypeOK
<1> DEFINE flying == {s \in Sessions : Flying(s)}
<1>1. /\ client' = Killed(flying)
      /\ session' = [s \in Sessions |-> IF s \in flying THEN "crashed" ELSE session[s]]
      /\ UNCHANGED <<containers, final, removal, produced, wire, peerVars>>
      /\ Fault
  BY DEF BridgeCrash
<1>2. /\ client' \in [Hands -> {"none", "spawned", "attached", "exited", "dead"}]
      /\ \A h \in Hands : Attached(h)' /\ Calm(h)
  BY <1>1, KilledStep
<1>3. TypeOK'
  <2>1. DockerTypeOK'
    BY <1>1, <1>2, FaultAssumption DEF DockerTypeOK, Fault
  <2>2. session' \in [Sessions -> {"idle", "accept", "launch", "ready", "relay", "gather",
                                   "send", "sent", "stop", "remove", "closed", "crashed"}]
    BY <1>1 DEF BridgeTypeOK
  <2>3. stdin' \in [Sessions -> {"off", "feeding", "eof"}]
    BY DEF BridgeCrash, BridgeTypeOK
  <2>4. pump' \in [Sessions -> [Streams -> {"off", "reading", "draining", "ended", "failed"}]]
    BY DEF BridgeCrash, BridgeTypeOK
  <2>5. pipe' \in [Sessions -> [Streams -> Nat]]
    BY DEF BridgeCrash, BridgeTypeOK
  <2>6. BridgeTypeOK'
    BY <1>1, <2>2, <2>3, <2>4, <2>5 DEF BridgeTypeOK, peerVars
  <2> QED BY <2>1, <2>6 DEF BrokerTypeOK, brokerVars
<1>4. ASSUME NEW s \in Sessions PROVE SessionAccounted(s)'
  <2>1. CASE s \in flying
    BY <1>1, <2>1 DEF SessionAccounted
  <2>2. CASE s \notin flying
    BY <1>1, <1>2, <2>2, SessionKept DEF Hands
  <2> QED BY <2>1, <2>2
<1>5. ASSUME NEW r \in Runs PROVE RunAccounted(r)'
  BY <1>2, RunKept DEF Hands, brokerVars
<1> QED BY <1>2, <1>3, <1>4, <1>5

-----------------------------------------------------------------------------
LEMMA InitInv == Init => IInv
<1> SUFFICES ASSUME Init PROVE IInv
  OBVIOUS
<1> USE DEF Init, DockerInit, BrokerInit, BridgeInit
<1>1. DockerTypeOK
  BY FaultAssumption DEF DockerTypeOK
<1>2. BrokerTypeOK
  BY DEF BrokerTypeOK
<1>3. BridgeTypeOK
  BY BridgeAssumption DEF BridgeTypeOK
<1>4. \A h \in Hands : Attached(h)
  BY NameAssumption, HandAssumption DEF Attached, Up
<1>5. \A r \in Runs : RunAccounted(r)
  BY DEF RunAccounted, Hands
<1>6. \A s \in Sessions : SessionAccounted(s)
  BY DEF SessionAccounted, Hands
<1> QED BY <1>1, <1>2, <1>3, <1>4, <1>5, <1>6 DEF IInv, TypeOK

LEMMA NextInv == IInv /\ [Next]_vars => IInv'
<1> SUFFICES ASSUME IInv, [Next]_vars PROVE IInv'
  OBVIOUS
<1>1. CASE DockerStep
  <2>1. DockerTypeOK' /\ \A h \in Hands : Attached(h)' /\ Calm(h)
    BY <1>1, DaemonStep DEF DockerStep, IInv, TypeOK
  <2>2. TypeOK'
    BY <1>1, <2>1
    DEF DockerStep, IInv, TypeOK, BrokerTypeOK, BridgeTypeOK, brokerVars, bridgeVars,
        mainVars, pumpVars, peerVars
  <2>3. \A r \in Runs : RunAccounted(r)'
    BY <1>1, <2>1, RunKept DEF DockerStep, IInv, Hands, brokerVars
  <2>4. \A s \in Sessions : SessionAccounted(s)'
    BY <1>1, <2>1, SessionKept DEF DockerStep, IInv, Hands, bridgeVars, mainVars
  <2> QED BY <2>1, <2>2, <2>3, <2>4 DEF IInv
<1>2. CASE BrokerStep
  BY <1>2, RunStepInv, BrokerCrashInv DEF BrokerStep, BrokerNext
<1>3. CASE BridgeStep
  <2>1. CASE BridgeCrash
    BY <1>3, <2>1, BridgeCrashInv DEF BridgeStep
  <2>2. CASE \E s \in Sessions :
                QuietStep(s) \/ ReadLaunch(s)
                \/ Stop(s) \/ Remove(s) \/ RemoveFails(s) \/ RemoveLate(s)
    BY <1>3, <2>2, QuietStepInv, ReadLaunchInv, RemovalInv DEF BridgeStep
  <2> QED BY <1>3, <2>1, <2>2 DEF BridgeStep, BridgeNext, MainStep, QuietStep
<1>4. CASE UNCHANGED vars
  <2>1. \A h \in Hands : Attached(h)' /\ Calm(h)
    BY <1>4, CalmIfUnchanged DEF vars, dockerVars, IInv, Attached, Up
  <2>2. TypeOK'
    BY <1>4
    DEF vars, IInv, TypeOK, DockerTypeOK, BrokerTypeOK, BridgeTypeOK, dockerVars,
        brokerVars, bridgeVars, mainVars, pumpVars, peerVars
  <2>3. \A r \in Runs : RunAccounted(r)'
    BY <1>4, <2>1, RunKept DEF vars, IInv, Hands, brokerVars
  <2>4. \A s \in Sessions : SessionAccounted(s)'
    BY <1>4, <2>1, SessionKept DEF vars, IInv, Hands, bridgeVars, mainVars
  <2> QED BY <2>1, <2>2, <2>3, <2>4 DEF IInv
<1> QED BY <1>1, <1>2, <1>3, <1>4 DEF Next

LEMMA Invariant == Spec => []IInv
BY InitInv, NextInv, PTL DEF Spec

\* The state of both services and of the daemon keeps its type.
THEOREM TypeCorrect == Spec => []TypeOK
<1>1. IInv => TypeOK
  BY DEF IInv
<1> QED BY <1>1, Invariant, PTL

\* A container that is still there when its run has been answered is accounted for in
\* the answer, whatever runs share its name, whatever fails and whoever crashes.
THEOREM AnswersAccount == Spec => []AnswerAccountsForContainer
<1>1. IInv => AnswerAccountsForContainer
  <2> SUFFICES ASSUME IInv, NEW r \in Runs, answer[r] # None, Up(r)
               PROVE  /\ answer[r].returncode = "signalled"
                      /\ answer[r].timedOut => answer[r].cleanup = "failed"
                      /\ answer[r].cleanup # "ok"
    BY DEF AnswerAccountsForContainer
  <2>1. RunAccounted(r) /\ Attached(r)
    BY DEF IInv, Hands
  <2> QED BY <2>1 DEF RunAccounted, Attached, Ended
<1> QED BY <1>1, Invariant, PTL

\* A session that is over leaves no container, unless its docker rm failed.
THEOREM SessionsRemove == Spec => []ClosedSessionRemoved
<1>1. IInv => ClosedSessionRemoved
  BY DEF IInv, SessionAccounted, ClosedSessionRemoved
<1> QED BY <1>1, Invariant, PTL

-----------------------------------------------------------------------------
\* What becomes of the chunks of a session

Early == {"idle", "accept", "launch", "ready"}
Sending == Early \cup {"relay", "gather", "send"}

\* Nothing has been dropped yet, or nothing is left that could be.
Faithful(s) == session[s] \in Sending \/ final[s] = "exit"

\* The chunks in the pipes p, each named by its stream and its place.
Unread(p) == UNION {{c} \X (1..p[c]) : c \in Streams}

\* The chunks among the frames of a faithful session: all frames but ready, which comes
\* first, and exit, which comes last.
Chunks(w) ==
    Len(w) - (IF w # <<>> /\ w[1] = "ready" THEN 1 ELSE 0)
           - (IF w # <<>> /\ w[Len(w)] = "exit" THEN 1 ELSE 0)

Phases(s) ==
    /\ session[s] = "idle" => peer[s] = "idle"
    /\ session[s] \in Early => wire[s] = <<>> /\ \A c \in Streams : pump[s][c] = "off"
    /\ session[s] = "gather" => Ended(s)
    /\ \A c \in Streams : pump[s][c] = "ended" => pipe[s][c] = 0 /\ Ended(s)
    /\ final[s] = "exit" =>
          /\ session[s] \notin Sending \ {"send"}
          /\ Ended(s)
          /\ \A c \in Streams : pump[s][c] \in {"ended", "off"} /\ pipe[s][c] = 0

\* The exit frame is the last one, and its session sends nothing after it.
Frames(s) ==
    /\ \A i \in DOMAIN wire[s] : wire[s][i] = "exit" => final[s] = "exit"
    /\ Faithful(s) =>
          \A i \in DOMAIN wire[s] :
             /\ wire[s][i] = "ready" => i = 1
             /\ wire[s][i] \in Final =>
                   wire[s][i] = "exit" /\ i = Len(wire[s]) /\ session[s] \notin Sending

\* Every chunk of a faithful session is in a pipe, on the wire or passed on.
Counted(s) ==
    /\ IsFiniteSet(Unread(pipe[s]))
    /\ Faithful(s) /\ ~Gone(s) =>
          produced[s] = delivered[s] + Chunks(wire[s]) + Cardinality(Unread(pipe[s]))
    /\ result[s] = "exit" => Gone(s) /\ final[s] = "exit" /\ delivered[s] = produced[s]

Conserved(s) == Phases(s) /\ Frames(s) /\ Counted(s)

Frame == {"ready", "chunk"} \cup Final

LEMMA UnreadEmpty ==
    ASSUME NEW p, \A c \in Streams : p[c] = 0
    PROVE  Unread(p) = {} /\ IsFiniteSet(Unread(p)) /\ Cardinality(Unread(p)) = 0
<1>1. Unread(p) = {}
  BY DEF Unread
<1> QED BY <1>1, FS_EmptySet

LEMMA UnreadOneMore ==
    ASSUME NEW p \in [Streams -> Nat], NEW c \in Streams, NEW q, q = [p EXCEPT ![c] = @ + 1]
    PROVE  /\ IsFiniteSet(Unread(p)) <=> IsFiniteSet(Unread(q))
           /\ IsFiniteSet(Unread(p)) => /\ Cardinality(Unread(p)) \in Nat
                                        /\ Cardinality(Unread(q)) = Cardinality(Unread(p)) + 1
<1> DEFINE new == <<c, p[c] + 1>>
<1>1. \A u, d : u \in {d} \X (1..p[d]) <=> \E i \in 1..p[d] : u = <<d, i>>
  OBVIOUS
<1>2. \A u, d : u \in {d} \X (1..q[d]) <=> \E i \in 1..q[d] : u = <<d, i>>
  OBVIOUS
<1>3. \A d \in Streams : \A i : i \in 1..q[d] <=> i \in 1..p[d] \/ (d = c /\ i = p[c] + 1)
  OBVIOUS
<1>4. \A u : u \in Unread(p) <=> \E d \in Streams : \E i \in 1..p[d] : u = <<d, i>>
  BY <1>1 DEF Unread
<1>5. \A u : u \in Unread(q) <=> \E d \in Streams : \E i \in 1..q[d] : u = <<d, i>>
  BY <1>2 DEF Unread
<1>6. new \notin Unread(p)
  BY <1>4
<1>7. Unread(q) = Unread(p) \cup {new}
  <2>1. ASSUME NEW u \in Unread(q) PROVE u \in Unread(p) \cup {new}
    <3>1. PICK d \in Streams : \E i \in 1..q[d] : u = <<d, i>>
      BY <1>5, <2>1
    <3>2. PICK i \in 1..q[d] : u = <<d, i>>
      BY <3>1
    <3> QED BY <1>3, <1>4, <3>2
  <2>2. ASSUME NEW u \in Unread(p) PROVE u \in Unread(q)
    BY <1>3, <1>4, <1>5
  <2>3. new \in Unread(q)
    <3>1. p[c] + 1 \in 1..q[c]
      OBVIOUS
    <3> QED BY <1>5, <3>1
  <2> QED BY <2>1, <2>2, <2>3
<1>8. Unread(p) = Unread(q) \ {new}
  BY <1>6, <1>7
<1> HIDE DEF new
<1>9. ASSUME IsFiniteSet(Unread(p))
      PROVE  /\ IsFiniteSet(Unread(q)) /\ Cardinality(Unread(p)) \in Nat
             /\ Cardinality(Unread(q)) = Cardinality(Unread(p)) + 1
  <2>1. /\ IsFiniteSet(Unread(p) \cup {new})
        /\ Cardinality(Unread(p) \cup {new}) = Cardinality(Unread(p)) + 1
    BY <1>6, <1>9, FS_AddElement
  <2> QED BY <1>7, <1>9, <2>1, FS_CardinalityType
<1>10. ASSUME IsFiniteSet(Unread(q)) PROVE IsFiniteSet(Unread(p))
  <2>1. IsFiniteSet(Unread(q) \ {new})
    BY <1>10, FS_RemoveElement
  <2> QED BY <1>8, <2>1
<1> QED BY <1>9, <1>10

LEMMA ChunksAppend ==
    ASSUME NEW w \in Seq(Frame), \A i \in DOMAIN w : w[i] # "exit"
    PROVE  /\ Chunks(w) \in Int
           /\ Chunks(Append(w, "chunk")) = Chunks(w) + 1
           /\ Chunks(Append(w, "exit")) = Chunks(w)
           /\ w = <<>> => Chunks(w) = 0 /\ Chunks(Append(w, "ready")) = 0
<1>1. ASSUME NEW e \in Frame
      PROVE  /\ Append(w, e) # <<>> /\ Len(Append(w, e)) = Len(w) + 1
             /\ Append(w, e)[1] = IF w = <<>> THEN e ELSE w[1]
             /\ Append(w, e)[Len(Append(w, e))] = e
  OBVIOUS
<1>2. "chunk" \in Frame /\ "exit" \in Frame /\ "ready" \in Frame
  BY DEF Frame, Final
<1>3. /\ Len(w) \in Nat
      /\ w = <<>> <=> Len(w) = 0
      /\ w # <<>> => w[Len(w)] # "exit"
  OBVIOUS
<1>4. Chunks(w) \in Int
  BY <1>3 DEF Chunks
<1>5. Chunks(Append(w, "chunk")) = Chunks(w) + 1
  <2> DEFINE x == Append(w, "chunk")
  <2>1. x # <<>> /\ Len(x) = Len(w) + 1 /\ x[Len(x)] # "exit"
        /\ (x[1] = "ready" <=> w # <<>> /\ w[1] = "ready")
    BY <1>1, <1>2
  <2> HIDE DEF x
  <2>2. Chunks(x) = Chunks(w) + 1
    BY <1>3, <2>1 DEF Chunks
  <2> QED BY <2>2 DEF x
<1>6. Chunks(Append(w, "exit")) = Chunks(w)
  <2> DEFINE x == Append(w, "exit")
  <2>1. x # <<>> /\ Len(x) = Len(w) + 1 /\ x[Len(x)] = "exit"
        /\ (x[1] = "ready" <=> w # <<>> /\ w[1] = "ready")
    BY <1>1, <1>2
  <2> HIDE DEF x
  <2>2. Chunks(x) = Chunks(w)
    BY <1>3, <2>1 DEF Chunks
  <2> QED BY <2>2 DEF x
<1>7. ASSUME w = <<>> PROVE Chunks(w) = 0 /\ Chunks(Append(w, "ready")) = 0
  BY <1>1, <1>2, <1>3, <1>7 DEF Chunks
<1> QED BY <1>4, <1>5, <1>6, <1>7

LEMMA ChunksTail ==
    ASSUME NEW w \in Seq(Frame), w # <<>>,
           \A i \in DOMAIN w : /\ w[i] = "ready" => i = 1
                               /\ w[i] = "exit" => i = Len(w)
    PROVE  /\ Chunks(w) \in Int
           /\ Head(w) = "chunk" => Chunks(Tail(w)) = Chunks(w) - 1
           /\ Head(w) = "ready" => Chunks(Tail(w)) = Chunks(w)
           /\ Head(w) = "exit" => Chunks(w) = 0
<1> DEFINE x == Tail(w)
<1>1. Len(w) \in Nat \ {0} /\ Head(w) = w[1] /\ DOMAIN w = 1..Len(w)
  OBVIOUS
<1>2. /\ x \in Seq(Frame) /\ Len(x) = Len(w) - 1
      /\ \A i \in 1..Len(x) : x[i] = w[i + 1]
  BY HeadTailProperties
<1> HIDE DEF x
<1>3. \/ x = <<>> /\ Len(w) = 1
      \/ x # <<>> /\ Len(w) > 1 /\ x[1] = w[2] /\ x[Len(x)] = w[Len(w)]
  BY <1>1, <1>2
<1>4. /\ Len(w) > 1 => w[2] # "ready" /\ w[1] # "exit"
      /\ w[1] = "exit" => Len(w) = 1
  BY <1>1
<1>5. Chunks(w) \in Int
  BY <1>1 DEF Chunks
<1>6. CASE x = <<>> /\ Len(w) = 1
  <2>1. Chunks(x) = 0
    BY <1>2, <1>6 DEF Chunks
  <2>2. w[1] = "chunk" => Chunks(w) = 1
    BY <1>1, <1>6 DEF Chunks
  <2>3. w[1] = "ready" => Chunks(w) = 0
    BY <1>1, <1>6 DEF Chunks
  <2>4. w[1] = "exit" => Chunks(w) = 0
    BY <1>1, <1>6 DEF Chunks
  <2> QED BY <1>1, <1>5, <2>1, <2>2, <2>3, <2>4 DEF x
<1>7. CASE x # <<>> /\ Len(w) > 1 /\ x[1] = w[2] /\ x[Len(x)] = w[Len(w)]
  <2>1. Chunks(x) = Len(x) - (IF w[Len(w)] = "exit" THEN 1 ELSE 0)
    <3>1. x # <<>> /\ x[1] # "ready" /\ Len(x) \in Nat
          /\ (x[Len(x)] = "exit" <=> w[Len(w)] = "exit")
      BY <1>2, <1>4, <1>7
    <3> QED BY <3>1 DEF Chunks
  <2>2. Chunks(w) = Len(w) - (IF w[1] = "ready" THEN 1 ELSE 0)
                           - (IF w[Len(w)] = "exit" THEN 1 ELSE 0)
    BY <1>1, <1>7 DEF Chunks
  <2>3. w[1] = "chunk" => Chunks(x) = Chunks(w) - 1
    BY <1>1, <1>2, <2>1, <2>2
  <2>4. w[1] = "ready" => Chunks(x) = Chunks(w)
    BY <1>1, <1>2, <2>1, <2>2
  <2> QED BY <1>1, <1>4, <1>5, <1>7, <2>3, <2>4 DEF x
<1> QED BY <1>3, <1>6, <1>7

-----------------------------------------------------------------------------
\* Steps and the chunks: what a step does to the parts of one session

\* A client that has ended is not started again.
LEMMA EndedStays ==
    ASSUME IInv, [Next]_vars, NEW h \in Hands, Ended(h)
    PROVE  Ended(h)'
<1> USE DEF IInv, TypeOK
<1>1. ASSUME client' = client PROVE Ended(h)'
  BY <1>1 DEF Ended
<1>2. ASSUME NEW hs, client' = Killed(hs) PROVE Ended(h)'
  BY <1>2 DEF Killed, Ended
<1>3. ASSUME NEW n, RemoveByName(n) PROVE Ended(h)'
  BY <1>3 DEF RemoveByName, Ended
<1>4. ASSUME NEW k \in Hands, client[k] = "none", client' = [client EXCEPT ![k] = "spawned"]
      PROVE  Ended(h)'
  BY <1>4 DEF Ended, DockerTypeOK
<1>5. CASE DockerStep
  BY <1>5, DaemonStep DEF DockerStep, Calm, Ended
<1>6. CASE BrokerStep
  <2>1. CASE BrokerCrash
    BY <1>2, <2>1 DEF BrokerCrash
  <2>2. ASSUME NEW r \in Runs, Post(r) PROVE Ended(h)'
    BY <1>1, <1>4, <2>2 DEF Post, RunAccounted, Hands
  <2>3. ASSUME NEW r \in Runs, RunStep(r) \/ Tell(r) \/ GiveUp(r) PROVE Ended(h)'
    <3>1. \/ client' = client
          \/ client' = Killed({r})
          \/ RemoveByName(NameOf[r])
      BY <2>3
      DEF RunStep, Tell, GiveUp, Observe, ExpireRun, Clean, CleanFails, CleanRaises, dockerVars
    <3> QED BY <1>1, <1>2, <1>3, <3>1
  <2> QED BY <1>6, <2>1, <2>2, <2>3 DEF BrokerStep, BrokerNext
<1>7. CASE BridgeStep
  <2>1. CASE BridgeCrash
    BY <1>2, <2>1 DEF BridgeCrash
  <2>2. ASSUME NEW s \in Sessions, ReadLaunch(s) PROVE Ended(h)'
    BY <1>1, <1>4, <2>2 DEF ReadLaunch, SessionAccounted, Hands
  <2>3. ASSUME NEW s \in Sessions, Stop(s) \/ Remove(s) \/ RemoveLate(s) \/ RemoveFails(s)
        PROVE  Ended(h)'
    <3>1. \/ client' = client
          \/ client' = Killed({s})
          \/ RemoveByName(NameOf[s])
      BY <2>3 DEF Stop, CancelTasks, Remove, RemoveLate, RemoveFails
    <3> QED BY <1>1, <1>2, <1>3, <3>1
  <2>4. ASSUME NEW s \in Sessions, QuietStep(s) PROVE Ended(h)'
    <3>1. client' = client
      BY <2>4
      DEF QuietStep, Ready, StdinEof, StdinInvalid, StdinLost, ProcessEnded, ExpireSession,
          Gather, SendFinal, FinalSent, PumpStep, PumpSend, PumpDrained, PumpEnds, Produce,
          LaunchLost, Connect, SendLaunch, PeerReads, PeerFindsEnd, PeerLeaves, dockerVars
    <3> QED BY <1>1, <3>1
  <2> QED BY <1>7, <2>1, <2>2, <2>3, <2>4 DEF BridgeStep, BridgeNext, MainStep, QuietStep
<1>8. CASE UNCHANGED vars
  BY <1>1, <1>8 DEF vars, dockerVars
<1> QED BY <1>5, <1>6, <1>7, <1>8 DEF Next

SameChunks(s) ==
    /\ pump'[s] = pump[s] /\ pipe'[s] = pipe[s] /\ produced'[s] = produced[s]
    /\ wire'[s] = wire[s] /\ peer'[s] = peer[s] /\ result'[s] = result[s]
    /\ delivered'[s] = delivered[s]

SameView(s) == session'[s] = session[s] /\ final'[s] = final[s] /\ SameChunks(s)

LEMMA ConservedKept ==
    ASSUME NEW s \in Sessions, Conserved(s), SameView(s), Ended(s) => Ended(s)'
    PROVE  Conserved(s)'
<1> USE DEF SameView, SameChunks, Conserved
<1>1. Phases(s)'
  BY DEF Phases, Gone
<1>2. Frames(s)'
  BY DEF Frames, Faithful
<1>3. Counted(s)'
  BY DEF Counted, Faithful, Gone
<1> QED BY <1>1, <1>2, <1>3

\* The main task goes on without a write.  It gives the session up, or it goes forward
\* while the session may still send, and exit is final only after both output tasks.
LEMMA MainMoves ==
    ASSUME NEW s \in Sessions, Conserved(s), SameChunks(s), Ended(s) => Ended(s)',
           session'[s] # "idle",
           session'[s] \in Early => session[s] \in Early,
           session'[s] \in Sending => session[s] \in Sending,
           session'[s] = "gather" => Ended(s),
           final[s] = "exit" => final'[s] = "exit",
           final'[s] = "exit" =>
              \/ final[s] = "exit" /\ session'[s] \notin Sending \ {"send"}
              \/ /\ session[s] = "gather" /\ session'[s] = "send"
                 /\ \A c \in Streams : pump[s][c] = "ended"
    PROVE  Conserved(s)'
<1> USE DEF SameChunks, Conserved
<1>1. Faithful(s)' => Faithful(s)
  BY DEF Faithful, Sending
<1>2. Phases(s)'
  BY DEF Phases, Sending
<1>3. Frames(s)'
  BY <1>1 DEF Frames
<1>4. Counted(s)'
  BY <1>1 DEF Counted, Gone
<1> QED BY <1>2, <1>3, <1>4

\* The tasks are cancelled and what is left in the pipes is dropped.
LEMMA StopMoves ==
    ASSUME NEW s \in Sessions, Conserved(s), Ended(s) => Ended(s)',
           session'[s] \notin Sending, final'[s] = final[s],
           \A c \in Streams : pump'[s][c] = "off" /\ pipe'[s][c] = 0,
           produced'[s] = produced[s], wire'[s] = wire[s], peer'[s] = peer[s],
           result'[s] = result[s], delivered'[s] = delivered[s]
    PROVE  Conserved(s)'
<1> USE DEF Conserved
<1>1. Faithful(s)' => final[s] = "exit" /\ Faithful(s)
  BY DEF Faithful
<1>2. Phases(s)'
  BY DEF Phases, Sending, Early
<1>3. Frames(s)'
  BY <1>1 DEF Frames
<1>4. /\ IsFiniteSet(Unread(pipe'[s]))
      /\ final[s] = "exit" => Cardinality(Unread(pipe'[s])) = Cardinality(Unread(pipe[s]))
  BY UnreadEmpty DEF Phases
<1>5. Counted(s)'
  BY <1>1, <1>4 DEF Counted, Gone
<1> QED BY <1>2, <1>3, <1>5

LEMMA ReadyMoves ==
    ASSUME NEW s \in Sessions, Conserved(s), Ended(s) => Ended(s)',
           session[s] = "ready", session'[s] = "relay",
           \A c \in Streams : pump'[s][c] = "reading",
           wire'[s] = Append(wire[s], "ready"),
           final'[s] = final[s], pipe'[s] = pipe[s], produced'[s] = produced[s],
           peer'[s] = peer[s], result'[s] = result[s], delivered'[s] = delivered[s]
    PROVE  Conserved(s)'
<1> USE DEF Conserved
<1>1. wire[s] = <<>> /\ final[s] # "exit"
  BY DEF Phases, Early, Sending
<1>2. wire'[s] = <<"ready">>
  BY <1>1
<1>3. Faithful(s) /\ Chunks(wire[s]) = Chunks(wire'[s])
  BY <1>1, <1>2 DEF Faithful, Sending, Early, Chunks
<1>4. Phases(s)'
  BY <1>1 DEF Phases, Early, Sending
<1>5. Frames(s)'
  BY <1>2 DEF Frames, Final
<1>6. Counted(s)'
  BY <1>3 DEF Counted, Gone
<1> QED BY <1>4, <1>5, <1>6

\* What a frame appended to a wire changes, entry by entry.
LEMMA AppendEntries ==
    ASSUME NEW w \in Seq(Frame), NEW e \in Frame, NEW x, x = Append(w, e)
    PROVE  /\ Len(x) = Len(w) + 1 /\ Len(w) \in Nat
           /\ \A i \in DOMAIN x : \/ i \in DOMAIN w /\ x[i] = w[i]
                                  \/ i = Len(x) /\ x[i] = e
OBVIOUS

LEMMA FinalMoves ==
    ASSUME NEW s \in Sessions, Conserved(s), Ended(s) => Ended(s)',
           wire[s] \in Seq(Frame), final[s] \in Final,
           session[s] = "send", session'[s] = "sent",
           wire'[s] = Append(wire[s], final[s]),
           final'[s] = final[s], pump'[s] = pump[s], pipe'[s] = pipe[s],
           produced'[s] = produced[s], peer'[s] = peer[s], result'[s] = result[s],
           delivered'[s] = delivered[s]
    PROVE  Conserved(s)'
<1> USE DEF Conserved
<1>1. session[s] \in Sending /\ session'[s] \notin Sending /\ Faithful(s)
      /\ (Faithful(s)' => final[s] = "exit")
  BY DEF Sending, Early, Faithful
<1>2. final[s] \in Frame
  BY DEF Frame
<1>3. \A i \in DOMAIN wire[s] : wire[s][i] \notin Final
  BY <1>1 DEF Frames
<1>4. Phases(s)'
  BY DEF Phases, Early, Sending
<1>5. Frames(s)'
  <2>1. \A i \in DOMAIN wire'[s] : \/ i \in DOMAIN wire[s] /\ wire'[s][i] = wire[s][i]
                                   \/ i = Len(wire'[s]) /\ wire'[s][i] = final[s]
    BY <1>2, AppendEntries
  <2>2. final[s] # "ready"
    BY DEF Final
  <2>3. "exit" \in Final
    BY DEF Final
  <2>4. \A i \in DOMAIN wire[s] : wire[s][i] = "ready" => i = 1
    BY <1>1 DEF Frames
  <2> QED BY <1>1, <1>3, <2>1, <2>2, <2>3, <2>4 DEF Frames
<1>6. Counted(s)'
  <2>1. \A i \in DOMAIN wire[s] : wire[s][i] # "exit"
    BY <1>3 DEF Final
  <2>2. final[s] = "exit" => Chunks(wire'[s]) = Chunks(wire[s])
    BY <2>1, ChunksAppend
  <2> QED BY <1>1, <2>2 DEF Counted, Gone
<1> QED BY <1>4, <1>5, <1>6

\* An output task reads a chunk, which goes onto the wire unless the client is gone.
LEMMA PumpSends ==
    ASSUME NEW s \in Sessions, NEW c \in Streams, Conserved(s), Ended(s) => Ended(s)',
           wire[s] \in Seq(Frame), pipe[s] \in [Streams -> Nat], produced[s] \in Nat,
           delivered[s] \in Nat,
           pump[s][c] = "reading", pipe[s][c] > 0,
           pipe'[s] = [pipe[s] EXCEPT ![c] = @ - 1],
           pump'[s][c] \in {"draining", "failed"},
           \A d \in Streams \ {c} : pump'[s][d] = pump[s][d],
           IF Gone(s) THEN wire'[s] = wire[s] ELSE wire'[s] = Append(wire[s], "chunk"),
           session'[s] = session[s], final'[s] = final[s],
           produced'[s] = produced[s], peer'[s] = peer[s], result'[s] = result[s],
           delivered'[s] = delivered[s]
    PROVE  Conserved(s)'
<1> USE DEF Conserved
<1>1. final[s] # "exit" /\ session[s] \notin Early
  BY DEF Phases
<1>2. Phases(s)'
  BY <1>1 DEF Phases
<1>3. \A i \in DOMAIN wire[s] : /\ wire[s][i] # "exit"
                                /\ Faithful(s) => wire[s][i] \notin Final
  BY <1>1 DEF Frames, Faithful, Final
<1>4. Frames(s)'
  <2>1. CASE Gone(s)
    BY <2>1 DEF Frames, Faithful
  <2>2. CASE ~Gone(s)
    <3>1. \A i \in DOMAIN wire'[s] : \/ i \in DOMAIN wire[s] /\ wire'[s][i] = wire[s][i]
                                     \/ i = Len(wire'[s]) /\ wire'[s][i] = "chunk"
      BY <2>2, AppendEntries DEF Frame
    <3>2. "chunk" \notin Final
      BY DEF Final
    <3>3. Faithful(s) => \A i \in DOMAIN wire[s] : wire[s][i] = "ready" => i = 1
      BY DEF Frames
    <3>4. Faithful(s)' <=> Faithful(s)
      BY DEF Faithful
    <3> QED BY <1>3, <3>1, <3>2, <3>3, <3>4 DEF Frames
  <2> QED BY <2>1, <2>2
<1>5. /\ IsFiniteSet(Unread(pipe'[s]))
      /\ Cardinality(Unread(pipe'[s])) \in Nat
      /\ Cardinality(Unread(pipe[s])) = Cardinality(Unread(pipe'[s])) + 1
  <2>1. pipe'[s] \in [Streams -> Nat]
    BY Z3
  <2>2. pipe[s] = [pipe'[s] EXCEPT ![c] = @ + 1]
    BY <2>1
  <2> QED BY <2>1, <2>2, UnreadOneMore DEF Counted
<1>6. Counted(s)'
  <2>1. ~Gone(s) => Chunks(wire[s]) \in Int /\ Chunks(wire'[s]) = Chunks(wire[s]) + 1
    BY <1>3, ChunksAppend
  <2> QED BY <1>1, <1>5, <2>1 DEF Counted, Gone, Faithful
<1> QED BY <1>2, <1>4, <1>6

LEMMA PumpMoves ==
    ASSUME NEW s \in Sessions, NEW c \in Streams, Conserved(s), Ended(s) => Ended(s)',
           pump[s][c] \in {"reading", "draining"},
           pump'[s][c] \in {"reading", "failed", "ended"},
           pump'[s][c] = "ended" => pipe[s][c] = 0 /\ Ended(s),
           \A d \in Streams \ {c} : pump'[s][d] = pump[s][d],
           session'[s] = session[s], final'[s] = final[s], pipe'[s] = pipe[s],
           produced'[s] = produced[s], wire'[s] = wire[s], peer'[s] = peer[s],
           result'[s] = result[s], delivered'[s] = delivered[s]
    PROVE  Conserved(s)'
<1> USE DEF Conserved
<1>1. final[s] # "exit" /\ session[s] \notin Early
  BY DEF Phases
<1>2. Phases(s)'
  BY <1>1 DEF Phases
<1>3. Frames(s)'
  BY DEF Frames, Faithful
<1>4. Counted(s)'
  BY DEF Counted, Faithful, Gone
<1> QED BY <1>2, <1>3, <1>4

LEMMA ProduceMoves ==
    ASSUME NEW s \in Sessions, NEW c \in Streams, Conserved(s), ~Ended(s),
           wire[s] \in Seq(Frame), pipe[s] \in [Streams -> Nat], produced[s] \in Nat,
           delivered[s] \in Nat,
           pipe'[s] = [pipe[s] EXCEPT ![c] = @ + 1], produced'[s] = produced[s] + 1,
           client'[s] = client[s],
           session'[s] = session[s], final'[s] = final[s], pump'[s] = pump[s],
           wire'[s] = wire[s], peer'[s] = peer[s], result'[s] = result[s],
           delivered'[s] = delivered[s]
    PROVE  Conserved(s)'
<1> USE DEF Conserved
<1>1. final[s] # "exit" /\ session[s] # "gather" /\ \A d \in Streams : pump[s][d] # "ended"
  BY DEF Phases
<1>2. Phases(s)'
  BY <1>1 DEF Phases
<1>3. Frames(s)'
  BY DEF Frames, Faithful
<1>4. /\ IsFiniteSet(Unread(pipe'[s]))
      /\ Cardinality(Unread(pipe[s])) \in Nat
      /\ Cardinality(Unread(pipe'[s])) = Cardinality(Unread(pipe[s])) + 1
  BY UnreadOneMore DEF Counted
<1>5. Counted(s)'
  <2>1. Faithful(s) /\ ~Gone(s) => Chunks(wire[s]) \in Int
    <3>1. Faithful(s) => \A i \in DOMAIN wire[s] : wire[s][i] # "exit"
      BY <1>1 DEF Frames
    <3> QED BY <3>1, ChunksAppend
  <2> QED BY <1>1, <1>4, <2>1 DEF Counted, Gone, Faithful
<1> QED BY <1>2, <1>3, <1>5

LEMMA ConnectMoves ==
    ASSUME NEW s \in Sessions, Conserved(s), Ended(s) => Ended(s)',
           session[s] = "idle", session'[s] = "accept", peer'[s] = "wait",
           final'[s] = final[s], pump'[s] = pump[s], pipe'[s] = pipe[s],
           produced'[s] = produced[s], wire'[s] = wire[s], result'[s] = result[s],
           delivered'[s] = delivered[s]
    PROVE  Conserved(s)'
<1> USE DEF Conserved
<1>1. final[s] # "exit" /\ ~Gone(s) /\ Faithful(s)
  BY DEF Phases, Faithful, Sending, Early, Gone
<1>2. Phases(s)'
  BY DEF Phases, Sending, Early
<1>3. Frames(s)'
  BY <1>1 DEF Frames, Sending, Early, Phases
<1>4. Counted(s)'
  BY <1>1 DEF Counted, Gone
<1> QED BY <1>2, <1>3, <1>4

\* The client leaves: with the exit frame it has everything, because the exit frame was
\* sent after the pipes were empty and is the last one on the wire.
LEMMA LeaveMoves ==
    ASSUME NEW s \in Sessions, Conserved(s), Ended(s) => Ended(s)',
           wire[s] \in Seq(Frame), delivered[s] \in Nat, produced[s] \in Nat,
           peer[s] \in {"wait", "relay"}, peer'[s] = "gone", wire'[s] = <<>>,
           result'[s] = "exit" => wire[s] # <<>> /\ Head(wire[s]) = "exit",
           session'[s] = session[s], final'[s] = final[s], pump'[s] = pump[s],
           pipe'[s] = pipe[s], produced'[s] = produced[s], delivered'[s] = delivered[s]
    PROVE  Conserved(s)'
<1> USE DEF Conserved
<1>1. Phases(s)'
  BY DEF Phases
<1>2. Frames(s)'
  BY DEF Frames
<1>3. ASSUME result'[s] = "exit" PROVE final[s] = "exit" /\ delivered[s] = produced[s]
  <2>1. wire[s] # <<>> /\ 1 \in DOMAIN wire[s] /\ wire[s][1] = "exit"
    BY <1>3
  <2>2. final[s] = "exit" /\ Faithful(s)
    BY <2>1 DEF Frames, Faithful
  <2>3. \A i \in DOMAIN wire[s] : /\ wire[s][i] = "ready" => i = 1
                                  /\ wire[s][i] = "exit" => i = Len(wire[s])
    BY <2>2 DEF Frames, Final
  <2>4. Chunks(wire[s]) = 0
    BY <1>3, <2>3, ChunksTail
  <2>5. Cardinality(Unread(pipe[s])) = 0
    BY <2>2, UnreadEmpty DEF Phases
  <2>6. produced[s] = delivered[s] + Chunks(wire[s]) + Cardinality(Unread(pipe[s]))
    BY <2>2 DEF Counted, Gone
  <2> QED BY <2>2, <2>4, <2>5, <2>6
<1>4. Counted(s)'
  BY <1>3 DEF Counted, Gone
<1> QED BY <1>1, <1>2, <1>4

LEMMA ReadMoves ==
    ASSUME NEW s \in Sessions, Conserved(s), Ended(s) => Ended(s)',
           wire[s] \in Seq(Frame), delivered[s] \in Nat, produced[s] \in Nat,
           peer[s] \in {"wait", "relay"}, wire[s] # <<>>, Head(wire[s]) \notin Final,
           peer'[s] = "relay", wire'[s] = Tail(wire[s]), result'[s] = result[s],
           delivered'[s] = IF Head(wire[s]) = "chunk" THEN delivered[s] + 1 ELSE delivered[s],
           session'[s] = session[s], final'[s] = final[s], pump'[s] = pump[s],
           pipe'[s] = pipe[s], produced'[s] = produced[s]
    PROVE  Conserved(s)'
<1> USE DEF Conserved
<1>1. Phases(s)'
  BY DEF Phases, Early
<1>2. Head(wire[s]) \in {"ready", "chunk"}
  BY DEF Frame
<1>3. /\ Len(wire'[s]) = Len(wire[s]) - 1 /\ Len(wire[s]) \in Nat
      /\ \A i \in DOMAIN wire'[s] : /\ i \in Nat /\ i >= 1
                                    /\ i + 1 \in DOMAIN wire[s]
                                    /\ wire'[s][i] = wire[s][i + 1]
  <2> DEFINE w == wire[s]
             x == Tail(w)
  <2>1. Len(x) = Len(w) - 1 /\ Len(w) \in Nat /\ x \in Seq(Frame)
    BY HeadTailProperties
  <2>2. \A i \in 1..Len(x) : x[i] = w[i + 1]
    BY HeadTailProperties
  <2> QED BY <2>1, <2>2
<1>4. Frames(s)'
  <2>1. \A i \in DOMAIN wire'[s] : wire'[s][i] = "exit" => final[s] = "exit"
    BY <1>3 DEF Frames
  <2>2. ASSUME Faithful(s), NEW i \in DOMAIN wire'[s]
        PROVE  /\ wire'[s][i] # "ready"
               /\ wire'[s][i] \in Final =>
                     wire'[s][i] = "exit" /\ i = Len(wire'[s]) /\ session[s] \notin Sending
    BY <1>3, <2>2 DEF Frames
  <2>3. Faithful(s)' <=> Faithful(s)
    BY DEF Faithful
  <2> QED BY <2>1, <2>2, <2>3 DEF Frames
<1>5. Counted(s)'
  <2>1. ASSUME Faithful(s)
        PROVE  /\ Chunks(wire[s]) \in Int
               /\ Head(wire[s]) = "chunk" => Chunks(wire'[s]) = Chunks(wire[s]) - 1
               /\ Head(wire[s]) = "ready" => Chunks(wire'[s]) = Chunks(wire[s])
    <3>1. \A i \in DOMAIN wire[s] : /\ wire[s][i] = "ready" => i = 1
                                    /\ wire[s][i] = "exit" => i = Len(wire[s])
      BY <2>1 DEF Frames, Final
    <3> QED BY <3>1, ChunksTail
  <2>2. ~Gone(s) /\ ~Gone(s)' /\ (Faithful(s)' <=> Faithful(s))
    BY DEF Gone, Faithful
  <2>3. Cardinality(Unread(pipe[s])) \in Nat
    BY FS_CardinalityType DEF Counted
  <2>4. Faithful(s) => produced[s] = delivered'[s] + Chunks(wire'[s])
                                        + Cardinality(Unread(pipe[s]))
    <3> SUFFICES ASSUME Faithful(s)
                 PROVE  produced[s] = delivered'[s] + Chunks(wire'[s])
                                                    + Cardinality(Unread(pipe[s]))
      OBVIOUS
    <3>1. produced[s] = delivered[s] + Chunks(wire[s]) + Cardinality(Unread(pipe[s]))
      BY <2>2 DEF Counted
    <3>2. delivered'[s] + Chunks(wire'[s]) = delivered[s] + Chunks(wire[s])
      <4>1. CASE Head(wire[s]) = "chunk"
        <5>1. delivered'[s] = delivered[s] + 1 /\ Chunks(wire'[s]) = Chunks(wire[s]) - 1
              /\ Chunks(wire[s]) \in Int
          BY <2>1, <4>1
        <5> QED BY <5>1
      <4>2. CASE Head(wire[s]) = "ready"
        <5>1. delivered'[s] = delivered[s] /\ Chunks(wire'[s]) = Chunks(wire[s])
          BY <2>1, <4>2
        <5> QED BY <5>1
      <4> QED BY <1>2, <4>1, <4>2
    <3> QED BY <3>1, <3>2
  <2> QED BY <2>2, <2>4 DEF Counted
<1> QED BY <1>1, <1>4, <1>5

-----------------------------------------------------------------------------
\* Every step conserves the chunks of every session

LEMMA SessionConserved ==
    ASSUME IInv, NEW s \in Sessions, Conserved(s), Ended(s) => Ended(s)',
           QuietStep(s) \/ ReadLaunch(s)
           \/ Stop(s) \/ Remove(s) \/ RemoveFails(s) \/ RemoveLate(s)
    PROVE  Conserved(s)'
<1>1. BridgeTypeOK /\ SessionAccounted(s)
  BY DEF IInv, TypeOK
<1>2. /\ wire[s] \in Seq(Frame) /\ pipe[s] \in [Streams -> Nat]
      /\ pump[s] \in [Streams -> {"off", "reading", "draining", "ended", "failed"}]
      /\ delivered[s] \in Nat /\ produced[s] \in Nat
      /\ final[s] \in Final \cup {None}
  BY <1>1, BridgeAssumption DEF BridgeTypeOK, Frame
<1>3. Phases(s)
  BY DEF Conserved
<1> USE DEF Goto, SendLater, Write, mainVars, pumpVars, peerVars
<1>4. CASE \/ LaunchLost(s) \/ SendLaunch(s) \/ ReadLaunch(s)
           \/ StdinInvalid(s) \/ StdinLost(s) \/ ProcessEnded(s)
           \/ ExpireSession(s) \/ Gather(s) \/ FinalSent(s) \/ Remove(s) \/ RemoveFails(s)
           \/ (Ready(s) /\ Gone(s)) \/ (SendFinal(s) /\ Gone(s))
  <2>1. SameChunks(s)
    BY <1>4
    DEF SameChunks, LaunchLost, SendLaunch, ReadLaunch,
        StdinInvalid, StdinLost, ProcessEnded, ExpireSession, Gather,
        FinalSent, Remove, RemoveFails, Ready, SendFinal
  <2>2. \/ session[s] = "accept" /\ session'[s] = "launch" /\ final'[s] = final[s]
        \/ session[s] = "launch" /\ session'[s] = "ready" /\ final'[s] = final[s]
        \/ session'[s] \in {"stop", "closed"} /\ final'[s] = final[s]
        \/ /\ session[s] \in {"launch", "relay"} /\ session'[s] = "send"
           /\ final'[s] \in {"error", "timeout"}
        \/ session[s] = "relay" /\ session'[s] = "gather" /\ Ended(s) /\ final'[s] = final[s]
        \/ /\ session[s] = "gather" /\ session'[s] = "send" /\ final'[s] = "exit"
           /\ \A c \in Streams : pump[s][c] = "ended"
    BY <1>1, <1>4
    DEF BridgeTypeOK, LaunchLost, SendLaunch, ReadLaunch,
        StdinInvalid, StdinLost, ProcessEnded, ExpireSession, Gather,
        FinalSent, Remove, RemoveFails, Ready, SendFinal
  <2>3. session[s] \in Sending \ {"send"} => final[s] # "exit"
    BY <1>3 DEF Phases
  <2>4. CASE /\ \/ session[s] = "accept" /\ session'[s] = "launch"
                \/ session[s] = "launch" /\ session'[s] = "ready"
             /\ final'[s] = final[s]
    BY <2>1, <2>3, <2>4, MainMoves DEF Early, Sending
  <2>5. CASE session'[s] \in {"stop", "closed"} /\ final'[s] = final[s]
    BY <2>1, <2>5, MainMoves DEF Early, Sending
  <2>6. CASE /\ session[s] \in {"launch", "relay"} /\ session'[s] = "send"
             /\ final'[s] \in {"error", "timeout"}
    BY <2>1, <2>3, <2>6, MainMoves DEF Early, Sending
  <2>7. CASE session[s] = "relay" /\ session'[s] = "gather" /\ Ended(s) /\ final'[s] = final[s]
    BY <2>1, <2>3, <2>7, MainMoves DEF Early, Sending
  <2>8. CASE /\ session[s] = "gather" /\ session'[s] = "send" /\ final'[s] = "exit"
             /\ \A c \in Streams : pump[s][c] = "ended"
    BY <2>1, <2>8, MainMoves DEF Early, Sending
  <2> QED BY <2>2, <2>4, <2>5, <2>6, <2>7, <2>8
<1>5. CASE Ready(s) /\ ~Gone(s)
  <2>1. /\ session[s] = "ready" /\ session'[s] = "relay"
        /\ wire'[s] = Append(wire[s], "ready")
        /\ UNCHANGED <<final, pipe, produced, peerVars>>
    BY <1>1, <1>5 DEF Ready, BridgeTypeOK
  <2>2. pump'[s] = [c \in Streams |-> "reading"]
    BY <1>1, <1>5 DEF Ready, BridgeTypeOK
  <2> QED BY <2>1, <2>2, ReadyMoves
<1>6. CASE SendFinal(s) /\ ~Gone(s)
  <2>1. final[s] \in Final
    BY <1>1, <1>2, <1>6 DEF SendFinal, SessionAccounted
  <2> QED BY <1>1, <1>2, <1>6, <2>1, FinalMoves DEF SendFinal, BridgeTypeOK
<1>7. CASE Stop(s)
  <2>1. /\ session'[s] \notin Sending
        /\ \A c \in Streams : pump'[s][c] = "off" /\ pipe'[s][c] = 0
        /\ UNCHANGED <<final, produced, wire, peerVars>>
    BY <1>1, <1>7 DEF Stop, CancelTasks, BridgeTypeOK, Sending, Early
  <2> QED BY <2>1, StopMoves
<1>8. CASE StdinEof(s) \/ RemoveLate(s)
  BY <1>8, ConservedKept DEF StdinEof, RemoveLate, SameView, SameChunks, bridgeVars
<1>9. CASE PumpStep(s)
  <2>1. PICK c \in Streams : PumpSend(s, c) \/ PumpDrained(s, c) \/ PumpEnds(s, c)
    BY <1>9 DEF PumpStep
  <2>2. CASE PumpSend(s, c)
    <3>1. /\ pipe'[s] = [pipe[s] EXCEPT ![c] = @ - 1]
          /\ pump[s][c] = "reading" /\ pipe[s][c] > 0
          /\ session'[s] = session[s] /\ final'[s] = final[s] /\ produced'[s] = produced[s]
          /\ peer'[s] = peer[s] /\ result'[s] = result[s] /\ delivered'[s] = delivered[s]
          /\ IF Gone(s) THEN wire'[s] = wire[s] ELSE wire'[s] = Append(wire[s], "chunk")
      BY <1>1, <2>2 DEF PumpSend, BridgeTypeOK
    <3>2. PICK label \in {"draining", "failed"} : pump' = [pump EXCEPT ![s][c] = label]
      BY <2>2 DEF PumpSend
    <3>3. pump'[s] = [pump[s] EXCEPT ![c] = label]
      BY <1>1, <3>2 DEF BridgeTypeOK
    <3>4. pump'[s][c] = label /\ \A d \in Streams \ {c} : pump'[s][d] = pump[s][d]
      BY <1>2, <3>3
    <3> QED BY <1>2, <3>1, <3>4, PumpSends
  <2>3. CASE PumpDrained(s, c) \/ PumpEnds(s, c)
    <3>1. /\ UNCHANGED <<session, final, pipe, produced, wire, peer, result, delivered>>
          /\ pump[s][c] \in {"reading", "draining"}
      BY <2>3 DEF PumpDrained, PumpEnds
    <3>2. PICK label \in {"reading", "failed", "ended"} :
             /\ pump' = [pump EXCEPT ![s][c] = label]
             /\ label = "ended" => pipe[s][c] = 0 /\ Ended(s)
      BY <2>3 DEF PumpDrained, PumpEnds
    <3>3. pump'[s] = [pump[s] EXCEPT ![c] = label]
      BY <1>1, <3>2 DEF BridgeTypeOK
    <3>4. pump'[s][c] = label /\ \A d \in Streams \ {c} : pump'[s][d] = pump[s][d]
      BY <1>2, <3>3
    <3> QED BY <3>1, <3>2, <3>4, PumpMoves
  <2> QED BY <2>1, <2>2, <2>3
<1>10. CASE \E c \in Streams : Produce(s, c)
  <2>1. PICK c \in Streams : Produce(s, c)
    BY <1>10
  <2>2. /\ pipe'[s] = [pipe[s] EXCEPT ![c] = @ + 1] /\ produced'[s] = produced[s] + 1
        /\ UNCHANGED <<client, session, final, pump, wire, peer, result, delivered>>
        /\ ~Ended(s)
    BY <1>1, <2>1 DEF Produce, BridgeTypeOK, Ended, dockerVars
  <2> QED BY <1>2, <2>2, ProduceMoves
<1>11. CASE Connect(s)
  BY <1>1, <1>11, ConnectMoves DEF Connect, BridgeTypeOK
<1>12. CASE PeerReads(s)
  <2>1. /\ peer[s] \in {"wait", "relay"} /\ wire[s] # <<>>
        /\ UNCHANGED <<session, final, pump, pipe, produced>>
        /\ delivered'[s] = IF Head(wire[s]) = "chunk" THEN delivered[s] + 1 ELSE delivered[s]
    BY <1>1, <1>12 DEF PeerReads, BridgeTypeOK
  <2>2. CASE Head(wire[s]) \in Final
    <3>1. peer'[s] = "gone" /\ wire'[s] = <<>> /\ result'[s] = Head(wire[s])
      BY <1>1, <1>12, <2>2 DEF PeerReads, Leave, BridgeTypeOK
    <3>2. delivered'[s] = delivered[s]
      BY <2>1, <2>2 DEF Final
    <3> QED BY <1>2, <2>1, <3>1, <3>2, LeaveMoves
  <2>3. CASE Head(wire[s]) \notin Final
    <3>1. peer'[s] = "relay" /\ wire'[s] = Tail(wire[s]) /\ result'[s] = result[s]
      BY <1>1, <1>12, <2>3 DEF PeerReads, BridgeTypeOK
    <3> QED BY <1>2, <2>1, <2>3, <3>1, ReadMoves
  <2> QED BY <2>2, <2>3
<1>13. CASE PeerFindsEnd(s) \/ PeerLeaves(s)
  <2>1. /\ peer[s] \in {"wait", "relay"} /\ peer'[s] = "gone" /\ wire'[s] = <<>>
        /\ UNCHANGED <<session, final, pump, pipe, produced, delivered>>
        /\ result'[s] \in {"none", None}
    BY <1>1, <1>13 DEF PeerFindsEnd, PeerLeaves, Leave, BridgeTypeOK
  <2> QED BY <1>2, <2>1, NoneAssumption, LeaveMoves
<1> QED
  BY <1>4, <1>5, <1>6, <1>7, <1>8, <1>9, <1>10, <1>11, <1>12, <1>13 DEF QuietStep

\* A step of one session leaves what the others have produced and sent alone.
LEMMA ElsewhereSame ==
    ASSUME IInv, NEW s \in Sessions,
           QuietStep(s) \/ ReadLaunch(s)
           \/ Stop(s) \/ Remove(s) \/ RemoveFails(s) \/ RemoveLate(s),
           NEW x \in Sessions \ {s}
    PROVE  SameView(x)
<1> USE DEF IInv, TypeOK
<1> USE DEF Goto, SendLater, Write, mainVars, pumpVars, peerVars, SameView, SameChunks
<1>1. CASE \/ LaunchLost(s) \/ SendLaunch(s) \/ ReadLaunch(s)
           \/ StdinEof(s) \/ StdinInvalid(s) \/ StdinLost(s)
           \/ ProcessEnded(s) \/ ExpireSession(s) \/ Gather(s) \/ FinalSent(s)
           \/ Remove(s) \/ RemoveFails(s) \/ RemoveLate(s)
  <2>1. /\ UNCHANGED <<pump, pipe, produced, wire, peer, result, delivered>>
        /\ session' = session \/ \E label : session' = [session EXCEPT ![s] = label]
        /\ final' = final \/ \E frame : final' = [final EXCEPT ![s] = frame]
    BY <1>1
    DEF LaunchLost, SendLaunch, ReadLaunch,
        StdinEof, StdinInvalid, StdinLost, ProcessEnded, ExpireSession, Gather,
        FinalSent, Remove, RemoveFails, RemoveLate, bridgeVars
  <2> QED BY <2>1 DEF BridgeTypeOK
<1>2. CASE Ready(s)
  BY <1>2 DEF Ready, BridgeTypeOK
<1>3. CASE SendFinal(s)
  BY <1>3 DEF SendFinal, BridgeTypeOK
<1>4. CASE Stop(s)
  BY <1>4 DEF Stop, CancelTasks, BridgeTypeOK
<1>5. CASE PumpStep(s)
  <2>1. PICK c \in Streams : PumpSend(s, c) \/ PumpDrained(s, c) \/ PumpEnds(s, c)
    BY <1>5 DEF PumpStep
  <2> QED BY <2>1 DEF PumpSend, PumpDrained, PumpEnds, BridgeTypeOK
<1>6. CASE \E c \in Streams : Produce(s, c)
  BY <1>6 DEF Produce, BridgeTypeOK
<1>7. CASE Connect(s)
  BY <1>7 DEF Connect, BridgeTypeOK
<1>8. CASE PeerReads(s) \/ PeerFindsEnd(s) \/ PeerLeaves(s)
  BY <1>8 DEF PeerReads, PeerFindsEnd, PeerLeaves, Leave, BridgeTypeOK
<1> QED BY <1>1, <1>2, <1>3, <1>4, <1>5, <1>6, <1>7, <1>8 DEF QuietStep

LEMMA CrashConserved ==
    ASSUME IInv, BridgeCrash, NEW s \in Sessions, Conserved(s), Ended(s) => Ended(s)'
    PROVE  Conserved(s)'
<1>1. UNCHANGED <<final, produced, wire, peer, result, delivered>>
  BY DEF BridgeCrash, peerVars
<1>2. CASE Flying(s)
  <2>1. session'[s] = "crashed" /\ pump'[s] = [c \in Streams |-> "off"]
        /\ pipe'[s] = [c \in Streams |-> 0]
    BY <1>2 DEF BridgeCrash
  <2> QED BY <1>1, <2>1, StopMoves DEF Sending, Early
<1>3. CASE ~Flying(s)
  <2>1. session'[s] = session[s] /\ pump'[s] = pump[s] /\ pipe'[s] = pipe[s]
    BY <1>3 DEF BridgeCrash
  <2> QED BY <1>1, <2>1, ConservedKept DEF SameView, SameChunks
<1> QED BY <1>2, <1>3

LEMMA InitConserved == Init => \A s \in Sessions : Conserved(s)
<1> SUFFICES ASSUME Init, NEW s \in Sessions PROVE Conserved(s)
  OBVIOUS
<1>1. /\ session[s] = "idle" /\ final[s] = None /\ peer[s] = "idle" /\ result[s] = None
      /\ wire[s] = <<>> /\ produced[s] = 0 /\ delivered[s] = 0
      /\ \A c \in Streams : pump[s][c] = "off" /\ pipe[s][c] = 0
  BY DEF Init, BridgeInit
<1>2. Phases(s)
  BY <1>1, NoneAssumption DEF Phases
<1>3. Frames(s)
  BY <1>1 DEF Frames
<1>4. Chunks(wire[s]) = 0
  BY <1>1 DEF Chunks
<1>5. Counted(s)
  BY <1>1, <1>4, NoneAssumption, UnreadEmpty DEF Counted
<1> QED BY <1>2, <1>3, <1>5 DEF Conserved

LEMMA NextConserved ==
    ASSUME IInv, [Next]_vars, \A s \in Sessions : Conserved(s), NEW x \in Sessions
    PROVE  Conserved(x)'
<1>1. Ended(x) => Ended(x)'
  BY EndedStays DEF Hands
<1>2. CASE UNCHANGED bridgeVars
  BY <1>1, <1>2, ConservedKept
  DEF SameView, SameChunks, bridgeVars, mainVars, pumpVars, peerVars
<1>3. CASE BridgeCrash
  BY <1>1, <1>3, CrashConserved
<1>4. ASSUME NEW s \in Sessions,
             QuietStep(s) \/ ReadLaunch(s)
             \/ Stop(s) \/ Remove(s) \/ RemoveFails(s) \/ RemoveLate(s)
      PROVE  Conserved(x)'
  <2>1. CASE s = x
    BY <1>1, <1>4, <2>1, SessionConserved
  <2>2. CASE s # x
    BY <1>1, <1>4, <2>2, ElsewhereSame, ConservedKept
  <2> QED BY <2>1, <2>2
<1> QED
  BY <1>2, <1>3, <1>4
  DEF Next, DockerStep, BrokerStep, BridgeStep, BridgeNext, MainStep, QuietStep, vars

\* A client that ends with the exit code of the process has passed on every chunk the
\* process wrote, and the process has ended by itself: the exit frame leaves the bridge
\* after both output tasks and is the last one the client reads.
THEOREM ExitsComplete == Spec => []ExitIsComplete
<1> DEFINE CInv == \A s \in Sessions : Conserved(s)
<1>1. Init => CInv
  BY InitConserved
<1>2. IInv /\ CInv /\ [Next]_vars => CInv'
  BY NextConserved
<1>3. CInv => ExitIsComplete
  BY DEF Conserved, Phases, Counted, ExitIsComplete
<1> QED
  <2> HIDE DEF CInv
  <2> QED BY <1>1, <1>2, <1>3, Invariant, PTL DEF Spec
=============================================================================
