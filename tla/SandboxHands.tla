---------------------------- MODULE SandboxHands ----------------------------
(***************************************************************************)
(* The sandbox broker and the Codex bridge on one Docker host.             *)
(***************************************************************************)
EXTENDS SandboxBroker, CodexBridge

vars == <<dockerVars, brokerVars, bridgeVars>>

TypeOK == DockerTypeOK /\ BrokerTypeOK /\ BridgeTypeOK

Init == DockerInit /\ BrokerInit /\ BridgeInit

DockerStep == DockerNext /\ UNCHANGED <<brokerVars, bridgeVars>>

BrokerStep == BrokerNext /\ UNCHANGED bridgeVars

BridgeStep == BridgeNext /\ UNCHANGED brokerVars

Next == DockerStep \/ BrokerStep \/ BridgeStep

Spec == Init /\ [][Next]_vars

-----------------------------------------------------------------------------
\* The daemon answers, the event loops run their tasks and their timers fire.  No
\* process has to end or to write, and no client has to connect, to launch or to stay.
HandlerFairness ==
    /\ \A h \in Hands : WF_vars(Create(h) /\ UNCHANGED <<brokerVars, bridgeVars>>)
    /\ \A r \in Runs : WF_vars(RunStep(r) /\ UNCHANGED bridgeVars)
    /\ \A s \in Sessions :
          /\ WF_vars(MainStep(s) /\ UNCHANGED brokerVars)
          /\ WF_vars(PumpStep(s) /\ UNCHANGED brokerVars)

\* The client reads what is sent to it as long as it is there.
ReaderFairness ==
    \A s \in Sessions : WF_vars((PeerReads(s) \/ PeerFindsEnd(s)) /\ UNCHANGED brokerVars)

FairSpec == Spec /\ HandlerFairness /\ ReaderFairness

\* Every run ends, and so does every session whose client has sent its launch frame or
\* left, however long the process would go on and whatever fails, if the clients of the
\* bridge read what it sends.  A client that connects and stays silent keeps its session
\* (the wait for the launch frame in handle is outside asyncio.timeout).
EveryHandEnds ==
    /\ \A r \in Runs :
          run[r] = "running" ~> run[r] \in {"answered", "failed", "lost"}
    /\ \A s \in Sessions :
          session[s] = "launch" \/ (session[s] = "accept" /\ Gone(s))
             ~> session[s] \in {"closed", "crashed"}

=============================================================================
