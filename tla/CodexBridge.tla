----------------------------- MODULE CodexBridge -----------------------------
(***************************************************************************)
(* The Codex bridge: a service that runs one Codex container for each      *)
(* connection to its socket and relays standard input, the two output      *)
(* streams and the exit code as frames.  A session is one handler: its     *)
(* main task, a task that feeds standard input and one task per output     *)
(* stream, which share the lock around writes to the socket.  A write      *)
(* under the lock ends when the socket has room again, so a client that    *)
(* does not read stops every task that has something to send.              *)
(*                                                                         *)
(*   session    per session: where its main task is; "accept" until the    *)
(*              launch frame has arrived, "launch" until it is read        *)
(*   final      per session: the last frame it is to send, None before     *)
(*   stdin      per session: its input task                                *)
(*   pump       per session and stream: its output task                    *)
(*   pipe       per session and stream: chunks written by the process and  *)
(*              not read by the task                                       *)
(*   wire       per session: frames sent and not read by the client        *)
(*   peer       per session: the client, codex_bridge_client               *)
(*   result     per session: what the client's exit code says, None before *)
(*   produced, delivered   per session: the chunks that the process wrote  *)
(*              and those that the client has passed on                    *)
(*   removal    history: how the docker rm of the session went             *)
(***************************************************************************)
EXTENDS DockerHost

CONSTANTS Streams,    \* stdout and stderr
          MaxChunks,  \* bound on the chunks of a process
          HighWater   \* frames the socket takes before a write has to wait

ASSUME BridgeAssumption == MaxChunks \in Nat /\ HighWater \in Nat \ {0}

VARIABLES session, final, stdin, pump, pipe, wire, peer, result, produced,
          delivered, removal
mainVars == <<session, final, removal>>
pumpVars == <<pump, pipe, produced>>
peerVars == <<peer, result, delivered>>
bridgeVars == <<mainVars, stdin, pumpVars, wire, peerVars>>

Final == {"exit", "timeout", "error"}

\* What a client asks for: its directory, the kind of its arguments, and whether a
\* schema is generated below the workspace.
Launch == [wellFormed : BOOLEAN, cwdInside : BOOLEAN, outInside : BOOLEAN,
           arguments : {"version", "app-server", "generate", "other"}]

Permitted(l) ==
    /\ l.wellFormed /\ l.cwdInside
    /\ l.arguments # "other"
    /\ l.arguments = "generate" => l.outInside

BridgeTypeOK ==
    /\ session \in [Sessions -> {"idle", "accept", "launch", "ready", "relay", "gather",
                                 "send", "sent", "stop", "remove", "closed", "crashed"}]
    /\ final \in [Sessions -> Final \cup {None}]
    /\ removal \in [Sessions -> {"none", "ok", "failed"}]
    /\ stdin \in [Sessions -> {"off", "feeding", "eof"}]
    /\ pump \in [Sessions -> [Streams -> {"off", "reading", "draining", "ended", "failed"}]]
    /\ pipe \in [Sessions -> [Streams -> Nat]]
    /\ produced \in [Sessions -> 0..MaxChunks]
    /\ wire \in [Sessions -> Seq({"ready", "chunk"} \cup Final)]
    /\ peer \in [Sessions -> {"idle", "wait", "relay", "gone"}]
    /\ result \in [Sessions -> Final \cup {"none", None}]
    /\ delivered \in [Sessions -> Nat]

BridgeInit ==
    /\ session = [s \in Sessions |-> "idle"]
    /\ final = [s \in Sessions |-> None]
    /\ removal = [s \in Sessions |-> "none"]
    /\ stdin = [s \in Sessions |-> "off"]
    /\ pump = [s \in Sessions |-> [c \in Streams |-> "off"]]
    /\ pipe = [s \in Sessions |-> [c \in Streams |-> 0]]
    /\ produced = [s \in Sessions |-> 0]
    /\ wire = [s \in Sessions |-> <<>>]
    /\ peer = [s \in Sessions |-> "idle"]
    /\ result = [s \in Sessions |-> None]
    /\ delivered = [s \in Sessions |-> 0]

-----------------------------------------------------------------------------
Gone(s) == peer[s] = "gone"

Flying(s) == session[s] \notin {"idle", "closed", "crashed"}

HasRoom(s) == Len(wire[s]) <= HighWater

LockFree(s) == session[s] # "sent" /\ \A c \in Streams : pump[s][c] # "draining"

Goto(s, label) == session' = [session EXCEPT ![s] = label]

SendLater(s, frame) == Goto(s, "send") /\ final' = [final EXCEPT ![s] = frame]

Write(s, frame) == wire' = [wire EXCEPT ![s] = Append(@, frame)]

-----------------------------------------------------------------------------
\* The main task: handle

\* The connection is closed before a launch frame.  No limit is set on the wait for one.
LaunchLost(s) ==
    /\ session[s] = "accept" /\ Gone(s)
    /\ Goto(s, "stop")
    /\ UNCHANGED <<dockerVars, final, removal, stdin, pumpVars, wire, peerVars>>

\* The launch frame is read, even if its client is gone: a container is started, the
\* launch is rejected or docker is missing.
ReadLaunch(s) ==
    /\ session[s] = "launch"
    /\ \/ /\ \E l \in Launch : Permitted(l)
          /\ Goto(s, "ready")
          /\ client' = [client EXCEPT ![s] = "spawned"]
          /\ NoFault
          /\ UNCHANGED final
       \/ /\ \E l \in Launch : ~Permitted(l)
          /\ SendLater(s, "error")
          /\ NoFault
          /\ UNCHANGED client
       \/ /\ Goto(s, "stop")
          /\ Fault
          /\ UNCHANGED <<client, final>>
    /\ UNCHANGED <<containers, removal, stdin, pumpVars, wire, peerVars>>

\* The ready frame is sent and the tasks are created, unless the client is gone.
Ready(s) ==
    /\ session[s] = "ready"
    /\ IF Gone(s)
       THEN /\ Goto(s, "stop")
            /\ UNCHANGED <<stdin, pump, wire>>
       ELSE /\ Goto(s, "relay")
            /\ Write(s, "ready")
            /\ stdin' = [stdin EXCEPT ![s] = "feeding"]
            /\ pump' = [pump EXCEPT ![s] = [c \in Streams |-> "reading"]]
    /\ UNCHANGED <<dockerVars, final, removal, pipe, produced, peerVars>>

\* The input task meets stdin_eof and returns; the main task goes on waiting for the
\* process, and from here on nobody reads the connection.
StdinEof(s) ==
    /\ session[s] = "relay" /\ stdin[s] = "feeding"
    /\ stdin' = [stdin EXCEPT ![s] = "eof"]
    /\ UNCHANGED <<dockerVars, mainVars, pumpVars, wire, peerVars>>

\* The input task meets a frame it does not understand.
StdinInvalid(s) ==
    /\ session[s] = "relay" /\ stdin[s] = "feeding"
    /\ stdin' = [stdin EXCEPT ![s] = "off"]
    /\ SendLater(s, "error")
    /\ UNCHANGED <<dockerVars, removal, pumpVars, wire, peerVars>>

\* The input task finds the connection closed, or the process has closed its end of
\* the pipe: the session ends without a last frame.
StdinLost(s) ==
    /\ session[s] = "relay" /\ stdin[s] = "feeding"
    /\ Gone(s) \/ Ended(s)
    /\ stdin' = [stdin EXCEPT ![s] = "off"]
    /\ Goto(s, "stop")
    /\ UNCHANGED <<dockerVars, final, removal, pumpVars, wire, peerVars>>

\* The process has ended; the input task is cancelled.
ProcessEnded(s) ==
    /\ session[s] = "relay" /\ Ended(s)
    /\ Goto(s, "gather")
    /\ stdin' = [stdin EXCEPT ![s] = "off"]
    /\ UNCHANGED <<dockerVars, final, removal, pumpVars, wire, peerVars>>

\* Mutant: the limit covers only the loop that feeds standard input.
ExpireWhileFeeding(s) ==
    /\ session[s] = "relay" /\ stdin[s] = "feeding"
    /\ SendLater(s, "timeout")
    /\ UNCHANGED <<dockerVars, removal, stdin, pumpVars, wire, peerVars>>

\* timeout_seconds pass before the process ends.
ExpireSession(s) ==
    /\ session[s] = "relay"
    /\ SendLater(s, "timeout")
    /\ UNCHANGED <<dockerVars, removal, stdin, pumpVars, wire, peerVars>>

\* Mutant: the exit code is sent without waiting for the output tasks.
GatherNothing(s) ==
    /\ session[s] = "gather"
    /\ SendLater(s, "exit")
    /\ UNCHANGED <<dockerVars, removal, stdin, pumpVars, wire, peerVars>>

\* The main task waits for the output tasks, without a limit, or until one fails.
Gather(s) ==
    /\ session[s] = "gather"
    /\ \/ /\ \A c \in Streams : pump[s][c] = "ended"
          /\ SendLater(s, "exit")
       \/ /\ \E c \in Streams : pump[s][c] = "failed"
          /\ Goto(s, "stop")
          /\ UNCHANGED final
    /\ UNCHANGED <<dockerVars, removal, stdin, pumpVars, wire, peerVars>>

\* The last frame is written once the lock is free.
SendFinal(s) ==
    /\ session[s] = "send" /\ LockFree(s)
    /\ IF Gone(s)
       THEN Goto(s, "stop") /\ UNCHANGED wire
       ELSE Goto(s, "sent") /\ Write(s, final[s])
    /\ UNCHANGED <<dockerVars, final, removal, stdin, pumpVars, peerVars>>

FinalSent(s) ==
    /\ session[s] = "sent"
    /\ HasRoom(s) \/ Gone(s)
    /\ Goto(s, "stop")
    /\ UNCHANGED <<dockerVars, final, removal, stdin, pumpVars, wire, peerVars>>

\* finally: the tasks are cancelled; a docker client that still runs is terminated,
\* which ends its container too if the process obeys the signal, or is killed.
CancelTasks(s) ==
    /\ stdin' = [stdin EXCEPT ![s] = "off"]
    /\ pump' = [pump EXCEPT ![s] = [c \in Streams |-> "off"]]
    /\ pipe' = [pipe EXCEPT ![s] = [c \in Streams |-> 0]]
    /\ \/ /\ client[s] = "attached"
          /\ RemoveByName(NameOf[s])
       \/ /\ client' = Killed({s})
          /\ UNCHANGED containers
    /\ NoFault
    /\ UNCHANGED <<final, removal, produced, wire, peerVars>>

\* Mutant: the container is taken for removed once its docker client has ended.
StopUnlessEnded(s) ==
    /\ session[s] = "stop"
    /\ Goto(s, IF client[s] = "none" \/ Ended(s) THEN "closed" ELSE "remove")
    /\ CancelTasks(s)

\* There is a container to remove once docker run has been tried.
Stop(s) ==
    /\ session[s] = "stop"
    /\ Goto(s, IF client[s] = "none" THEN "closed" ELSE "remove")
    /\ CancelTasks(s)

\* _force_remove, then the connection is closed.
Remove(s) ==
    /\ session[s] = "remove"
    /\ Goto(s, "closed")
    /\ RemoveByName(NameOf[s])
    /\ removal' = [removal EXCEPT ![s] = "ok"]
    /\ NoFault
    /\ UNCHANGED <<final, stdin, pumpVars, wire, peerVars>>

\* docker rm cannot be started, fails, or takes more than 10 seconds.
RemoveFails(s) ==
    /\ session[s] = "remove"
    /\ Goto(s, "closed")
    /\ removal' = [removal EXCEPT ![s] = "failed"]
    /\ Fault
    /\ UNCHANGED <<containers, client, final, stdin, pumpVars, wire, peerVars>>

\* A docker rm that was given up on is not killed and may succeed later.
RemoveLate(s) ==
    /\ removal[s] = "failed" /\ Up(s)
    /\ RemoveByName(NameOf[s])
    /\ NoFault
    /\ UNCHANGED bridgeVars

MainStep(s) ==
    \/ LaunchLost(s) \/ ReadLaunch(s) \/ Ready(s) \/ ProcessEnded(s) \/ ExpireSession(s)
    \/ Gather(s) \/ SendFinal(s) \/ FinalSent(s)
    \/ Stop(s) \/ Remove(s) \/ RemoveFails(s)

-----------------------------------------------------------------------------
\* The output tasks: _pump_output

\* Mutant: the task does not stop at the end of its stream.
PumpSendEmpty(s, c) ==
    /\ pump[s][c] = "reading" /\ LockFree(s)
    /\ pipe' = [pipe EXCEPT ![s][c] = @ - 1]
    /\ pump' = [pump EXCEPT ![s][c] = "draining"]
    /\ Write(s, "chunk")
    /\ UNCHANGED <<dockerVars, mainVars, stdin, produced, peerVars>>

\* A chunk is read and written under the lock; a lost connection ends the task.
PumpSend(s, c) ==
    /\ pump[s][c] = "reading" /\ pipe[s][c] > 0 /\ LockFree(s)
    /\ pipe' = [pipe EXCEPT ![s][c] = @ - 1]
    /\ IF Gone(s)
       THEN pump' = [pump EXCEPT ![s][c] = "failed"] /\ UNCHANGED wire
       ELSE pump' = [pump EXCEPT ![s][c] = "draining"] /\ Write(s, "chunk")
    /\ UNCHANGED <<dockerVars, mainVars, stdin, produced, peerVars>>

PumpDrained(s, c) ==
    /\ pump[s][c] = "draining"
    /\ HasRoom(s) \/ Gone(s)
    /\ pump' = [pump EXCEPT ![s][c] = IF Gone(s) THEN "failed" ELSE "reading"]
    /\ UNCHANGED <<dockerVars, mainVars, stdin, pipe, produced, wire, peerVars>>

\* The stream is at its end.
PumpEnds(s, c) ==
    /\ pump[s][c] = "reading" /\ pipe[s][c] = 0 /\ Ended(s)
    /\ pump' = [pump EXCEPT ![s][c] = "ended"]
    /\ UNCHANGED <<dockerVars, mainVars, stdin, pipe, produced, wire, peerVars>>

PumpStep(s) == \E c \in Streams : PumpSend(s, c) \/ PumpDrained(s, c) \/ PumpEnds(s, c)

\* External: the process in the container writes a chunk.
Produce(s, c) ==
    /\ Up(s) /\ client[s] = "attached"
    /\ session[s] \notin {"stop", "remove"}
    /\ produced[s] < MaxChunks
    /\ pipe' = [pipe EXCEPT ![s][c] = @ + 1]
    /\ produced' = [produced EXCEPT ![s] = @ + 1]
    /\ UNCHANGED <<dockerVars, mainVars, stdin, pump, wire, peerVars>>

-----------------------------------------------------------------------------
\* The client: main of codex_bridge_client

Connect(s) ==
    /\ session[s] = "idle"
    /\ peer' = [peer EXCEPT ![s] = "wait"]
    /\ Goto(s, "accept")
    /\ UNCHANGED <<dockerVars, final, removal, stdin, pumpVars, wire, result, delivered>>

\* The client writes its launch frame, sooner or later or never.
SendLaunch(s) ==
    /\ session[s] = "accept" /\ ~Gone(s)
    /\ Goto(s, "launch")
    /\ UNCHANGED <<dockerVars, final, removal, stdin, pumpVars, wire, peerVars>>

\* The client ends with a result and its socket is closed.
Leave(s, answer) ==
    /\ peer' = [peer EXCEPT ![s] = "gone"]
    /\ result' = [result EXCEPT ![s] = answer]
    /\ wire' = [wire EXCEPT ![s] = <<>>]

\* The next frame: ready is expected first; then chunks are passed on, and exit and
\* error end the client with the code of the process, 124 or 126.
PeerReads(s) ==
    /\ peer[s] \in {"wait", "relay"} /\ wire[s] # <<>>
    /\ LET frame == Head(wire[s])
           ends == frame \in Final
       IN /\ IF ends
             THEN Leave(s, frame)
             ELSE /\ peer' = [peer EXCEPT ![s] = "relay"]
                  /\ wire' = [wire EXCEPT ![s] = Tail(@)]
                  /\ UNCHANGED result
          /\ delivered' = [delivered EXCEPT ![s] = IF frame = "chunk" THEN @ + 1 ELSE @]
    /\ UNCHANGED <<dockerVars, mainVars, stdin, pumpVars>>

\* The bridge has closed the connection without a last frame: 126.
PeerFindsEnd(s) ==
    /\ peer[s] \in {"wait", "relay"} /\ wire[s] = <<>>
    /\ session[s] \in {"closed", "crashed"}
    /\ Leave(s, "none")
    /\ UNCHANGED <<dockerVars, mainVars, stdin, pumpVars, delivered>>

\* The client is stopped by Hermes, or cannot pass a chunk on.
PeerLeaves(s) ==
    /\ peer[s] \in {"wait", "relay"}
    /\ Leave(s, None)
    /\ UNCHANGED <<dockerVars, mainVars, stdin, pumpVars, delivered>>

\* The service stops with its docker clients; a new one knows none of its sessions.
BridgeCrash ==
    /\ \E s \in Sessions : Flying(s)
    /\ LET flying == {s \in Sessions : Flying(s)}
       IN /\ client' = Killed(flying)
          /\ session' = [s \in Sessions |-> IF s \in flying THEN "crashed" ELSE session[s]]
          /\ stdin' = [s \in Sessions |-> IF s \in flying THEN "off" ELSE stdin[s]]
          /\ pump' = [s \in Sessions |->
                        IF s \in flying THEN [c \in Streams |-> "off"] ELSE pump[s]]
          /\ pipe' = [s \in Sessions |->
                        IF s \in flying THEN [c \in Streams |-> 0] ELSE pipe[s]]
    /\ Fault
    /\ UNCHANGED <<containers, final, removal, produced, wire, peerVars>>

BridgeNext ==
    \/ \E s \in Sessions :
          \/ MainStep(s) \/ RemoveLate(s) \/ PumpStep(s)
          \/ StdinEof(s) \/ StdinInvalid(s) \/ StdinLost(s)
          \/ \E c \in Streams : Produce(s, c)
          \/ Connect(s) \/ SendLaunch(s) \/ PeerReads(s) \/ PeerFindsEnd(s) \/ PeerLeaves(s)
    \/ BridgeCrash

-----------------------------------------------------------------------------
\* The container of a session that is over is gone, whichever way the session ended,
\* unless its docker rm failed (the finally block of handle).
ClosedSessionRemoved ==
    \A s \in Sessions : session[s] = "closed" /\ Up(s) => removal[s] = "failed"

\* A client that ends with the exit code of the process has passed on all that the
\* process wrote to its docker client, and that client has ended: with the process, or
\* killed by the host (gather before the exit frame).
ExitIsComplete ==
    \A s \in Sessions : result[s] = "exit" => Ended(s) /\ delivered[s] = produced[s]
=============================================================================
