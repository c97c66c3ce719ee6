------------------------------- MODULE Relay -------------------------------
(***************************************************************************)
(* The relay server and one CLI agent over their WebSocket connections.    *)
(*                                                                         *)
(* Fairness: the goroutines of both processes are scheduled.  A broken or  *)
(* closed connection is noticed by its reader (the server's 90 s read      *)
(* deadline; the agent's reads fail once the kernel gives the connection   *)
(* up).  Nothing is assumed of the network, the apps, signals, restarts,   *)
(* of how a phase2 login turns out, of reads that run out of time on a     *)
(* connection that is there, or of a reader that is out of step.           *)
(***************************************************************************)
EXTENDS RelayServer, RelayAgent

vars == <<serverVars, agentVars, wire>>

Init == WireInit /\ ServerInit /\ AgentInit

\* The network takes a connection away.
Network == \E c \in Conns : Break(c) /\ UNCHANGED <<serverVars, agentVars>>

Next ==
    \/ ServerNext /\ UNCHANGED agentVars
    \/ AgentNext /\ UNCHANGED serverVars
    \/ Network

HandlerSteps(c) ==
    \/ register(c) \/ handleAgentMessage(c) \/ misreadAgent(c)
    \/ readEnds(c) /\ Dead(c)
    \/ handlerReturns(c)

Fairness ==
    /\ \A c \in Conns : /\ WF_vars(HandlerSteps(c) /\ UNCHANGED agentVars)
                        /\ WF_vars(writeNext(c) /\ UNCHANGED agentVars)
    /\ WF_vars(RunSteps /\ UNCHANGED serverVars)

Spec == Init /\ [][Next]_vars /\ Fairness

Statuses == {"standby", "connected", "error", "offline"}
Frames == {"phase2", "disconnect"} \X Sessions

\* The late end of an old connection never takes the record of a newer one:
\* as long as the handler of the connection registered last is at work, the
\* agent's record names that connection and its channel is open, so that
\* pushes reach it (registerAgent against unregisterConn).
LatestOwnsRecord ==
    (latest # 0 /\ ws[latest] \in {"reading", "draining"}) =>
        (agents.conn = latest /\ conns[latest].state = "open")

Link == [c \in Conns |-> IF Dead(c) THEN "lost"
                        ELSE IF skewed[c] THEN "garbled" ELSE "good"]

Mail == INSTANCE Mailbox WITH link <- Link

\* Between pushToAgent and handleMessage no queued request is overtaken,
\* repeated, made up or left out before a later one, whichever way it is
\* still to go (channel, writer, wire), and none arrives after its connection
\* is lost; one that is taken is handled unless readMessage is out of step.
\* It says nothing of a release that was answered 200 and not queued.
ImplementsMailbox == Mail!Spec

\* A release is queued for c and the agent has not read it yet.
ReleaseWaits(c) ==
    \E i \in DOMAIN queued[c] : i > Len(taken[c]) /\ queued[c][i][1] = "disconnect"

\* A release that was queued stops the agent's process: OnDisconnect ends Run
\* instead of letting it reconnect.  The exceptions are those of the code:
\* the connection is lost first, a write of the server fails on it, or the
\* agent's reader falls out of step.
ReleaseStopsAgent ==
    \A c \in Conns :
        ReleaseWaits(c) ~> (~Alive \/ Dead(c) \/ skewed[c] \/ writer[c] = "done")

\* Once a write to a connection the agent has left or lost has failed, the
\* handler returns and the agent is taken off that connection: the reader
\* notices too, if only by its deadline, and no longer waits for the writer.
\* (On a stalled connection that is still there the handler stays, with its
\* writer gone, for as long as the agent's pings arrive.)
WriteErrorUnregisters ==
    \A c \in Conns :
        (writer[c] = "done" /\ Dead(c)) ~> (ws[c] = "done" /\ agents.conn # c)

\* A process that ends because the app released the agent has torn down the
\* VPN client OnDisconnect disconnected: nothing of its tunnel (DNS, routes,
\* TUN) is left behind on the host.
ExitAfterCleanup ==
    (run = "exited" /\ serverDisconnect) => \A g \in Phase2s : client[g] # "closing"
=============================================================================
