----------------------------- MODULE RelayAgent -----------------------------
(***************************************************************************)
(* The CLI in relay mode: the Agent of relay/relay.go with the callbacks   *)
(* runRelayMode (cmd/cli/main.go) gives it.                                *)
(*                                                                         *)
(* Threads: the goroutine of Agent.Run (run), which dials, reads and calls *)
(* OnDisconnect itself; one goroutine per phase2 message (phase2[g]),      *)
(* which runs OnPhase2; and the VPN client each of them starts, whose own  *)
(* goroutines are abstracted to client[g] (ClientLifecycle has them):      *)
(*   "none", "connecting", "up", "closing" (its teardown is under way),    *)
(*   "down" (Done is closed: routes, DNS and TUN have been given back).    *)
(* The number of a goroutine that has returned is used again.              *)
(*                                                                         *)
(* The process ends, whatever its goroutines are doing, when Agent.Run     *)
(* returns.  It may then be started again under the same -agent-id.        *)
(***************************************************************************)
EXTENDS RelayWire

CONSTANT MaxPhase2       \* bound: phase2 goroutines at a time

ASSUME AgentAssumption == MaxPhase2 \in Nat \ {0}

Phase2s == 1..MaxPhase2

VARIABLES run,               \* "dial", "dialing", "reading", "stopping", "offline", "backoff", "exited"
          cur,               \* the connection runOnce works on
          connWS,            \* Agent.connWS; 0 for nil
          cancelled,         \* the context of the process (signal or stop())
          phase2,            \* "none" (not running), "start", "connecting", "announce", "up",
                             \* "ending", "report"
          client,            \* the VPN client of each phase2 goroutine
          activeClient,      \* as in runRelayMode; 0 for nil
          serverDisconnect,  \* as in runRelayMode
          skewed,            \* skewed[c]: readMessage is not at the start of a frame
          taken,             \* history: taken[c], the messages read from c
          misread            \* history: misread[c], the positions in taken[c] of those
                             \* read out of step and so not handled

process == <<run, cur, connWS, cancelled>>
callbacks == <<phase2, client, activeClient, serverDisconnect>>
reader == <<skewed, taken, misread>>
agentVars == <<process, callbacks, reader>>

\* The state of a process that has just started.
Fresh == [ph |-> [g \in Phase2s |-> "none"], cl |-> [g \in Phase2s |-> "none"]]

AgentInit ==
    /\ run = "dial" /\ cur = 0 /\ connWS = 0 /\ cancelled = FALSE
    /\ phase2 = Fresh.ph /\ client = Fresh.cl
    /\ activeClient = 0 /\ serverDisconnect = FALSE
    /\ skewed = [c \in Conns |-> FALSE]
    /\ taken = [c \in Conns |-> <<>>]
    /\ misread = [c \in Conns |-> {}]

Alive == run # "exited"

\* sendStatus: nothing without a connection, else one frame, whose write may
\* fail: the error is ignored.
sendStatus(status) ==
    IF connWS = 0 THEN UNCHANGED up ELSE AgentSends(connWS, status)

-----------------------------------------------------------------------------
(* Agent.Run and runOnce.                                                  *)

dialWS ==
    /\ run = "dial" /\ ~cancelled
    /\ cur < MaxConns
    /\ cur' = cur + 1
    /\ run' = "dialing"
    /\ aEnd' = [aEnd EXCEPT ![cur + 1] = "dialing"]
    /\ UNCHANGED <<connWS, cancelled, callbacks, reader, up, down, cut, sEnd, broken>>

\* The server answered 101: the auth frame is sent and connWS is set.
connected ==
    /\ run = "dialing"
    /\ sEnd[cur] = "open"
    /\ aEnd' = [aEnd EXCEPT ![cur] = "open"]
    /\ up' = [up EXCEPT ![cur] = Append(@, "auth")]
    /\ connWS' = cur
    /\ run' = "reading"
    /\ UNCHANGED <<cur, cancelled, callbacks, reader, down, cut, sEnd, broken>>

\* The dial, the handshake or the auth frame fails (also because the context
\* is cancelled): runOnce returns its error.
dialFails ==
    /\ run = "dialing"
    /\ aEnd' = [aEnd EXCEPT ![cur] = "closed"]
    /\ run' = "backoff"
    /\ UNCHANGED <<cur, connWS, cancelled, callbacks, reader, up, down, cut, sEnd, broken>>

\* Fault: ends the tunnel but not the agent, which goes on waiting for work.
OnDisconnectKeepsRunning ==
    /\ IF activeClient # 0
       THEN /\ serverDisconnect' = TRUE
            /\ client' = [client EXCEPT ![activeClient] =
                            IF @ \in {"connecting", "up"} THEN "closing" ELSE @]
       ELSE UNCHANGED <<client, serverDisconnect>>
    /\ UNCHANGED cancelled

\* OnDisconnect of runRelayMode: Disconnect on the active client, then stop().
OnDisconnect ==
    /\ IF activeClient # 0
       THEN /\ serverDisconnect' = TRUE
            /\ client' = [client EXCEPT ![activeClient] =
                            IF @ \in {"connecting", "up"} THEN "closing" ELSE @]
       ELSE UNCHANGED <<client, serverDisconnect>>
    /\ cancelled' = TRUE

\* The next message is read: its frame is complete and begins where the
\* reader is.
readMessage ==
    /\ ~skewed[cur]
    /\ down[cur] # <<>> /\ (cut[cur] => Len(down[cur]) > 1)
    /\ taken' = [taken EXCEPT ![cur] = Append(@, Head(down[cur]))]
    /\ down' = [down EXCEPT ![cur] = Tail(@)]
    /\ UNCHANGED <<skewed, misread, cut>>

\* The read loop gets a message: handleMessage.  The context was checked
\* before the read, so a message can still come after a cancel; the next pass
\* finds the context cancelled.  A phase2 message starts a goroutine, also
\* while an earlier one is still at work.
handleMessage ==
    /\ run = "reading"
    /\ readMessage
    /\ LET msg == Head(down[cur]) IN
       \/ /\ msg[1] = "phase2"
          /\ \E g \in Phase2s :
                /\ phase2[g] = "none" /\ \A h \in 1..(g - 1) : phase2[h] # "none"
                /\ phase2' = [phase2 EXCEPT ![g] = "start"]
          /\ UNCHANGED <<client, serverDisconnect, cancelled>>
       \/ /\ msg[1] = "disconnect"
          /\ OnDisconnect
          /\ UNCHANGED phase2
    /\ run' = IF cancelled' THEN "stopping" ELSE run
    /\ UNCHANGED <<cur, connWS, activeClient, up, aEnd, sEnd, broken>>

\* readMessage loses its place: the 2 s deadline passes after the first byte
\* of a header (of a message, or of the answer to a ping) and the loop starts
\* over with that byte gone, or it enters a frame that was written in part.
loseStep ==
    /\ run = "reading" /\ ~cancelled
    /\ ~skewed[cur] /\ ~broken[cur]
    /\ skewed' = [skewed EXCEPT ![cur] = TRUE]
    /\ UNCHANGED <<process, callbacks, taken, misread, wire>>

\* Out of step, readMessage takes the bytes of a message for something else:
\* a frame it skips, or a payload that is no message, which handleMessage
\* refuses.  The read may end at the start of a frame again.
misreadMessage ==
    /\ run = "reading" /\ skewed[cur]
    /\ down[cur] # <<>>
    /\ taken' = [taken EXCEPT ![cur] = Append(@, Head(down[cur]))]
    /\ misread' = [misread EXCEPT ![cur] = @ \cup {Len(taken[cur]) + 1}]
    /\ down' = [down EXCEPT ![cur] = Tail(@)]
    /\ \E b \in BOOLEAN : skewed' = [skewed EXCEPT ![cur] = b]
    /\ run' = IF cancelled THEN "stopping" ELSE run
    /\ UNCHANGED <<cur, connWS, cancelled, callbacks, up, cut, aEnd, sEnd, broken>>

\* The same with bytes of answers to pings only.
regainStep ==
    /\ run = "reading" /\ skewed[cur] /\ ~broken[cur]
    /\ skewed' = [skewed EXCEPT ![cur] = FALSE]
    /\ UNCHANGED <<process, callbacks, taken, misread, wire>>

\* readMessage sees the cancelled context: "offline" is sent ...
sendOffline ==
    /\ run \in {"reading", "stopping"} /\ cancelled
    /\ sendStatus("offline")
    /\ run' = "offline"
    /\ UNCHANGED <<cur, connWS, cancelled, callbacks, reader, down, cut, aEnd, sEnd, broken>>

\* The end of runOnce closes the connection.
wsClose ==
    /\ aEnd' = [aEnd EXCEPT ![cur] = "closed"]
    /\ connWS' = 0
    /\ skewed' = [skewed EXCEPT ![cur] = FALSE]
    /\ UNCHANGED <<cur, cancelled, callbacks, taken, misread, up, down, cut, sEnd, broken>>

\* ... and the connection is closed; Run returns and the process ends.
exitAfterOffline ==
    /\ run = "offline"
    /\ run' = "exited"
    /\ wsClose

\* readMessage fails: the connection is gone, or its 2 s read deadline passed
\* inside a message.
readFails ==
    /\ run = "reading" /\ ~cancelled
    /\ \/ down[cur] # <<>> /\ ~skewed[cur]
       \/ broken[cur] \/ sEnd[cur] = "closed"
    /\ run' = "backoff"
    /\ wsClose

\* Out of step, it may also fail on what it takes for a close or for the
\* length of a payload that does not come.
misreadFails ==
    /\ run = "reading" /\ ~cancelled
    /\ skewed[cur]
    /\ run' = "backoff"
    /\ wsClose

\* The back-off of Run ends in the next dial, or in the end of the process
\* when the context is cancelled.
retry ==
    /\ run = "backoff" /\ ~cancelled
    /\ run' = "dial"
    /\ UNCHANGED <<cur, connWS, cancelled, callbacks, reader, wire>>

exit ==
    /\ run \in {"dial", "backoff"} /\ cancelled
    /\ run' = "exited"
    /\ UNCHANGED <<cur, connWS, cancelled, callbacks, reader, wire>>

\* SIGINT or SIGTERM.
signal ==
    /\ Alive /\ ~cancelled
    /\ cancelled' = TRUE
    /\ UNCHANGED <<run, cur, connWS, callbacks, reader, wire>>

\* The CLI is started again.
restart ==
    /\ run = "exited" /\ cur < MaxConns
    /\ run' = "dial" /\ connWS' = 0 /\ cancelled' = FALSE
    /\ phase2' = Fresh.ph /\ client' = Fresh.cl
    /\ activeClient' = 0 /\ serverDisconnect' = FALSE
    /\ UNCHANGED <<cur, reader, wire>>

-----------------------------------------------------------------------------
(* OnPhase2, in a goroutine of its own.                                    *)

\* The configuration is unusable: OnPhase2 returns an error.
phase2Rejected(g) ==
    /\ Alive /\ phase2[g] = "start"
    /\ phase2' = [phase2 EXCEPT ![g] = "report"]
    /\ UNCHANGED <<process, client, activeClient, serverDisconnect, reader, wire>>

phase2Starts(g) ==
    /\ Alive /\ phase2[g] = "start"
    /\ phase2' = [phase2 EXCEPT ![g] = "connecting"]
    /\ client' = [client EXCEPT ![g] = "connecting"]
    /\ activeClient' = g
    /\ UNCHANGED <<process, serverDisconnect, reader, wire>>

\* ConnectPhase2 returns an error, for whatever reason, and so does OnPhase2.
phase2Fails(g) ==
    /\ Alive /\ phase2[g] = "connecting"
    /\ phase2' = [phase2 EXCEPT ![g] = "report"]
    /\ client' = [client EXCEPT ![g] = "none"]
    /\ activeClient' = 0
    /\ UNCHANGED <<process, serverDisconnect, reader, wire>>

\* ConnectPhase2 returns nil, possibly with a Disconnect of its last moments
\* already tearing the tunnel down.
phase2Up(g) ==
    /\ Alive /\ phase2[g] = "connecting"
    /\ phase2' = [phase2 EXCEPT ![g] = "announce"]
    /\ client' = [client EXCEPT ![g] = IF @ = "connecting" THEN "up" ELSE @]
    /\ UNCHANGED <<process, activeClient, serverDisconnect, reader, wire>>

announce(g) ==
    /\ Alive /\ phase2[g] = "announce"
    /\ phase2' = [phase2 EXCEPT ![g] = "up"]
    /\ sendStatus("connected")
    /\ UNCHANGED <<process, client, activeClient, serverDisconnect, reader>>
    /\ UNCHANGED <<down, cut, aEnd, sEnd, broken>>

\* The client is done: "standby" is reported ...
phase2Ends(g) ==
    /\ Alive /\ phase2[g] = "up" /\ client[g] = "down"
    /\ phase2' = [phase2 EXCEPT ![g] = "ending"]
    /\ sendStatus("standby")
    /\ UNCHANGED <<process, client, activeClient, serverDisconnect, reader>>
    /\ UNCHANGED <<down, cut, aEnd, sEnd, broken>>

\* ... and OnPhase2 returns: with the client's error, if there is one and no
\* server asked for the end.  The deferred reset clears activeClient even if
\* it is another goroutine's by now.
phase2Returns(g) ==
    /\ Alive /\ phase2[g] = "ending"
    /\ \E v \in {"none", "report"} :
          /\ v = "report" => ~serverDisconnect
          /\ phase2' = [phase2 EXCEPT ![g] = v]
    /\ client' = [client EXCEPT ![g] = "none"]
    /\ activeClient' = 0
    /\ UNCHANGED <<process, serverDisconnect, reader, wire>>

\* The error OnPhase2 returned is reported.
reportError(g) ==
    /\ Alive /\ phase2[g] = "report"
    /\ phase2' = [phase2 EXCEPT ![g] = "none"]
    /\ sendStatus("error")
    /\ UNCHANGED <<process, client, activeClient, serverDisconnect, reader>>
    /\ UNCHANGED <<down, cut, aEnd, sEnd, broken>>

\* The tunnel fails by itself (keepalive, write error, expired session).
tunnelFails(g) ==
    /\ Alive /\ client[g] = "up"
    /\ client' = [client EXCEPT ![g] = "closing"]
    /\ UNCHANGED <<process, phase2, activeClient, serverDisconnect, reader, wire>>

\* The client's teardown goroutine has given everything back.
teardown(g) ==
    /\ Alive /\ client[g] = "closing" /\ phase2[g] # "connecting"
    /\ client' = [client EXCEPT ![g] = "down"]
    /\ UNCHANGED <<process, phase2, activeClient, serverDisconnect, reader, wire>>

\* Garbled input, of which nothing is owed.
OutOfStep == loseStep \/ misreadMessage \/ regainStep \/ misreadFails

RunSteps ==
    \/ dialWS \/ connected \/ dialFails \/ handleMessage \/ sendOffline
    \/ exitAfterOffline \/ readFails \/ retry \/ exit

Phase2Steps(g) ==
    \/ phase2Rejected(g) \/ phase2Starts(g) \/ phase2Fails(g) \/ phase2Up(g)
    \/ announce(g) \/ phase2Ends(g) \/ phase2Returns(g) \/ reportError(g)
    \/ teardown(g)

AgentNext ==
    \/ RunSteps \/ OutOfStep \/ signal \/ restart
    \/ \E g \in Phase2s : Phase2Steps(g) \/ tunnelFails(g)
=============================================================================
