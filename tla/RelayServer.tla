---------------------------- MODULE RelayServer ----------------------------
(***************************************************************************)
(* The in-memory relay server of cmd/relay-server/main.go, for one agent   *)
(* ID.                                                                     *)
(*                                                                         *)
(* Threads: one HTTP handler goroutine per request of an app (Requests),   *)
(* and per WebSocket connection c the handleWS goroutine (ws[c]) and its   *)
(* writer goroutine (writer[c]).  They share the store, whose mutex covers *)
(* one store method at a time; every lock section is one step here, and    *)
(* handlers that call several store methods interleave between them.       *)
(*                                                                         *)
(* A request that handleConnect or handleExecute refuses (400, 404, 409,   *)
(* 500) changes nothing and is not a step of its own.  What pushToAgent    *)
(* makes of a frame is told by `queued', not by the answer: handleExecute  *)
(* answers 500 when nothing was queued, handleRelease ignores the result   *)
(* and answers 200 all the same.                                           *)
(***************************************************************************)
EXTENDS RelayWire, FiniteSets

CONSTANTS Requests,      \* HTTP handler goroutines
          MaxSessions,   \* bound: sessions created
          MaxPushes,     \* bound: execute and release requests issued
          ChanSize,      \* capacity of an outbound channel (16 in the code)
          EndpointQuery  \* has the agent's endpoint token, hostname and agent_id in its query

ASSUME ServerAssumption == /\ MaxSessions \in Nat
                           /\ MaxPushes \in Nat
                           /\ ChanSize \in Nat \ {0}
                           /\ EndpointQuery \in BOOLEAN

Sessions == 1..MaxSessions
NoAgent == [status |-> "none", conn |-> 0]

VARIABLES agents,     \* the agentRecord: its Status and ConnID (0 for "")
          sessions,   \* IDs in store.sessions; their State is always "initiated"
          conns,      \* store.conns: "none", "open", "closed" and what is queued
          ws,         \* handleWS of c: "none", "upgraded", "reading", "draining", "done"
          writer,     \* its writer goroutine: "none", "run", "done"
          req,        \* the HTTP handlers
          pushes,     \* requests issued so far, against MaxPushes
          latest,     \* history: the connection registered last
          queued      \* history: queued[c], the frames pushToAgent put into c's channel

serverVars == <<agents, sessions, conns, ws, writer, req, pushes, latest, queued>>

IdleReq == [pc |-> "idle", frame |-> <<>>, ch |-> 0]

ServerInit ==
    /\ agents = NoAgent
    /\ sessions = {}
    /\ conns = [c \in Conns |-> [state |-> "none", buf |-> <<>>]]
    /\ ws = [c \in Conns |-> "none"]
    /\ writer = [c \in Conns |-> "none"]
    /\ req = [r \in Requests |-> IdleReq]
    /\ pushes = 0
    /\ latest = 0
    /\ queued = [c \in Conns |-> <<>>]

-----------------------------------------------------------------------------
(* The store methods.                                                      *)

registerAgent(c) ==
    /\ agents' = [status |-> "standby", conn |-> c]
    /\ conns' = [conns EXCEPT ![c] = [state |-> "open", buf |-> <<>>]]

\* Fault: takes whatever record the agent ID has, also a newer connection's.
unregisterAny(c) ==
    /\ agents' = [status |-> "offline", conn |-> 0]
    /\ conns' = [conns EXCEPT ![c].state = "closed"]

unregisterConn(c) ==
    /\ agents' = IF agents.conn = c THEN [status |-> "offline", conn |-> 0]
                                    ELSE agents
    /\ conns' = [conns EXCEPT ![c].state = "closed"]

setAgentStatus(s) == agents' = [agents EXCEPT !.status = s]

\* The channel pushToAgent finds under the read lock; 0 for none.
agentChan == agents.conn

\* Fault: makes room in a full channel by dropping what waits there.
sendDropOldest(c, frame) ==
    /\ conns' = [conns EXCEPT ![c].buf =
                    IF Len(@) < ChanSize THEN Append(@, frame)
                                         ELSE Append(Tail(@), frame)]
    /\ queued' = [queued EXCEPT ![c] = Append(@, frame)]

\* The non-blocking send of pushToAgent; a full channel refuses the frame.
sendOrDefault(c, frame) ==
    IF Len(conns[c].buf) < ChanSize
    THEN /\ conns' = [conns EXCEPT ![c].buf = Append(@, frame)]
         /\ queued' = [queued EXCEPT ![c] = Append(@, frame)]
    ELSE UNCHANGED <<conns, queued>>

getAgent == agents
getSession(s) == s \in sessions

-----------------------------------------------------------------------------
(* The app's requests.  The store is read and written in separate lock     *)
(* sections: handleConnect looks the agent up, then looks for an active    *)
(* session, then creates one.                                              *)

handleConnect(r) ==
    /\ req[r].pc = "idle"
    /\ getAgent.status \notin {"none", "offline"}
    /\ Cardinality(sessions) < MaxSessions
    /\ req' = [req EXCEPT ![r].pc = "check"]
    /\ UNCHANGED <<agents, sessions, conns, ws, writer, pushes, latest, queued, wire>>

\* Any session of the agent counts as active, as no code changes its State.
hasActiveSession(r) ==
    /\ req[r].pc = "check"
    /\ req' = [req EXCEPT ![r].pc = IF sessions # {} THEN "idle" ELSE "create"]
    /\ UNCHANGED <<agents, sessions, conns, ws, writer, pushes, latest, queued, wire>>

createSession(r) ==
    /\ req[r].pc = "create"
    /\ \E s \in Sessions :
          /\ s = Cardinality(sessions) + 1
          /\ sessions' = sessions \cup {s}
    /\ req' = [req EXCEPT ![r] = IdleReq]
    /\ UNCHANGED <<agents, conns, ws, writer, pushes, latest, queued, wire>>

\* handleExecute up to its call of pushToAgent: the session exists and its
\* agent has a connection.
handleExecute(r, s) ==
    /\ req[r].pc = "idle"
    /\ getSession(s)
    /\ getAgent.conn # 0
    /\ pushes < MaxPushes
    /\ pushes' = pushes + 1
    /\ req' = [req EXCEPT ![r] = [pc |-> "push", frame |-> <<"phase2", s>>, ch |-> 0]]
    /\ UNCHANGED <<agents, sessions, conns, ws, writer, latest, queued, wire>>

\* handleRelease up to its call of pushToAgent, whether or not the agent has
\* a connection.
handleRelease(r, s) ==
    /\ req[r].pc = "idle"
    /\ getSession(s)
    /\ pushes < MaxPushes
    /\ pushes' = pushes + 1
    /\ req' = [req EXCEPT ![r] = [pc |-> "push", frame |-> <<"disconnect", s>>, ch |-> 0]]
    /\ UNCHANGED <<agents, sessions, conns, ws, writer, latest, queued, wire>>

ServeHTTP(r) ==
    \/ handleConnect(r)
    \/ \E s \in Sessions : handleExecute(r, s) \/ handleRelease(r, s)

\* pushToAgent: the channel is looked up under the read lock ...
pushToAgent(r) ==
    /\ req[r].pc = "push"
    /\ req' = [req EXCEPT ![r] = IF agentChan = 0 THEN IdleReq
                                 ELSE [@ EXCEPT !.pc = "send", !.ch = agentChan]]
    /\ UNCHANGED <<agents, sessions, conns, ws, writer, pushes, latest, queued, wire>>

\* ... and written after it is released.  A channel closed in between makes
\* the send panic, which net/http recovers: the request ends, nothing is sent.
pushSend(r) ==
    /\ req[r].pc = "send"
    /\ IF conns[req[r].ch].state = "closed"
       THEN UNCHANGED <<conns, queued>>
       ELSE sendOrDefault(req[r].ch, req[r].frame)
    /\ req' = [req EXCEPT ![r] = IdleReq]
    /\ UNCHANGED <<agents, sessions, ws, writer, pushes, latest, wire>>

-----------------------------------------------------------------------------
(* handleWS.                                                               *)

\* The connection is hijacked and 101 is flushed, unless the URL the agent
\* dialled lacks token, hostname or agent_id: that is answered 400 (dialFails).
\* buildWSURL adds none of them to the endpoint.
upgrade(c) ==
    /\ EndpointQuery
    /\ aEnd[c] = "dialing" /\ ws[c] = "none"
    /\ ws' = [ws EXCEPT ![c] = "upgraded"]
    /\ sEnd' = [sEnd EXCEPT ![c] = "open"]
    /\ UNCHANGED <<agents, sessions, conns, writer, req, pushes, latest, queued>>
    /\ UNCHANGED <<up, down, cut, aEnd, broken>>

register(c) ==
    /\ ws[c] = "upgraded"
    /\ registerAgent(c)
    /\ ws' = [ws EXCEPT ![c] = "reading"]
    /\ writer' = [writer EXCEPT ![c] = "run"]
    /\ latest' = c
    /\ UNCHANGED <<sessions, req, pushes, queued, wire>>

\* The next frame is read; pings and their answers are left out.
wsReadFrame(c) ==
    /\ up[c] # <<>>
    /\ up' = [up EXCEPT ![c] = Tail(@)]

\* One pass of the read loop with a text frame: handleAgentMessage.  The
\* "auth" frame is ignored; a status is stored by agent ID, whichever
\* connection it came over.
handleAgentMessage(c) ==
    /\ ws[c] = "reading"
    /\ wsReadFrame(c) /\ Head(up[c]) # Part
    /\ IF Head(up[c]) = "auth" THEN UNCHANGED agents
                               ELSE setAgentStatus(Head(up[c]))
    /\ UNCHANGED <<sessions, conns, ws, writer, req, pushes, latest, queued>>
    /\ UNCHANGED <<down, cut, aEnd, sEnd, broken>>

\* A frame that was written in part is filled up with what follows: the pass
\* ends at the start of a frame, or inside the next one.  The payload is no
\* JSON message, which handleAgentMessage ignores.
misreadAgent(c) ==
    /\ ws[c] = "reading"
    /\ wsReadFrame(c) /\ Head(up[c]) = Part
    /\ UNCHANGED <<serverVars, down, cut, aEnd, sEnd, broken>>

misreadAgentInto(c) ==
    /\ ws[c] = "reading"
    /\ Len(up[c]) > 1 /\ Head(up[c]) = Part
    /\ up' = [up EXCEPT ![c] = <<Part>> \o Tail(Tail(@))]
    /\ UNCHANGED <<serverVars, down, cut, aEnd, sEnd, broken>>

\* Fault: no read deadline, so only a closed peer ends the loop.
readEndsOnClose(c) ==
    /\ ws[c] = "reading" /\ up[c] = <<>>
    /\ aEnd[c] = "closed" /\ ~broken[c]
    /\ ws' = [ws EXCEPT ![c] = "draining"]
    /\ UNCHANGED <<agents, sessions, conns, writer, req, pushes, latest, queued, wire>>

\* The read loop ends: the peer closed, the 90 s read deadline passed (on a
\* connection that stalls, also with the peer there and frames on their way),
\* or a misread frame has the opcode of a close.  The handler now waits for
\* the writer.
readEnds(c) ==
    /\ ws[c] = "reading"
    /\ ws' = [ws EXCEPT ![c] = "draining"]
    /\ UNCHANGED <<agents, sessions, conns, writer, req, pushes, latest, queued, wire>>

\* One pass of the writer's loop, which a failed write ends.  It also ends
\* when the channel is closed, but only unregisterConn closes it and that
\* waits for the writer.
writeNext(c) ==
    /\ writer[c] = "run" /\ conns[c].buf # <<>>
    /\ conns' = [conns EXCEPT ![c].buf = Tail(@)]
    /\ LET frame == Head(conns[c].buf) IN
       \/ ServerSends(c, frame) /\ UNCHANGED writer
       \/ ServerFails(c, frame) /\ writer' = [writer EXCEPT ![c] = "done"]
    /\ UNCHANGED <<agents, sessions, ws, req, pushes, latest, queued>>
    /\ UNCHANGED <<up, aEnd, sEnd, broken>>

\* The handler returns: the deferred unregisterConn, then conn.Close.
handlerReturns(c) ==
    /\ ws[c] = "draining" /\ writer[c] = "done"
    /\ unregisterConn(c)
    /\ ws' = [ws EXCEPT ![c] = "done"]
    /\ sEnd' = [sEnd EXCEPT ![c] = "closed"]
    /\ UNCHANGED <<sessions, writer, req, pushes, latest, queued>>
    /\ UNCHANGED <<up, down, cut, aEnd, broken>>

ServerNext ==
    \/ \E r \in Requests :
          \/ ServeHTTP(r) \/ hasActiveSession(r) \/ createSession(r)
          \/ pushToAgent(r) \/ pushSend(r)
    \/ \E c \in Conns :
          \/ upgrade(c) \/ register(c) \/ handleAgentMessage(c)
          \/ misreadAgent(c) \/ misreadAgentInto(c)
          \/ readEnds(c) \/ writeNext(c) \/ handlerReturns(c)
=============================================================================
