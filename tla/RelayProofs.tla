---------------------------- MODULE RelayProofs ----------------------------
(***************************************************************************)
(* Proofs about Relay, for every number of connections, requests and       *)
(* sessions and every size of the outbound channels.                       *)
(***************************************************************************)
EXTENDS Relay, SequenceTheorems, TLAPS

-----------------------------------------------------------------------------
(* Moving frames from one queue to the next.                               *)

(* The head of t moves to the end of s. *)
LEMMA MoveHead ==
  ASSUME NEW S, NEW s \in Seq(S), NEW t \in Seq(S), t # <<>>
  PROVE  /\ Append(s, Head(t)) \in Seq(S) /\ Tail(t) \in Seq(S)
         /\ Append(s, Head(t)) \o Tail(t) = s \o t
<1>1. Head(t) \in S /\ Tail(t) \in Seq(S) /\ <<Head(t)>> \in Seq(S)
  BY HeadTailProperties
<1>2. t = <<Head(t)>> \o Tail(t)
  <2>1. Len(t) \in Nat /\ Len(t) >= 1
    BY EmptySeq
  <2>2. SubSeq(t, 1, Len(t)) = <<t[1]>> \o SubSeq(t, 1 + 1, Len(t))
    BY <2>1, SubSeqRecursiveFirst
  <2>3. SubSeq(t, 1, Len(t)) = t /\ Tail(t) = SubSeq(t, 2, Len(t)) /\ Head(t) = t[1]
    BY SubSeqFull, TailIsSubSeq
  <2>4. QED
    BY <2>2, <2>3
<1>3. Append(s, Head(t)) \in Seq(S) /\ Append(s, Head(t)) = s \o <<Head(t)>>
  BY <1>1, AppendIsConcat, AppendProperties
<1>4. (s \o <<Head(t)>>) \o Tail(t) = s \o (<<Head(t)>> \o Tail(t))
  BY <1>1, ConcatAssociative
<1>5. QED
  BY <1>1, <1>2, <1>3, <1>4

(* A sequence of two or more has a tail that has a tail. *)
LEMMA TailOfTail ==
  ASSUME NEW S, NEW s \in Seq(S), Len(s) > 1
  PROVE  Tail(Tail(s)) \in Seq(S)
<1>1. Len(s) \in Nat /\ s # <<>>
  BY EmptySeq, LenProperties
<1>2. Tail(s) \in Seq(S) /\ Len(Tail(s)) = Len(s) - 1
  BY <1>1, HeadTailProperties
<1>3. Len(Tail(s)) # 0
  BY <1>1, <1>2
<1>4. Tail(s) # <<>>
  BY <1>3, EmptySeq, Zenon
<1>5. QED
  BY <1>2, <1>4, HeadTailProperties

(* Appending to the second part appends to the whole. *)
LEMMA AppendAtEnd ==
  ASSUME NEW S, NEW s \in Seq(S), NEW t \in Seq(S), NEW e \in S
  PROVE  /\ Append(t, e) \in Seq(S)
         /\ s \o Append(t, e) = Append(s \o t, e)
<1>1. <<e>> \in Seq(S) /\ s \o t \in Seq(S) /\ Append(t, e) \in Seq(S)
  BY ConcatProperties, AppendProperties
<1>2. s \o (t \o <<e>>) = (s \o t) \o <<e>>
  BY <1>1, ConcatAssociative
<1>3. QED
  BY <1>1, <1>2, AppendIsConcat

(* What comes after the first part is the head of the second. *)
LEMMA NextInLine ==
  ASSUME NEW S, NEW h \in Seq(S), NEW w \in Seq(S), NEW rest \in Seq(S), w # <<>>
  PROVE  /\ Len(h) < Len((h \o w) \o rest)
         /\ ((h \o w) \o rest)[Len(h) + 1] = Head(w)
<1>1. /\ Len(h) \in Nat /\ Len(w) \in Nat /\ Len(rest) \in Nat /\ Len(w) >= 1 /\ Head(w) = w[1]
      /\ h \o w \in Seq(S)
  BY EmptySeq, LenProperties, ConcatProperties
<1>2. /\ Len(h \o w) = Len(h) + Len(w) /\ Len((h \o w) \o rest) = Len(h \o w) + Len(rest)
  BY <1>1, ConcatProperties
<1>3. (h \o w)[Len(h) + 1] = w[1]
  BY <1>1, ConcatProperties
<1>4. ((h \o w) \o rest)[Len(h) + 1] = (h \o w)[Len(h) + 1]
  BY <1>1, <1>2, ConcatProperties
<1>5. QED
  BY <1>1, <1>2, <1>3, <1>4

-----------------------------------------------------------------------------
(* Types.                                                                  *)

AnyFrame == Frames \cup {<<>>}
AnyStatus == Statuses \cup {"auth", Part}

WireTypes ==
    /\ up \in [Conns -> Seq(AnyStatus)] /\ down \in [Conns -> Seq(AnyFrame)]
    /\ aEnd \in [Conns -> {"none", "dialing", "open", "closed"}]
    /\ sEnd \in [Conns -> {"none", "open", "closed"}]
    /\ broken \in [Conns -> BOOLEAN] /\ cut \in [Conns -> BOOLEAN]

ServerTypes ==
    /\ agents \in [status : AnyStatus \cup {"none"}, conn : Conns \cup {0}]
    /\ conns \in [Conns -> [state : {"none", "open", "closed"}, buf : Seq(AnyFrame)]]
    /\ ws \in [Conns -> {"none", "upgraded", "reading", "draining", "done"}]
    /\ req \in [Requests -> [pc : {"idle", "check", "create", "push", "send"},
                             frame : AnyFrame, ch : Conns \cup {0}]]
    /\ \A r \in Requests : req[r].pc = "send" => req[r].ch \in Conns
    /\ latest \in Conns \cup {0}
    /\ writer \in [Conns -> {"none", "run", "done"}]
    /\ queued \in [Conns -> Seq(AnyFrame)]

AgentTypes ==
    /\ cur \in 0..MaxConns /\ connWS \in Conns \cup {0}
    /\ run \in {"dialing", "reading", "stopping", "offline"} => cur \in Conns
    /\ taken \in [Conns -> Seq(AnyFrame)]
    /\ skewed \in [Conns -> BOOLEAN] /\ misread \in [Conns -> SUBSET Nat]

RelayTypes == WireTypes /\ ServerTypes /\ AgentTypes

(* The steps of the server keep the types. *)
LEMMA ServerTypesStep == RelayTypes /\ ServerNext /\ UNCHANGED agentVars => RelayTypes'
<1> SUFFICES ASSUME RelayTypes, ServerNext, UNCHANGED agentVars PROVE RelayTypes'
  OBVIOUS
<1> USE MaxConnsAssumption DEF RelayTypes, agentVars, process, reader, wire
<1>1. AgentTypes'
  BY DEF AgentTypes
<1>2. ASSUME NEW r \in Requests, ServeHTTP(r) \/ hasActiveSession(r) \/ createSession(r)
      PROVE  RelayTypes'
  <2>1. UNCHANGED wire
    BY <1>2 DEF ServeHTTP, handleConnect, handleExecute, handleRelease, hasActiveSession, createSession
  <2>2. UNCHANGED <<agents, conns, ws, writer, latest, queued>>
    BY <1>2 DEF ServeHTTP, handleConnect, handleExecute, handleRelease, hasActiveSession, createSession
  <2>3. PICK q \in [pc : {"idle", "check", "create", "push"}, frame : AnyFrame, ch : Conns \cup {0}] :
          req' = [req EXCEPT ![r] = q]
    <3>1. CASE handleConnect(r) \/ hasActiveSession(r)
      BY <3>1, ZenonT(60) DEF handleConnect, hasActiveSession, ServerTypes
    <3>2. CASE createSession(r)
      BY <3>2, Zenon DEF createSession, IdleReq, AnyFrame
    <3>3. ASSUME NEW s \in Sessions, handleExecute(r, s) \/ handleRelease(r, s)
          PROVE  \E q \in [pc : {"idle", "check", "create", "push"}, frame : AnyFrame,
                           ch : Conns \cup {0}] : req' = [req EXCEPT ![r] = q]
      BY <3>3, Zenon DEF handleExecute, handleRelease, AnyFrame, Frames
    <3>4. QED
      BY <1>2, <3>1, <3>2, <3>3 DEF ServeHTTP
  <2>4. req' \in [Requests -> [pc : {"idle", "check", "create", "push", "send"},
                              frame : AnyFrame, ch : Conns \cup {0}]]
        /\ \A x \in Requests : req'[x].pc = "send" => req'[x].ch \in Conns
    BY <2>3 DEF ServerTypes
  <2>5. QED
    BY <1>1, <2>1, <2>2, <2>4 DEF WireTypes, ServerTypes
<1>3. ASSUME NEW r \in Requests, pushToAgent(r) PROVE RelayTypes'
  <2>1. UNCHANGED <<wire, agents, conns, ws, writer, latest, queued>>
    BY <1>3 DEF pushToAgent
  <2>2. req' \in [Requests -> [pc : {"idle", "check", "create", "push", "send"},
                              frame : AnyFrame, ch : Conns \cup {0}]]
        /\ \A x \in Requests : req'[x].pc = "send" => req'[x].ch \in Conns
    <3>1. agents.conn \in Conns \cup {0} /\ IdleReq.frame \in AnyFrame
      BY DEF ServerTypes, IdleReq, AnyFrame
    <3>2. QED
      BY <1>3, <3>1, Zenon DEF pushToAgent, agentChan, ServerTypes, IdleReq
  <2>3. QED
    BY <1>1, <2>1, <2>2 DEF WireTypes, ServerTypes
<1>4. ASSUME NEW r \in Requests, pushSend(r) PROVE RelayTypes'
  <2>1. UNCHANGED <<wire, agents, ws, writer, latest>>
    BY <1>4 DEF pushSend
  <2>2. req' \in [Requests -> [pc : {"idle", "check", "create", "push", "send"},
                              frame : AnyFrame, ch : Conns \cup {0}]]
        /\ \A x \in Requests : req'[x].pc = "send" => req'[x].ch \in Conns
    BY <1>4 DEF pushSend, ServerTypes, IdleReq, AnyFrame
  <2>3. PICK c \in Conns, f \in AnyFrame :
          (UNCHANGED <<conns, queued>>) \/ sendOrDefault(c, f)
    BY <1>4 DEF pushSend, ServerTypes
  <2>4. Append(conns[c].buf, f) \in Seq(AnyFrame) /\ Append(queued[c], f) \in Seq(AnyFrame)
    BY AppendProperties DEF ServerTypes
  <2>5. conns' \in [Conns -> [state : {"none", "open", "closed"}, buf : Seq(AnyFrame)]]
        /\ queued' \in [Conns -> Seq(AnyFrame)]
    <3>1. CASE UNCHANGED <<conns, queued>>
      BY <3>1 DEF ServerTypes
    <3>2. CASE /\ conns' = [conns EXCEPT ![c].buf = Append(@, f)]
               /\ queued' = [queued EXCEPT ![c] = Append(@, f)]
      BY <2>4, <3>2, ZenonT(30) DEF ServerTypes
    <3>3. QED
      BY <2>3, <3>1, <3>2 DEF sendOrDefault
  <2>6. QED
    BY <1>1, <2>1, <2>2, <2>5, Zenon DEF WireTypes, ServerTypes
<1>5. ASSUME NEW c \in Conns, upgrade(c) \/ register(c) \/ readEnds(c) \/ handlerReturns(c)
      PROVE  RelayTypes'
  <2>1. CASE upgrade(c) \/ readEnds(c)
    BY <1>1, <2>1, ZenonT(30) DEF upgrade, readEnds, WireTypes, ServerTypes
  <2>2. CASE register(c)
    BY <1>1, <2>2, EmptySeq DEF register, registerAgent, WireTypes, ServerTypes, AnyStatus, Statuses
  <2>3. CASE handlerReturns(c)
    <3>1. agents' \in [status : AnyStatus \cup {"none"}, conn : Conns \cup {0}]
      BY <2>3 DEF handlerReturns, unregisterConn, ServerTypes, AnyStatus, Statuses
    <3>2. conns' \in [Conns -> [state : {"none", "open", "closed"}, buf : Seq(AnyFrame)]]
      BY <2>3, ZenonT(60) DEF handlerReturns, unregisterConn, ServerTypes
    <3>3. QED
      BY <1>1, <2>3, <3>1, <3>2, Zenon DEF handlerReturns, WireTypes, ServerTypes
  <2>4. QED
    BY <1>5, <2>1, <2>2, <2>3
<1>6. ASSUME NEW c \in Conns, handleAgentMessage(c) PROVE RelayTypes'
  <2>1. up[c] \in Seq(AnyStatus) /\ up[c] # <<>> /\ up' = [up EXCEPT ![c] = Tail(@)]
    BY <1>6, Zenon DEF handleAgentMessage, wsReadFrame, WireTypes
  <2>2. Head(up[c]) \in AnyStatus /\ Tail(up[c]) \in Seq(AnyStatus)
    BY <2>1, HeadTailProperties
  <2>3. QED
    BY <1>1, <1>6, <2>1, <2>2, ZenonT(30) DEF handleAgentMessage, setAgentStatus, WireTypes, ServerTypes
<1>7. ASSUME NEW c \in Conns, writeNext(c) PROVE RelayTypes'
  <2>1. conns[c].buf \in Seq(AnyFrame) /\ conns[c].buf # <<>>
    BY <1>7 DEF writeNext, ServerTypes
  <2>2. Head(conns[c].buf) \in AnyFrame /\ Tail(conns[c].buf) \in Seq(AnyFrame)
    BY <2>1, HeadTailProperties
  <2>3. Append(down[c], Head(conns[c].buf)) \in Seq(AnyFrame)
    BY <2>2, AppendProperties DEF WireTypes
  <2>4. conns' \in [Conns -> [state : {"none", "open", "closed"}, buf : Seq(AnyFrame)]]
    BY <1>7, <2>2, ZenonT(60) DEF writeNext, ServerTypes
  <2>5. down' \in [Conns -> Seq(AnyFrame)] /\ cut' \in [Conns -> BOOLEAN]
    <3>1. /\ \/ UNCHANGED down
             \/ down' = [down EXCEPT ![c] = Append(down[c], Head(conns[c].buf))]
          /\ \/ UNCHANGED cut
             \/ cut' = [cut EXCEPT ![c] = TRUE]
      BY <1>7, Zenon DEF writeNext, ServerSends, ServerFails
    <3>2. QED
      BY <2>3, <3>1, Zenon DEF WireTypes
  <2>6. writer' \in [Conns -> {"none", "run", "done"}]
    <3>1. UNCHANGED writer \/ writer' = [writer EXCEPT ![c] = "done"]
      BY <1>7, Zenon DEF writeNext
    <3>2. writer \in [Conns -> {"none", "run", "done"}]
      BY DEF ServerTypes
    <3>3. QED
      BY <3>1, <3>2
  <2>7. QED
    BY <1>1, <1>7, <2>4, <2>5, <2>6, Zenon DEF writeNext, WireTypes, ServerTypes
<1>8. ASSUME NEW c \in Conns, misreadAgent(c) \/ misreadAgentInto(c) PROVE RelayTypes'
  <2>1. UNCHANGED <<serverVars, down, cut, aEnd, sEnd, broken>>
    BY <1>8, Zenon DEF misreadAgent, misreadAgentInto
  <2>2. up' \in [Conns -> Seq(AnyStatus)]
    <3>1. CASE misreadAgent(c)
      <4>1. up[c] \in Seq(AnyStatus) /\ up[c] # <<>> /\ up' = [up EXCEPT ![c] = Tail(@)]
        BY <3>1, Zenon DEF misreadAgent, wsReadFrame, WireTypes
      <4>2. Tail(up[c]) \in Seq(AnyStatus)
        BY <4>1, HeadTailProperties
      <4>3. QED
        BY <4>1, <4>2 DEF WireTypes
    <3>2. CASE misreadAgentInto(c)
      <4>1. /\ up[c] \in Seq(AnyStatus) /\ Len(up[c]) > 1
            /\ up' = [up EXCEPT ![c] = <<Part>> \o Tail(Tail(@))]
        BY <3>2, Zenon DEF misreadAgentInto, WireTypes
      <4>2. Tail(Tail(up[c])) \in Seq(AnyStatus)
        BY <4>1, TailOfTail
      <4>3. <<Part>> \in Seq(AnyStatus)
        BY DEF AnyStatus
      <4>4. <<Part>> \o Tail(Tail(up[c])) \in Seq(AnyStatus)
        BY <4>2, <4>3, ConcatProperties
      <4>5. QED
        BY <4>1, <4>4 DEF WireTypes
    <3>3. QED
      BY <1>8, <3>1, <3>2
  <2>3. QED
    BY <1>1, <2>1, <2>2, Zenon DEF serverVars, WireTypes, ServerTypes
<1>9. QED
  BY <1>2, <1>3, <1>4, <1>5, <1>6, <1>7, <1>8 DEF ServerNext

(* A status the agent sends is one the server knows, or a part of one. *)
LEMMA SendStatusTypes ==
  ASSUME RelayTypes, NEW status \in AnyStatus, sendStatus(status)
  PROVE  up' \in [Conns -> Seq(AnyStatus)]
<1>1. CASE UNCHANGED up
  BY <1>1 DEF RelayTypes, WireTypes
<1>2. ASSUME NEW f \in {status, Part}, connWS # 0, up' = [up EXCEPT ![connWS] = Append(@, f)]
      PROVE  up' \in [Conns -> Seq(AnyStatus)]
  <2>1. f \in AnyStatus /\ connWS \in Conns
    BY <1>2 DEF AnyStatus, RelayTypes, AgentTypes
  <2>2. Append(up[connWS], f) \in Seq(AnyStatus)
    BY <2>1, AppendProperties DEF RelayTypes, WireTypes
  <2>3. QED
    BY <1>2, <2>1, <2>2 DEF RelayTypes, WireTypes
<1>3. QED
  BY <1>1, <1>2, Zenon DEF sendStatus, AgentSends

(* What misreadMessage, handleMessage and the end of runOnce leave of the reader. *)
LEMMA ReaderTypes ==
  ASSUME RelayTypes, cur \in Conns,
         \/ handleMessage
         \/ misreadMessage
         \/ wsClose
         \/ loseStep
         \/ regainStep
  PROVE  /\ down' \in [Conns -> Seq(AnyFrame)] /\ taken' \in [Conns -> Seq(AnyFrame)]
         /\ skewed' \in [Conns -> BOOLEAN] /\ misread' \in [Conns -> SUBSET Nat]
<1> USE DEF RelayTypes, WireTypes, AgentTypes
<1>1. CASE handleMessage \/ misreadMessage
  <2>1. /\ down[cur] # <<>> /\ down' = [down EXCEPT ![cur] = Tail(@)]
        /\ taken' = [taken EXCEPT ![cur] = Append(@, Head(down[cur]))]
        /\ \/ UNCHANGED <<skewed, misread>>
           \/ /\ \E b \in BOOLEAN : skewed' = [skewed EXCEPT ![cur] = b]
              /\ misread' = [misread EXCEPT ![cur] = @ \cup {Len(taken[cur]) + 1}]
    BY <1>1, Zenon DEF handleMessage, readMessage, misreadMessage
  <2>2. down[cur] \in Seq(AnyFrame) /\ taken[cur] \in Seq(AnyFrame)
    OBVIOUS
  <2>3. Append(taken[cur], Head(down[cur])) \in Seq(AnyFrame) /\ Tail(down[cur]) \in Seq(AnyFrame)
    BY <2>1, <2>2, MoveHead
  <2>4. Len(taken[cur]) + 1 \in Nat
    BY <2>2, LenProperties
  <2>5. misread[cur] \cup {Len(taken[cur]) + 1} \in SUBSET Nat
    BY <2>4
  <2>6. QED
    BY <2>1, <2>3, <2>5, ZenonT(30)
<1>2. CASE wsClose \/ loseStep \/ regainStep
  BY <1>2, Zenon DEF wsClose, loseStep, regainStep, wire
<1>3. QED
  BY <1>1, <1>2

(* So do those of the agent ... *)
LEMMA AgentTypesStep == RelayTypes /\ AgentNext /\ UNCHANGED serverVars => RelayTypes'
<1> SUFFICES ASSUME RelayTypes, AgentNext, UNCHANGED serverVars PROVE RelayTypes'
  OBVIOUS
<1> USE MaxConnsAssumption DEF wire, process, callbacks, reader
<1>1. ServerTypes'
  BY DEF RelayTypes, ServerTypes, serverVars
<1>2. CASE dialWS \/ dialFails
  <2>1. UNCHANGED <<up, down, cut, sEnd, broken, reader>> /\ connWS' = connWS
        /\ (cur' = cur \/ (cur < MaxConns /\ cur' = cur + 1))
    BY <1>2 DEF dialWS, dialFails
  <2>2. cur' \in 0..MaxConns /\ (run' \in {"dialing", "reading", "stopping", "offline"} => cur' \in Conns)
    BY <1>2 DEF dialWS, dialFails, RelayTypes, AgentTypes, Conns
  <2>3. \E c \in Conns, e \in {"dialing", "closed"} : aEnd' = [aEnd EXCEPT ![c] = e]
    BY <1>2, <2>2 DEF dialWS, dialFails, RelayTypes, AgentTypes
  <2>4. aEnd' \in [Conns -> {"none", "dialing", "open", "closed"}]
    BY <2>3 DEF RelayTypes, WireTypes
  <2>5. QED
    BY <1>1, <2>1, <2>2, <2>4 DEF RelayTypes, WireTypes, AgentTypes
<1>3. CASE connected
  <2>1. Append(up[cur], "auth") \in Seq(AnyStatus) /\ cur \in Conns
    BY <1>3, AppendProperties DEF connected, RelayTypes, WireTypes, AgentTypes, AnyStatus
  <2>2. QED
    BY <1>1, <1>3, <2>1 DEF connected, RelayTypes, WireTypes, AgentTypes
<1>4. CASE handleMessage \/ misreadMessage
  <2>1. cur \in Conns
    BY <1>4, Zenon DEF handleMessage, misreadMessage, RelayTypes, AgentTypes
  <2>2. UNCHANGED <<up, cut, aEnd, sEnd, broken, cur, connWS>>
    BY <1>4, Zenon DEF handleMessage, readMessage, misreadMessage
  <2>3. QED
    BY <1>1, <1>4, <2>1, <2>2, ReaderTypes, Zenon DEF RelayTypes, WireTypes, AgentTypes
<1>5. CASE sendOffline
  <2>1. "offline" \in AnyStatus
    BY DEF AnyStatus, Statuses
  <2>2. up' \in [Conns -> Seq(AnyStatus)]
    BY <1>5, <2>1, SendStatusTypes, Zenon DEF sendOffline
  <2>3. cur \in Conns
    BY <1>5, Zenon DEF sendOffline, RelayTypes, AgentTypes
  <2>4. QED
    BY <1>1, <1>5, <2>2, <2>3, Zenon DEF sendOffline, RelayTypes, WireTypes, AgentTypes
<1>6. CASE retry \/ exit \/ signal \/ restart
  BY <1>1, <1>6, Zenon DEF retry, exit, signal, restart, RelayTypes, WireTypes, AgentTypes
<1>7. ASSUME NEW g \in Phase2s, Phase2Steps(g) \/ tunnelFails(g) PROVE RelayTypes'
  <2>1. UNCHANGED <<process, reader, down, cut, aEnd, sEnd, broken>>
    BY <1>7, Zenon DEF Phase2Steps, phase2Rejected, phase2Starts, phase2Fails, phase2Up, announce,
                phase2Ends, phase2Returns, reportError, teardown, tunnelFails
  <2>2. UNCHANGED up \/ \E status \in AnyStatus : sendStatus(status)
    <3>1. "error" \in AnyStatus /\ "connected" \in AnyStatus /\ "standby" \in AnyStatus
      BY DEF AnyStatus, Statuses
    <3>2. QED
      BY <1>7, <3>1, Zenon DEF Phase2Steps, phase2Rejected, phase2Starts, phase2Fails, phase2Up,
                        announce, phase2Ends, phase2Returns, reportError, teardown, tunnelFails
  <2>3. up' \in [Conns -> Seq(AnyStatus)]
    BY <2>2, SendStatusTypes DEF RelayTypes, WireTypes
  <2>4. QED
    BY <1>1, <2>1, <2>3, Zenon DEF RelayTypes, WireTypes, AgentTypes
<1>8. CASE exitAfterOffline \/ readFails \/ misreadFails
  <2>1. cur \in Conns /\ wsClose /\ run' \in {"exited", "backoff"}
    BY <1>8, Zenon DEF exitAfterOffline, readFails, misreadFails, RelayTypes, AgentTypes
  <2>2. /\ aEnd' = [aEnd EXCEPT ![cur] = "closed"] /\ connWS' = 0
        /\ UNCHANGED <<cur, up, cut, sEnd, broken>>
    BY <2>1, Zenon DEF wsClose
  <2>3. WireTypes'
    BY <2>1, <2>2, ReaderTypes, Zenon DEF RelayTypes, WireTypes
  <2>4. AgentTypes'
    BY <2>1, <2>2, ReaderTypes DEF RelayTypes, AgentTypes
  <2>5. QED
    BY <1>1, <2>3, <2>4 DEF RelayTypes
<1>9. CASE loseStep \/ regainStep
  <2>1. cur \in Conns /\ UNCHANGED <<process, taken, misread, wire>>
    BY <1>9, Zenon DEF loseStep, regainStep, RelayTypes, AgentTypes
  <2>2. QED
    BY <1>1, <1>9, <2>1, ReaderTypes, Zenon DEF RelayTypes, WireTypes, AgentTypes
<1>10. QED
  BY <1>2, <1>3, <1>4, <1>5, <1>6, <1>7, <1>8, <1>9, Zenon DEF AgentNext, RunSteps, OutOfStep

(* ... and the network. *)
LEMMA TypesStep == RelayTypes /\ [Next]_vars => RelayTypes'
<1> SUFFICES ASSUME RelayTypes, [Next]_vars PROVE RelayTypes'
  OBVIOUS
<1>1. CASE Network
  <2>1. PICK c \in Conns : Break(c) /\ UNCHANGED <<serverVars, agentVars>>
    BY <1>1 DEF Network
  <2>2. ServerTypes' /\ AgentTypes'
    BY <2>1, Zenon DEF RelayTypes, ServerTypes, AgentTypes, serverVars, agentVars, process, reader
  <2>3. WireTypes'
    BY <2>1, EmptySeq DEF Break, RelayTypes, WireTypes
  <2>4. QED
    BY <2>2, <2>3 DEF RelayTypes
<1>2. CASE UNCHANGED vars
  BY <1>2, Zenon DEF vars, serverVars, agentVars, process, reader, wire, RelayTypes, ServerTypes, AgentTypes, WireTypes
<1>3. QED
  BY <1>1, <1>2, ServerTypesStep, AgentTypesStep DEF Next

-----------------------------------------------------------------------------
(* The record of the agent belongs to the connection registered last.      *)

(* Only registerAgent and the end of a handler touch the record's           *)
(* connection, and the latter only takes its own.                           *)
LEMMA LatestOwnsRecordStep ==
  RelayTypes /\ LatestOwnsRecord /\ [Next]_vars => LatestOwnsRecord'
<1> SUFFICES ASSUME RelayTypes, LatestOwnsRecord, [Next]_vars PROVE LatestOwnsRecord'
  OBVIOUS
<1> USE MaxConnsAssumption DEF RelayTypes, ServerTypes
<1>1. ASSUME UNCHANGED <<agents, conns, ws, latest>> PROVE LatestOwnsRecord'
  BY <1>1 DEF LatestOwnsRecord
<1>2. ASSUME NEW r \in Requests, ServeHTTP(r) \/ hasActiveSession(r) \/ createSession(r)
                                \/ pushToAgent(r)
      PROVE  LatestOwnsRecord'
  BY <1>1, <1>2 DEF ServeHTTP, handleConnect, handleExecute, handleRelease, hasActiveSession,
                    createSession, pushToAgent
<1>3. ASSUME NEW r \in Requests, pushSend(r) PROVE LatestOwnsRecord'
  <2>1. \A c \in Conns : conns'[c].state = conns[c].state
    <3>1. PICK d \in Conns, f \in AnyFrame :
            conns' = conns \/ conns' = [conns EXCEPT ![d].buf = Append(@, f)]
      BY <1>3, Zenon DEF pushSend, sendOrDefault
    <3>2. CASE conns' = [conns EXCEPT ![d].buf = Append(@, f)]
      <4>1. conns' = [conns EXCEPT ![d] = [conns[d] EXCEPT !.buf = Append(conns[d].buf, f)]]
        BY <3>2
      <4>2. [conns[d] EXCEPT !.buf = Append(conns[d].buf, f)].state = conns[d].state
        OBVIOUS
      <4>3. QED
        BY <4>1, <4>2
    <3>3. QED
      BY <3>1, <3>2
  <2>2. QED
    BY <1>3, <2>1 DEF pushSend, LatestOwnsRecord
<1>4. ASSUME NEW c \in Conns, upgrade(c) \/ readEnds(c) PROVE LatestOwnsRecord'
  <2>1. /\ ws \in [Conns -> {"none", "upgraded", "reading", "draining", "done"}]
        /\ latest # 0 => latest \in Conns
    BY Zenon
  <2> HIDE DEF RelayTypes, ServerTypes
  <2>2. UNCHANGED <<agents, conns, latest>>
    BY <1>4, Zenon DEF upgrade, readEnds
  <2>3. \/ ws' = [ws EXCEPT ![c] = "upgraded"]
        \/ ws[c] = "reading" /\ ws' = [ws EXCEPT ![c] = "draining"]
    BY <1>4, Zenon DEF upgrade, readEnds
  <2>4. \A d \in Conns : ws'[d] \in {"reading", "draining"} => ws[d] \in {"reading", "draining"}
    BY <2>1, <2>3
  <2>5. QED
    BY <2>1, <2>2, <2>4, Zenon DEF LatestOwnsRecord
<1>5. ASSUME NEW c \in Conns, register(c) PROVE LatestOwnsRecord'
  BY <1>5, Zenon DEF register, registerAgent, LatestOwnsRecord
<1>6. ASSUME NEW c \in Conns, handleAgentMessage(c) PROVE LatestOwnsRecord'
  BY <1>6 DEF handleAgentMessage, setAgentStatus, LatestOwnsRecord
<1>7. ASSUME NEW c \in Conns, writeNext(c) PROVE LatestOwnsRecord'
  <2>1. \A d \in Conns : conns'[d].state = conns[d].state
    BY <1>7 DEF writeNext
  <2>2. QED
    BY <1>7, <2>1 DEF writeNext, LatestOwnsRecord
<1>8. ASSUME NEW c \in Conns, handlerReturns(c) PROVE LatestOwnsRecord'
  BY <1>8 DEF handlerReturns, unregisterConn, LatestOwnsRecord
<1>9. CASE UNCHANGED serverVars
  BY <1>1, <1>9 DEF serverVars
<1>10. ASSUME NEW c \in Conns, misreadAgent(c) \/ misreadAgentInto(c) PROVE LatestOwnsRecord'
  BY <1>9, <1>10, Zenon DEF misreadAgent, misreadAgentInto
<1>11. QED
  BY <1>2, <1>3, <1>4, <1>5, <1>6, <1>7, <1>8, <1>9, <1>10 DEF Next, ServerNext, Network, vars

-----------------------------------------------------------------------------
(* Where the frames queued for a connection are.                         *)

NotServed == {"none", "upgraded"}

(* Nothing is queued for a connection before its handler has registered it, *)
(* and the agent uses each connection once.                                 *)
Order ==
    /\ \A c \in Conns :
          /\ ws[c] \in NotServed => /\ queued[c] = <<>> /\ taken[c] = <<>>
                                    /\ down[c] = <<>> /\ conns[c].buf = <<>>
                                    /\ writer[c] = "none"
          /\ ws[c] = "none" => sEnd[c] = "none"
          /\ c > cur => aEnd[c] = "none"
    /\ run = "dialing" => aEnd[cur] = "dialing"
    /\ agents.conn \in Conns => ws[agents.conn] \notin NotServed
    /\ \A r \in Requests : req[r].pc = "send" => ws[req[r].ch] \notin NotServed

(* Order concerns connections not yet registered: a step of the server that *)
(* leaves those alone keeps it.                                             *)
LEMMA OrderFrame ==
  ASSUME Order, UNCHANGED <<cur, run, aEnd, taken>>,
         \A d \in Conns : ws'[d] \in NotServed =>
            /\ ws[d] \in NotServed /\ queued'[d] = queued[d] /\ down'[d] = down[d]
            /\ conns'[d].buf = conns[d].buf /\ writer'[d] = writer[d],
         \A d \in Conns : ws'[d] = "none" => ws[d] = "none" /\ sEnd'[d] = sEnd[d],
         agents'.conn \in Conns => \/ agents'.conn = agents.conn
                                  \/ ws'[agents'.conn] \notin NotServed,
         \A r \in Requests : req'[r].pc = "send" =>
            /\ req[r].pc = "send" /\ req'[r].ch = req[r].ch /\ req[r].ch \in Conns
  PROVE  Order'
<1>1. ASSUME NEW d \in Conns, ws'[d] \in NotServed
      PROVE  /\ queued'[d] = <<>> /\ taken'[d] = <<>> /\ down'[d] = <<>>
             /\ conns'[d].buf = <<>> /\ writer'[d] = "none"
  <2>1. /\ queued[d] = <<>> /\ taken[d] = <<>> /\ down[d] = <<>>
        /\ conns[d].buf = <<>> /\ writer[d] = "none"
    BY <1>1, Zenon DEF Order
  <2>2. QED
    BY <1>1, <2>1, Zenon
<1>2. ASSUME NEW d \in Conns
      PROVE  (ws'[d] = "none" => sEnd'[d] = "none") /\ (d > cur' => aEnd'[d] = "none")
  <2>1. (ws[d] = "none" => sEnd[d] = "none") /\ (d > cur => aEnd[d] = "none")
    BY Zenon DEF Order
  <2>2. QED
    BY <2>1, Zenon
<1>3. run' = "dialing" => aEnd'[cur'] = "dialing"
  BY Zenon DEF Order
<1>4. agents'.conn \in Conns => ws'[agents'.conn] \notin NotServed
  <2>1. agents.conn \in Conns => ws[agents.conn] \notin NotServed
    BY Zenon DEF Order
  <2>2. \A d \in Conns : ws[d] \notin NotServed => ws'[d] \notin NotServed
    OBVIOUS
  <2>3. QED
    BY <2>1, <2>2
<1>5. \A r \in Requests : req'[r].pc = "send" => ws'[req'[r].ch] \notin NotServed
  <2>1. \A r \in Requests : req[r].pc = "send" => ws[req[r].ch] \notin NotServed
    BY Zenon DEF Order
  <2>2. \A d \in Conns : ws[d] \notin NotServed => ws'[d] \notin NotServed
    OBVIOUS
  <2>3. QED
    BY <2>1, <2>2
<1>6. QED
  BY <1>1, <1>2, <1>3, <1>4, <1>5, Zenon DEF Order

(* The server keeps the order. *)
LEMMA ServerOrderStep == RelayTypes /\ Order /\ ServerNext /\ UNCHANGED agentVars => Order'
<1> SUFFICES ASSUME RelayTypes, Order, ServerNext, UNCHANGED agentVars PROVE Order'
  OBVIOUS
<1> USE DEF RelayTypes, ServerTypes, wire, agentVars, process, reader, NotServed
<1>1. ASSUME NEW r \in Requests, ServeHTTP(r) \/ hasActiveSession(r) \/ createSession(r)
                                \/ pushToAgent(r)
      PROVE  Order'
  <2>1. UNCHANGED <<wire, agents, conns, ws, writer, queued>>
    BY <1>1 DEF ServeHTTP, handleConnect, handleExecute, handleRelease, hasActiveSession,
                createSession, pushToAgent
  <2>2. ASSUME NEW x \in Requests, req'[x].pc = "send"
        PROVE  req'[x] = req[x] \/ (req'[x].ch = agents.conn /\ agents.conn # 0)
    <3>1. CASE ServeHTTP(r)
      BY <2>2, <3>1 DEF ServeHTTP, handleConnect, handleExecute, handleRelease
    <3>2. CASE hasActiveSession(r) \/ createSession(r)
      BY <2>2, <3>2 DEF hasActiveSession, createSession, IdleReq
    <3>3. CASE pushToAgent(r)
      <4>1. CASE agentChan = 0
        BY <2>2, <3>3, <4>1 DEF pushToAgent, IdleReq
      <4>2. CASE agentChan # 0
        <5>1. req' = [req EXCEPT ![r] = [req[r] EXCEPT !.pc = "send", !.ch = agentChan]]
          BY <3>3, <4>2 DEF pushToAgent
        <5>2. x # r => req'[x] = req[x]
          BY <5>1
        <5>3. req'[r].ch = agentChan
          BY <5>1
        <5>4. QED
          BY <4>2, <5>2, <5>3, Zenon DEF agentChan
      <4>3. QED
        BY <4>1, <4>2, Zenon
    <3>4. QED
      BY <1>1, <3>1, <3>2, <3>3, Zenon
  <2>3. \A x \in Requests : req'[x].pc = "send" => ws[req'[x].ch] \notin NotServed
    BY <2>2, ZenonT(30) DEF Order
  <2>4. QED
    BY <2>1, <2>3, Zenon DEF Order
<1>2. ASSUME NEW r \in Requests, pushSend(r) PROVE Order'
  <2>1. /\ ws[req[r].ch] \notin NotServed /\ UNCHANGED <<wire, agents, ws, writer>>
        /\ \A x \in Requests : req'[x].pc = "send" => req'[x] = req[x]
    BY <1>2, Zenon DEF pushSend, Order, IdleReq
  <2>2. \A c \in Conns : c # req[r].ch => conns'[c] = conns[c] /\ queued'[c] = queued[c]
    BY <1>2 DEF pushSend, sendOrDefault
  <2>3. \A c \in Conns : ws[c] \in NotServed => conns'[c] = conns[c] /\ queued'[c] = queued[c]
    BY <2>1, <2>2, Zenon
  <2>4. \A x \in Requests : req'[x].pc = "send" => /\ req[x].pc = "send" /\ req'[x].ch = req[x].ch
                                                    /\ req[x].ch \in Conns
    BY <2>1, Zenon
  <2>5. UNCHANGED <<cur, run, aEnd, taken, down, sEnd>>
    BY <2>1, Zenon
  <2>6. QED
    BY <2>1, <2>3, <2>4, <2>5, OrderFrame, Zenon
<1>3. ASSUME NEW c \in Conns, upgrade(c) \/ readEnds(c) PROVE Order'
  <2>1. CASE upgrade(c)
    <3>1. /\ ws \in [Conns -> {"none", "upgraded", "reading", "draining", "done"}]
          /\ sEnd \in [Conns -> {"none", "open", "closed"}]
          /\ \A r \in Requests : req[r].pc = "send" => req[r].ch \in Conns
      BY Zenon DEF WireTypes
    <3> HIDE DEF RelayTypes, ServerTypes, agentVars, wire, process, reader
    <3>2. /\ ws[c] = "none" /\ ws' = [ws EXCEPT ![c] = "upgraded"]
          /\ sEnd' = [sEnd EXCEPT ![c] = "open"]
          /\ UNCHANGED <<agents, conns, writer, req, queued, down, aEnd>>
      BY <2>1, Zenon DEF upgrade
    <3>3. UNCHANGED <<taken, cur, run>>
      BY Zenon DEF agentVars, process, reader
    <3>4. \A d \in Conns : ws'[d] \in NotServed <=> ws[d] \in NotServed
      BY <3>1, <3>2
    <3>5. \A d \in Conns : ws'[d] = "none" => ws[d] = "none" /\ sEnd'[d] = sEnd[d]
      BY <3>1, <3>2
    <3> HIDE DEF NotServed
    <3>6. QED
      BY <3>1, <3>2, <3>3, <3>4, <3>5, ZenonT(30) DEF Order
  <2>2. CASE readEnds(c)
    BY <2>2 DEF readEnds, Order, WireTypes
  <2>3. QED
    BY <1>3, <2>1, <2>2, Zenon
<1>10. /\ \A r \in Requests : req[r].pc = "send" => req[r].ch \in Conns
       /\ UNCHANGED <<cur, run, taken>>
  BY Zenon
<1>4. ASSUME NEW c \in Conns, register(c) PROVE Order'
  <2>1. /\ UNCHANGED <<req, queued, down, aEnd, sEnd>> /\ agents'.conn = c
        /\ ws' = [ws EXCEPT ![c] = "reading"]
        /\ \A d \in Conns : d # c => conns'[d] = conns[d] /\ writer'[d] = writer[d]
    BY <1>4 DEF register, registerAgent
  <2>2. /\ ws'[c] \notin NotServed /\ ws'[c] # "none"
        /\ \A d \in Conns : d # c => ws'[d] = ws[d]
    BY <2>1
  <2> HIDE DEF NotServed, RelayTypes
  <2>3. QED
    BY <1>10, <2>1, <2>2, OrderFrame, ZenonT(30)
<1>5. ASSUME NEW c \in Conns, handleAgentMessage(c) PROVE Order'
  <2>1. /\ UNCHANGED <<conns, ws, writer, req, queued, down, aEnd, sEnd>>
        /\ agents'.conn = agents.conn
    BY <1>5 DEF handleAgentMessage, setAgentStatus
  <2> HIDE DEF NotServed, RelayTypes
  <2>2. QED
    BY <1>10, <2>1, OrderFrame, ZenonT(30)
<1>6. ASSUME NEW c \in Conns, writeNext(c) PROVE Order'
  <2>1. ws[c] \notin NotServed
    BY <1>6 DEF writeNext, Order
  <2>2. /\ \A d \in Conns : d # c => conns'[d] = conns[d] /\ writer'[d] = writer[d]
        /\ UNCHANGED <<ws, agents, req, queued, aEnd, sEnd>>
    BY <1>6 DEF writeNext
  <2>3. \A d \in Conns : d # c => down'[d] = down[d]
    BY <1>6, Zenon DEF writeNext, ServerSends, ServerFails, WireTypes
  <2> HIDE DEF NotServed, RelayTypes
  <2>4. QED
    BY <1>10, <2>1, <2>2, <2>3, OrderFrame, ZenonT(30)
<1>7. ASSUME NEW c \in Conns, handlerReturns(c) PROVE Order'
  <2>1. /\ agents'.conn \in Conns => agents'.conn = agents.conn
        /\ \A d \in Conns : d # c => conns'[d] = conns[d] /\ sEnd'[d] = sEnd[d]
        /\ ws' = [ws EXCEPT ![c] = "done"] /\ UNCHANGED <<writer, req, queued, down, aEnd>>
    BY <1>7, MaxConnsAssumption DEF handlerReturns, unregisterConn, WireTypes, Conns
  <2>2. /\ ws'[c] \notin NotServed /\ ws'[c] # "none"
        /\ \A d \in Conns : d # c => ws'[d] = ws[d]
    BY <2>1
  <2> HIDE DEF NotServed, RelayTypes
  <2>3. QED
    BY <1>10, <2>1, <2>2, OrderFrame, ZenonT(30)
<1>8. ASSUME NEW c \in Conns, misreadAgent(c) \/ misreadAgentInto(c) PROVE Order'
  <2>1. UNCHANGED <<agents, conns, ws, writer, req, queued, down, aEnd, sEnd>>
    BY <1>8, Zenon DEF misreadAgent, misreadAgentInto, serverVars
  <2> HIDE DEF NotServed, RelayTypes
  <2>2. QED
    BY <1>10, <2>1, OrderFrame, ZenonT(30)
<1>9. QED
  BY <1>1, <1>2, <1>3, <1>4, <1>5, <1>6, <1>7, <1>8 DEF ServerNext

(* So do the agent and the network. *)
LEMMA OrderStep == RelayTypes /\ Order /\ [Next]_vars => Order'
<1> SUFFICES ASSUME RelayTypes, Order, [Next]_vars PROVE Order'
  OBVIOUS
<1> USE DEF RelayTypes, WireTypes, AgentTypes, wire, process, callbacks, reader
<1>1. ASSUME UNCHANGED <<serverVars, cur, taken, down, aEnd, sEnd>>,
             run' = "dialing" => run = "dialing"
      PROVE  Order'
  BY <1>1 DEF Order, serverVars
<1>2. CASE AgentNext /\ UNCHANGED serverVars
  <2>1. CASE dialWS
    <3>1. cur + 1 \in Conns
      BY <2>1, MaxConnsAssumption DEF dialWS, Conns
    <3>2. QED
      BY <1>2, <2>1, <3>1, SMTT(30) DEF dialWS, Order, serverVars, Conns
  <2>2. CASE connected \/ dialFails \/ exitAfterOffline \/ readFails \/ misreadFails
    <3>1. /\ \E v \in {"open", "closed"} : aEnd' = [aEnd EXCEPT ![cur] = v]
          /\ run' # "dialing" /\ UNCHANGED <<cur, taken, down, sEnd>>
      BY <2>2, Zenon DEF connected, dialFails, exitAfterOffline, readFails, misreadFails, wsClose
    <3>2. \A c \in Conns : c > cur => c # cur
      BY MaxConnsAssumption DEF Conns
    <3>3. \A c \in Conns : c > cur => aEnd'[c] = aEnd[c]
      BY <3>1, <3>2
    <3>4. QED
      BY <1>2, <3>1, <3>3 DEF Order, serverVars
  <2>3. CASE handleMessage \/ misreadMessage
    <3>1. cur \in Conns /\ ws[cur] \notin NotServed
      BY <2>3, Zenon DEF handleMessage, readMessage, misreadMessage, Order
    <3>2. /\ taken' = [taken EXCEPT ![cur] = Append(@, Head(down[cur]))]
          /\ down' = [down EXCEPT ![cur] = Tail(@)]
          /\ run' # "dialing" /\ UNCHANGED <<cur, aEnd, sEnd>>
      BY <2>3, Zenon DEF handleMessage, readMessage, misreadMessage
    <3>3. \A d \in Conns : d # cur => taken'[d] = taken[d] /\ down'[d] = down[d]
      BY <3>1, <3>2
    <3>4. QED
      BY <1>2, <3>1, <3>2, <3>3, Zenon DEF Order, serverVars
  <2>4. CASE sendOffline \/ retry \/ exit \/ signal \/ restart
    BY <1>1, <1>2, <2>4, Zenon DEF sendOffline, retry, exit, signal, restart
  <2>5. ASSUME NEW g \in Phase2s, Phase2Steps(g) \/ tunnelFails(g) PROVE Order'
    BY <1>1, <1>2, <2>5, Zenon DEF Phase2Steps, phase2Rejected, phase2Starts, phase2Fails, phase2Up,
                            announce, phase2Ends, phase2Returns, reportError, teardown, tunnelFails
  <2>7. CASE loseStep \/ regainStep
    BY <1>1, <1>2, <2>7, Zenon DEF loseStep, regainStep
  <2>8. QED
    BY <1>2, <2>1, <2>2, <2>3, <2>4, <2>5, <2>7, Zenon DEF AgentNext, RunSteps, OutOfStep
<1>3. CASE Network
  <2>1. PICK c \in Conns : Break(c) /\ UNCHANGED <<serverVars, agentVars>>
    BY <1>3 DEF Network
  <2>2. QED
    BY <2>1, EmptySeq, Zenon DEF Break, Order, serverVars, agentVars
<1>4. CASE UNCHANGED vars
  BY <1>1, <1>4 DEF vars, agentVars
<1>5. QED
  BY <1>2, <1>3, <1>4, ServerOrderStep DEF Next

-----------------------------------------------------------------------------
(* No frame is overtaken, repeated or left out before a later one.         *)

\* The writer of c is at work, and what it writes would reach the agent.
Path(c) == Intact(c) /\ writer[c] # "done"

\* The frames queued for c are the taken ones, then those on the way,
\* then others; as long as the path is intact, the others wait in the channel.
StreamOK(c) ==
    /\ \E rest \in Seq(AnyFrame) : queued[c] = (taken[c] \o down[c]) \o rest
    /\ Path(c) => queued[c] = (taken[c] \o down[c]) \o conns[c].buf

Streams == \A c \in Conns : StreamOK(c)

(* A step that leaves the frames of c where they are and opens no path. *)
LEMMA QuietStream ==
    ASSUME NEW c \in Conns, StreamOK(c), Path(c)' => Path(c),
           queued'[c] = queued[c], taken'[c] = taken[c],
           down'[c] = down[c], conns'[c].buf = conns[c].buf
    PROVE  StreamOK(c)'
  BY Zenon DEF StreamOK

(* pushSend appends to what is queued and to what is queued alike. *)
LEMMA PushStream ==
    ASSUME RelayTypes, Streams, NEW r \in Requests, pushSend(r), UNCHANGED agentVars
    PROVE  Streams'
<1>d. PICK d \in Conns : d = req[r].ch
  BY DEF pushSend, RelayTypes, ServerTypes
<1>e. PICK e \in AnyFrame : e = req[r].frame
  BY DEF RelayTypes, ServerTypes
<1>1. UNCHANGED <<taken, down, aEnd, sEnd, broken, writer>>
  BY Zenon DEF pushSend, agentVars, reader, wire
<1>2. CASE UNCHANGED <<conns, queued>>
  BY <1>1, <1>2, Zenon DEF Streams, StreamOK, Path, Intact, Dead
<1>3. CASE /\ conns' = [conns EXCEPT ![d].buf = Append(@, e)]
           /\ queued' = [queued EXCEPT ![d] = Append(@, e)]
  <2>1. /\ \A c \in Conns : c # d => conns'[c] = conns[c] /\ queued'[c] = queued[c]
        /\ conns'[d].buf = Append(conns[d].buf, e) /\ queued'[d] = Append(queued[d], e)
    BY <1>3 DEF RelayTypes, ServerTypes
  <2>2. \A c \in Conns : c # d => StreamOK(c)'
    BY <1>1, <2>1, Zenon DEF Streams, StreamOK, Path, Intact, Dead
  <2>3. StreamOK(d)'
    <3> DEFINE base == taken[d] \o down[d]
    <3>1. base \in Seq(AnyFrame) /\ conns[d].buf \in Seq(AnyFrame)
      BY ConcatProperties, Zenon DEF RelayTypes, AgentTypes, WireTypes, ServerTypes
    <3>2. PICK rest \in Seq(AnyFrame) : queued[d] = base \o rest
      BY Zenon DEF Streams, StreamOK
    <3>3. Path(d) => queued[d] = base \o conns[d].buf
      BY Zenon DEF Streams, StreamOK
    <3>4. Path(d)' => Path(d)
      BY <1>1 DEF Path, Intact, Dead
    <3> HIDE DEF base
    <3>5. Append(rest, e) \in Seq(AnyFrame) /\ queued'[d] = base \o Append(rest, e)
      <4>1. Append(rest, e) \in Seq(AnyFrame) /\ base \o Append(rest, e) = Append(base \o rest, e)
        BY <3>1, AppendAtEnd
      <4>2. QED
        BY <2>1, <3>2, <4>1, Zenon
    <3>6. Path(d)' => queued'[d] = base \o conns'[d].buf
      <4>1. PICK b \in Seq(AnyFrame) : b = conns[d].buf
        BY <3>1, Zenon
      <4>2. base \o Append(b, e) = Append(base \o b, e)
        BY <3>1, AppendAtEnd
      <4>3. QED
        BY <2>1, <3>3, <3>4, <4>1, <4>2, Zenon
    <3>7. base = taken'[d] \o down'[d]
      BY <1>1 DEF base
    <3>8. QED
      BY <3>5, <3>6, <3>7, Zenon DEF StreamOK
  <2>4. QED
    BY <2>2, <2>3 DEF Streams
<1>4. QED
  BY <1>d, <1>e, <1>2, <1>3 DEF pushSend, sendOrDefault

(* writeNext moves the frame from the queue to the wire, or loses it when *)
(* nothing written later can arrive either.                               *)
LEMMA WriteStream ==
    ASSUME RelayTypes, Streams, NEW d \in Conns, writeNext(d), UNCHANGED agentVars
    PROVE  Streams'
<1>1. UNCHANGED <<queued, taken, aEnd, sEnd, broken>> /\ writer[d] = "run"
  BY Zenon DEF writeNext, agentVars, reader
<1>2. \A c \in Conns : c # d => conns'[c] = conns[c] /\ writer'[c] = writer[c]
  BY DEF writeNext, RelayTypes, ServerTypes
<1>7. \A c \in Conns : c # d => down'[c] = down[c]
  BY Zenon DEF writeNext, ServerSends, ServerFails, RelayTypes, WireTypes
<1>5. \A c \in Conns : Path(c)' => Path(c)
  BY <1>1, <1>2, Zenon DEF Path, Intact, Dead
<1>3. ASSUME NEW c \in Conns, c # d PROVE StreamOK(c)'
  <2>1. StreamOK(c) /\ conns'[c].buf = conns[c].buf /\ down'[c] = down[c]
    BY <1>2, <1>3, <1>7 DEF Streams
  <2>2. QED
    BY <1>1, <1>5, <2>1, QuietStream
<1>4. StreamOK(d)'
  <2>1. PICK h \in Seq(AnyFrame), w \in Seq(AnyFrame), q \in Seq(AnyFrame) :
           h = taken[d] /\ w = down[d] /\ q = conns[d].buf
    BY Zenon DEF RelayTypes, AgentTypes, WireTypes, ServerTypes
  <2>2. CASE down'[d] = down[d] /\ ~Path(d)'
    BY <1>1, <2>2, Zenon DEF Streams, StreamOK
  <2>3. CASE Path(d) /\ down'[d] = Append(down[d], Head(conns[d].buf))
    <3>1. q # <<>> /\ conns'[d].buf = Tail(q) /\ down'[d] = Append(w, Head(q))
      BY <2>1, <2>3 DEF writeNext, RelayTypes, ServerTypes
    <3>3. PICK e \in AnyFrame : e = Head(q)
      BY <3>1, HeadTailProperties
    <3>4. PICK base \in Seq(AnyFrame) : base = h \o w
      BY ConcatProperties, Zenon
    <3>5. queued[d] = base \o q
      BY <2>1, <2>3, <3>4, Zenon DEF Streams, StreamOK
    <3>6. h \o Append(w, e) = Append(h \o w, e)
      BY AppendAtEnd
    <3>7. Tail(q) \in Seq(AnyFrame) /\ Append(base, Head(q)) \o Tail(q) = base \o q
      BY <3>1, MoveHead, SMTT(30)
    <3>8. taken'[d] \o down'[d] = Append(base, Head(q))
      BY <1>1, <2>1, <3>1, <3>3, <3>4, <3>6, Zenon
    <3>9. queued'[d] = (taken'[d] \o down'[d]) \o conns'[d].buf
      BY <1>1, <3>1, <3>5, <3>7, <3>8, Zenon
    <3>10. QED
      BY <3>1, <3>7, <3>9, Zenon DEF StreamOK
  <2>4. \/ down'[d] = down[d] /\ ~Path(d)'
        \/ Path(d) /\ down'[d] = Append(down[d], Head(conns[d].buf))
    <3>1. CASE ServerSends(d, Head(conns[d].buf)) /\ UNCHANGED writer
      <4>1. CASE Intact(d)
        BY <1>1, <3>1, <4>1, Zenon DEF ServerSends, Path, RelayTypes, WireTypes
      <4>2. CASE ~Intact(d)
        BY <1>1, <3>1, <4>2, Zenon DEF ServerSends, Path, Intact, Dead
      <4>3. QED
        BY <4>1, <4>2
    <3>2. CASE ServerFails(d, Head(conns[d].buf)) /\ writer' = [writer EXCEPT ![d] = "done"]
      <4>1. ~Path(d)'
        BY <3>2, Zenon DEF Path, RelayTypes, ServerTypes
      <4>2. CASE Intact(d) /\ down' = [down EXCEPT ![d] = Append(@, Head(conns[d].buf))]
        BY <1>1, <4>2, Zenon DEF Path, RelayTypes, WireTypes
      <4>3. QED
        BY <3>2, <4>1, <4>2, Zenon DEF ServerFails
    <3>3. QED
      BY <3>1, <3>2, Zenon DEF writeNext
  <2>5. QED
    BY <2>2, <2>3, <2>4
<1>6. QED
  BY <1>3, <1>4 DEF Streams

(* handleMessage moves the next frame from the wire to what is taken, *)
(* misreadMessage too.                                                 *)
LEMMA HandleStream ==
    ASSUME RelayTypes, Streams, handleMessage \/ misreadMessage, UNCHANGED serverVars
    PROVE  Streams'
<1>1. cur \in Conns /\ UNCHANGED <<queued, conns, writer, aEnd, sEnd, broken>>
  BY Zenon DEF handleMessage, misreadMessage, serverVars, RelayTypes, AgentTypes
<1>2. PICK d \in Conns : d = cur
  BY <1>1
<1>3. PICK h \in Seq(AnyFrame), w \in Seq(AnyFrame) : h = taken[d] /\ w = down[d]
  BY DEF RelayTypes, AgentTypes, WireTypes
<1>10. /\ down[cur] # <<>> /\ down' = [down EXCEPT ![cur] = Tail(@)]
       /\ taken' = [taken EXCEPT ![cur] = Append(@, Head(down[cur]))]
  BY Zenon DEF handleMessage, readMessage, misreadMessage
<1>4. /\ w # <<>> /\ taken'[d] = Append(h, Head(w)) /\ down'[d] = Tail(w)
      /\ \A c \in Conns : c # d => taken'[c] = taken[c] /\ down'[c] = down[c]
  BY <1>2, <1>3, <1>10 DEF RelayTypes, AgentTypes, WireTypes
<1>5. Append(h, Head(w)) \o Tail(w) = h \o w
  BY <1>4, MoveHead
<1>6. taken'[d] \o down'[d] = taken[d] \o down[d]
  BY <1>3, <1>4, <1>5, Zenon
<1>7. StreamOK(d)'
  BY <1>1, <1>6, Zenon DEF Streams, StreamOK, Path, Intact, Dead
<1>8. ASSUME NEW c \in Conns, c # d PROVE StreamOK(c)'
  BY <1>1, <1>4, <1>8, Zenon DEF Streams, StreamOK, Path, Intact, Dead
<1>9. QED
  BY <1>7, <1>8 DEF Streams

(* A broken connection loses the frames on the way, and with them all later *)
(* ones.                                                                    *)
LEMMA BreakStream ==
    ASSUME RelayTypes, Streams, NEW d \in Conns, Break(d), UNCHANGED <<serverVars, agentVars>>
    PROVE  Streams'
<1>1. /\ UNCHANGED <<queued, taken, conns, writer, aEnd, sEnd>> /\ broken'[d] /\ down'[d] = <<>>
      /\ \A c \in Conns : c # d => broken'[c] = broken[c] /\ down'[c] = down[c]
  BY DEF Break, serverVars, agentVars, reader, RelayTypes, WireTypes
<1>2. PICK h \in Seq(AnyFrame), w \in Seq(AnyFrame) : h = taken[d] /\ w = down[d]
  BY DEF RelayTypes, AgentTypes, WireTypes
<1>3. PICK rest \in Seq(AnyFrame) : queued[d] = (h \o w) \o rest
  BY <1>2, Zenon DEF Streams, StreamOK
<1>4. w \o rest \in Seq(AnyFrame)
  BY ConcatProperties
<1>5. h \o <<>> = h
  BY ConcatEmptySeq
<1>6. (h \o w) \o rest = h \o (w \o rest)
  BY ConcatAssociative
<1>7. queued'[d] = (taken'[d] \o down'[d]) \o (w \o rest)
  BY <1>1, <1>2, <1>3, <1>5, <1>6
<1>8. StreamOK(d)'
  BY <1>1, <1>4, <1>7, Zenon DEF StreamOK, Path, Intact, Dead
<1>9. ASSUME NEW c \in Conns, c # d PROVE StreamOK(c)'
  BY <1>1, <1>9, Zenon DEF Streams, StreamOK, Path, Intact, Dead
<1>10. QED
  BY <1>8, <1>9 DEF Streams

(* Every step keeps the frames in order. *)
LEMMA StreamsStep == RelayTypes /\ Order /\ Streams /\ [Next]_vars => Streams'
<1> SUFFICES ASSUME RelayTypes, Order, Streams, [Next]_vars PROVE Streams'
  OBVIOUS
<1>1. ASSUME \A c \in Conns : /\ Path(c)' => Path(c)
                              /\ queued'[c] = queued[c] /\ taken'[c] = taken[c]
                              /\ down'[c] = down[c] /\ conns'[c].buf = conns[c].buf
      PROVE  Streams'
  BY <1>1, QuietStream DEF Streams
<1>2. CASE ServerNext /\ UNCHANGED agentVars
  <2>0. UNCHANGED taken
    BY <1>2, Zenon DEF agentVars, reader
  <2>1. ASSUME NEW r \in Requests, ServeHTTP(r) \/ hasActiveSession(r) \/ createSession(r)
                                  \/ pushToAgent(r)
        PROVE  Streams'
    <3>1. UNCHANGED <<wire, conns, writer, queued>>
      BY <2>1 DEF ServeHTTP, handleConnect, handleExecute, handleRelease,
                        hasActiveSession, createSession, pushToAgent
    <3>2. QED
      BY <1>1, <2>0, <3>1 DEF wire, Path, Intact, Dead
  <2>2. ASSUME NEW d \in Conns, upgrade(d) PROVE Streams'
    <3>1. /\ \A c \in Conns : c # d => sEnd'[c] = sEnd[c]
          /\ UNCHANGED <<queued, conns, writer, down, aEnd, broken>>
      BY <2>2 DEF upgrade, RelayTypes, WireTypes
    <3>2. /\ queued[d] = <<>> /\ taken[d] = <<>>
          /\ down[d] = <<>> /\ conns[d].buf = <<>>
      BY <2>2 DEF upgrade, Order, NotServed
    <3>3. <<>> \in Seq(AnyFrame) /\ (<<>> \o <<>>) \o <<>> = <<>>
      BY EmptySeq, ConcatEmptySeq
    <3>4. StreamOK(d)'
      BY <2>0, <3>1, <3>2, <3>3, Zenon DEF StreamOK
    <3>5. ASSUME NEW c \in Conns, c # d PROVE StreamOK(c)'
      BY <2>0, <3>1, <3>5, Zenon DEF Streams, StreamOK, Path, Intact, Dead
    <3>6. QED
      BY <3>4, <3>5 DEF Streams
  <2>3. ASSUME NEW d \in Conns, register(d) PROVE Streams'
    <3>1. \A c \in Conns : conns'[c].buf = conns[c].buf
      BY <2>3, Zenon DEF register, registerAgent, Order, NotServed, RelayTypes, ServerTypes
    <3>2. UNCHANGED <<wire, queued>>
      BY <2>3 DEF register
    <3>3. \A c \in Conns : writer[c] = "done" => writer'[c] = "done"
      BY <2>3, Zenon DEF register, Order, NotServed, RelayTypes, ServerTypes
    <3>4. QED
      BY <1>1, <2>0, <3>1, <3>2, <3>3 DEF wire, Path, Intact, Dead
  <2>4. ASSUME NEW d \in Conns, \/ handleAgentMessage(d)
                                \/ readEnds(d)
                                \/ misreadAgent(d)
                                \/ misreadAgentInto(d)
        PROVE  Streams'
    <3>1. UNCHANGED <<conns, writer, queued, down, aEnd, sEnd, broken>>
      BY <2>4, Zenon DEF handleAgentMessage, readEnds, misreadAgent, misreadAgentInto, serverVars, wire
    <3>2. QED
      BY <1>1, <2>0, <3>1 DEF Path, Intact, Dead
  <2>5. ASSUME NEW d \in Conns, handlerReturns(d) PROVE Streams'
    <3>1. UNCHANGED <<queued, writer, down, aEnd, broken>>
      BY <2>5 DEF handlerReturns
    <3>2. \A c \in Conns : conns'[c].buf = conns[c].buf
      BY <2>5 DEF handlerReturns, unregisterConn, RelayTypes, ServerTypes
    <3>3. \A c \in Conns : sEnd'[c] = "open" => sEnd[c] = "open"
      BY <2>5 DEF handlerReturns, RelayTypes, WireTypes
    <3>4. QED
      BY <1>1, <2>0, <3>1, <3>2, <3>3, Zenon DEF Path, Intact, Dead
  <2>6. QED
    BY <1>2, <2>1, <2>2, <2>3, <2>4, <2>5, PushStream, WriteStream DEF ServerNext
<1>3. CASE AgentNext /\ UNCHANGED serverVars
  <2>1. ASSUME UNCHANGED <<taken, down, sEnd, broken>>,
               \A c \in Conns : aEnd[c] = "closed" => aEnd'[c] = "closed"
        PROVE  Streams'
    BY <1>1, <1>3, <2>1 DEF serverVars, Path, Intact, Dead
  <2>2. CASE dialWS
    <3>1. cur + 1 \in Conns /\ cur + 1 > cur
      BY <2>2, MaxConnsAssumption DEF dialWS, Conns, RelayTypes, AgentTypes
    <3>2. aEnd[cur + 1] = "none"
      BY <3>1 DEF Order
    <3>3. QED
      BY <2>1, <2>2, <3>1, <3>2 DEF dialWS, reader, RelayTypes, WireTypes
  <2>3. CASE connected
    BY <2>1, <2>3, Zenon DEF connected, Order, reader, RelayTypes, WireTypes
  <2>4. CASE dialFails \/ exitAfterOffline \/ readFails \/ misreadFails
    <3>1. /\ aEnd' = [aEnd EXCEPT ![cur] = "closed"]
          /\ UNCHANGED <<taken, down, sEnd, broken>>
      BY <2>4, Zenon DEF dialFails, exitAfterOffline, readFails, misreadFails, wsClose, reader
    <3>2. QED
      BY <2>1, <3>1 DEF RelayTypes, WireTypes
  <2>5. CASE \/ sendOffline
             \/ retry
             \/ exit
             \/ signal
             \/ restart
             \/ loseStep
             \/ regainStep
    BY <2>1, <2>5, Zenon DEF sendOffline, retry, exit, signal, restart, loseStep, regainStep, wire, reader
  <2>6. ASSUME NEW g \in Phase2s, Phase2Steps(g) \/ tunnelFails(g) PROVE Streams'
    BY <2>1, <2>6, Zenon DEF Phase2Steps, phase2Rejected, phase2Starts, phase2Fails, phase2Up,
                      announce, phase2Ends, phase2Returns, reportError, teardown, tunnelFails, wire, reader
  <2>7. QED
    BY <1>3, <2>2, <2>3, <2>4, <2>5, <2>6, HandleStream, Zenon DEF AgentNext, RunSteps, OutOfStep
<1>4. CASE Network
  BY <1>4, BreakStream DEF Network
<1>5. CASE UNCHANGED vars
  BY <1>1, <1>5, Zenon DEF vars, serverVars, agentVars, reader, wire, Path, Intact, Dead
<1>6. QED
  BY <1>2, <1>3, <1>4, <1>5 DEF Next

-----------------------------------------------------------------------------
(* The theorems.                                                           *)

RelayInvariant == RelayTypes /\ LatestOwnsRecord /\ Order /\ Streams

(* The invariant holds when both processes have just started. *)
LEMMA RelayInvariantInit == Init => RelayInvariant
<1> SUFFICES ASSUME Init PROVE RelayInvariant
  OBVIOUS
<1> USE DEF Init, WireInit, ServerInit, AgentInit
<1>1. RelayTypes
  <2>1. <<>> \in AnyFrame /\ <<>> \in Seq(AnyFrame) /\ <<>> \in Seq(AnyStatus)
    BY EmptySeq DEF AnyFrame
  <2>2. 0 \in 0..MaxConns
    BY MaxConnsAssumption
  <2>3. QED
    BY <2>1, <2>2, Zenon DEF RelayTypes, WireTypes, ServerTypes, AgentTypes, NoAgent, IdleReq, AnyStatus
<1>2. LatestOwnsRecord
  BY DEF LatestOwnsRecord
<1>3. Order
  BY MaxConnsAssumption, SMTT(30) DEF Order, NotServed, NoAgent, IdleReq, Conns
<1>4. Streams
  <2>1. <<>> \in Seq(AnyFrame) /\ (<<>> \o <<>>) \o <<>> = <<>>
    BY EmptySeq, ConcatEmptySeq
  <2>2. QED
    BY <2>1, Zenon DEF Streams, StreamOK
<1>5. QED
  BY <1>1, <1>2, <1>3, <1>4 DEF RelayInvariant

(* However many connections, requests and sessions there are, every state of *)
(* the server and its agent satisfies the invariant: the record of the agent *)
(* names the connection registered last, a connection carries nothing before *)
(* it is registered, and the frames of each connection stay in order.        *)
THEOREM RelayInvariantHolds == Spec => []RelayInvariant
<1>1. RelayInvariant /\ [Next]_vars => RelayInvariant'
  BY TypesStep, LatestOwnsRecordStep, OrderStep, StreamsStep DEF RelayInvariant
<1>2. QED
  BY <1>1, RelayInvariantInit, PTL DEF Spec

(* The record belongs to the connection registered last for as long as that *)
(* connection is served, whenever the handlers of older ones end            *)
(* (registerAgent, unregisterConn).                                         *)
THEOREM LatestOwnsRecordHolds == Spec => []LatestOwnsRecord
<1>1. RelayInvariant => LatestOwnsRecord
  BY DEF RelayInvariant
<1>2. QED
  BY <1>1, RelayInvariantHolds, PTL

-----------------------------------------------------------------------------
(* The mailbox.                                                            *)

Mailing ==
    /\ \A r \in Requests : req[r].pc \in {"push", "send"} => req[r].frame \in Frames
    /\ run \in {"reading", "stopping", "offline"} => aEnd[cur] = "open"
    /\ \A c \in Conns : broken[c] => down[c] = <<>>

(* A request that is pushed names a session, the agent reads from an open   *)
(* connection, and nothing is on the way on a broken one.                   *)
LEMMA MailingStep == RelayTypes /\ Order /\ Mailing /\ [Next]_vars => Mailing'
<1> SUFFICES ASSUME RelayTypes, Order, Mailing, [Next]_vars PROVE Mailing'
  OBVIOUS
<1> USE DEF wire, process, callbacks, reader
<1>1. \A r \in Requests : req'[r].pc \in {"push", "send"} => req'[r].frame \in Frames
  <2>0. req \in [Requests -> [pc : {"idle", "check", "create", "push", "send"},
                             frame : AnyFrame, ch : Conns \cup {0}]]
    BY DEF RelayTypes, ServerTypes
  <2>1. ASSUME NEW r \in Requests, handleConnect(r) \/ hasActiveSession(r) \/ createSession(r)
        PROVE  \A x \in Requests : req'[x].pc \in {"push", "send"} => req'[x] = req[x]
    BY <2>0, <2>1 DEF handleConnect, hasActiveSession, createSession, IdleReq
  <2>2. ASSUME NEW r \in Requests, NEW s \in Sessions, handleExecute(r, s) \/ handleRelease(r, s)
        PROVE  \A x \in Requests : req'[x] = req[x] \/ req'[x].frame \in Frames
    BY <2>0, <2>2 DEF handleExecute, handleRelease, Frames
  <2>3. ASSUME NEW r \in Requests, pushToAgent(r) \/ pushSend(r)
        PROVE  \A x \in Requests : req'[x].pc \in {"push", "send"} =>
                 req'[x].frame = req[x].frame /\ req[x].pc \in {"push", "send"}
    <3>1. req[r].pc \in {"push", "send"}
      BY <2>3, Zenon DEF pushToAgent, pushSend
    <3>2. \/ req' = [req EXCEPT ![r] = IdleReq]
          \/ req' = [req EXCEPT ![r] = [req[r] EXCEPT !.pc = "send", !.ch = agentChan]]
      BY <2>3, Zenon DEF pushToAgent, pushSend
    <3>3. \A x \in Requests : x # r => req'[x] = req[x]
      BY <2>0, <3>2
    <3>4. req'[r].pc = "idle" \/ req'[r].frame = req[r].frame
      <4>1. req'[r] = IdleReq \/ req'[r] = [req[r] EXCEPT !.pc = "send", !.ch = agentChan]
        BY <2>0, <3>2, Zenon
      <4>2. [req[r] EXCEPT !.pc = "send", !.ch = agentChan].frame = req[r].frame
        <5>1. req[r] \in [pc : {"idle", "check", "create", "push", "send"},
                          frame : AnyFrame, ch : Conns \cup {0}]
          BY <2>0
        <5>2. QED
          BY <5>1
      <4>3. IdleReq.pc = "idle"
        BY DEF IdleReq
      <4>4. QED
        BY <4>1, <4>2, <4>3, Zenon
    <3>5. QED
      BY <3>1, <3>3, <3>4
  <2>4. CASE UNCHANGED req
    BY <2>4 DEF Mailing
  <2>5. CASE \E r \in Requests : ServeHTTP(r) \/ hasActiveSession(r) \/ createSession(r)
                                 \/ pushToAgent(r) \/ pushSend(r)
    BY <2>1, <2>2, <2>3, <2>5, Zenon DEF ServeHTTP, Mailing
  <2>6. CASE \E c \in Conns : upgrade(c) \/ register(c) \/ handleAgentMessage(c) \/ readEnds(c)
                              \/ writeNext(c) \/ handlerReturns(c)
    BY <2>4, <2>6, Zenon DEF upgrade, register, handleAgentMessage, readEnds, writeNext, handlerReturns
  <2>7. CASE \E c \in Conns : misreadAgent(c) \/ misreadAgentInto(c)
    BY <2>4, <2>7, Zenon DEF misreadAgent, misreadAgentInto, serverVars
  <2>8. QED
    BY <2>4, <2>5, <2>6, <2>7, Zenon DEF Next, ServerNext, Network, vars, serverVars
<1>2. run' \in {"reading", "stopping", "offline"} => aEnd'[cur'] = "open"
  <2>1. CASE UNCHANGED <<run, cur, aEnd>>
    BY <2>1 DEF Mailing
  <2>2. CASE connected
    BY <2>2 DEF connected, RelayTypes, AgentTypes, WireTypes
  <2>3. CASE sendOffline \/ handleMessage \/ misreadMessage
    <3>1. run \in {"reading", "stopping"} /\ UNCHANGED <<cur, aEnd>>
      BY <2>3, Zenon DEF sendOffline, handleMessage, misreadMessage
    <3>2. QED
      BY <3>1, Zenon DEF Mailing
  <2>4. CASE \/ dialWS
             \/ dialFails
             \/ exitAfterOffline
             \/ readFails
             \/ misreadFails
             \/ retry
             \/ exit
             \/ restart
    BY <2>4, Zenon DEF dialWS, dialFails, exitAfterOffline, readFails, misreadFails, retry, exit, restart
  <2>5. CASE loseStep \/ regainStep \/ signal
    BY <2>1, <2>5, Zenon DEF loseStep, regainStep, signal
  <2>6. ASSUME NEW g \in Phase2s, Phase2Steps(g) \/ tunnelFails(g)
        PROVE  UNCHANGED <<run, cur, aEnd>>
    BY <2>6, Zenon DEF Phase2Steps, phase2Rejected, phase2Starts, phase2Fails, phase2Up,
                       announce, phase2Ends, phase2Returns, reportError, teardown, tunnelFails
  <2>7. CASE AgentNext
    BY <2>1, <2>2, <2>3, <2>4, <2>5, <2>6, <2>7, Zenon DEF AgentNext, RunSteps, OutOfStep
  <2>8. CASE ServerNext /\ UNCHANGED agentVars
    <3>1. UNCHANGED aEnd
      BY <2>8, Zenon DEF ServerNext, ServeHTTP, handleConnect, handleExecute, handleRelease,
           hasActiveSession, createSession, pushToAgent, pushSend, upgrade, register,
           handleAgentMessage, misreadAgent, misreadAgentInto, readEnds, writeNext, handlerReturns
    <3>2. QED
      BY <2>1, <2>8, <3>1, Zenon DEF agentVars
  <2>9. QED
    BY <2>1, <2>7, <2>8, Zenon DEF Next, Network, Break, vars, agentVars
<1>3. \A c \in Conns : broken'[c] => down'[c] = <<>>
  <2>1. CASE UNCHANGED <<broken, down>>
    BY <2>1 DEF Mailing
  <2>2. ASSUME NEW d \in Conns, Break(d) PROVE \A c \in Conns : broken'[c] => down'[c] = <<>>
    BY <2>2 DEF Break, RelayTypes, WireTypes, Mailing
  <2>3. ASSUME NEW d \in Conns, writeNext(d) PROVE \A c \in Conns : broken'[c] => down'[c] = <<>>
    <3>1. /\ UNCHANGED broken
          /\ \/ UNCHANGED down
             \/ ~broken[d] /\ \E e : down' = [down EXCEPT ![d] = e]
      BY <2>3, Zenon DEF writeNext, ServerSends, ServerFails, Intact, Dead
    <3>2. QED
      BY <3>1 DEF RelayTypes, WireTypes, Mailing
  <2>4. CASE handleMessage \/ misreadMessage
    <3>1. cur \in Conns /\ ~broken[cur]
      BY <2>4, Zenon DEF handleMessage, readMessage, misreadMessage, RelayTypes, AgentTypes, Mailing
    <3>2. down' = [down EXCEPT ![cur] = Tail(@)] /\ UNCHANGED broken
      BY <2>4, Zenon DEF handleMessage, readMessage, misreadMessage
    <3>3. QED
      BY <3>1, <3>2, Zenon DEF RelayTypes, WireTypes, Mailing
  <2>5. CASE RunSteps /\ ~handleMessage
    BY <2>1, <2>5, Zenon DEF RunSteps, dialWS, connected, dialFails, sendOffline, exitAfterOffline,
         readFails, wsClose, retry, exit
  <2>6. CASE signal \/ restart \/ \E g \in Phase2s : Phase2Steps(g) \/ tunnelFails(g)
    BY <2>1, <2>6, Zenon DEF signal, restart, Phase2Steps, phase2Rejected, phase2Starts, phase2Fails,
         phase2Up, announce, phase2Ends, phase2Returns, reportError, teardown, tunnelFails
  <2>7. CASE \E c \in Conns : upgrade(c) \/ register(c) \/ handleAgentMessage(c) \/ readEnds(c)
                              \/ handlerReturns(c) \/ misreadAgent(c) \/ misreadAgentInto(c)
    BY <2>1, <2>7, Zenon DEF upgrade, register, handleAgentMessage, readEnds, handlerReturns,
         misreadAgent, misreadAgentInto
  <2>8. CASE \E r \in Requests : ServeHTTP(r) \/ hasActiveSession(r) \/ createSession(r)
                                 \/ pushToAgent(r) \/ pushSend(r)
    BY <2>1, <2>8, Zenon DEF ServeHTTP, handleConnect, handleExecute, handleRelease, hasActiveSession,
         createSession, pushToAgent, pushSend
  <2>10. CASE loseStep \/ regainStep \/ misreadFails
    BY <2>1, <2>10, Zenon DEF loseStep, regainStep, misreadFails, wsClose
  <2>9. QED
    BY <2>1, <2>2, <2>3, <2>4, <2>5, <2>6, <2>7, <2>8, <2>10, Zenon
       DEF Next, ServerNext, AgentNext, OutOfStep, Network, vars
<1>4. QED
  BY <1>1, <1>2, <1>3 DEF Mailing

(* No link changes. *)
LEMMA SameLink ==
  ASSUME UNCHANGED <<broken, skewed>>,
         \A c \in Conns : aEnd'[c] = "closed" <=> aEnd[c] = "closed"
  PROVE  Link' = Link
BY Zenon DEF Link, Dead

(* The link of connection d may change, unless it is lost and stays lost. *)
LEMMA ChangeStep ==
  ASSUME NEW d \in Conns, Dead(d) => Dead(d)', UNCHANGED <<queued, taken, misread>>,
         \A c \in Conns : c # d => /\ broken'[c] = broken[c] /\ aEnd'[c] = aEnd[c]
                                   /\ skewed'[c] = skewed[c]
  PROVE  Mail!Next \/ UNCHANGED Mail!vars
<1>1. \A c \in Conns : c # d => Link'[c] = Link[c]
  BY Zenon DEF Link, Dead
<1>2. Link' = [Link EXCEPT ![d] = Link'[d]]
  BY <1>1, Zenon DEF Link
<1>3. CASE Link[d] # "lost"
  <2>1. Link'[d] \in {"good", "garbled", "lost"}
    BY Zenon DEF Link
  <2>2. Mail!Change(d)
    BY <1>2, <1>3, <2>1, Zenon DEF Mail!Change
  <2>3. QED
    BY <2>2, Zenon DEF Mail!Next
<1>4. CASE Link[d] = "lost"
  <2>1. Dead(d)
    BY <1>4 DEF Link
  <2>2. Link'[d] = Link[d]
    BY <1>4, <2>1, Zenon DEF Link
  <2>3. Link' = Link
    BY <1>2, <2>2, Zenon DEF Link
  <2>4. QED
    BY <2>3 DEF Mail!vars
<1>5. QED
  BY <1>3, <1>4

(* pushToAgent queues a request, or refuses it. *)
LEMMA PushQueues ==
  ASSUME RelayTypes, Mailing, NEW r \in Requests, pushSend(r), UNCHANGED agentVars
  PROVE  Mail!Next \/ UNCHANGED Mail!vars
<1>1. req[r].ch \in Conns /\ req[r].frame \in Frames
  BY Zenon DEF pushSend, RelayTypes, ServerTypes, Mailing
<1>2. UNCHANGED <<taken, misread, Link>>
  <2>1. UNCHANGED <<taken, misread, skewed, broken, aEnd>>
    BY Zenon DEF pushSend, agentVars, reader, wire
  <2>2. QED
    BY <2>1, SameLink
<1>3. \/ UNCHANGED queued
      \/ queued' = [queued EXCEPT ![req[r].ch] = Append(@, req[r].frame)]
  BY Zenon DEF pushSend, sendOrDefault
<1>4. CASE UNCHANGED queued
  BY <1>2, <1>4 DEF Mail!vars
<1>5. CASE queued' = [queued EXCEPT ![req[r].ch] = Append(@, req[r].frame)]
  BY <1>1, <1>2, <1>5, Zenon DEF Mail!Next, Mail!Queue
<1>6. QED
  BY <1>3, <1>4, <1>5

(* What is read from the wire is the next request of the mailbox. *)
LEMMA ReadTakesNext ==
  ASSUME RelayInvariant, Mailing, handleMessage \/ misreadMessage, UNCHANGED serverVars
  PROVE  /\ cur \in Conns /\ ~Dead(cur) /\ UNCHANGED <<queued, aEnd, broken>>
         /\ Mail!Take(cur)
<1>1. cur \in Conns /\ UNCHANGED <<queued, aEnd, broken>>
  BY Zenon DEF handleMessage, misreadMessage, serverVars, RelayInvariant, RelayTypes, AgentTypes
<1>2. PICK d \in Conns : d = cur
  BY <1>1
<1>3. PICK h \in Seq(AnyFrame), w \in Seq(AnyFrame) : h = taken[d] /\ w = down[d]
  BY DEF RelayInvariant, RelayTypes, AgentTypes, WireTypes
<1>4. w # <<>> /\ taken' = [taken EXCEPT ![d] = Append(@, Head(w))]
  BY <1>2, <1>3, Zenon DEF handleMessage, readMessage, misreadMessage
<1>5. PICK rest \in Seq(AnyFrame) : queued[d] = (h \o w) \o rest
  BY <1>3, Zenon DEF RelayInvariant, Streams, StreamOK
<1>6. Len(h) < Len(queued[d]) /\ queued[d][Len(h) + 1] = Head(w)
  BY <1>4, <1>5, NextInLine
<1>7. ~Dead(d)
  <2>1. ~broken[d] /\ aEnd[d] = "open"
    BY <1>2, <1>3, <1>4, Zenon DEF handleMessage, misreadMessage, Mailing
  <2>2. QED
    BY <2>1, Zenon DEF Dead
<1>8. taken' = [taken EXCEPT ![d] = Append(@, queued[d][Len(@) + 1])]
  BY <1>3, <1>4, <1>6, Zenon
<1>9. Mail!Take(d)
  BY <1>1, <1>3, <1>6, <1>8, Zenon DEF Mail!Take
<1>10. QED
  BY <1>1, <1>2, <1>7, <1>9

(* handleMessage handles it, and does so only in step. *)
LEMMA HandleInStep ==
  ASSUME RelayInvariant, Mailing, handleMessage, UNCHANGED serverVars
  PROVE  Mail!Next
<1>1. /\ cur \in Conns /\ ~Dead(cur) /\ UNCHANGED <<queued, aEnd, broken>>
      /\ Mail!Take(cur)
  BY ReadTakesNext
<1>2. ~skewed[cur] /\ UNCHANGED <<skewed, misread>>
  BY Zenon DEF handleMessage, readMessage
<1>3. Link[cur] = "good" /\ Link' = Link
  BY <1>1, <1>2, SameLink, Zenon DEF Link
<1>4. Mail!Handle(cur)
  BY <1>1, <1>2, <1>3, Zenon DEF Mail!Handle
<1>5. QED
  BY <1>1, <1>4, Zenon DEF Mail!Next

(* Out of step it is skipped, and known as misread. *)
LEMMA MisreadSkips ==
  ASSUME RelayInvariant, Mailing, misreadMessage, UNCHANGED serverVars
  PROVE  Mail!Next
<1>1. /\ cur \in Conns /\ ~Dead(cur) /\ UNCHANGED <<queued, aEnd, broken>>
      /\ Mail!Take(cur)
  BY ReadTakesNext
<1>2. /\ skewed[cur] /\ misread' = [misread EXCEPT ![cur] = @ \cup {Len(taken[cur]) + 1}]
      /\ \E b \in BOOLEAN : skewed' = [skewed EXCEPT ![cur] = b]
  BY Zenon DEF misreadMessage
<1>3. Link[cur] = "garbled"
  BY <1>1, <1>2, Zenon DEF Link
<1>4. \A c \in Conns : c # cur => Link'[c] = Link[c]
  <2>1. \A c \in Conns : c # cur => skewed'[c] = skewed[c]
    BY <1>2 DEF RelayInvariant, RelayTypes, AgentTypes
  <2>2. QED
    BY <1>1, <2>1, Zenon DEF Link, Dead
<1>5. Link'[cur] \in {"good", "garbled"} /\ Link' = [Link EXCEPT ![cur] = Link'[cur]]
  <2>1. ~Dead(cur)'
    BY <1>1, Zenon DEF Dead, misreadMessage
  <2>2. UNCHANGED cur
    BY Zenon DEF misreadMessage
  <2>3. Link'[cur] \in {"good", "garbled"}
    BY <1>1, <2>1, <2>2, Zenon DEF Link, Dead
  <2>4. QED
    BY <1>4, <2>3, Zenon DEF Link
<1>6. Mail!Skip(cur)
  BY <1>1, <1>2, <1>3, <1>5, Zenon DEF Mail!Skip
<1>7. QED
  BY <1>1, <1>6, Zenon DEF Mail!Next

(* Every step is one of the mailbox, or does not concern it. *)
LEMMA MailboxStep == RelayInvariant /\ Mailing /\ [Next]_vars => [Mail!Next]_(Mail!vars)
<1> SUFFICES ASSUME RelayInvariant, Mailing, [Next]_vars
             PROVE  Mail!Next \/ UNCHANGED Mail!vars
  OBVIOUS
<1> USE DEF wire, process, callbacks
<1>1. ASSUME UNCHANGED <<queued, reader, broken>>,
             \A c \in Conns : aEnd'[c] = "closed" <=> aEnd[c] = "closed"
      PROVE  UNCHANGED Mail!vars
  <2>1. Link' = Link
    BY <1>1, SameLink DEF reader
  <2>2. QED
    BY <1>1, <2>1 DEF reader, Mail!vars
<1>2. CASE ServerNext /\ UNCHANGED agentVars
  <2>1. ASSUME NEW r \in Requests, ServeHTTP(r) \/ hasActiveSession(r) \/ createSession(r)
                                  \/ pushToAgent(r)
        PROVE  UNCHANGED <<queued, aEnd, broken>>
    BY <2>1, Zenon DEF ServeHTTP, handleConnect, handleExecute, handleRelease, hasActiveSession,
                       createSession, pushToAgent
  <2>2. ASSUME NEW c \in Conns, upgrade(c) \/ register(c) \/ handleAgentMessage(c) \/ readEnds(c)
                                \/ writeNext(c) \/ handlerReturns(c) \/ misreadAgent(c)
                                \/ misreadAgentInto(c)
        PROVE  UNCHANGED <<queued, aEnd, broken>>
    BY <2>2, Zenon DEF upgrade, register, handleAgentMessage, readEnds, writeNext, handlerReturns,
                       misreadAgent, misreadAgentInto, serverVars
  <2>3. ASSUME NEW r \in Requests, pushSend(r) PROVE Mail!Next \/ UNCHANGED Mail!vars
    BY <1>2, <2>3, PushQueues DEF RelayInvariant
  <2>4. CASE UNCHANGED <<queued, aEnd, broken>>
    BY <1>1, <1>2, <2>4 DEF agentVars
  <2>5. QED
    BY <1>2, <2>1, <2>2, <2>3, <2>4, Zenon DEF ServerNext
<1>3. CASE AgentNext /\ UNCHANGED serverVars
  <2>1. CASE dialWS \/ connected
    <3>1. PICK d \in Conns : /\ aEnd[d] # "closed" /\ UNCHANGED <<reader, broken>>
                             /\ \E v \in {"dialing", "open"} : aEnd' = [aEnd EXCEPT ![d] = v]
      <4>1. CASE dialWS
        <5>1. cur + 1 \in Conns /\ cur + 1 > cur
          BY <4>1, MaxConnsAssumption DEF dialWS, Conns, RelayInvariant, RelayTypes, AgentTypes
        <5>2. aEnd[cur + 1] = "none"
          BY <5>1 DEF RelayInvariant, Order
        <5>3. QED
          BY <4>1, <5>1, <5>2, Zenon DEF dialWS
      <4>2. CASE connected
        BY <4>2, Zenon DEF connected, RelayInvariant, RelayTypes, AgentTypes, Order
      <4>3. QED
        BY <2>1, <4>1, <4>2
    <3>2. \A c \in Conns : aEnd'[c] = "closed" <=> aEnd[c] = "closed"
      BY <3>1 DEF RelayInvariant, RelayTypes, WireTypes
    <3>3. QED
      BY <1>1, <1>3, <3>1, <3>2 DEF serverVars
  <2>2. CASE dialFails \/ exitAfterOffline \/ readFails \/ misreadFails \/ loseStep \/ regainStep
    <3>1. /\ cur \in Conns /\ UNCHANGED <<taken, misread, queued, broken>>
          /\ \/ UNCHANGED aEnd
             \/ aEnd' = [aEnd EXCEPT ![cur] = "closed"]
          /\ \/ UNCHANGED skewed
             \/ \E b \in BOOLEAN : skewed' = [skewed EXCEPT ![cur] = b]
      BY <1>3, <2>2, Zenon DEF dialFails, exitAfterOffline, readFails, misreadFails, loseStep,
           regainStep, wsClose, reader, serverVars, RelayInvariant, RelayTypes, AgentTypes
    <3>2. \A c \in Conns : c # cur => aEnd'[c] = aEnd[c] /\ skewed'[c] = skewed[c]
      BY <3>1 DEF RelayInvariant, RelayTypes, WireTypes, AgentTypes
    <3>3. PICK d \in Conns : d = cur
      BY <3>1
    <3>4. Dead(d) => Dead(d)'
      BY <3>1, <3>3 DEF Dead, RelayInvariant, RelayTypes, WireTypes
    <3>5. QED
      BY <3>1, <3>2, <3>3, <3>4, ChangeStep, Zenon
  <2>3. CASE handleMessage \/ misreadMessage
    BY <1>3, <2>3, HandleInStep, MisreadSkips
  <2>4. CASE \/ sendOffline
             \/ retry
             \/ exit
             \/ signal
             \/ restart
             \/ \E g \in Phase2s : Phase2Steps(g) \/ tunnelFails(g)
    <3>1. UNCHANGED <<reader, aEnd, broken>>
      BY <2>4, Zenon DEF sendOffline, retry, exit, signal, restart, Phase2Steps, phase2Rejected,
           phase2Starts, phase2Fails, phase2Up, announce, phase2Ends, phase2Returns, reportError,
           teardown, tunnelFails
    <3>2. QED
      BY <1>1, <1>3, <3>1 DEF serverVars
  <2>5. QED
    BY <1>3, <2>1, <2>2, <2>3, <2>4, Zenon DEF AgentNext, RunSteps, OutOfStep
<1>4. CASE Network
  <2>1. PICK d \in Conns : Break(d) /\ UNCHANGED <<serverVars, agentVars>>
    BY <1>4 DEF Network
  <2>2. /\ UNCHANGED <<queued, reader, aEnd>> /\ broken' = [broken EXCEPT ![d] = TRUE]
    BY <2>1, Zenon DEF Break, serverVars, agentVars
  <2>3. broken'[d] /\ \A c \in Conns : c # d => broken'[c] = broken[c]
    BY <2>2 DEF RelayInvariant, RelayTypes, WireTypes
  <2>4. Dead(d)'
    BY <2>3 DEF Dead
  <2>5. UNCHANGED <<queued, taken, misread, skewed, aEnd>>
    BY <2>2, Zenon DEF reader
  <2>6. QED
    BY <2>3, <2>4, <2>5, ChangeStep, Zenon
<1>5. CASE UNCHANGED vars
  BY <1>1, <1>5 DEF vars, serverVars, agentVars
<1>6. QED
  BY <1>2, <1>3, <1>4, <1>5 DEF Next

(* The relay implements Mailbox: what the agent takes from a connection is what pushToAgent *)
(* queued for it, in that order and without a gap, whichever frames are written in part or  *)
(* misread; what it takes in step it handles; and nothing is taken once the connection is   *)
(* lost (pushToAgent, the writer of handleWS, readMessage, handleMessage).                  *)
THEOREM ImplementsMailboxHolds == Spec => ImplementsMailbox
<1>1. Init => Mailing /\ Mail!Init
  <2> SUFFICES ASSUME Init PROVE Mailing /\ Mail!Init
    OBVIOUS
  <2> USE DEF Init, WireInit, ServerInit, AgentInit
  <2>1. Mailing
    BY DEF Mailing, IdleReq
  <2>2. Link = [c \in Conns |-> "good"]
    BY Zenon DEF Link, Dead
  <2>3. QED
    BY <2>1, <2>2 DEF Mail!Init
<1>2. RelayInvariant /\ Mailing /\ [Next]_vars => Mailing'
  BY MailingStep DEF RelayInvariant
<1>3. QED
  BY <1>1, <1>2, MailboxStep, RelayInvariantHolds, PTL DEF Spec, ImplementsMailbox, Mail!Spec

=============================================================================
