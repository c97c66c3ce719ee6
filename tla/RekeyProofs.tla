----------------------------- MODULE RekeyProofs -----------------------------
(***************************************************************************)
(* The key Manager and the promotion timers for any number of key_ids,     *)
(* calls of doRekey and connections, as long as fewer calls fail in a row  *)
(* than it takes for a key_id to come back (EnoughIDs).                    *)
(*                                                                         *)
(* key_ids are taken in a ring.  What keeps the epochs apart is how far    *)
(* nextKeyID has moved on from the key in use: one place for the call      *)
(* under way, and one for each call that failed since.                     *)
(***************************************************************************)
EXTENDS Rekey, TLAPS

\* What the theorems ask of the code: 7 key_ids allow five failures in a row.
EnoughIDs == MaxFailures + 2 <= KeyIDs

\* The key_id n places after id.
Places(id, n) == IF id + n <= KeyIDs THEN id + n ELSE id + n - KeyIDs

Epochs == [id : IDs, gen : Int]
Timers == [conn : Nat, epoch : Epochs]
Active == {"active", "done"}

RekeyTypes ==
  /\ conn \in Nat /\ up \in BOOLEAN
  /\ nextKeyID \in 1 .. KeyIDs /\ attempt \in 0 .. MaxAttempts /\ failures \in 0 .. MaxFailures
  /\ phase \in Phases /\ rekey \in Epochs
  /\ sessions \in [IDs -> -1 .. attempt] /\ serverAuth \subseteq 1 .. attempt
  /\ sendQueue \in [Gens -> SUBSET {"reset", "auth"}]
  /\ current \in Epochs /\ secondary \in Epochs /\ previous \in Epochs
  /\ timers \subseteq Timers /\ control \in Timers
  /\ toServer \subseteq Packets /\ toClient \subseteq Packets
  /\ srv \in [IDs -> {"none", "reset", "ready", "active", "done"}]

\* The epochs held are apart, and nextKeyID is where it has to be.
Ring ==
  /\ current # None /\ (secondary = None \/ previous = None)
  /\ previous # None => previous.id # current.id
  /\ secondary # None => /\ phase = "idle" /\ failures = 0
                         /\ secondary.id # current.id /\ nextKeyID = following(secondary.id)
  /\ phase # "idle" => /\ rekey.gen = attempt /\ attempt > 0
                       /\ rekey.id = Places(current.id, failures + 1)
                       /\ nextKeyID = following(rekey.id)
  /\ phase = "idle" /\ up /\ secondary = None => nextKeyID = Places(current.id, failures + 1)

\* The keys held are in the order they were made.
Ages ==
  /\ current.gen \in 0 .. attempt
  /\ phase # "idle" => current.gen < attempt
  /\ secondary # None => current.gen < secondary.gen /\ secondary.gen <= attempt
  /\ previous # None => 0 <= previous.gen /\ previous.gen < current.gen

\* A timer of this connection is for the key that is prepared.
TimersMatch ==
  /\ \A t \in timers : t.conn <= conn /\ (t.conn = conn => secondary # None /\ t.epoch = secondary)
  /\ PreparedHasTimer

\* Which sessions the relay has.
SessionsMatch ==
  /\ ControlSessionReachable /\ (up => control.epoch = current)
  /\ secondary # None => sessions[secondary.id] = secondary.gen
  /\ phase \notin {"idle", "allocated"} => sessions[rekey.id] = rekey.gen
  /\ phase # "idle" => \A k \in IDs : sessions[k] = rekey.gen => k = rekey.id

\* What the server has activated.
ServerActive ==
  /\ \A m \in toClient : m.kind = "auth" => srv[m.id] \in Active
  /\ phase # "idle" /\ rekey.gen \in serverAuth => srv[rekey.id] \in Active
  /\ phase = "acks" => srv[rekey.id] \in Active
  /\ srv[current.id] \in Active
  /\ secondary # None => srv[secondary.id] \in Active

RekeyInvariant == RekeyTypes /\ Ring /\ Ages /\ TimersMatch /\ SessionsMatch /\ ServerActive

-----------------------------------------------------------------------------
\* Steps of the network, the relay and the server.
Network ==
  \/ \E m \in toClient : Relay(m)
  \/ \E m \in toServer : Server(m)
  \/ Loss

(* The next-state relation without the grouping for TLC. *)
LEMMA NextCases ==
  ASSUME Next
  PROVE  \/ StartRekey \/ Register \/ SendReset \/ StartTLS \/ ReadServerAuth \/ FinishRekey
         \/ FailRekey \/ Disconnect \/ Reconnect
         \/ \E t \in timers : PromoteSecondary(t) \/ CancelTimer(t)
         \/ Network
BY DEF Next, Exchange, DoRekey, Network

(* What the network leaves alone. *)
LEMMA NetworkKeeps ==
  ASSUME Network
  PROVE  UNCHANGED <<client, sessions>>
<1>1. ASSUME NEW m \in toClient, Relay(m) PROVE UNCHANGED <<client, sessions>>
  BY <1>1 DEF Relay, RecvSoftReset, RecvControlV1, RecvAckV1
<1>2. ASSUME NEW m \in toServer, Server(m) PROVE UNCHANGED <<client, sessions>>
  BY <1>2 DEF Server, ServerReset, ServerAck, ServerAuth, ctl
<1>3. ASSUME Loss PROVE UNCHANGED <<client, sessions>>
  BY <1>3 DEF Loss, Retransmit, ServerRetransmit, Lose, ctl
<1>4. QED
  BY <1>1, <1>2, <1>3 DEF Network

(* The network's steps keep packets and the server's contexts in their types. *)
LEMMA NetworkTypes ==
  ASSUME RekeyTypes, Network
  PROVE  /\ toServer' \subseteq Packets /\ toClient' \subseteq Packets
         /\ srv' \in [IDs -> {"none", "reset", "ready", "active", "done"}]
         /\ serverAuth' \subseteq 1 .. attempt
         /\ sendQueue' \in [Gens -> SUBSET {"reset", "auth"}]
<1> DEFINE G == /\ toServer' \subseteq Packets /\ toClient' \subseteq Packets
                /\ srv' \in [IDs -> {"none", "reset", "ready", "active", "done"}]
                /\ serverAuth' \subseteq 1 .. attempt
         /\ sendQueue' \in [Gens -> SUBSET {"reset", "auth"}]
<1> USE DEF RekeyTypes, Packets, pkt
<1>1. ASSUME NEW m \in toClient, Relay(m) PROVE G
  <2>1. m.id \in IDs /\ sessions[m.id] \in -1 .. attempt /\ UNCHANGED srv
    BY <1>1 DEF Relay, RecvSoftReset, RecvControlV1, RecvAckV1
  <2>2. toClient' \subseteq Packets /\ toServer' \subseteq Packets
    BY <1>1, <2>1 DEF Relay, RecvSoftReset, RecvControlV1, RecvAckV1, receives
  <2>3. serverAuth' \subseteq 1 .. attempt
    <3>1. notified(sessions[m.id]) \subseteq 1 .. attempt
      BY <2>1 DEF notified
    <3>2. QED
      BY <1>1, <3>1, Zenon DEF Relay, RecvSoftReset, RecvControlV1, RecvAckV1
  <2>4. sendQueue' \in [Gens -> SUBSET {"reset", "auth"}]
    <3>1. \E a : acks(sessions[m.id], a)
      BY <1>1 DEF Relay, RecvSoftReset, RecvControlV1, RecvAckV1
    <3>2. PICK a : acks(sessions[m.id], a)
      BY <3>1
    <3>3. QED
      BY <2>1, <3>2, Zenon DEF acks
  <2>5. QED
    BY <2>1, <2>2, <2>3, <2>4
<1>2. ASSUME NEW m \in toServer, Server(m) PROVE G
  <2>1. m.id \in IDs /\ UNCHANGED <<serverAuth, sendQueue>>
    BY <1>2 DEF Server, ServerReset, ServerAck, ServerAuth, ctl
  <2>2. toClient' \subseteq Packets /\ toServer' \subseteq Packets
    BY <1>2, <2>1 DEF Server, ServerReset, ServerAck, ServerAuth, answers
  <2>3. srv' \in [IDs -> {"none", "reset", "ready", "active", "done"}]
    BY <1>2, <2>1 DEF Server, ServerReset, ServerAck, ServerAuth
  <2>4. QED
    BY <2>1, <2>2, <2>3
<1>3. ASSUME Loss PROVE G
  <2>1. CASE \E id \in IDs : ServerRetransmit(id)
    BY <2>1 DEF ServerRetransmit, ctl
  <2>2. CASE \E m \in toServer \cup toClient : Lose(m)
    BY <2>2 DEF Lose, ctl
  <2>3. ASSUME NEW id \in IDs, Retransmit(id) PROVE G
    <3>1. sendQueue[sessions[id]] \subseteq {"reset", "auth"}
      BY <2>3, RekeyAssumption DEF Retransmit, Gens
    <3>2. toServer' \subseteq Packets
      BY <2>3, <3>1 DEF Retransmit
    <3>3. QED
      BY <2>3, <3>2 DEF Retransmit, ctl
  <2>4. QED
    BY <1>3, <2>1, <2>2, <2>3 DEF Loss
<1>4. QED
  BY <1>1, <1>2, <1>3 DEF Network

(* Every step keeps the types. *)
LEMMA TypesStep ==
  ASSUME RekeyTypes, Ring, Next
  PROVE  RekeyTypes'
<1>0. attempt \in Nat /\ attempt <= MaxAttempts /\ failures \in Nat /\ failures <= MaxFailures
      /\ MaxAttempts \in Nat /\ MaxFailures \in Nat
  BY RekeyAssumption DEF RekeyTypes
<1> USE RekeyAssumption DEF RekeyTypes, Epochs, Timers, IDs
<1>1. CASE StartRekey
  <2>1. UNCHANGED <<conn, up, failures, ctl, manager, timers, control>>
    BY <1>1 DEF StartRekey
  <2>2. /\ attempt' = attempt + 1 /\ attempt < MaxAttempts /\ nextKeyID' = following(nextKeyID)
        /\ rekey' = [id |-> nextKeyID, gen |-> attempt + 1] /\ phase' = "allocated"
    BY <1>1 DEF StartRekey
  <2>3. nextKeyID' \in 1 .. KeyIDs /\ attempt' \in 0 .. MaxAttempts /\ rekey' \in Epochs
    BY <2>2 DEF following
  <2>4. sessions' \in [IDs -> -1 .. attempt'] /\ serverAuth' \subseteq 1 .. attempt'
    <3>1. -1 .. attempt \subseteq -1 .. attempt' /\ 1 .. attempt \subseteq 1 .. attempt'
      <4> HIDE DEF RekeyTypes
      <4>1. QED
        BY <1>0, <2>2
    <3>2. UNCHANGED <<sessions, serverAuth>>
      BY <2>1 DEF ctl
    <3>3. QED
      BY <3>1, <3>2, Zenon
  <2>5. /\ toServer' \subseteq Packets /\ toClient' \subseteq Packets
        /\ srv' \in [IDs -> {"none", "reset", "ready", "active", "done"}]
    BY <1>1, Zenon DEF StartRekey
  <2>6. QED
    BY <2>1, <2>2, <2>3, <2>4, <2>5, Zenon DEF ctl, manager, Phases
<1>2. CASE Register
  <2>1. rekey.gen \in -1 .. attempt
    <3>1. rekey.gen = attempt
      BY <1>2 DEF Register, Ring
    <3>2. QED
      BY <3>1
  <2>2. sessions' \in [IDs -> -1 .. attempt] /\ phase' \in Phases
    BY <1>2, <2>1 DEF Register, Phases
  <2>3. QED
    BY <1>2, <2>2, Zenon DEF Register, alloc, manager
<1>3. CASE SendReset \/ StartTLS
  <2>1. rekey.gen \in Gens /\ phase' \in Phases
    BY <1>3, Zenon DEF SendReset, StartTLS, Ring, Gens, Phases
  <2>2. toServer' \subseteq Packets
    <3>1. pkt("reset", rekey.id) \in Packets /\ pkt("auth", rekey.id) \in Packets
      BY DEF Packets, pkt
    <3>2. QED
      BY <1>3, <3>1, Zenon DEF SendReset, StartTLS
  <2>3. sendQueue' \in [Gens -> SUBSET {"reset", "auth"}]
    <3>1. PICK a \in SUBSET {"reset", "auth"} : sendQueue' = [sendQueue EXCEPT ![rekey.gen] = a]
      <4>1. sendQueue[rekey.gen] \cup {"auth"} \in SUBSET {"reset", "auth"}
        BY <2>1
      <4>2. QED
        BY <1>3, <4>1, Zenon DEF SendReset, StartTLS
    <3>2. CASE secondary = None /\ previous = None
      BY <3>1, <3>2, Zenon
    <3>3. CASE secondary # None /\ previous = None
      BY <3>1, <3>3, Zenon
    <3>4. CASE secondary = None /\ previous # None
      BY <3>1, <3>4, Zenon
    <3>5. CASE secondary # None /\ previous # None
      BY <3>1, <3>5, Zenon
    <3>6. QED
      BY <3>2, <3>3, <3>4, <3>5, Zenon
  <2>4. QED
    BY <1>3, <2>1, <2>2, <2>3, ZenonT(30) DEF SendReset, StartTLS, alloc, manager
<1>4. CASE ReadServerAuth \/ FailRekey \/ Disconnect
  <2>1. phase' \in Phases /\ up' \in BOOLEAN
    BY <1>4, Zenon DEF ReadServerAuth, FailRekey, Disconnect, doing, Phases
  <2>2. failures' \in 0 .. MaxFailures
    <3> HIDE DEF RekeyTypes
    <3>1. failures' = failures \/ (failures' = failures + 1 /\ failures < MaxFailures)
      BY <1>4 DEF ReadServerAuth, FailRekey, Disconnect, alloc
    <3>2. QED
      BY <1>0, <3>1
  <2>3. UNCHANGED <<conn, nextKeyID, attempt, rekey, ctl, manager, timers, control, toServer, toClient, srv>>
    BY <1>4, Zenon DEF ReadServerAuth, FailRekey, Disconnect, alloc, doing
  <2>4. QED
    BY <2>1, <2>2, <2>3, Zenon DEF ctl, manager
<1>5. CASE FinishRekey
  <2>1. None \in Epochs
    BY DEF None
  <2>2. [conn |-> conn, epoch |-> rekey] \in Timers
    OBVIOUS
  <2>3. /\ secondary' = rekey /\ previous' = None /\ failures' = 0 /\ phase' \in Phases
        /\ timers' = timers \cup {[conn |-> conn, epoch |-> rekey]}
        /\ UNCHANGED <<conn, up, nextKeyID, attempt, rekey, ctl, current, control, toServer, toClient, srv>>
    BY <1>5 DEF FinishRekey, Prepare, Phases
  <2>4. timers' \subseteq Timers /\ failures' \in 0 .. MaxFailures
    <3>1. timers' \subseteq Timers
      BY <2>2, <2>3, Zenon DEF RekeyTypes
    <3> HIDE DEF RekeyTypes
    <3>2. failures' = 0 /\ 0 \in 0 .. MaxFailures
      BY <1>0, <2>3
    <3>3. QED
      BY <3>1, <3>2
  <2>5. QED
    BY <2>1, <2>3, <2>4, Zenon DEF ctl
<1>6. CASE Reconnect
  <2>1. First \in Epochs /\ None \in Epochs
    BY DEF First, None
  <2>2. control' \in Timers /\ conn' \in Nat
    BY <1>6, <2>1 DEF Reconnect, NewConnection
  <2>3. /\ sessions' \in [IDs -> -1 .. attempt'] /\ serverAuth' \subseteq 1 .. attempt'
        /\ sendQueue' \in [Gens -> SUBSET {"reset", "auth"}]
        /\ srv' \in [IDs -> {"none", "reset", "ready", "active", "done"}]
    BY <1>6 DEF Reconnect, NewConnection
  <2>4. QED
    BY <1>6, <2>1, <2>2, <2>3 DEF Reconnect, NewConnection, Phases
<1>7. ASSUME NEW t \in timers, PromoteSecondary(t) \/ CancelTimer(t) PROVE RekeyTypes'
  <2>1. None \in Epochs
    BY DEF None
  <2>2. current' \in Epochs /\ secondary' \in Epochs /\ previous' \in Epochs
    BY <1>7, <2>1, Zenon DEF PromoteSecondary, CancelTimer, Promote, manager
  <2>3. timers' \subseteq Timers /\ control' \in Timers
    BY <1>7, Zenon DEF PromoteSecondary, CancelTimer
  <2>4. QED
    BY <1>7, <2>2, <2>3, ZenonT(30) DEF PromoteSecondary, CancelTimer, alloc, doing, ctl
<1>8. CASE Network
  BY <1>8, NetworkKeeps, NetworkTypes, Zenon DEF client, alloc, doing, manager
<1>9. QED
  BY <1>1, <1>2, <1>3, <1>4, <1>5, <1>6, <1>7, <1>8, NextCases, Zenon

-----------------------------------------------------------------------------
(* One more place on the ring, as long as it has not been gone round. *)
LEMMA OneMorePlace ==
  ASSUME NEW id \in IDs, NEW n \in Nat \ {0}, n < KeyIDs
  PROVE  /\ following(Places(id, n)) = Places(id, n + 1)
         /\ Places(id, n) # id /\ Places(id, n) \in 1 .. KeyIDs
BY RekeyAssumption DEF Places, following, IDs

(* The key_id after id is the first place. *)
LEMMA FirstPlace ==
  ASSUME NEW id \in IDs
  PROVE  following(id) = Places(id, 1)
BY RekeyAssumption DEF Places, following, IDs

(* The epochs held stay apart. *)
LEMMA RingStep ==
  ASSUME RekeyTypes, Ring, TimersMatch, EnoughIDs, Next
  PROVE  Ring'
<1>0. /\ current \in Epochs /\ current.id \in IDs /\ secondary.id \in IDs /\ rekey.id \in IDs
      /\ failures \in 0 .. MaxFailures /\ MaxFailures + 2 <= KeyIDs
      /\ KeyIDs \in Nat /\ MaxFailures \in Nat
  BY RekeyAssumption DEF RekeyTypes, Epochs, EnoughIDs
<1>1. CASE StartRekey
  <2>1. UNCHANGED <<current, secondary, previous, failures, up>> /\ secondary = None /\ up
    BY <1>1 DEF StartRekey, NeedsRekey, manager
  <2>2. phase = "idle" /\ phase' = "allocated" /\ attempt' = attempt + 1 /\ attempt \in Nat
        /\ rekey' = [id |-> nextKeyID, gen |-> attempt + 1] /\ nextKeyID' = following(nextKeyID)
    BY <1>1, RekeyAssumption DEF StartRekey, RekeyTypes
  <2>3. nextKeyID = Places(current.id, failures + 1)
    BY <2>1, <2>2 DEF Ring
  <2>4. QED
    BY <2>1, <2>2, <2>3 DEF Ring
<1>2. CASE Register \/ SendReset \/ StartTLS \/ ReadServerAuth
  <2>1. UNCHANGED <<current, secondary, previous, up, nextKeyID, attempt, failures, rekey>>
    BY <1>2 DEF Register, SendReset, StartTLS, ReadServerAuth, manager, alloc
  <2>2. phase # "idle" /\ phase' # "idle"
    BY <1>2 DEF Register, SendReset, StartTLS, ReadServerAuth
  <2>3. QED
    BY <2>1, <2>2 DEF Ring
<1>3. CASE FinishRekey
  <2>1. /\ phase # "idle" /\ phase' = "idle" /\ failures' = 0
        /\ secondary' = rekey /\ previous' = None /\ UNCHANGED <<current, nextKeyID, up, attempt, rekey>>
    BY <1>3 DEF FinishRekey, Prepare
  <2>2. rekey.id # current.id
    BY <1>0, <2>1, OneMorePlace DEF Ring
  <2>3. rekey # None
    BY <2>1 DEF Ring, None, RekeyTypes
  <2>4. QED
    BY <2>1, <2>2, <2>3 DEF Ring
<1>4. CASE FailRekey
  <2>1. /\ phase # "idle" /\ phase' = "idle" /\ failures' = IF up THEN failures + 1 ELSE failures
        /\ up => failures < MaxFailures
        /\ UNCHANGED <<current, secondary, previous, nextKeyID, up, attempt, rekey>>
    BY <1>4 DEF FailRekey, manager
  <2>2. up => nextKeyID = Places(current.id, failures + 2)
    <3>1. up => failures + 1 \in Nat \ {0} /\ failures + 1 < KeyIDs /\ (failures + 1) + 1 = failures + 2
      BY <1>0, <2>1
    <3>2. QED
      BY <1>0, <2>1, <3>1, OneMorePlace DEF Ring
  <2>3. up => nextKeyID = Places(current.id, failures' + 1)
    <3>1. up => failures' + 1 = failures + 2
      BY <1>0, <2>1
    <3>2. QED
      BY <2>2, <3>1
  <2>4. QED
    BY <2>1, <2>3 DEF Ring
<1>5. CASE Disconnect
  BY <1>5 DEF Disconnect, alloc, doing, manager, Ring
<1>6. CASE Reconnect
  <2>1. /\ current' = First /\ secondary' = None /\ previous' = None /\ phase' = "idle"
        /\ nextKeyID' = 1 /\ failures' = 0
    BY <1>6 DEF Reconnect, NewConnection
  <2>2. First # None /\ Places(First.id, 1) = 1
    BY <1>0 DEF First, None, Places
  <2>3. QED
    BY <2>1, <2>2 DEF Ring
<1>7. ASSUME NEW t \in timers, PromoteSecondary(t) PROVE Ring'
  <2>1. UNCHANGED <<nextKeyID, attempt, failures, phase, rekey, up>>
    BY <1>7 DEF PromoteSecondary, alloc, doing
  <2>2. CASE t.conn = conn /\ Promoted(t)
    <3>1. previous' = current /\ current' = secondary /\ secondary' = None /\ secondary # None
      BY <1>7, <2>2 DEF PromoteSecondary, Promote, Promoted, Promotes
    <3>2. nextKeyID = Places(secondary.id, 1) /\ phase = "idle" /\ failures = 0 /\ secondary.id # current.id
      BY <1>0, <3>1, FirstPlace DEF Ring
    <3>3. QED
      BY <2>1, <3>1, <3>2 DEF Ring
  <2>3. CASE ~(t.conn = conn /\ Promoted(t))
    BY <1>7, <2>1, <2>3 DEF PromoteSecondary, manager, Ring
  <2>4. QED
    BY <2>2, <2>3
<1>8. ASSUME NEW t \in timers, CancelTimer(t) PROVE Ring'
  BY <1>8 DEF CancelTimer, manager, alloc, doing, Ring
<1>9. CASE Network
  BY <1>9, NetworkKeeps DEF client, manager, alloc, doing, Ring
<1>10. QED
  BY <1>1, <1>2, <1>3, <1>4, <1>5, <1>6, <1>7, <1>8, <1>9, NextCases

-----------------------------------------------------------------------------
(* A key that is installed is younger than all before it: doRekey makes one at *)
(* a time, and none while one awaits promotion.                               *)
LEMMA AgesStep ==
  ASSUME RekeyTypes, Ring, Ages, Next
  PROVE  Ages'
<1>0. /\ attempt \in Nat /\ current.gen \in Int /\ secondary.gen \in Int
      /\ previous.gen \in Int
  BY DEF RekeyTypes, Epochs
<1>1. CASE StartRekey
  <2>1. UNCHANGED <<current, secondary, previous>> /\ attempt' = attempt + 1
    BY <1>1 DEF StartRekey, manager
  <2>2. QED
    BY <1>0, <2>1 DEF Ages
<1>2. CASE Register \/ SendReset \/ StartTLS \/ ReadServerAuth \/ FailRekey
  <2>1. UNCHANGED <<current, secondary, previous, attempt>> /\ phase # "idle"
    BY <1>2 DEF Register, SendReset, StartTLS, ReadServerAuth, FailRekey, manager, alloc
  <2>2. QED
    BY <2>1 DEF Ages
<1>3. CASE FinishRekey
  <2>1. /\ phase # "idle" /\ phase' = "idle"
        /\ secondary' = rekey /\ previous' = None /\ UNCHANGED <<current, attempt>>
    BY <1>3 DEF FinishRekey, Prepare
  <2>2. rekey.gen = attempt /\ current.gen < attempt
    BY <2>1 DEF Ring, Ages
  <2>3. QED
    BY <1>0, <2>1, <2>2 DEF Ages
<1>4. CASE Reconnect
  <2>1. /\ current' = First /\ secondary' = None /\ previous' = None /\ phase' = "idle"
        /\ attempt' = 0
    BY <1>4 DEF Reconnect, NewConnection
  <2>2. QED
    BY <2>1 DEF Ages, First
<1>5. ASSUME NEW t \in timers, PromoteSecondary(t) PROVE Ages'
  <2>1. UNCHANGED <<attempt, phase>>
    BY <1>5 DEF PromoteSecondary, alloc, doing
  <2>2. CASE t.conn = conn /\ Promoted(t)
    <3>1. previous' = current /\ current' = secondary /\ secondary' = None /\ secondary # None
      BY <1>5, <2>2 DEF PromoteSecondary, Promote, Promoted, Promotes
    <3>2. phase = "idle"
      BY <3>1 DEF Ring
    <3>3. QED
      BY <1>0, <2>1, <3>1, <3>2 DEF Ages
  <2>3. CASE ~(t.conn = conn /\ Promoted(t))
    BY <1>5, <2>1, <2>3 DEF PromoteSecondary, manager, Ages
  <2>4. QED
    BY <2>2, <2>3
<1>6. ASSUME NEW t \in timers, CancelTimer(t) PROVE Ages'
  BY <1>6 DEF CancelTimer, manager, alloc, doing, Ages
<1>7. CASE Disconnect
  BY <1>7 DEF Disconnect, alloc, doing, manager, Ages
<1>8. CASE Network
  BY <1>8, NetworkKeeps DEF client, manager, alloc, doing, Ages
<1>9. QED
  BY <1>1, <1>2, <1>3, <1>4, <1>5, <1>6, <1>7, <1>8, NextCases

-----------------------------------------------------------------------------
(* A prepared key keeps its timer until it is promoted, and timers of earlier *)
(* connections are never taken for one of this.                              *)
LEMMA TimersStep ==
  ASSUME RekeyTypes, Ring, TimersMatch, Next
  PROVE  TimersMatch'
<1> USE DEF TimersMatch, PreparedHasTimer
<1>1. CASE StartRekey \/ Register \/ SendReset \/ StartTLS \/ ReadServerAuth \/ FailRekey
  <2>1. UNCHANGED <<conn, up, secondary, timers>>
    BY <1>1, Zenon DEF StartRekey, Register, SendReset, StartTLS, ReadServerAuth, FailRekey, manager
  <2>2. QED
    BY <2>1
<1>2. CASE FinishRekey
  <2>1. /\ secondary = None /\ rekey # None /\ secondary' = rekey /\ UNCHANGED <<conn, up>>
        /\ timers' = timers \cup {[conn |-> conn, epoch |-> rekey]} /\ conn \in Nat
    BY <1>2 DEF FinishRekey, Prepare, Ring, RekeyTypes, None
  <2>2. QED
    BY <2>1
<1>3. CASE Disconnect
  BY <1>3 DEF Disconnect, manager
<1>4. CASE Reconnect
  <2>1. conn' = conn + 1 /\ secondary' = None /\ timers' = timers /\ conn \in Nat
        /\ \A t \in timers : t.conn \in Nat
    BY <1>4 DEF Reconnect, NewConnection, RekeyTypes, Timers
  <2>2. QED
    BY <2>1
<1>5. ASSUME NEW t \in timers, PromoteSecondary(t) PROVE TimersMatch'
  <2>1. timers' = timers \ {t} /\ UNCHANGED <<conn, up>>
    BY <1>5 DEF PromoteSecondary
  <2>2. \A u \in timers : u = [conn |-> u.conn, epoch |-> u.epoch]
    BY DEF RekeyTypes, Timers
  <2>3. CASE t.conn = conn
    <3>1. secondary' = None
      BY <1>5, <2>3 DEF PromoteSecondary, Promoted, Promotes, Promote
    <3>2. \A u \in timers : u.conn = conn => u = t
      BY <2>2, <2>3
    <3>3. QED
      BY <2>1, <3>1, <3>2
  <2>4. CASE t.conn # conn
    <3>1. UNCHANGED secondary
      BY <1>5, <2>4 DEF PromoteSecondary, manager
    <3>2. QED
      BY <2>1, <2>4, <3>1
  <2>5. QED
    BY <2>3, <2>4
<1>6. ASSUME NEW t \in timers, CancelTimer(t) PROVE TimersMatch'
  <2>1. timers' = timers \ {t} /\ UNCHANGED <<conn, up, secondary>> /\ (t.conn # conn \/ ~up)
    BY <1>6 DEF CancelTimer, manager
  <2>2. QED
    BY <2>1
<1>7. CASE Network
  BY <1>7, NetworkKeeps DEF client, manager
<1>8. QED
  BY <1>1, <1>2, <1>3, <1>4, <1>5, <1>6, <1>7, NextCases

(* The relay keeps delivering to the session in use. *)
LEMMA SessionsStep ==
  ASSUME RekeyTypes, Ring, TimersMatch, SessionsMatch, EnoughIDs, Next
  PROVE  SessionsMatch'
<1>0. phase # "idle" => rekey.id # current.id
  <2>1. /\ failures + 1 \in Nat \ {0} /\ failures + 1 < KeyIDs /\ current.id \in IDs
    BY RekeyAssumption DEF EnoughIDs, RekeyTypes, Epochs
  <2>2. QED
    BY <2>1, OneMorePlace DEF Ring
<1> USE DEF SessionsMatch, ControlSessionReachable
<1>1. CASE StartRekey
  <2>1. /\ UNCHANGED <<sessions, control, conn, up, current, secondary>> /\ phase' = "allocated"
        /\ rekey'.gen = attempt + 1
    BY <1>1 DEF StartRekey, ctl, manager
  <2>2. \A k \in IDs : sessions[k] # attempt + 1
    BY DEF RekeyTypes
  <2>3. QED
    BY <2>1, <2>2
<1>2. CASE Register
  <2>1. /\ sessions' = [sessions EXCEPT ![rekey.id] = rekey.gen] /\ phase = "allocated"
        /\ UNCHANGED <<control, conn, up, current, secondary, rekey>> /\ up
    BY <1>2 DEF Register, manager
  <2>2. rekey.id \in IDs /\ control.epoch = current /\ secondary = None /\ current.id \in IDs
    BY <2>1 DEF Ring, RekeyTypes, Epochs
  <2>3. sessions \in [IDs -> -1 .. attempt]
    BY DEF RekeyTypes
  <2>4. QED
    BY <1>0, <2>1, <2>2, <2>3
<1>3. CASE SendReset \/ StartTLS \/ ReadServerAuth \/ FailRekey
  <2>1. UNCHANGED <<sessions, control, conn, up, current, secondary, rekey>>
    BY <1>3 DEF SendReset, StartTLS, ReadServerAuth, FailRekey, ctl, manager
  <2>2. phase \notin {"idle", "allocated"} \/ phase' = "idle"
    BY <1>3, Zenon DEF SendReset, StartTLS, ReadServerAuth, FailRekey
  <2>3. phase # "idle"
    BY <1>3, Zenon DEF SendReset, StartTLS, ReadServerAuth, FailRekey
  <2>4. QED
    BY <2>1, <2>2, <2>3
<1>4. CASE FinishRekey
  <2>1. /\ UNCHANGED <<sessions, control, conn, up, current>> /\ secondary' = rekey
        /\ phase = "acks" /\ phase' = "idle"
    BY <1>4, Zenon DEF FinishRekey, Prepare, ctl
  <2>2. QED
    BY <2>1
<1>5. CASE Disconnect
  BY <1>5, Zenon DEF Disconnect, ctl, manager, doing
<1>6. CASE Reconnect
  <2>1. /\ control' = [conn |-> conn', epoch |-> First] /\ current' = First /\ secondary' = None
        /\ sessions' = [k \in IDs |-> IF k = 0 THEN 0 ELSE -1] /\ phase' = "idle"
    BY <1>6 DEF Reconnect, NewConnection
  <2>2. 0 \in IDs
    BY RekeyAssumption DEF IDs
  <2>3. QED
    BY <2>1, <2>2 DEF First
<1>7. ASSUME NEW t \in timers, PromoteSecondary(t) PROVE SessionsMatch'
  <2>1. UNCHANGED <<sessions, conn, up, phase, rekey>>
    BY <1>7, Zenon DEF PromoteSecondary, ctl, doing
  <2>2. CASE t.conn = conn
    <3>1. /\ secondary' = None /\ current' = secondary /\ t.epoch = secondary /\ secondary # None
          /\ control' = IF up THEN t ELSE control
      BY <1>7, <2>2 DEF PromoteSecondary, Promoted, Promotes, Promote, Owns, TimersMatch
    <3>2. phase = "idle"
      BY <3>1 DEF Ring
    <3>3. QED
      BY <2>1, <2>2, <3>1, <3>2
  <2>3. CASE t.conn # conn
    <3>1. UNCHANGED <<control, current, secondary>>
      BY <1>7, <2>3 DEF PromoteSecondary, Owns, manager
    <3>2. QED
      BY <2>1, <3>1
  <2>4. QED
    BY <2>2, <2>3
<1>8. ASSUME NEW t \in timers, CancelTimer(t) PROVE SessionsMatch'
  BY <1>8 DEF CancelTimer, ctl, manager, doing
<1>9. CASE Network
  BY <1>9, NetworkKeeps DEF client, manager, doing
<1>10. QED
  BY <1>1, <1>2, <1>3, <1>4, <1>5, <1>6, <1>7, <1>8, <1>9, NextCases, Zenon

-----------------------------------------------------------------------------
(* The server never deactivates a key while packets travel, and its auth message, *)
(* the only thing that lets doRekey go on, is sent by an active context.          *)
LEMMA NetworkActive ==
  ASSUME RekeyTypes, SessionsMatch, ServerActive, Network
  PROVE  /\ \A k \in IDs : srv[k] \in Active => srv'[k] \in Active
         /\ \A m \in toClient' : m.kind = "auth" => srv'[m.id] \in Active
         /\ phase # "idle" /\ rekey.gen \in serverAuth' => srv'[rekey.id] \in Active
<1> DEFINE Stays == \A k \in IDs : srv[k] \in Active => srv'[k] \in Active
           Sent == \A m \in toClient' : m.kind = "auth" => srv'[m.id] \in Active
           Read == phase # "idle" /\ rekey.gen \in serverAuth' => srv'[rekey.id] \in Active
<1>0. rekey.id \in IDs /\ \A m \in toClient \cup toServer : m.id \in IDs
  BY DEF RekeyTypes, Epochs, Packets
<1>1. ASSUME NEW m \in toClient, Relay(m) PROVE Stays /\ Sent /\ Read
  <2>1. UNCHANGED srv /\ toClient' \subseteq toClient
    BY <1>1 DEF Relay, RecvSoftReset, RecvControlV1, RecvAckV1, receives
  <2>2. serverAuth' \subseteq serverAuth \cup (IF m.kind = "auth" THEN {sessions[m.id]} ELSE {})
    BY <1>1, Zenon DEF Relay, RecvSoftReset, RecvControlV1, RecvAckV1, notified
  <2>3. Read
    BY <1>0, <2>1, <2>2 DEF ServerActive, SessionsMatch
  <2>4. QED
    BY <2>1, <2>3 DEF ServerActive
<1>2. ASSUME NEW m \in toServer, Server(m) PROVE Stays /\ Sent /\ Read
  <2>1. UNCHANGED serverAuth /\ m.id \in IDs /\ srv \in [IDs -> {"none", "reset", "ready", "active", "done"}]
    BY <1>0, <1>2 DEF Server, ServerReset, ServerAck, ServerAuth, ctl, RekeyTypes
  <2>2. Stays
    BY <1>2, <2>1 DEF Server, ServerReset, ServerAck, ServerAuth, Active
  <2>3. Sent
    <3>1. CASE ServerReset(m) \/ ServerAck(m)
      <4>1. \A n \in toClient' : n.kind = "auth" => n \in toClient
        BY <3>1 DEF ServerReset, ServerAck, answers, pkt
      <4>2. QED
        BY <1>0, <2>2, <4>1 DEF ServerActive
    <3>2. CASE ServerAuth(m)
      <4>1. CASE srv[m.id] = "ready"
        <5>1. srv'[m.id] = "active" /\ toClient' = toClient \cup {pkt("auth", m.id)}
          BY <2>1, <3>2, <4>1 DEF ServerAuth, answers
        <5>2. QED
          BY <1>0, <2>2, <5>1 DEF ServerActive, pkt, Active
      <4>2. CASE srv[m.id] # "ready"
        <5>1. \A n \in toClient' : n.kind = "auth" => n \in toClient
          BY <3>2, <4>2 DEF ServerAuth, answers, pkt
        <5>2. QED
          BY <1>0, <2>2, <5>1 DEF ServerActive
      <4>3. QED
        BY <4>1, <4>2
    <3>3. QED
      BY <1>2, <3>1, <3>2 DEF Server
  <2>4. QED
    BY <1>0, <2>1, <2>2, <2>3 DEF ServerActive
<1>3. ASSUME Loss PROVE Stays /\ Sent /\ Read
  <2>1. UNCHANGED <<srv, serverAuth>>
    BY <1>3, Zenon DEF Loss, Retransmit, ServerRetransmit, Lose, ctl
  <2>2. \A n \in toClient' : n \in toClient \/ (n.kind = "auth" => srv[n.id] = "active")
    <3>1. CASE \E id \in IDs : Retransmit(id)
      BY <3>1 DEF Retransmit
    <3>2. CASE \E id \in IDs : ServerRetransmit(id)
      BY <3>2 DEF ServerRetransmit, pkt
    <3>3. CASE \E m \in toServer \cup toClient : Lose(m)
      BY <3>3 DEF Lose
    <3>4. QED
      BY <1>3, <3>1, <3>2, <3>3 DEF Loss
  <2>3. QED
    BY <2>1, <2>2 DEF ServerActive, Active
<1>4. QED
  BY <1>1, <1>2, <1>3 DEF Network

(* No key is used that the server has not activated. *)
LEMMA ServerStep ==
  ASSUME RekeyTypes, Ring, TimersMatch, SessionsMatch, ServerActive, EnoughIDs, Next
  PROVE  ServerActive'
<1>0. /\ current.id \in IDs /\ rekey.id \in IDs /\ secondary.id \in IDs /\ nextKeyID \in IDs
      /\ \A m \in toClient : m.id \in IDs
  BY RekeyAssumption DEF RekeyTypes, Epochs, Packets, IDs
<1>1. CASE StartRekey
  <2>1. /\ UNCHANGED <<serverAuth, current, secondary>> /\ secondary = None /\ phase' = "allocated"
        /\ rekey'.gen = attempt + 1 /\ srv' = [srv EXCEPT ![nextKeyID] = "none"]
        /\ toClient' = {m \in toClient : m.id # nextKeyID}
        /\ nextKeyID = Places(current.id, failures + 1)
    BY <1>1 DEF StartRekey, NeedsRekey, ctl, manager, Ring
  <2>2. nextKeyID # current.id
    <3>1. failures + 1 \in Nat \ {0} /\ failures + 1 < KeyIDs
      BY RekeyAssumption DEF EnoughIDs, RekeyTypes
    <3>2. QED
      BY <1>0, <2>1, <3>1, OneMorePlace
  <2>3. attempt + 1 \notin serverAuth
    BY DEF RekeyTypes
  <2>4. \A k \in IDs : k # nextKeyID => srv'[k] = srv[k]
    BY <2>1 DEF RekeyTypes
  <2>5. QED
    BY <1>0, <2>1, <2>2, <2>3, <2>4 DEF ServerActive
<1>2. CASE Register \/ SendReset \/ StartTLS \/ ReadServerAuth \/ FailRekey
  <2>1. UNCHANGED <<serverAuth, current, secondary, rekey, srv, toClient>> /\ phase # "idle"
    BY <1>2 DEF Register, SendReset, StartTLS, ReadServerAuth, FailRekey, ctl, manager
  <2>2. phase' = "acks" => rekey.gen \in serverAuth
    BY <1>2 DEF Register, SendReset, StartTLS, ReadServerAuth, FailRekey
  <2>3. QED
    BY <2>1, <2>2 DEF ServerActive
<1>3. CASE FinishRekey
  <2>1. /\ phase = "acks" /\ phase' = "idle" /\ secondary' = rekey
        /\ UNCHANGED <<current, srv, toClient>>
    BY <1>3 DEF FinishRekey, Prepare
  <2>2. QED
    BY <2>1 DEF ServerActive
<1>4. CASE Disconnect
  BY <1>4 DEF Disconnect, doing, ctl, manager, ServerActive
<1>5. CASE Reconnect
  <2>1. /\ current' = First /\ secondary' = None /\ phase' = "idle" /\ toClient' = {}
        /\ srv' = [k \in IDs |-> IF k = 0 THEN "done" ELSE "none"]
    BY <1>5 DEF Reconnect, NewConnection
  <2>2. 0 \in IDs
    BY RekeyAssumption DEF IDs
  <2>3. QED
    BY <2>1, <2>2 DEF ServerActive, First, Active
<1>6. ASSUME NEW t \in timers, PromoteSecondary(t) PROVE ServerActive'
  <2>1. UNCHANGED <<phase, rekey, serverAuth, srv, toClient>>
    BY <1>6 DEF PromoteSecondary, ctl, doing
  <2>2. \/ UNCHANGED <<current, secondary>>
        \/ secondary # None /\ current' = secondary /\ secondary' = None
    BY <1>6 DEF PromoteSecondary, Promoted, Promotes, Promote, manager
  <2>3. QED
    BY <2>1, <2>2 DEF ServerActive
<1>7. ASSUME NEW t \in timers, CancelTimer(t) PROVE ServerActive'
  BY <1>7 DEF CancelTimer, ctl, manager, doing, ServerActive
<1>8. CASE Network
  <2>1. UNCHANGED <<phase, rekey, current, secondary>>
    BY <1>8, NetworkKeeps DEF client, doing, manager
  <2>2. QED
    BY <1>0, <1>8, <2>1, NetworkActive DEF ServerActive
<1>9. QED
  BY <1>1, <1>2, <1>3, <1>4, <1>5, <1>6, <1>7, <1>8, NextCases

-----------------------------------------------------------------------------
(* With key_ids enough for the failures in a row, the invariant holds in every connection. *)
THEOREM RekeyInvariantHolds ==
  ASSUME EnoughIDs
  PROVE  Spec => []RekeyInvariant
<1>1. Init => RekeyInvariant
  <2> SUFFICES ASSUME Init PROVE RekeyInvariant
    OBVIOUS
  <2>0. 0 \in IDs /\ First \in Epochs /\ None \in Epochs /\ First # None
    BY RekeyAssumption DEF IDs, Epochs, First, None
  <2>1. RekeyTypes
    <3>1. control \in Timers /\ timers \subseteq Timers
      BY <2>0 DEF Init, Timers
    <3>2. nextKeyID \in 1 .. KeyIDs /\ attempt \in 0 .. MaxAttempts /\ failures \in 0 .. MaxFailures
      BY RekeyAssumption DEF Init
    <3>3. /\ sessions \in [IDs -> -1 .. attempt] /\ sendQueue \in [Gens -> SUBSET {"reset", "auth"}]
          /\ srv \in [IDs -> {"none", "reset", "ready", "active", "done"}]
      BY DEF Init
    <3>4. QED
      BY <2>0, <3>1, <3>2, <3>3 DEF Init, RekeyTypes, Phases
  <2>2. Ring
    <3>1. Places(First.id, 1) = 1
      BY RekeyAssumption DEF Places, First
    <3>2. QED
      BY <2>0, <3>1 DEF Init, Ring
  <2>3. Ages /\ TimersMatch
    BY DEF Init, Ages, First, TimersMatch, PreparedHasTimer
  <2>4. SessionsMatch /\ ServerActive
    BY <2>0 DEF Init, SessionsMatch, ControlSessionReachable, ServerActive, Active, First
  <2>5. QED
    BY <2>1, <2>2, <2>3, <2>4 DEF RekeyInvariant
<1>2. RekeyInvariant /\ [Next]_vars => RekeyInvariant'
  <2> SUFFICES ASSUME RekeyInvariant, [Next]_vars PROVE RekeyInvariant'
    OBVIOUS
  <2>1. CASE Next
    BY <2>1, EnoughIDs, TypesStep, RingStep, AgesStep, TimersStep, SessionsStep, ServerStep DEF RekeyInvariant
  <2>2. CASE UNCHANGED vars
    <3>1. RekeyTypes' /\ Ring' /\ Ages'
      BY <2>2 DEF vars, client, alloc, doing, manager, ctl, RekeyInvariant, RekeyTypes, Ring, Ages
    <3>2. TimersMatch' /\ SessionsMatch' /\ ServerActive'
      BY <2>2, Zenon DEF vars, client, doing, manager, ctl, RekeyInvariant, TimersMatch, PreparedHasTimer,
                  SessionsMatch, ControlSessionReachable, ServerActive
    <3>3. QED
      BY <3>1, <3>2 DEF RekeyInvariant
  <2>3. QED
    BY <2>1, <2>2
<1>3. QED
  BY <1>1, <1>2, PTL DEF Spec

(* decryptChannel, which goes by key_id, picks the right one of the keys held *)
(* (Manager.Decrypt, Prepare, Promote).                                       *)
THEOREM SelectsRightEpochHolds ==
  ASSUME EnoughIDs
  PROVE  Spec => []SelectsRightEpoch
<1>1. RekeyInvariant => SelectsRightEpoch
  BY DEF RekeyInvariant, Ring, SelectsRightEpoch, Held, decryptChannel
<1>2. QED
  BY <1>1, RekeyInvariantHolds, PTL

(* A prepared key always has the timer that will promote it (scheduleRekeyPromotion). *)
THEOREM PreparedHasTimerHolds ==
  ASSUME EnoughIDs
  PROVE  Spec => []PreparedHasTimer
<1>1. RekeyInvariant => PreparedHasTimer
  BY DEF RekeyInvariant, TimersMatch
<1>2. QED
  BY <1>1, RekeyInvariantHolds, PTL

(* The client encrypts only with keys the server has activated (doRekey). *)
THEOREM SendKeyActiveAtServerHolds ==
  ASSUME EnoughIDs
  PROVE  Spec => []SendKeyActiveAtServer
<1>1. RekeyInvariant => SendKeyActiveAtServer
  BY DEF RekeyInvariant, ServerActive, Active, SendKeyActiveAtServer
<1>2. QED
  BY <1>1, RekeyInvariantHolds, PTL

(* The TLS session in use is one of this connection that the relay delivers to *)
(* (scheduleRekeyPromotion).                                                   *)
THEOREM ControlSessionReachableHolds ==
  ASSUME EnoughIDs
  PROVE  Spec => []ControlSessionReachable
<1>1. RekeyInvariant => ControlSessionReachable
  BY DEF RekeyInvariant, SessionsMatch
<1>2. QED
  BY <1>1, RekeyInvariantHolds, PTL
-----------------------------------------------------------------------------
\* The keys of the Manager, by number.
Numbers ==
  {current.gen} \cup (IF secondary = None THEN {} ELSE {secondary.gen})
                \cup (IF previous = None THEN {} ELSE {previous.gen})

NoneHidden == Accepted = Numbers

(* The keys accepted are all those the Manager holds: none is hidden behind    *)
(* another with its key_id (Manager.decryptChannel).                           *)
LEMMA AcceptedIs == RekeyInvariant => NoneHidden
<1> SUFFICES ASSUME RekeyInvariant PROVE Accepted = Numbers
  BY DEF NoneHidden
<1>1. \A e \in Held : decryptChannel(e.id) = e
  BY DEF RekeyInvariant, Ring, Held, decryptChannel
<1>2. current # None
  BY DEF RekeyInvariant, Ring
<1>3. Accepted = {e.gen : e \in Held}
  BY <1>1, Zenon DEF Accepted
<1>4. ASSUME NEW e \in Held PROVE e.gen \in Numbers
  <2>1. e # None /\ (e = current \/ e = secondary \/ e = previous)
    BY <1>4 DEF Held
  <2>2. QED
    BY <2>1 DEF Numbers
<1>5. ASSUME NEW g \in Numbers PROVE \E e \in Held : g = e.gen
  <2>1. \/ g = current.gen
        \/ secondary # None /\ g = secondary.gen
        \/ previous # None /\ g = previous.gen
    BY <1>5 DEF Numbers
  <2>2. current \in Held /\ (secondary # None => secondary \in Held) /\ (previous # None => previous \in Held)
    BY <1>2 DEF Held
  <2>3. QED
    BY <2>1, <2>2, Zenon
<1>6. \A g : g \in Accepted <=> \E e \in Held : g = e.gen
  BY <1>3, Zenon
<1>7. \A g : g \in Accepted <=> g \in Numbers
  BY <1>4, <1>5, <1>6, Zenon
<1>8. QED
  BY <1>7, Zenon

(* A step that leaves the Manager and the connection alone changes no promise. *)
LEMMA ManagerStutter ==
  ASSUME UNCHANGED <<conn, current, secondary, previous>>
  PROVE  UNCHANGED Handover!vars
<1>1. UNCHANGED Accepted
  BY Zenon DEF Accepted, Held, decryptChannel
<1>2. QED
  BY <1>1 DEF Handover!vars

(* Manager.Prepare, called by doRekey, installs a key. *)
LEMMA FinishInstalls ==
  ASSUME RekeyInvariant, Accepted = Numbers, Accepted' = Numbers', FinishRekey
  PROVE  Handover!Install
<1>1. /\ phase # "idle" /\ secondary' = rekey /\ previous' = None /\ UNCHANGED <<conn, current>>
  BY DEF FinishRekey, Prepare
<1>2. /\ rekey.gen = attempt /\ attempt > 0 /\ secondary = None
  BY <1>1 DEF RekeyInvariant, Ring
<1>3. /\ current.gen \in 0 .. attempt /\ current.gen < attempt
      /\ attempt \in Gens /\ attempt \in Nat
  BY <1>1, RekeyAssumption DEF RekeyInvariant, Ages, RekeyTypes, Gens
<1>4. \A k \in Accepted : k <= current.gen
  <2>1. previous # None => previous.gen \in Int /\ previous.gen < current.gen
    BY DEF RekeyInvariant, Ages, RekeyTypes, Epochs
  <2>2. QED
    BY <1>2, <1>3, <2>1 DEF Numbers
<1>5. rekey # None
  BY <1>2, <1>3 DEF None
<1>6. Accepted' = {current.gen, attempt}
  BY <1>1, <1>2, <1>5 DEF Numbers
<1>7. QED
  BY <1>1, <1>3, <1>4, <1>6 DEF Handover!Install

(* Manager.Promote, called by a timer of this connection, puts the prepared    *)
(* key to use; a timer of an earlier one does not touch this Manager.          *)
LEMMA PromotionSwitches ==
  ASSUME RekeyInvariant, Accepted = Numbers, Accepted' = Numbers',
         NEW t \in timers, PromoteSecondary(t)
  PROVE  Handover!Switch \/ UNCHANGED Handover!vars
<1>1. UNCHANGED conn
  BY DEF PromoteSecondary
<1>2. CASE t.conn = conn /\ Promoted(t)
  <2>1. /\ previous' = current /\ current' = secondary /\ secondary' = None /\ secondary # None
    BY <1>2 DEF PromoteSecondary, Promote, Promoted, Promotes
  <2>2. previous = None /\ current # None
    BY <2>1 DEF RekeyInvariant, Ring
  <2>3. secondary.gen > current.gen
    BY <2>1 DEF RekeyInvariant, Ages, RekeyTypes, Epochs
  <2>4. Accepted' = Accepted /\ secondary.gen \in Accepted
    BY <2>1, <2>2 DEF Numbers
  <2>5. QED
    BY <1>1, <2>1, <2>3, <2>4 DEF Handover!Switch
<1>3. CASE ~(t.conn = conn /\ Promoted(t))
  BY <1>1, <1>3, ManagerStutter DEF PromoteSecondary, manager
<1>4. QED
  BY <1>2, <1>3

(* Keys change without a gap: every step of the client, its timers, the relay, *)
(* the network and the server keeps the promise of KeyHandover (doRekey,       *)
(* Manager, scheduleRekeyPromotion).                                           *)
THEOREM ImplementsKeyHandoverHolds ==
  ASSUME EnoughIDs
  PROVE  Spec => ImplementsKeyHandover
<1>1. RekeyInvariant /\ Init => Handover!Init
  <2>1. Init => current = First /\ secondary = None /\ previous = None /\ conn = 1
    BY DEF Init
  <2>2. QED
    BY <2>1, AcceptedIs DEF NoneHidden, Numbers, First, Handover!Init
<1>2. RekeyInvariant /\ NoneHidden /\ NoneHidden' /\ [Next]_vars => [Handover!Next]_(Handover!vars)
  <2> SUFFICES ASSUME RekeyInvariant, NoneHidden, NoneHidden', [Next]_vars
               PROVE  Handover!Next \/ UNCHANGED Handover!vars
    OBVIOUS
  <2>1. Accepted = Numbers /\ Accepted' = Numbers'
    BY DEF NoneHidden
  <2>2. CASE FinishRekey
    BY <2>1, <2>2, FinishInstalls DEF Handover!Next
  <2>3. ASSUME NEW t \in timers, PromoteSecondary(t) PROVE Handover!Next \/ UNCHANGED Handover!vars
    BY <2>1, <2>3, PromotionSwitches DEF Handover!Next
  <2>4. CASE Reconnect
    <3>1. conn' = conn + 1 /\ current' = First /\ secondary' = None /\ previous' = None
      BY <2>4 DEF Reconnect, NewConnection
    <3>2. QED
      BY <2>1, <3>1 DEF Numbers, First, Handover!Renew, Handover!Next
  <2>5. CASE StartRekey \/ Register \/ SendReset \/ StartTLS \/ ReadServerAuth \/ FailRekey \/ Disconnect
    BY <2>5, ManagerStutter, Zenon DEF StartRekey, Register, SendReset, StartTLS, ReadServerAuth, FailRekey,
                                Disconnect, manager
  <2>6. ASSUME NEW t \in timers, CancelTimer(t) PROVE UNCHANGED Handover!vars
    BY <2>6, ManagerStutter DEF CancelTimer, manager
  <2>7. CASE Network \/ UNCHANGED vars
    BY <2>7, NetworkKeeps, ManagerStutter DEF vars, client, manager
  <2>8. QED
    BY <2>2, <2>3, <2>4, <2>5, <2>6, <2>7, NextCases, Zenon
<1>3. QED
  BY <1>1, <1>2, AcceptedIs, RekeyInvariantHolds, PTL DEF Spec, ImplementsKeyHandover, Handover!Spec
=============================================================================
