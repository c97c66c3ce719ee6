-------------------------------- MODULE Rekey --------------------------------
(***************************************************************************)
(* Data-channel key renegotiation: rekeyLoop and doRekey of client.go, the *)
(* inbound relay's part in the reset exchange, the key Manager of          *)
(* internal/datachannel/manager.go and the promotion timers, across the    *)
(* successive connections of one Client.                                   *)
(*                                                                         *)
(* A key epoch is the call of doRekey that made it (gen; 0 is the first    *)
(* key of a connection) with the key_id under which its packets travel;    *)
(* the code only ever compares key_ids.  The TLS handshake and the         *)
(* key-method-2 messages are one reliable message each way: ControlLink    *)
(* is about the link that carries them.                                    *)
(*                                                                         *)
(* Assumption on time: key_ids are reused only after KeyIDs further calls  *)
(* of doRekey, 30 s or more apart, and by then neither a packet nor the    *)
(* server's context of the earlier epoch with that id is left.             *)
(***************************************************************************)
EXTENDS Integers

CONSTANTS
  KeyIDs,          \* renegotiated epochs use key_id 1 .. KeyIDs (7 in the code)
  MaxAttempts,     \* bound: calls of doRekey in a connection
  MaxFailures,     \* how many calls of doRekey may fail in a row
  MaxConnections   \* bound: connections of the Client

ASSUME RekeyAssumption ==
  /\ KeyIDs \in Nat \ {0} /\ MaxAttempts \in Nat
  /\ MaxFailures \in Nat /\ MaxConnections \in Nat \ {0}

VARIABLES
  conn, up,                      \* the connection, and is it stateTunnelUp
  nextKeyID, attempt, failures,  \* c.nextKeyID; calls of doRekey; failed in a row
  phase, rekey,                  \* doRekey's progress, and its epoch
  sessions,                      \* the relay's sessions: key_id to gen
  peerReset, resetAcked,         \* gens whose controlSession has it closed
  serverAuth,                    \* gens that have read the server's auth message
  sendQueue,                     \* per gen, the packets not acknowledged yet
  current, secondary, previous,  \* the Manager's channels
  timers, control,               \* promotion timers; the epoch of c.tlsConn
  toServer, toClient, srv        \* packets in flight; the server, by key_id

manager == <<current, secondary, previous>>
alloc   == <<nextKeyID, attempt, failures>>
doing   == <<phase, rekey>>
ctl     == <<sessions, peerReset, resetAcked, serverAuth, sendQueue>>
client  == <<conn, up, alloc, doing, manager, timers, control>>
vars    == <<client, ctl, toServer, toClient, srv>>

IDs    == 0 .. KeyIDs
Gens   == 0 .. MaxAttempts
None   == [id |-> 0, gen |-> -1]
First  == [id |-> 0, gen |-> 0]
Phases == {"idle", "allocated", "registered", "resetting", "tls", "acks"}

pkt(kind, id) == [kind |-> kind, id |-> id]

(* connectPhase2 for connection c: a new Manager around the first key, a    *)
(* relay that knows only the primary session, nextKeyID back at 1.          *)
NewConnection(c) ==
  /\ conn' = c /\ up' = TRUE
  /\ nextKeyID' = 1 /\ attempt' = 0 /\ failures' = 0
  /\ phase' = "idle" /\ rekey' = First
  /\ sessions' = [k \in IDs |-> IF k = 0 THEN 0 ELSE -1]
  /\ peerReset' = {} /\ resetAcked' = {} /\ serverAuth' = {}
  /\ sendQueue' = [g \in Gens |-> {}]
  /\ current' = First /\ secondary' = None /\ previous' = None
  /\ control' = [conn |-> c, epoch |-> First]
  /\ toServer' = {} /\ toClient' = {}
  /\ srv' = [k \in IDs |-> IF k = 0 THEN "done" ELSE "none"]

Init ==
  /\ conn = 1 /\ up = TRUE
  /\ nextKeyID = 1 /\ attempt = 0 /\ failures = 0
  /\ phase = "idle" /\ rekey = First
  /\ sessions = [k \in IDs |-> IF k = 0 THEN 0 ELSE -1]
  /\ peerReset = {} /\ resetAcked = {} /\ serverAuth = {}
  /\ sendQueue = [g \in Gens |-> {}]
  /\ current = First /\ secondary = None /\ previous = None
  /\ timers = {} /\ control = [conn |-> 1, epoch |-> First]
  /\ toServer = {} /\ toClient = {}
  /\ srv = [k \in IDs |-> IF k = 0 THEN "done" ELSE "none"]

-----------------------------------------------------------------------------
(* The key Manager. *)

(* The epochs it holds, and the one it picks for a packet: the first of     *)
(* current, secondary, previous that has the packet's key_id.               *)
Held == {current, secondary, previous} \ {None}

decryptChannel(id) ==
  IF current.id = id THEN current
  ELSE IF secondary # None /\ secondary.id = id THEN secondary
  ELSE IF previous # None /\ previous.id = id THEN previous
  ELSE None

(* No rekey while a key awaits promotion; otherwise the limits on time and  *)
(* bytes may be passed at any moment.                                       *)
NeedsRekey == secondary = None

(* Fault: the retired key survives into the new transition. *)
PrepareKeepsPrevious(next) ==
  secondary' = next /\ UNCHANGED <<current, previous>>

Prepare(next) ==
  secondary' = next /\ previous' = None /\ UNCHANGED current

(* Promote(keyID), when it returns true. *)
Promotes(id) == secondary # None /\ secondary.id = id

Promote ==
  previous' = current /\ current' = secondary /\ secondary' = None

-----------------------------------------------------------------------------
(* rekeyLoop and doRekey. *)

following(id) == IF id = KeyIDs THEN 1 ELSE id + 1

(* A tick finds NeedsRekey: doRekey takes the next key_id. *)
StartRekey ==
  /\ up /\ phase = "idle" /\ NeedsRekey /\ attempt < MaxAttempts
  /\ attempt' = attempt + 1 /\ nextKeyID' = following(nextKeyID)
  /\ rekey' = [id |-> nextKeyID, gen |-> attempt + 1]
  /\ phase' = "allocated"
  /\ toServer' = {m \in toServer : m.id # nextKeyID}
  /\ toClient' = {m \in toClient : m.id # nextKeyID}
  /\ srv' = [srv EXCEPT ![nextKeyID] = "none"]
  /\ UNCHANGED <<conn, up, failures, ctl, manager, timers, control>>

(* The relay takes the session from rekeySessionCh and closes registered. *)
Register ==
  /\ up /\ phase = "allocated"
  /\ sessions' = [sessions EXCEPT ![rekey.id] = rekey.gen]
  /\ phase' = "registered"
  /\ UNCHANGED <<conn, up, alloc, rekey, peerReset, resetAcked, serverAuth, sendQueue,
                 manager, timers, control, toServer, toClient, srv>>

SendReset ==
  /\ phase = "registered"
  /\ sendQueue' = [sendQueue EXCEPT ![rekey.gen] = {"reset"}]
  /\ toServer' = toServer \cup {pkt("reset", rekey.id)}
  /\ phase' = "resetting"
  /\ UNCHANGED <<conn, up, alloc, rekey, sessions, peerReset, resetAcked, serverAuth,
                 manager, timers, control, toClient, srv>>

(* Fault: no authentication in the new epoch. *)
StartTLSWithoutAuth ==
  /\ phase = "resetting"
  /\ rekey.gen \in peerReset /\ rekey.gen \in resetAcked
  /\ phase' = "acks"
  /\ UNCHANGED <<conn, up, alloc, rekey, ctl, manager, timers, control,
                 toServer, toClient, srv>>

(* waitForRekeyReset has both notifications; TLS and sendAuthPacket follow. *)
StartTLS ==
  /\ phase = "resetting"
  /\ rekey.gen \in peerReset /\ rekey.gen \in resetAcked
  /\ sendQueue' = [sendQueue EXCEPT ![rekey.gen] = @ \cup {"auth"}]
  /\ toServer' = toServer \cup {pkt("auth", rekey.id)}
  /\ phase' = "tls"
  /\ UNCHANGED <<conn, up, alloc, rekey, sessions, peerReset, resetAcked, serverAuth,
                 manager, timers, control, toClient, srv>>

(* consumeServerAuthPacket returns. *)
ReadServerAuth ==
  /\ phase = "tls" /\ rekey.gen \in serverAuth
  /\ phase' = "acks"
  /\ UNCHANGED <<conn, up, alloc, rekey, ctl, manager, timers, control,
                 toServer, toClient, srv>>

(* Fault: the timer is armed with the key_id of the next rekey. *)
FinishRekeyWrongTimer ==
  /\ phase = "acks" /\ sendQueue[rekey.gen] = {}
  /\ Prepare(rekey)
  /\ timers' = timers \cup {[conn |-> conn, epoch |-> [rekey EXCEPT !.id = nextKeyID]]}
  /\ failures' = 0 /\ phase' = "idle"
  /\ UNCHANGED <<conn, up, nextKeyID, attempt, rekey, ctl, control,
                 toServer, toClient, srv>>

(* waitForControlAcks returns: install the key, arm its timer. *)
FinishRekey ==
  /\ phase = "acks" /\ sendQueue[rekey.gen] = {}
  /\ Prepare(rekey)
  /\ timers' = timers \cup {[conn |-> conn, epoch |-> rekey]}
  /\ failures' = 0 /\ phase' = "idle"
  /\ UNCHANGED <<conn, up, nextKeyID, attempt, rekey, ctl, control,
                 toServer, toClient, srv>>

(* A deadline, a TLS error or the end of the connection: doRekey returns an *)
(* error and leaves its session with the relay.                             *)
FailRekey ==
  /\ phase # "idle" /\ (up => failures < MaxFailures)
  /\ failures' = (IF up THEN failures + 1 ELSE failures) /\ phase' = "idle"
  /\ UNCHANGED <<conn, up, nextKeyID, attempt, rekey, ctl, manager, timers, control,
                 toServer, toClient, srv>>

-----------------------------------------------------------------------------
(* The promotion timers; a timer holds the Manager of its own connection. *)

(* Does manager.Promote return true?  The Manager of an earlier connection  *)
(* still holds the key its timer is for.                                    *)
Promoted(t) == t.conn = conn => Promotes(t.epoch.id)

(* Fault: the handoff without the test that the Manager is still in use. *)
OwnsIfUp(t) == up

(* Is the timer's Manager still the Client's, in stateTunnelUp? *)
Owns(t) == t.conn = conn /\ up

PromoteSecondary(t) ==
  /\ t \in timers /\ timers' = timers \ {t}
  /\ IF t.conn = conn /\ Promoted(t) THEN Promote ELSE UNCHANGED manager
  /\ control' = (IF Owns(t) /\ Promoted(t) THEN t ELSE control)
  /\ UNCHANGED <<conn, up, alloc, doing, ctl, toServer, toClient, srv>>

(* The context of the timer's connection is done. *)
CancelTimer(t) ==
  /\ t \in timers /\ (t.conn # conn \/ ~up) /\ timers' = timers \ {t}
  /\ UNCHANGED <<conn, up, alloc, doing, ctl, manager, control, toServer, toClient, srv>>

(* The connection ends; teardown waits for rekeyLoop before a new one.      *)
Disconnect ==
  /\ up /\ up' = FALSE
  /\ UNCHANGED <<conn, alloc, doing, ctl, manager, timers, control, toServer, toClient, srv>>

Reconnect ==
  /\ ~up /\ phase = "idle" /\ conn < MaxConnections
  /\ NewConnection(conn + 1)
  /\ UNCHANGED timers

-----------------------------------------------------------------------------
(* The inbound relay, one action per opcode, and the retransmit goroutine.  *)
(* A packet for a key_id that no session has is dropped, after the ACK.     *)

receives(m) == up /\ m \in toClient /\ toClient' = toClient \ {m}

(* AckMany on the session of a packet, and the packet's effect on it. *)
acks(sess, acked) ==
  sendQueue' = IF sess = -1 THEN sendQueue ELSE [sendQueue EXCEPT ![sess] = @ \ acked]

(* The gens of sessions made by doRekey: the primary has nil channels. *)
notified(sess) == {sess} \cap (1 .. MaxAttempts)

(* Fault: the ACK a reset carries empties the queue but wakes nobody. *)
RecvSoftResetQuiet(m) ==
  /\ receives(m) /\ m.kind \in {"reset", "resetAck"}
  /\ toServer' = toServer \cup {pkt("ackReset", m.id)}
  /\ peerReset' = peerReset \cup notified(sessions[m.id])
  /\ acks(sessions[m.id], IF m.kind = "resetAck" THEN {"reset"} ELSE {})
  /\ UNCHANGED <<client, sessions, resetAcked, serverAuth, srv>>

RecvSoftReset(m) ==
  LET sess == sessions[m.id] acked == m.kind = "resetAck" IN
  /\ receives(m) /\ m.kind \in {"reset", "resetAck"}
  /\ toServer' = toServer \cup {pkt("ackReset", m.id)}
  /\ peerReset' = peerReset \cup notified(sess)
  /\ acks(sess, IF acked THEN {"reset"} ELSE {})
  /\ resetAcked' = resetAcked \cup (IF acked THEN notified(sess) ELSE {})
  /\ UNCHANGED <<client, sessions, serverAuth, srv>>

(* The piggybacked ACKs, then the payload, which the receive window holds   *)
(* back until the reset with packet ID 0 has passed.                        *)
RecvControlV1(m) ==
  LET sess == sessions[m.id] IN
  /\ receives(m) /\ m.kind = "auth"
  /\ toServer' = toServer \cup {pkt("ackAuth", m.id)}
  /\ acks(sess, {"auth"})
  /\ serverAuth' = serverAuth \cup (notified(sess) \cap peerReset)
  /\ UNCHANGED <<client, sessions, peerReset, resetAcked, srv>>

RecvAckV1(m) ==
  LET sess == sessions[m.id] IN
  /\ receives(m) /\ m.kind \in {"ack", "authAck"}
  /\ acks(sess, IF m.kind = "ack" THEN {"reset"} ELSE {"auth"})
  /\ resetAcked' = resetAcked \cup (IF m.kind = "ack" THEN notified(sess) ELSE {})
  /\ UNCHANGED <<client, sessions, peerReset, serverAuth, toServer, srv>>

(* Every registered session is served, those of failed rekeys included. *)
Retransmit(id) ==
  /\ up /\ sessions[id] # -1
  /\ \E kind \in sendQueue[sessions[id]] : toServer' = toServer \cup {pkt(kind, id)}
  /\ UNCHANGED <<client, ctl, toClient, srv>>

-----------------------------------------------------------------------------
(* The server, as doRekey's comments describe it (external): it answers a   *)
(* reset with its own, starts TLS once that is acknowledged, and activates  *)
(* the key when it has our auth message.                                    *)

answers(m, kinds) ==
  /\ toServer' = toServer \ {m}
  /\ toClient' = toClient \cup {pkt(k, m.id) : k \in kinds}

ServerReset(m) ==
  /\ m \in toServer /\ m.kind = "reset"
  /\ IF srv[m.id] = "none"
       THEN /\ srv' = [srv EXCEPT ![m.id] = "reset"]
            /\ \E kinds \in {{"resetAck"}, {"reset", "ack"}} : answers(m, kinds)
       ELSE answers(m, {"ack"}) /\ UNCHANGED srv
  /\ UNCHANGED <<client, ctl>>

ServerAck(m) ==
  /\ m \in toServer /\ m.kind \in {"ackReset", "ackAuth"}
  /\ srv' = [srv EXCEPT ![m.id] =
                IF @ = "reset" /\ m.kind = "ackReset" THEN "ready"
                ELSE IF @ = "active" /\ m.kind = "ackAuth" THEN "done" ELSE @]
  /\ answers(m, {})
  /\ UNCHANGED <<client, ctl>>

ServerAuth(m) ==
  /\ m \in toServer /\ m.kind = "auth" /\ srv[m.id] \notin {"none", "reset"}
  /\ IF srv[m.id] = "ready"
       THEN srv' = [srv EXCEPT ![m.id] = "active"] /\ answers(m, {"auth"})
       ELSE answers(m, {"authAck"}) /\ UNCHANGED srv
  /\ UNCHANGED <<client, ctl>>

ServerRetransmit(id) ==
  /\ srv[id] \in {"reset", "active"}
  /\ toClient' = toClient \cup {pkt(IF srv[id] = "reset" THEN "reset" ELSE "auth", id)}
  /\ UNCHANGED <<client, ctl, toServer, srv>>

Lose(m) ==
  /\ \/ m \in toServer /\ toServer' = toServer \ {m} /\ UNCHANGED toClient
     \/ m \in toClient /\ toClient' = toClient \ {m} /\ UNCHANGED toServer
  /\ UNCHANGED <<client, ctl, srv>>

-----------------------------------------------------------------------------
Relay(m)  == RecvSoftReset(m) \/ RecvControlV1(m) \/ RecvAckV1(m)
Server(m) == ServerReset(m) \/ ServerAck(m) \/ ServerAuth(m)

DoRekey == Register \/ SendReset \/ StartTLS \/ ReadServerAuth \/ FinishRekey

(* What happens on a link that loses nothing, and loss with its remedy. *)
Exchange ==
  \/ StartRekey \/ DoRekey \/ FailRekey
  \/ \E t \in timers : PromoteSecondary(t) \/ CancelTimer(t)
  \/ Disconnect \/ Reconnect
  \/ \E m \in toClient : Relay(m)
  \/ \E m \in toServer : Server(m)

Loss ==
  \/ \E id \in IDs : Retransmit(id) \/ ServerRetransmit(id)
  \/ \E m \in toServer \cup toClient : Lose(m)

Next == Exchange \/ Loss

Spec == Init /\ [][Next]_vars

Packets == [kind : {"reset", "resetAck", "ack", "auth", "authAck", "ackReset", "ackAuth"}, id : IDs]

(* doRekey's steps, the retransmit tickers and the timers happen; of the    *)
(* packets of the epoch being negotiated, each sort, sent again and again,  *)
(* gets through.  Nothing makes a rekey start or fail.                      *)
Current(packets) == {m \in packets : m.id = rekey.id}

Fairness ==
  /\ WF_vars(DoRekey)
  /\ WF_vars(Retransmit(rekey.id)) /\ WF_vars(ServerRetransmit(rekey.id))
  /\ SF_vars(\E m \in Current(toClient) : RecvSoftReset(m))
  /\ SF_vars(\E m \in Current(toClient) : RecvControlV1(m))
  /\ SF_vars(\E m \in Current(toClient) : RecvAckV1(m))
  /\ SF_vars(\E m \in Current(toServer) : ServerReset(m))
  /\ SF_vars(\E m \in Current(toServer) : ServerAck(m))
  /\ SF_vars(\E m \in Current(toServer) : ServerAuth(m))
  /\ WF_vars(\E t \in timers : PromoteSecondary(t))

FairSpec == Spec /\ Fairness

-----------------------------------------------------------------------------
(* A packet sent under any epoch the Manager holds is decrypted with that   *)
(* epoch's key: decryptChannel, which goes by key_id alone, never confuses  *)
(* the primary, the prepared and the retired key (Manager.Decrypt).         *)
SelectsRightEpoch == \A e \in Held : decryptChannel(e.id) = e

(* The keys under which an incoming packet is decrypted, and the promise    *)
(* about their change.                                                      *)
Accepted == {e.gen : e \in {k \in Held : decryptChannel(k.id) = k}}

Handover == INSTANCE KeyHandover
              WITH Keys <- Gens, connection <- conn, sending <- current.gen,
                   accepted <- Accepted

(* Keys change without a gap: the client sends under a new key only once it *)
(* accepts it, still accepts the one before, and never returns to an older  *)
(* key, whatever fails and however timers of several connections interleave *)
(* (Manager.Prepare and Promote, doRekey, scheduleRekeyPromotion).          *)
ImplementsKeyHandover == Handover!Spec

(* A key the Manager has prepared has a timer that will promote it.  Were   *)
(* it lost, NeedsRekey would be false for the rest of the connection and    *)
(* the old key would never be replaced (rekeyLoop, scheduleRekeyPromotion). *)
PreparedHasTimer ==
  up /\ secondary # None => [conn |-> conn, epoch |-> secondary] \in timers

(* The key the client encrypts with is one the server has activated: no     *)
(* promotion outruns the exchange of auth messages (doRekey).               *)
SendKeyActiveAtServer == srv[current.id] \in {"active", "done"}

(* The TLS session used for control messages belongs to the connection in   *)
(* place and the relay delivers to it: neither a timer of an earlier        *)
(* connection nor a later rekey takes its place (scheduleRekeyPromotion).   *)
ControlSessionReachable ==
  /\ control.conn = conn
  /\ sessions[control.epoch.id] = control.epoch.gen

(* A reset that has been sent leads to a promoted key unless the attempt    *)
(* fails or the connection ends: under packet loss the peers never end up   *)
(* waiting for one another (the barrier and the waits of doRekey).          *)
RekeyTakesEffect ==
  \A g \in 1 .. MaxAttempts :
    (phase = "resetting" /\ rekey.gen = g) ~> (current.gen = g \/ failures > 0 \/ ~up)

(* As Manager.Prepare says, "Both key IDs are accepted for decryption until *)
(* Promote": packets of the prepared epoch are decrypted with its key.      *)
BothKeyIDsAccepted ==
  secondary # None => decryptChannel(secondary.id) = secondary

=============================================================================
