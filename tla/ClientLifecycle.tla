--------------------------- MODULE ClientLifecycle ---------------------------
(***************************************************************************)
(* The life of a Client (client.go): Connect, the two-phase setup, the     *)
(* goroutines of a running tunnel, disconnect with its teardown goroutine, *)
(* and Reconnect with its cached SAML assertion.                           *)
(*                                                                         *)
(* Threads: the owner, who calls Connect, waits on Done and reconnects the *)
(* way cmd/cli does; an optional second caller of Disconnect (the mobile   *)
(* bindings and the relay agent have one); the wg-counted goroutines of    *)
(* the tunnel; and the goroutines that disconnect starts to finish a       *)
(* teardown.  Every section under c.mu is one step.                        *)
(*                                                                         *)
(* A SAML assertion is a number: the n-th login yields assertion n.        *)
(***************************************************************************)
EXTENDS Integers, FiniteSets

CONSTANTS
  Monitors,          \* session monitors: one per TLS key epoch
  SSO,               \* does the profile use the SAML flow
  PingExit,          \* does a keepalive timeout end the session (ping-exit)
  MaxReconnects,     \* Client.MaxReconnects; a bound here
  MaxLogins,         \* bound: calls of Connect
  MaxDisconnects,    \* bound: calls of Disconnect by the second caller
  DisconnectAt       \* where the owner may be when the second caller disconnects

NoToken == 0
Tokens  == 1 .. MaxLogins

(* tunToWire, keepaliveLoop and inactiveLoop can end a session, and so can  *)
(* each session monitor; "pump" stands for the goroutines that only wait    *)
(* for the context (wireToTun, rekeyLoop, resourceMonitor).                 *)
Workers == {"tunToWire", "keepaliveLoop", "inactiveLoop", "pump"} \cup Monitors

ASSUME LifecycleAssumption ==
  /\ SSO \in BOOLEAN /\ PingExit \in BOOLEAN
  /\ MaxReconnects \in Nat \ {0} /\ MaxLogins \in Nat /\ MaxDisconnects \in Nat

States == {"New", "Connecting", "TunnelUp", "Disconnecting", "Disconnected"}
Errors == {"nil", "expired", "timeout", "pingexit", "link", "cancelled", "setup"}
OwnerPCs == {"idle", "dial1", "phase1", "saml", "phase2", "cache", "dial2", "exchange2",
             "tun", "mark", "start", "up", "closing", "leaving",
             "reconnect", "rcClosing", "rcWait", "rcReset",
             "reauth", "reauthClosing", "reauthWait", "gone"}
Slots == {1, 2}      \* teardown goroutines that may be alive at once

VARIABLES
  \* fields of Client
  state, challenge, cached, clearCredentialsOnCleanup, reauthRequired,
  doneErr, done, rawConn, tunDev, ctx,
  \* threads
  owner, token, attempt, worker, user, teardown, panicked,
  \* history
  logins, disconnects, rejected, explicit, reauthEvents

fields  == <<state, challenge, cached, clearCredentialsOnCleanup, reauthRequired,
             doneErr, done, rawConn, tunDev, ctx>>
history == <<logins, disconnects, rejected, explicit, reauthEvents>>
vars    == <<fields, owner, token, attempt, worker, user, teardown, panicked, history>>

Init ==
  /\ state = "New" /\ challenge = "none" /\ cached = NoToken
  /\ clearCredentialsOnCleanup = FALSE /\ reauthRequired = FALSE
  /\ doneErr = "nil" /\ done = FALSE
  /\ rawConn = "none" /\ tunDev = FALSE /\ ctx = "none"
  /\ owner = "idle" /\ token = NoToken /\ attempt = 0
  /\ worker = [w \in Workers |-> "off"]
  /\ user = "idle" /\ teardown = [s \in Slots |-> "none"] /\ panicked = FALSE
  /\ logins = 0 /\ disconnects = 0 /\ rejected = {} /\ explicit = FALSE
  /\ reauthEvents = 0

-----------------------------------------------------------------------------
(* Pieces of the Client's methods. *)

clearCredentialsLocked == cached' = NoToken /\ challenge' = "none"

keepCredentials == UNCHANGED <<cached, challenge>>

(* Fault: the last error is kept. *)
lastError(err) == doneErr' = err

firstError(err) == doneErr' = IF doneErr = "nil" THEN err ELSE doneErr

(* setDisconnected: how a failed setup ends. *)
setDisconnected ==
  IF state = "Disconnected"
  THEN keepCredentials /\ UNCHANGED <<state, doneErr, done>>
  ELSE /\ state' = "Disconnected"
       /\ firstError("setup")
       /\ clearCredentialsLocked
       /\ done' = TRUE

(* Fault: a teardown under way does not stop a second one. *)
ClosingDown == state = "Disconnected"

(* The part of disconnect under c.mu: only the call that finds the client   *)
(* neither Disconnecting nor Disconnected goes on to disconnectRest.        *)
Closing == state \in {"Disconnecting", "Disconnected"}

(* Fault: the flag is set only by the call that starts the teardown. *)
disconnectLockedLate(preserve) ==
  IF Closing
  THEN /\ IF state = "Disconnected" /\ ~preserve THEN clearCredentialsLocked
                                                 ELSE keepCredentials
       /\ UNCHANGED <<state, clearCredentialsOnCleanup>>
  ELSE /\ state' = "Disconnecting" /\ keepCredentials
       /\ clearCredentialsOnCleanup' = (clearCredentialsOnCleanup \/ ~preserve)

disconnectLocked(preserve) ==
  /\ clearCredentialsOnCleanup' = (clearCredentialsOnCleanup \/ ~preserve)
  /\ IF Closing
     THEN /\ IF state = "Disconnected" /\ ~preserve THEN clearCredentialsLocked
                                                    ELSE keepCredentials
          /\ UNCHANGED state
     ELSE state' = "Disconnecting" /\ keepCredentials

(* The rest of disconnect: cancel, close, start the teardown goroutine. *)
disconnectRest ==
  /\ ctx' = IF ctx = "live" THEN "cancelled" ELSE ctx
  /\ rawConn' = IF rawConn = "open" THEN "closed" ELSE rawConn
  /\ \E s \in Slots : /\ teardown[s] = "none"
                      /\ teardown' = [teardown EXCEPT ![s] = "wait"]

(* reset: back to stateNew; cached credentials and reauthRequired survive. *)
reset ==
  /\ state' = "New" /\ challenge' = "none"
  /\ rawConn' = "none" /\ tunDev' = FALSE /\ ctx' = "none"
  /\ doneErr' = "nil" /\ done' = FALSE
  /\ clearCredentialsOnCleanup' = FALSE

-----------------------------------------------------------------------------
(* Connect and the two setup phases (owner). *)

threads == <<worker, user, teardown, panicked>>

(* Connect up to connectPhase1's state check. *)
Connect ==
  /\ owner = "idle" /\ logins < MaxLogins
  /\ logins' = logins + 1
  /\ reauthRequired' = FALSE /\ explicit' = FALSE /\ reauthEvents' = 0
  /\ attempt' = 0 /\ token' = NoToken
  /\ IF state = "New" THEN state' = "Connecting" /\ owner' = "dial1"
                       ELSE UNCHANGED state /\ owner' = "gone"
  /\ UNCHANGED <<challenge, cached, clearCredentialsOnCleanup, doneErr, done,
                 rawConn, tunDev, ctx, threads, disconnects, rejected>>

Dial1 ==
  /\ owner = "dial1" /\ owner' = "phase1"
  /\ rawConn' = "open"
  /\ UNCHANGED <<state, challenge, cached, clearCredentialsOnCleanup, reauthRequired,
                 doneErr, done, tunDev, ctx, token, attempt, threads, history>>

(* Dialling, the reset exchange, TLS or authentication fails: the           *)
(* connection is closed and the client is disconnected.                     *)
SetupFails ==
  /\ owner \in {"dial1", "phase1", "dial2", "exchange2", "tun"}
  /\ setDisconnected
  /\ rawConn' = IF rawConn = "open" /\ owner # "dial1" THEN "closed" ELSE rawConn
  /\ owner' = IF attempt > 0 THEN "reconnect" ELSE "gone"
  /\ UNCHANGED <<clearCredentialsOnCleanup, reauthRequired, tunDev, ctx, token, attempt,
                 threads, history>>

(* The server asks for SAML.  Without an SSO profile Connect just returns   *)
(* an error.  What has reached the TLS transport is read even when the      *)
(* socket has been closed meanwhile, here and in Exchange2.                 *)
Phase1Challenge ==
  /\ owner = "phase1"
  /\ challenge' = "crv1"
  /\ owner' = IF SSO THEN "saml" ELSE "gone"
  /\ UNCHANGED <<state, cached, clearCredentialsOnCleanup, reauthRequired, doneErr,
                 done, rawConn, tunDev, ctx, token, attempt, threads, history>>

(* The server answers with PUSH_REPLY at once. *)
Phase1Direct ==
  /\ owner = "phase1"
  /\ challenge' = "direct" /\ owner' = "phase2"
  /\ UNCHANGED <<state, cached, clearCredentialsOnCleanup, reauthRequired, doneErr,
                 done, rawConn, tunDev, ctx, token, attempt, threads, history>>

(* SAMLTokenFn returns an assertion, or fails and Connect with it. *)
CollectToken ==
  /\ owner = "saml"
  /\ \/ owner' = "phase2" /\ token' = logins
     \/ owner' = "gone" /\ UNCHANGED token
  /\ UNCHANGED <<fields, attempt, threads, history>>

(* connectPhase2: the entry checks. *)
Phase2Start ==
  /\ owner = "phase2"
  /\ owner' = IF state = "Connecting" /\ challenge # "none" THEN "cache"
              ELSE IF attempt > 0 THEN "reconnect" ELSE "gone"
  /\ UNCHANGED <<fields, token, attempt, threads, history>>

(* The assertion is cached.  Without one, Phase 1 was answered directly and *)
(* its connection is used.                                                  *)
Phase2Caches ==
  /\ owner = "cache"
  /\ cached' = token
  /\ owner' = IF token = NoToken THEN "exchange2" ELSE "dial2"
  /\ UNCHANGED <<state, challenge, clearCredentialsOnCleanup, reauthRequired, doneErr,
                 done, rawConn, tunDev, ctx, token, attempt, threads, history>>

(* The Phase 1 connection is replaced by a new one. *)
Dial2 ==
  /\ owner = "dial2" /\ owner' = "exchange2"
  /\ rawConn' = "open"
  /\ UNCHANGED <<state, challenge, cached, clearCredentialsOnCleanup, reauthRequired,
                 doneErr, done, tunDev, ctx, token, attempt, threads, history>>

Exchange2 ==
  /\ owner = "exchange2"
  /\ owner' = "tun"
  /\ UNCHANGED <<fields, token, attempt, threads, history>>

(* Fault: a rejection is retried like any other failure of Reconnect. *)
Exchange2RejectedRetries ==
  /\ owner = "exchange2" /\ token # NoToken
  /\ rejected' = rejected \cup {token}
  /\ setDisconnected
  /\ rawConn' = "closed"
  /\ owner' = IF attempt > 0 THEN "reconnect" ELSE "gone"
  /\ UNCHANGED <<clearCredentialsOnCleanup, reauthRequired, tunDev, ctx, token, attempt,
                 threads, logins, disconnects, explicit, reauthEvents>>

(* The server rejects the assertion: in Reconnect a new login is needed.    *)
Exchange2Rejected ==
  /\ owner = "exchange2" /\ token # NoToken
  /\ rejected' = rejected \cup {token}
  /\ setDisconnected
  /\ rawConn' = "closed"
  /\ owner' = IF attempt > 0 THEN "reauth" ELSE "gone"
  /\ UNCHANGED <<clearCredentialsOnCleanup, reauthRequired, tunDev, ctx, token, attempt, threads,
                 logins, disconnects, explicit, reauthEvents>>

OpenTun ==
  /\ owner = "tun" /\ owner' = "mark"
  /\ tunDev' = TRUE
  /\ UNCHANGED <<state, challenge, cached, clearCredentialsOnCleanup, reauthRequired,
                 doneErr, done, rawConn, ctx, token, attempt, threads, history>>

(* The state is set without looking at it. *)
MarkUp ==
  /\ owner = "mark" /\ owner' = "start"
  /\ state' = "TunnelUp"
  /\ UNCHANGED <<challenge, cached, clearCredentialsOnCleanup, reauthRequired, doneErr,
                 done, rawConn, tunDev, ctx, token, attempt, threads, history>>

StartWorkers ==
  /\ owner = "start" /\ owner' = "up"
  /\ ctx' = "live"
  /\ worker' = [w \in Workers |-> "run"]
  /\ attempt' = 0
  /\ UNCHANGED <<state, challenge, cached, clearCredentialsOnCleanup, reauthRequired,
                 doneErr, done, rawConn, tunDev, token, user, teardown, panicked, history>>

-----------------------------------------------------------------------------
(* The owner while the tunnel is up, and Reconnect. *)

(* The owner is told to stop: Disconnect, then WaitForDisconnect. *)
OwnerDisconnects ==
  /\ owner = "up"
  /\ explicit' = TRUE
  /\ disconnectLocked(FALSE)
  /\ owner' = IF Closing THEN "leaving" ELSE "closing"
  /\ UNCHANGED <<reauthRequired, doneErr, done, rawConn, tunDev, ctx, token, attempt,
                 threads, logins, disconnects, rejected, reauthEvents>>

(* disconnect(...) called by the owner continues outside the lock. *)
OwnerCloses ==
  /\ owner \in {"closing", "rcClosing", "reauthClosing"}
  /\ disconnectRest
  /\ owner' = CASE owner = "closing" -> "leaving"
                 [] owner = "rcClosing" -> "rcWait"
                 [] owner = "reauthClosing" -> "reauthWait"
  /\ UNCHANGED <<state, challenge, cached, clearCredentialsOnCleanup, reauthRequired,
                 doneErr, done, tunDev, token, attempt, worker, user, panicked, history>>

OwnerLeaves ==
  /\ owner = "leaving" /\ done
  /\ owner' = "gone"
  /\ UNCHANGED <<fields, token, attempt, threads, history>>

(* Done is closed without the owner's doing: leave after a clean disconnect *)
(* or a ping-exit, otherwise Reconnect.                                     *)
OwnerSeesDone ==
  /\ owner = "up" /\ done /\ doneErr \in {"nil", "pingexit"}
  /\ owner' = "gone"
  /\ UNCHANGED <<fields, token, attempt, threads, history>>

(* Reconnect up to its loop: the credentials are copied under c.mu, unless  *)
(* a new login is needed, in which case they are cleared.                   *)
Reconnect ==
  /\ owner = "up" /\ done /\ doneErr \notin {"nil", "pingexit"}
  /\ IF reauthRequired \/ doneErr = "expired"
     THEN clearCredentialsLocked /\ token' = NoToken /\ owner' = "reauth"
     ELSE keepCredentials /\ token' = cached /\ owner' = "reconnect"
  /\ UNCHANGED <<state, clearCredentialsOnCleanup, reauthRequired, doneErr, done, rawConn,
                 tunDev, ctx, attempt, threads, history>>

(* How Reconnect ends when a new login is needed: disconnect(false), a wait *)
(* and a reset.                                                             *)
Reauth ==
  /\ owner = "reauth"
  /\ disconnectLocked(FALSE)
  /\ owner' = IF Closing THEN "reauthWait" ELSE "reauthClosing"
  /\ UNCHANGED <<reauthRequired, doneErr, done, rawConn, tunDev, ctx, token, attempt,
                 threads, history>>

(* One round of the loop, up to WaitForDisconnect. *)
ReconnectRound ==
  /\ owner = "reconnect" /\ attempt < MaxReconnects
  /\ attempt' = attempt + 1
  /\ disconnectLocked(TRUE)
  /\ owner' = IF Closing THEN "rcWait" ELSE "rcClosing"
  /\ UNCHANGED <<reauthRequired, doneErr, done, rawConn, tunDev, ctx, token, threads, history>>

(* The attempts are used up, or the context ended during the backoff. *)
ReconnectGivesUp ==
  /\ owner = "reconnect" /\ attempt > 0
  /\ owner' = "gone"
  /\ UNCHANGED <<fields, token, attempt, threads, history>>

(* The connection is down: back to stateNew. *)
ReconnectResets ==
  /\ owner \in {"rcWait", "reauthWait"} /\ done
  /\ reset
  /\ owner' = IF owner = "rcWait" THEN "rcReset" ELSE "idle"
  /\ UNCHANGED <<cached, reauthRequired, token, attempt, threads, history>>

(* With a copied assertion that has time left the second phase is tried     *)
(* again; otherwise, or when it has run out, a new login is required.       *)
ReconnectReuses ==
  /\ owner = "rcReset" /\ token # NoToken
  /\ state' = "Connecting" /\ challenge' = "crv1"
  /\ owner' = "phase2"
  /\ UNCHANGED <<cached, clearCredentialsOnCleanup, reauthRequired, doneErr, done,
                 rawConn, tunDev, ctx, token, attempt, threads, history>>

ReconnectNeedsLogin ==
  /\ owner = "rcReset" /\ owner' = "idle"
  /\ UNCHANGED <<fields, token, attempt, threads, history>>

-----------------------------------------------------------------------------
(* The goroutines of a running tunnel. *)

rest == <<owner, token, attempt, user, panicked>>

(* What ends a session: a dead link, no traffic, a write error, a failed    *)
(* control channel.  A goroutine that reads a closed socket or a cancelled  *)
(* context may still take this path instead of the quiet one.               *)
failure(w) ==
  CASE w = "keepaliveLoop" -> IF PingExit THEN "pingexit" ELSE "timeout"
    [] w = "inactiveLoop"  -> "timeout"
    [] w = "tunToWire"     -> "link"
    [] OTHER -> IF ctx = "cancelled" THEN "cancelled" ELSE "link"

WorkerFails(w) ==
  /\ worker[w] = "run" /\ w # "pump"
  /\ firstError(failure(w))
  /\ worker' = [worker EXCEPT ![w] = "failed"]
  /\ UNCHANGED <<state, challenge, cached, clearCredentialsOnCleanup, reauthRequired,
                 done, rawConn, tunDev, ctx, teardown, rest, history>>

(* Fault: every monitor that sees the rejection reports it. *)
SessionExpiresRepeated(m) ==
  /\ worker[m] = "run"
  /\ reauthRequired' = TRUE
  /\ reauthEvents' = reauthEvents + 1
  /\ rejected' = rejected \cup (IF token = NoToken THEN {} ELSE {token})
  /\ clearCredentialsLocked
  /\ firstError("expired")
  /\ worker' = [worker EXCEPT ![m] = "failed"]
  /\ UNCHANGED <<state, clearCredentialsOnCleanup, done, rawConn, tunDev, ctx, teardown,
                 rest, logins, disconnects, explicit>>

(* sessionMonitorFor reads AUTH_FAILED: the assertion is consumed. *)
SessionExpires(m) ==
  /\ worker[m] = "run"
  /\ reauthRequired' = TRUE
  /\ reauthEvents' = IF reauthRequired THEN reauthEvents ELSE reauthEvents + 1
  /\ rejected' = rejected \cup (IF token = NoToken THEN {} ELSE {token})
  /\ clearCredentialsLocked
  /\ firstError("expired")
  /\ worker' = [worker EXCEPT ![m] = "failed"]
  /\ UNCHANGED <<state, clearCredentialsOnCleanup, done, rawConn, tunDev, ctx, teardown,
                 rest, logins, disconnects, explicit>>

(* Only a ping-exit gives up the credentials. *)
preserves(w) == ~(w = "keepaliveLoop" /\ PingExit)

WorkerDisconnects(w) ==
  /\ worker[w] = "failed"
  /\ disconnectLocked(preserves(w))
  /\ worker' = [worker EXCEPT ![w] = IF Closing THEN "off" ELSE "closing"]
  /\ UNCHANGED <<reauthRequired, doneErr, done, rawConn, tunDev, ctx, teardown, rest, history>>

WorkerCloses(w) ==
  /\ worker[w] = "closing"
  /\ disconnectRest
  /\ worker' = [worker EXCEPT ![w] = "off"]
  /\ UNCHANGED <<state, challenge, cached, clearCredentialsOnCleanup, reauthRequired,
                 doneErr, done, tunDev, rest, history>>

(* Fault: one goroutine does not notice that the context is cancelled. *)
WorkerStopsUnlessPump(w) ==
  /\ worker[w] = "run" /\ w # "pump"
  /\ ctx = "cancelled" \/ w \in Monitors \cup {"tunToWire"}
  /\ worker' = [worker EXCEPT ![w] = "off"]
  /\ UNCHANGED <<fields, teardown, rest, history>>

(* The quiet way out: the context is cancelled, a monitor reads EOF or      *)
(* tunToWire cannot read the TUN device, which does not end the session.    *)
WorkerStops(w) ==
  /\ worker[w] = "run"
  /\ ctx = "cancelled" \/ w \in Monitors \cup {"tunToWire"}
  /\ worker' = [worker EXCEPT ![w] = "off"]
  /\ UNCHANGED <<fields, teardown, rest, history>>

-----------------------------------------------------------------------------
(* The teardown goroutine that disconnect starts. *)

AllStopped == \A w \in Workers : worker[w] = "off"

(* Fault: cleanup does not wait for the goroutines. *)
CleanupEarly(s) ==
  /\ teardown[s] = "wait"
  /\ tunDev' = FALSE
  /\ teardown' = [teardown EXCEPT ![s] = "cleaned"]
  /\ UNCHANGED <<state, challenge, cached, clearCredentialsOnCleanup, reauthRequired,
                 doneErr, done, rawConn, ctx, worker, rest, history>>

(* wg.Wait, then cleanup. *)
Cleanup(s) ==
  /\ teardown[s] = "wait" /\ AllStopped
  /\ tunDev' = FALSE
  /\ teardown' = [teardown EXCEPT ![s] = "cleaned"]
  /\ UNCHANGED <<state, challenge, cached, clearCredentialsOnCleanup, reauthRequired,
                 doneErr, done, rawConn, ctx, worker, rest, history>>

(* Fault: every teardown clears the credentials. *)
FinishTeardownClears(s) ==
  /\ teardown[s] = "cleaned"
  /\ clearCredentialsLocked
  /\ state' = "Disconnected"
  /\ teardown' = [teardown EXCEPT ![s] = "finished"]
  /\ UNCHANGED <<clearCredentialsOnCleanup, reauthRequired, doneErr, done, rawConn,
                 tunDev, ctx, worker, rest, history>>

FinishTeardown(s) ==
  /\ teardown[s] = "cleaned"
  /\ IF clearCredentialsOnCleanup THEN clearCredentialsLocked ELSE keepCredentials
  /\ state' = "Disconnected"
  /\ teardown' = [teardown EXCEPT ![s] = "finished"]
  /\ UNCHANGED <<clearCredentialsOnCleanup, reauthRequired, doneErr, done, rawConn,
                 tunDev, ctx, worker, rest, history>>

(* close(c.doneCh) is not guarded: closing it twice is a run-time panic. *)
CloseDone(s) ==
  /\ teardown[s] = "finished"
  /\ done' = TRUE /\ panicked' = (panicked \/ done)
  /\ teardown' = [teardown EXCEPT ![s] = "none"]
  /\ UNCHANGED <<state, challenge, cached, clearCredentialsOnCleanup, reauthRequired,
                 doneErr, rawConn, tunDev, ctx, worker, owner, token, attempt, user, history>>

-----------------------------------------------------------------------------
(* A second thread calls Disconnect. *)

UserDisconnects ==
  /\ user = "idle" /\ disconnects < MaxDisconnects /\ owner \in DisconnectAt
  /\ disconnects' = disconnects + 1
  /\ explicit' = TRUE
  /\ disconnectLocked(FALSE)
  /\ user' = IF Closing THEN "idle" ELSE "closing"
  /\ UNCHANGED <<reauthRequired, doneErr, done, rawConn, tunDev, ctx, owner, token, attempt,
                 worker, teardown, panicked, logins, rejected, reauthEvents>>

UserCloses ==
  /\ user = "closing" /\ user' = "idle"
  /\ disconnectRest
  /\ UNCHANGED <<state, challenge, cached, clearCredentialsOnCleanup, reauthRequired, doneErr,
                 done, tunDev, owner, token, attempt, worker, panicked, history>>

-----------------------------------------------------------------------------
Owner ==
  \/ Connect \/ Dial1 \/ SetupFails \/ Phase1Challenge \/ Phase1Direct \/ CollectToken
  \/ Phase2Start \/ Phase2Caches \/ Dial2 \/ Exchange2 \/ Exchange2Rejected \/ OpenTun \/ MarkUp
  \/ StartWorkers \/ OwnerDisconnects \/ OwnerCloses \/ OwnerLeaves \/ OwnerSeesDone
  \/ Reconnect \/ Reauth \/ ReconnectRound \/ ReconnectGivesUp \/ ReconnectResets
  \/ ReconnectReuses \/ ReconnectNeedsLogin

Worker(w) ==
  WorkerFails(w) \/ WorkerDisconnects(w) \/ WorkerCloses(w) \/ WorkerStops(w)

Teardown(s) == Cleanup(s) \/ FinishTeardown(s) \/ CloseDone(s)

Next ==
  \/ Owner
  \/ \E w \in Workers : Worker(w)
  \/ \E m \in Monitors : SessionExpires(m)
  \/ \E s \in Slots : Teardown(s)
  \/ UserDisconnects \/ UserCloses

Spec == Init /\ [][Next]_vars

(* The steps that are owed: of a disconnect that a goroutine is in, of the  *)
(* return of the ones whose context is cancelled, and of the teardown.      *)
Owed ==
  \/ OwnerCloses \/ OwnerLeaves \/ UserCloses
  \/ \E w \in Workers :
       WorkerDisconnects(w) \/ WorkerCloses(w) \/ (ctx = "cancelled" /\ WorkerStops(w))
  \/ \E s \in Slots : Teardown(s)

(* The scheduler does not stop: while a step is owed, one of them is taken  *)
(* in the end.  Connections, failures and calls are not owed.               *)
FairSpec == Spec /\ WF_vars(Owed)

-----------------------------------------------------------------------------
(* Type invariant. *)
TypeOK ==
  /\ state \in States /\ challenge \in {"none", "direct", "crv1"}
  /\ cached \in {NoToken} \cup Tokens /\ token \in {NoToken} \cup Tokens
  /\ clearCredentialsOnCleanup \in BOOLEAN /\ reauthRequired \in BOOLEAN
  /\ doneErr \in Errors /\ done \in BOOLEAN
  /\ rawConn \in {"none", "open", "closed"} /\ tunDev \in BOOLEAN
  /\ ctx \in {"none", "live", "cancelled"}
  /\ owner \in OwnerPCs /\ attempt \in 0 .. MaxReconnects
  /\ worker \in [Workers -> {"off", "run", "failed", "closing"}]
  /\ user \in {"idle", "closing"}
  /\ teardown \in [Slots -> {"none", "wait", "cleaned", "finished"}]
  /\ panicked \in BOOLEAN
  /\ logins \in 0 .. MaxLogins /\ disconnects \in 0 .. MaxDisconnects
  /\ rejected \subseteq Tokens /\ explicit \in BOOLEAN
  /\ reauthEvents \in Nat

(* doneCh is closed at most once per connection: the unguarded close at the *)
(* end of disconnect never meets a channel that setDisconnected or another  *)
(* teardown has closed (client.go:986; TestDisconnectIdempotent).           *)
DoneClosedOnce == ~panicked

(* When Done is closed the session is really over: every goroutine of the   *)
(* tunnel has left, the TUN device is gone and the socket closed            *)
(* (client.go:992, "blocks until the client is fully disconnected").        *)
DoneMeansDown == done => AllStopped /\ ~tunDev /\ rawConn # "open"

(* State, Done and Err show a connection as Connection has it: its phases   *)
(* come in order, nothing of the tunnel is left when Done is closed, and    *)
(* Err is the first error recorded before that, the ones of goroutines that *)
(* are still at work during a Disconnect included, until the next reset.    *)
(* (That a clean Disconnect ends with nil is CleanDisconnectIsNil.)         *)
Phase ==
  CASE done -> "down"
    [] ~done /\ state = "New" -> "idle"
    [] ~done /\ state = "Connecting" -> "connecting"
    [] ~done /\ state = "TunnelUp" -> "up"
    [] ~done /\ state \in {"Disconnecting", "Disconnected"} -> "closing"

Tunnel == ~AllStopped \/ tunDev \/ rawConn = "open"

Abstract == INSTANCE Connection WITH phase <- Phase, tunnel <- Tunnel, err <- doneErr

ImplementsConnection == Abstract!Spec

(* After a Disconnect of a session without an error, WaitForDisconnect      *)
(* returns nil (client.go:992-993, "returns the disconnect reason (nil for  *)
(* a clean Disconnect call)"; client_mobile.go:188-189).                    *)
CleanDisconnectIsNil ==
  (owner = "leaving" /\ doneErr = "nil") ~> (owner = "gone" /\ doneErr = "nil")

(* An explicit Disconnect leaves no credentials behind, even when it loses  *)
(* the race against a goroutine that tears down with credentials preserved  *)
(* (client.go:949-957; docs/security-architecture.md:309).                  *)
ExplicitDisconnectClears == explicit /\ state = "Disconnected" => cached = NoToken

(* A transient failure keeps the assertion of the session for Reconnect     *)
(* (client.go:949-950), unless it expired or a ping-exit gave it up.        *)
TransientFailureKeeps ==
  (owner = "up" /\ state = "Disconnected" /\ ~clearCredentialsOnCleanup /\ ~reauthRequired)
    => cached = token

(* An assertion the server has rejected, in Phase 2 or in the middle of a   *)
(* session, is never submitted again (client.go:2790-2792, 1109-1111).      *)
RejectedNotResubmitted == owner = "exchange2" => token \notin rejected

(* However many session monitors see the rejection, the application is      *)
(* asked to log in once per session (client.go:2787, 2798).                 *)
OneReauthEvent == reauthEvents <= 1

(* A teardown that has begun ends with Done closed: the goroutine that      *)
(* waits for the others never waits for one that waits for it.              *)
DisconnectCompletes == (state = "Disconnecting") ~> done

=============================================================================
