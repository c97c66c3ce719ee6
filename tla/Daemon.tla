------------------------------- MODULE Daemon -------------------------------
(***************************************************************************)
(* The D-Bus daemon of cmd/daemon/service.go, with the SAML callback       *)
(* server of auth/saml/saml.go.                                            *)
(*                                                                         *)
(* A login is one call of Connect (kind "direct") or ConnectRelay (kind    *)
(* "relay").  Its threads: the goroutine the call starts (gor[l]); the     *)
(* thread of client.Connect (con[l]), which for a direct login is that     *)
(* same goroutine, and which stands for the tunnel once it is up; and the  *)
(* goroutine that closes the callback server (port).  Each Disconnect call *)
(* is a thread of its own (Calls).  A state event of the client goes       *)
(* through EventFn in two steps: it passes the suppress test and waits in  *)
(* ev[l], then d.state is set and the signal sent; the client's thread     *)
(* waits meanwhile.                                                        *)
(*                                                                         *)
(* The goroutine of a relay login is parked in its select long before any  *)
(* of the three cases can be ready: the first event decides the case.      *)
(*                                                                         *)
(* The VPN client and the relay's HTTP API are external: a login or a call *)
(* may fail at any point.  A context only stops a client that has still to *)
(* dial or is waiting for the SAML token, as in client.go.                 *)
(***************************************************************************)
EXTENDS Naturals, FiniteSets

CONSTANTS MaxLogins,   \* bound: Connect and ConnectRelay calls that are accepted
          Calls        \* Disconnect calls that may overlap

ASSUME MaxLoginsAssumption == MaxLogins \in Nat \ {0}

Logins == 1..MaxLogins

VARIABLES client,        \* d.client (and d.cancel): the login, 0 for nil
          state,         \* d.state
          relaySession,  \* d.relaySessionID: the login it came from, 0 for ""
          kind,          \* kind[l]: "none", "direct", "relay"
          cancelled,     \* the context of l
          suppress,      \* suppressVpnSignals of l
          gor, con, ev,
          port,          \* the login whose callback server holds the port, 0
          call,          \* the Disconnect calls
          \* history
          delivering,    \* relay_delivering has been signalled for l
          released       \* how often l's session was released

shared == <<client, state, relaySession>>
login == <<kind, cancelled, suppress>>
history == <<delivering, released>>
vars == <<shared, login, gor, con, ev, port, call, history>>

NoCall == [pc |-> "idle", cancel |-> 0, session |-> 0]

Init ==
    /\ client = 0 /\ state = "idle" /\ relaySession = 0
    /\ kind = [l \in Logins |-> "none"]
    /\ cancelled = [l \in Logins |-> FALSE]
    /\ suppress = [l \in Logins |-> FALSE]
    /\ gor = [l \in Logins |-> "none"]
    /\ con = [l \in Logins |-> "none"]
    /\ ev = [l \in Logins |-> "none"]
    /\ port = 0
    /\ call = [x \in Calls |-> NoCall]
    /\ delivering = [l \in Logins |-> FALSE]
    /\ released = [l \in Logins |-> 0]

-----------------------------------------------------------------------------
(* Connect and ConnectRelay.                                               *)

\* Fault: no Busy answer.
startNotBusy(l) == kind[l] = "none" /\ \A m \in 1..(l - 1) : kind[m] # "none"

\* Both calls are refused with Busy while d.client is set.
start(l) ==
    /\ client = 0
    /\ kind[l] = "none" /\ \A m \in 1..(l - 1) : kind[m] # "none"

Connect(l) ==
    /\ start(l)
    /\ client' = l
    /\ kind' = [kind EXCEPT ![l] = "direct"]
    /\ gor' = [gor EXCEPT ![l] = "connect"]
    /\ con' = [con EXCEPT ![l] = "dial"]
    /\ ev' = [ev EXCEPT ![l] = "connecting"]
    /\ UNCHANGED <<state, relaySession, cancelled, suppress, port, call, history>>

ConnectRelay(l) ==
    /\ start(l)
    /\ client' = l
    /\ kind' = [kind EXCEPT ![l] = "relay"]
    /\ gor' = [gor EXCEPT ![l] = "reserve"]
    /\ UNCHANGED <<state, relaySession, cancelled, suppress, con, ev, port, call, history>>

-----------------------------------------------------------------------------
(* The client's thread: client.Connect, then the tunnel.                   *)

Running(l) == ev[l] = "none"

\* The client raises a state event: it passes EventFn's suppress test or not.
raise(l, s) == ev' = [ev EXCEPT ![l] = IF suppress[l] THEN "none" ELSE s]

\* The rest of EventFn.
event(l) ==
    /\ ev[l] # "none"
    /\ state' = ev[l]
    /\ ev' = [ev EXCEPT ![l] = "none"]
    /\ UNCHANGED <<client, relaySession, login, gor, con, port, call, history>>

\* client.Connect returns; a relay goroutine still in its select sees it.
returned(l) ==
    gor' = [gor EXCEPT ![l] = IF @ = "select" THEN "phase1" ELSE @]

connectFails(l) ==
    /\ Running(l) /\ con[l] \in {"dial", "phase1", "dial2", "phase2"}
    /\ con' = [con EXCEPT ![l] = "failing"]
    /\ raise(l, "error")
    /\ UNCHANGED <<shared, login, gor, port, call, history>>

\* The error has been raised and Connect returns it.
connectReturnsError(l) ==
    /\ Running(l) /\ con[l] = "failing"
    /\ con' = [con EXCEPT ![l] = "failed"]
    /\ returned(l)
    /\ UNCHANGED <<shared, login, ev, port, call, history>>

\* A dial with a cancelled context fails.
dial(l) ==
    /\ Running(l) /\ con[l] \in {"dial", "dial2"} /\ ~cancelled[l]
    /\ con' = [con EXCEPT ![l] = IF con[l] = "dial" THEN "phase1" ELSE "phase2"]
    /\ UNCHANGED <<shared, login, gor, ev, port, call, history>>

\* Phase 1 ends without a challenge: Phase 2 goes on over its connection.
noChallenge(l) ==
    /\ Running(l) /\ con[l] = "phase1"
    /\ con' = [con EXCEPT ![l] = "phase2"]
    /\ UNCHANGED <<shared, login, gor, ev, port, call, history>>

challenge(l) ==
    /\ Running(l) /\ con[l] = "phase1"
    /\ con' = [con EXCEPT ![l] = "saml"]
    /\ raise(l, "waiting_saml")
    /\ UNCHANGED <<shared, login, gor, port, call, history>>

\* A challenge to a profile without SSO: an error, but no event.
unexpectedChallenge(l) ==
    /\ Running(l) /\ con[l] = "phase1"
    /\ con' = [con EXCEPT ![l] = "refused"]
    /\ returned(l)
    /\ UNCHANGED <<shared, login, ev, port, call, history>>

NewACSServer == port = 0

\* SAMLTokenFn: NewACSServer binds the port, or fails if it is taken.
startACS(l) ==
    /\ Running(l) /\ con[l] = "saml"
    /\ IF NewACSServer
       THEN port' = l /\ con' = [con EXCEPT ![l] = "waiting"] /\ UNCHANGED ev
       ELSE UNCHANGED port /\ con' = [con EXCEPT ![l] = "failing"] /\ raise(l, "error")
    /\ UNCHANGED <<shared, login, gor, call, history>>

\* The browser posts a valid SAMLResponse to a server that is still served;
\* other requests change nothing.
handleACS(l) == con[l] = "waiting" /\ port = l

\* ACSServer.Wait returns the token and has closed the server.  For a relay
\* login SAMLTokenFn then hands it to the goroutine.
token(l) ==
    /\ handleACS(l)
    /\ port' = 0
    /\ con' = [con EXCEPT ![l] = "dial2"]
    /\ gor' = [gor EXCEPT ![l] = IF @ = "select" THEN "captured" ELSE @]
    /\ raise(l, "connecting")
    /\ UNCHANGED <<shared, login, call, history>>

\* Fault: Wait ignores its context.
noTokenNever(l) == con[l] = "waiting" /\ FALSE

\* Wait ends without a token: the context is cancelled or the five minutes of
\* samlTimeout are over.
noToken(l) == con[l] = "waiting"

waitFails(l) ==
    /\ noToken(l)
    /\ con' = [con EXCEPT ![l] = "failing"]
    /\ raise(l, "error")
    /\ UNCHANGED <<shared, login, gor, port, call, history>>

\* Fault: the server is only closed when its token arrives.
closeACSNever == FALSE

\* The goroutine that waits for the end of Wait's context closes the server;
\* Wait itself may not have returned yet.
closeACS == port # 0 /\ (con[port] # "waiting" \/ cancelled[port])

closePort ==
    /\ closeACS
    /\ port' = 0
    /\ UNCHANGED <<shared, login, gor, con, ev, call, history>>

tunnelUp(l) ==
    /\ Running(l) /\ con[l] = "phase2"
    /\ con' = [con EXCEPT ![l] = "up"]
    /\ raise(l, "connected")
    /\ returned(l)
    /\ UNCHANGED <<shared, login, port, call, history>>

\* The tunnel fails by itself.
tunnelFails(l) ==
    /\ Running(l) /\ con[l] = "up"
    /\ con' = [con EXCEPT ![l] = "closing"]
    /\ raise(l, "disconnecting")
    /\ UNCHANGED <<shared, login, gor, port, call, history>>

\* The client's teardown: the last event, then Done is closed.
teardown(l) ==
    /\ Running(l) /\ con[l] = "closing"
    /\ con' = [con EXCEPT ![l] = "closed"]
    /\ raise(l, "idle")
    /\ UNCHANGED <<shared, login, gor, port, call, history>>

done(l) ==
    /\ Running(l) /\ con[l] = "closed"
    /\ con' = [con EXCEPT ![l] = "down"]
    /\ UNCHANGED <<shared, login, gor, ev, port, call, history>>

\* Connect has returned, with or without an error.
Returned(l) == Running(l) /\ con[l] \in {"failed", "refused", "up", "closing", "closed", "down"}

-----------------------------------------------------------------------------
(* The goroutine of a direct login.                                        *)

directFailed(l) ==
    /\ gor[l] = "connect" /\ Running(l) /\ con[l] \in {"failed", "refused"}
    /\ gor' = [gor EXCEPT ![l] = "clear"]
    /\ UNCHANGED <<shared, login, con, ev, port, call, history>>

\* Fault: a cancelled login is left without taking the tunnel down.
statsLoopReturns(l) ==
    /\ gor[l] = "connect" /\ Running(l) /\ con[l] = "up" /\ cancelled[l]
    /\ gor' = [gor EXCEPT ![l] = "clear"]
    /\ UNCHANGED <<shared, login, con, ev, port, call, history>>

\* The stats loop sees the cancelled context and disconnects the client.
statsLoopCancelled(l) ==
    /\ gor[l] = "connect" /\ Running(l) /\ con[l] = "up" /\ cancelled[l]
    /\ con' = [con EXCEPT ![l] = "closing"]
    /\ raise(l, "disconnecting")
    /\ UNCHANGED <<shared, login, gor, port, call, history>>

directDone(l) ==
    /\ gor[l] = "connect" /\ con[l] = "down"
    /\ gor' = [gor EXCEPT ![l] = "clear"]
    /\ UNCHANGED <<shared, login, con, ev, port, call, history>>

-----------------------------------------------------------------------------
(* The goroutine of a relay login.                                         *)

\* relayConnect reserves the agent; then client.Connect is started in a
\* goroutine of its own, and this one waits in its select.
reserve(l) ==
    /\ gor[l] = "reserve"
    /\ gor' = [gor EXCEPT ![l] = IF cancelled[l] THEN "abandon" ELSE "select"]
    /\ con' = [con EXCEPT ![l] = "dial"]
    /\ raise(l, "connecting")
    /\ UNCHANGED <<shared, login, port, call, history>>

reserveFails(l) ==
    /\ gor[l] = "reserve"
    /\ gor' = [gor EXCEPT ![l] = "clear"]
    /\ cancelled' = [cancelled EXCEPT ![l] = TRUE]
    /\ UNCHANGED <<shared, kind, suppress, con, ev, port, call, history>>

\* Connect returned before a token was captured.
phase1Returned(l) ==
    /\ gor[l] = "phase1" /\ Returned(l)
    /\ gor' = [gor EXCEPT ![l] = "clear"]
    /\ UNCHANGED <<shared, login, con, ev, port, call, history>>

\* The context was cancelled before a token was captured.
abandoned(l) ==
    /\ gor[l] = "abandon" /\ Returned(l)
    /\ gor' = [gor EXCEPT ![l] = "clear"]
    /\ UNCHANGED <<shared, login, con, ev, port, call, history>>

\* The token is captured: the client's signals are suppressed ...
suppressSignals(l) ==
    /\ gor[l] = "captured"
    /\ suppress' = [suppress EXCEPT ![l] = TRUE]
    /\ gor' = [gor EXCEPT ![l] = "cancel"]
    /\ UNCHANGED <<shared, kind, cancelled, con, ev, port, call, history>>

\* ... and its context cancelled.
cancelPhase2(l) ==
    /\ gor[l] = "cancel"
    /\ cancelled' = [cancelled EXCEPT ![l] = TRUE]
    /\ gor' = [gor EXCEPT ![l] = "drain"]
    /\ UNCHANGED <<shared, kind, suppress, con, ev, port, call, history>>

\* Fault: goes on without waiting for Connect to return.
drainedAtOnce(l) == gor[l] = "drain"

\* phase1Done has been received.
drained(l) == gor[l] = "drain" /\ Returned(l)

deliver(l) ==
    /\ drained(l)
    /\ delivering' = [delivering EXCEPT ![l] = TRUE]
    /\ gor' = [gor EXCEPT ![l] = "execute"]
    /\ UNCHANGED <<shared, login, con, ev, port, call, released>>

\* The answer is a 2xx, or an error that ends the login.
relayPost(l, next) == \E s \in {next, "clear"} : gor' = [gor EXCEPT ![l] = s]

\* relayExecute; its error is signalled.
execute(l) ==
    /\ gor[l] = "execute"
    /\ relayPost(l, "store")
    /\ UNCHANGED <<shared, login, con, ev, port, call, history>>

\* The session is stored, for Disconnect to release, and relay_connected
\* signalled.
store(l) ==
    /\ gor[l] = "store"
    /\ relaySession' = l
    /\ gor' = [gor EXCEPT ![l] = "clear"]
    /\ UNCHANGED <<client, state, login, con, ev, port, call, history>>

\* Fault: d.state stays what the client's last event made it.
stateAfterStale(l) == state

\* A relay login puts d.state back; a direct one leaves it to the client.
stateAfter(l) == IF kind[l] = "relay" THEN "idle" ELSE state

\* The deferred function of both goroutines.
clear(l) ==
    /\ gor[l] = "clear"
    /\ client' = 0
    /\ state' = stateAfter(l)
    /\ gor' = [gor EXCEPT ![l] = "done"]
    /\ UNCHANGED <<relaySession, login, con, ev, port, call, history>>

-----------------------------------------------------------------------------
(* Disconnect.                                                             *)

\* Fault: the session is forgotten only after it has been released.
takenSessionLate == relaySession

\* The session left in d once a call has taken it.
takenSession == 0

Disconnect(x) ==
    /\ call[x].pc = "idle"
    /\ client # 0 \/ relaySession # 0
    /\ call' = [call EXCEPT ![x] = [pc |-> "cancel", cancel |-> client,
                                    session |-> relaySession]]
    /\ relaySession' = takenSession
    /\ UNCHANGED <<client, state, login, gor, con, ev, port, history>>

disconnectCancel(x) ==
    /\ call[x].pc = "cancel"
    /\ call' = [call EXCEPT ![x] = IF @.session = 0 THEN NoCall
                                   ELSE [@ EXCEPT !.pc = "release"]]
    /\ LET l == call[x].cancel IN
       IF l = 0 THEN UNCHANGED <<cancelled, gor>>
       ELSE /\ cancelled' = [cancelled EXCEPT ![l] = TRUE]
            /\ gor' = [gor EXCEPT ![l] = IF @ = "select" THEN "abandon" ELSE @]
    /\ UNCHANGED <<shared, kind, suppress, con, ev, port, history>>

\* relayRelease, whose error is only logged, and the idle signal.
disconnectRelease(x) ==
    /\ call[x].pc = "release"
    /\ released' = [released EXCEPT ![call[x].session] = @ + 1]
    /\ call' = [call EXCEPT ![x] = NoCall]
    /\ UNCHANGED <<shared, login, gor, con, ev, port, delivering>>

-----------------------------------------------------------------------------

ClientSteps(l) ==
    \/ event(l) \/ connectFails(l) \/ connectReturnsError(l) \/ dial(l)
    \/ noChallenge(l) \/ challenge(l) \/ unexpectedChallenge(l) \/ startACS(l) \/ waitFails(l)
    \/ tunnelUp(l) \/ teardown(l) \/ done(l)

GoroutineSteps(l) ==
    \/ directFailed(l) \/ statsLoopCancelled(l) \/ directDone(l)
    \/ reserve(l) \/ reserveFails(l) \/ phase1Returned(l) \/ abandoned(l)
    \/ suppressSignals(l) \/ cancelPhase2(l) \/ deliver(l)
    \/ execute(l) \/ store(l) \/ clear(l)

CallSteps(x) == disconnectCancel(x) \/ disconnectRelease(x)

Next ==
    \/ \E l \in Logins : \/ Connect(l) \/ ConnectRelay(l)
                         \/ ClientSteps(l) \/ GoroutineSteps(l)
                         \/ token(l) \/ tunnelFails(l)
    \/ \E x \in Calls : Disconnect(x) \/ CallSteps(x)
    \/ closePort

\* Goroutines are scheduled, and every step of a login ends: its exchanges,
\* the HTTP calls and the SAML wait all have a time limit.  Nothing is
\* assumed of the user, the browser, or a tunnel that is up.
Fairness ==
    /\ \A l \in Logins : WF_vars(ClientSteps(l)) /\ WF_vars(GoroutineSteps(l))
    /\ WF_vars(\E x \in Calls : CallSteps(x))
    /\ WF_vars(closePort)

Spec == Init /\ [][Next]_vars /\ Fairness

-----------------------------------------------------------------------------

\* d.client is set exactly while a login's goroutine runs, so there is never a
\* second one beside it (the Busy answer against the deferred clear).
OneConnection ==
    \A l \in Logins : (gor[l] \notin {"none", "done"}) <=> (client = l)

\* The tunnel of a direct login never outlives the goroutine that can take it
\* down: while it is up or closing, Disconnect finds it in d.client.
DirectTunnelOwned ==
    \A l \in Logins :
        (kind[l] = "direct" /\ con[l] \in {"up", "closing"}) => client = l

\* With no login under way and no tunnel left, Status answers idle or error,
\* not a state the client passed through (the deferred reset of a relay
\* login, the last event of a direct one).  A challenge to a profile without
\* SSO is the exception: Connect returns its error without an event.
StatusSettled ==
    (client = 0 /\ \A l \in Logins : con[l] \in {"none", "failed", "down"})
        => state \in {"idle", "error"}

\* A relay session is released at most once, however Disconnect calls overlap.
ReleasedOnce == \A l \in Logins : released[l] <= 1

\* Once relay_delivering has been signalled for a login, no state signal of its
\* own VPN client reaches the GUI any more, not even one that had already
\* passed the suppress test when the flag was set.
NoVpnSignalAfterDelivering ==
    [][\A l \in Logins : (ev[l] # "none" /\ ev'[l] = "none") => ~delivering[l]]_vars

\* A cancelled login ends: the daemon becomes free for the next one.
CancelFreesDaemon ==
    \A l \in Logins : (client = l /\ cancelled[l]) ~> (client # l)

\* The callback port is given back after every login.
PortFreed == \A l \in Logins : (gor[l] = "done") ~> (port # l)
=============================================================================
