---------------------------- MODULE DaemonProofs ----------------------------
(***************************************************************************)
(* Proofs about Daemon, for every number of logins and of overlapping      *)
(* Disconnect calls.                                                       *)
(***************************************************************************)
EXTENDS Daemon, TLAPS

States == {"idle", "connecting", "waiting_saml", "connected", "disconnecting", "error"}
ConStates == {"none", "dial", "phase1", "saml", "waiting", "dial2", "phase2", "up",
              "closing", "closed", "down", "failing", "failed", "refused"}
GorStates == {"none", "connect", "reserve", "select", "phase1", "abandon", "captured",
              "cancel", "drain", "execute", "store", "clear", "done"}
CallRecords == [pc : {"idle", "cancel", "release"}, cancel : Logins \cup {0},
                session : Logins \cup {0}]

Types ==
    /\ client \in Logins \cup {0} /\ port \in Logins \cup {0}
    /\ relaySession \in Logins \cup {0}
    /\ state \in States
    /\ kind \in [Logins -> {"none", "direct", "relay"}]
    /\ cancelled \in [Logins -> BOOLEAN] /\ suppress \in [Logins -> BOOLEAN]
    /\ delivering \in [Logins -> BOOLEAN] /\ released \in [Logins -> Nat]
    /\ gor \in [Logins -> GorStates] /\ con \in [Logins -> ConStates]
    /\ ev \in [Logins -> States \cup {"none"}]
    /\ call \in [Calls -> CallRecords]
    /\ \A x \in Calls : call[x].pc = "release" => call[x].session \in Logins

(* A login is a number from 1 on, and never the 0 that stands for nil. *)
LEMMA LoginNotZero == Logins \subseteq Nat /\ 0 \notin Logins
  BY MaxLoginsAssumption DEF Logins

(* Every step keeps the daemon's fields within their types. *)
LEMMA TypesStep == Types /\ [Next]_vars => Types'
<1> SUFFICES ASSUME Types, [Next]_vars PROVE Types'
  OBVIOUS
<1> USE LoginNotZero DEF Types, shared, login, history
<1>1. ASSUME NEW l \in Logins, Connect(l) \/ ConnectRelay(l) PROVE Types'
  BY <1>1 DEF Connect, ConnectRelay, start, States, GorStates, ConStates
<1>2. ASSUME NEW l \in Logins, ClientSteps(l) \/ token(l) \/ tunnelFails(l) PROVE Types'
  <2> USE DEF raise, returned, States, GorStates, ConStates
  <2>1. CASE event(l)
    BY <2>1 DEF event
  <2>2. CASE connectFails(l) \/ connectReturnsError(l) \/ dial(l) \/ noChallenge(l)
    BY <2>2 DEF connectFails, connectReturnsError, dial, noChallenge
  <2>3. CASE challenge(l) \/ unexpectedChallenge(l) \/ startACS(l) \/ waitFails(l)
    BY <2>3 DEF challenge, unexpectedChallenge, startACS, NewACSServer, waitFails
  <2>4. CASE tunnelUp(l) \/ teardown(l) \/ done(l)
    BY <2>4 DEF tunnelUp, teardown, done
  <2>5. CASE token(l) \/ tunnelFails(l)
    BY <2>5 DEF token, tunnelFails
  <2>6. QED
    BY <1>2, <2>1, <2>2, <2>3, <2>4, <2>5 DEF ClientSteps
<1>3. ASSUME NEW l \in Logins, GoroutineSteps(l) PROVE Types'
  <2> USE DEF raise, States, GorStates, ConStates
  <2>1. CASE directFailed(l) \/ statsLoopCancelled(l) \/ directDone(l)
    BY <2>1 DEF directFailed, statsLoopCancelled, directDone
  <2>2. CASE reserve(l) \/ reserveFails(l) \/ phase1Returned(l) \/ abandoned(l)
    BY <2>2, ZenonT(60) DEF reserve, reserveFails, phase1Returned, abandoned
  <2>3. CASE suppressSignals(l) \/ cancelPhase2(l) \/ deliver(l)
    BY <2>3, ZenonT(30) DEF suppressSignals, cancelPhase2, deliver
  <2>4. CASE execute(l) \/ store(l) \/ clear(l)
    BY <2>4 DEF execute, relayPost, store, clear, stateAfter
  <2>5. QED
    BY <1>3, <2>1, <2>2, <2>3, <2>4 DEF GoroutineSteps
<1>4. ASSUME NEW x \in Calls, Disconnect(x) \/ CallSteps(x) PROVE Types'
  <2>1. CASE Disconnect(x)
    BY <2>1 DEF Disconnect, takenSession, CallRecords
  <2>2. CASE disconnectCancel(x)
    <3>1. call' \in [Calls -> CallRecords]
      BY <2>2 DEF disconnectCancel, NoCall, CallRecords
    <3>2. ASSUME NEW y \in Calls, call'[y].pc = "release" PROVE call'[y].session \in Logins
      BY <2>2, <3>2 DEF disconnectCancel, NoCall, CallRecords
    <3>3. cancelled' \in [Logins -> BOOLEAN] /\ gor' \in [Logins -> GorStates]
      <4> DEFINE l == call[x].cancel
      <4>1. l \in Logins \cup {0}
        BY DEF CallRecords
      <4>2. CASE l = 0
        BY <2>2, <4>2 DEF disconnectCancel
      <4>3. CASE l # 0
        <5>1. l \in Logins /\ cancelled' = [cancelled EXCEPT ![l] = TRUE]
              /\ gor' = [gor EXCEPT ![l] = IF @ = "select" THEN "abandon" ELSE @]
          BY <2>2, <4>1, <4>3 DEF disconnectCancel
        <5> HIDE DEF l
        <5>2. QED
          BY <5>1 DEF GorStates
      <4>4. QED
        BY <4>2, <4>3
    <3>4. QED
      BY <2>2, <3>1, <3>2, <3>3 DEF disconnectCancel
  <2>3. CASE disconnectRelease(x)
    <3>1. PICK s \in Logins : s = call[x].session /\ released' = [released EXCEPT ![s] = @ + 1]
      BY <2>3, Zenon DEF disconnectRelease
    <3>2. released' \in [Logins -> Nat]
      BY <3>1
    <3>3. call' = [call EXCEPT ![x] = NoCall] /\ NoCall \in CallRecords
      BY <2>3 DEF disconnectRelease, NoCall, CallRecords
    <3>4. call' \in [Calls -> CallRecords]
          /\ \A y \in Calls : call'[y].pc = "release" => call'[y].session \in Logins
      BY <3>3 DEF NoCall
    <3>5. QED
      BY <2>3, <3>2, <3>4 DEF disconnectRelease
  <2>4. QED
    BY <1>4, <2>1, <2>2, <2>3 DEF CallSteps
<1>5. CASE closePort
  BY <1>5 DEF closePort
<1>6. CASE UNCHANGED vars
  BY <1>6 DEF vars
<1>7. QED
  BY <1>1, <1>2, <1>3, <1>4, <1>5, <1>6 DEF Next

-----------------------------------------------------------------------------
(* The parts of the inductive invariant.                                   *)

Owned ==
    /\ OneConnection
    /\ \A l \in Logins :
          /\ kind[l] = "none" => gor[l] = "none" /\ con[l] = "none"
          /\ kind[l] = "direct" =>
                \/ gor[l] = "connect"
                \/ gor[l] \in {"clear", "done"} /\ con[l] \in {"failed", "refused", "down"}

Silenced ==
    \A l \in Logins :
        /\ kind[l] = "none" => gor[l] = "none"
        /\ gor[l] \in {"cancel", "drain", "execute", "store"} => suppress[l]
        /\ delivering[l] => /\ suppress[l] /\ ev[l] = "none"
                            /\ gor[l] \in {"execute", "store", "clear", "done"}

(* A session is in one place at most: still with its login's goroutine, in *)
(* the daemon's field, with one Disconnect call, or released.              *)
OnePlace ==
    /\ \A l \in Logins :
          /\ released[l] <= 1
          /\ gor[l] \notin {"clear", "done"} => released[l] = 0 /\ relaySession # l
          /\ relaySession = l => released[l] = 0
    /\ \A x \in Calls :
          /\ call[x].session \in Logins =>
                /\ released[call[x].session] = 0
                /\ relaySession # call[x].session
                /\ gor[call[x].session] \in {"clear", "done"}
          /\ \A y \in Calls :
                (x # y /\ call[x].session = call[y].session) => call[x].session = 0

(* The states a client is in while it has a state event still to raise. *)
Unsettled == {"connecting", "waiting_saml", "connected", "disconnecting"}
Working == {"dial", "phase1", "saml", "waiting", "dial2", "phase2", "up", "closing"}

(* The login l will still put d.state back: its goroutine does so when it   *)
(* ends, its client will raise another event, or a last event of it is on   *)
(* its way.  The client of a refused profile raises none.                   *)
WillSettle(l) ==
    \/ client = l /\ kind[l] = "relay"
    \/ ~suppress[l] /\ con[l] \in Working
    \/ ev[l] \in {"error", "idle"}
    \/ con[l] = "refused"

(* An event that is not the client's last comes from a client that works    *)
(* on, and past the suppress test it is only under way while the goroutine  *)
(* waits for Connect to return.                                             *)
Underway ==
    \A l \in Logins :
        /\ ev[l] \in Unsettled => con[l] \in Working \ {"waiting"}
        /\ ev[l] \in {"error", "idle"} => con[l] \in {"failing", "closed"}
        /\ suppress[l] => kind[l] = "relay"
        /\ suppress[l] /\ ev[l] # "none" => gor[l] \in {"cancel", "drain"}

Settling == state \in Unsettled => \E l \in Logins : WillSettle(l)

(* A login's goroutine runs exactly while d.client names it, and a direct    *)
(* login's goroutine outlives its tunnel.                                   *)
LEMMA OwnedStep == Types /\ Owned /\ [Next]_vars => Owned'
<1> SUFFICES ASSUME Types, Owned, [Next]_vars PROVE Owned'
  OBVIOUS
<1> USE LoginNotZero DEF Types, Owned, OneConnection, shared, login, history
<1>1. ASSUME NEW l \in Logins, Connect(l) \/ ConnectRelay(l) PROVE Owned'
  BY <1>1 DEF Connect, ConnectRelay, start
<1>2. ASSUME NEW l \in Logins, ClientSteps(l) \/ token(l) \/ tunnelFails(l) PROVE Owned'
  <2> USE DEF raise, returned, Running
  <2>1. CASE event(l)
    BY <2>1 DEF event
  <2>2. CASE connectFails(l) \/ connectReturnsError(l) \/ dial(l) \/ noChallenge(l)
    BY <2>2 DEF connectFails, connectReturnsError, dial, noChallenge
  <2>3. CASE challenge(l) \/ unexpectedChallenge(l) \/ startACS(l) \/ waitFails(l)
    BY <2>3 DEF challenge, unexpectedChallenge, startACS, NewACSServer, waitFails, noToken
  <2>4. CASE tunnelUp(l) \/ teardown(l) \/ done(l)
    BY <2>4 DEF tunnelUp, teardown, done
  <2>5. CASE token(l) \/ tunnelFails(l)
    BY <2>5 DEF token, handleACS, tunnelFails
  <2>6. QED
    BY <1>2, <2>1, <2>2, <2>3, <2>4, <2>5 DEF ClientSteps
<1>3. ASSUME NEW l \in Logins, GoroutineSteps(l) PROVE Owned'
  <2> USE DEF raise, Running, Returned
  <2>1. CASE directFailed(l) \/ statsLoopCancelled(l) \/ directDone(l)
    BY <2>1 DEF directFailed, statsLoopCancelled, directDone
  <2>2. CASE reserve(l) \/ reserveFails(l) \/ phase1Returned(l) \/ abandoned(l)
    BY <2>2 DEF reserve, reserveFails, phase1Returned, abandoned
  <2>3. CASE suppressSignals(l) \/ cancelPhase2(l) \/ deliver(l)
    BY <2>3 DEF suppressSignals, cancelPhase2, deliver, drained
  <2>4. CASE execute(l) \/ store(l) \/ clear(l)
    BY <2>4 DEF execute, relayPost, store, clear
  <2>5. QED
    BY <1>3, <2>1, <2>2, <2>3, <2>4 DEF GoroutineSteps
<1>4. ASSUME NEW x \in Calls, Disconnect(x) \/ CallSteps(x) PROVE Owned'
  <2>1. CASE Disconnect(x)
    BY <2>1 DEF Disconnect
  <2>2. CASE disconnectCancel(x)
    <3>1. ASSUME NEW m \in Logins
          PROVE  gor'[m] = gor[m] \/ (gor[m] = "select" /\ gor'[m] = "abandon")
      BY <2>2 DEF disconnectCancel, CallRecords
    <3>2. QED
      BY <2>2, <3>1 DEF disconnectCancel
  <2>3. CASE disconnectRelease(x)
    BY <2>3 DEF disconnectRelease
  <2>4. QED
    BY <1>4, <2>1, <2>2, <2>3 DEF CallSteps
<1>5. CASE closePort
  BY <1>5 DEF closePort
<1>6. CASE UNCHANGED vars
  BY <1>6 DEF vars
<1>7. QED
  BY <1>1, <1>2, <1>3, <1>4, <1>5, <1>6 DEF Next

(* The signals of a login's client are suppressed from the captured token   *)
(* on, and none is under way once relay_delivering has been signalled.      *)
LEMMA SilencedStep == Types /\ Silenced /\ [Next]_vars => Silenced'
<1> SUFFICES ASSUME Types, Silenced, [Next]_vars PROVE Silenced'
  OBVIOUS
<1> USE LoginNotZero DEF Types, Silenced, shared, login, history
<1>1. ASSUME NEW l \in Logins, Connect(l) \/ ConnectRelay(l) PROVE Silenced'
  BY <1>1 DEF Connect, ConnectRelay, start
<1>2. ASSUME NEW l \in Logins, ClientSteps(l) \/ token(l) \/ tunnelFails(l) PROVE Silenced'
  <2> USE DEF raise, returned, Running
  <2>1. CASE event(l)
    BY <2>1 DEF event
  <2>2. CASE connectFails(l) \/ connectReturnsError(l) \/ dial(l) \/ noChallenge(l)
    BY <2>2 DEF connectFails, connectReturnsError, dial, noChallenge
  <2>3. CASE challenge(l) \/ unexpectedChallenge(l) \/ startACS(l) \/ waitFails(l)
    BY <2>3 DEF challenge, unexpectedChallenge, startACS, NewACSServer, waitFails, noToken
  <2>4. CASE tunnelUp(l) \/ teardown(l) \/ done(l)
    BY <2>4 DEF tunnelUp, teardown, done
  <2>5. CASE token(l) \/ tunnelFails(l)
    BY <2>5 DEF token, handleACS, tunnelFails
  <2>6. QED
    BY <1>2, <2>1, <2>2, <2>3, <2>4, <2>5 DEF ClientSteps
<1>3. ASSUME NEW l \in Logins, GoroutineSteps(l) PROVE Silenced'
  <2> USE DEF raise, Running, Returned
  <2>1. CASE directFailed(l) \/ statsLoopCancelled(l) \/ directDone(l)
    BY <2>1 DEF directFailed, statsLoopCancelled, directDone
  <2>2. CASE reserve(l) \/ reserveFails(l) \/ phase1Returned(l) \/ abandoned(l)
    BY <2>2 DEF reserve, reserveFails, phase1Returned, abandoned
  <2>3. CASE suppressSignals(l) \/ cancelPhase2(l) \/ deliver(l)
    BY <2>3 DEF suppressSignals, cancelPhase2, deliver, drained
  <2>4. CASE execute(l) \/ store(l) \/ clear(l)
    BY <2>4 DEF execute, relayPost, store, clear
  <2>5. QED
    BY <1>3, <2>1, <2>2, <2>3, <2>4 DEF GoroutineSteps
<1>4. ASSUME NEW x \in Calls, Disconnect(x) \/ CallSteps(x) PROVE Silenced'
  <2>1. CASE Disconnect(x)
    BY <2>1 DEF Disconnect
  <2>2. CASE disconnectCancel(x)
    <3>1. ASSUME NEW m \in Logins
          PROVE  gor'[m] = gor[m] \/ (gor[m] = "select" /\ gor'[m] = "abandon")
      BY <2>2 DEF disconnectCancel, CallRecords
    <3>2. QED
      BY <2>2, <3>1 DEF disconnectCancel
  <2>3. CASE disconnectRelease(x)
    BY <2>3 DEF disconnectRelease
  <2>4. QED
    BY <1>4, <2>1, <2>2, <2>3 DEF CallSteps
<1>5. CASE closePort
  BY <1>5 DEF closePort
<1>6. CASE UNCHANGED vars
  BY <1>6 DEF vars
<1>7. QED
  BY <1>1, <1>2, <1>3, <1>4, <1>5, <1>6 DEF Next

(* A session is never in two places. *)
LEMMA OnePlaceStep == Types /\ Owned /\ OnePlace /\ [Next]_vars => OnePlace'
<1> SUFFICES ASSUME Types, Owned, OnePlace, [Next]_vars PROVE OnePlace'
  OBVIOUS
<1> USE LoginNotZero DEF shared, login, history
<1>1. ASSUME UNCHANGED <<relaySession, released, call>>,
             \A m \in Logins : gor[m] \in {"clear", "done"} => gor'[m] \in {"clear", "done"}
      PROVE  OnePlace'
  BY <1>1, Zenon DEF OnePlace
<1>2. ASSUME NEW l \in Logins, Connect(l) \/ ConnectRelay(l) PROVE OnePlace'
  BY <1>1, <1>2 DEF Types, Owned, Connect, ConnectRelay, start
<1>3. ASSUME NEW l \in Logins, ClientSteps(l) \/ token(l) \/ tunnelFails(l) PROVE OnePlace'
  <2>1. UNCHANGED <<relaySession, released, call>> /\ (gor' = gor \/ returned(l)
          \/ gor' = [gor EXCEPT ![l] = IF @ = "select" THEN "captured" ELSE @])
    BY <1>3 DEF ClientSteps, event, connectFails, connectReturnsError, dial, noChallenge,
          challenge, unexpectedChallenge, startACS, waitFails, tunnelUp, teardown, done,
          token, tunnelFails
  <2>2. QED
    BY <1>1, <2>1 DEF Types, returned
<1>4. ASSUME NEW l \in Logins, GoroutineSteps(l) PROVE OnePlace'
  <2>1. CASE store(l)
    <3>1. /\ gor[l] = "store" /\ relaySession' = l /\ UNCHANGED <<released, call>>
          /\ gor' = [gor EXCEPT ![l] = "clear"]
      BY <2>1 DEF store
    <3>2. released[l] = 0 /\ \A x \in Calls : call[x].session # l
      BY <3>1 DEF OnePlace
    <3>3. QED
      BY <3>1, <3>2 DEF Types, OnePlace
  <2>2. CASE ~store(l)
    <3>1. UNCHANGED <<relaySession, released, call>>
          /\ (gor' = gor \/ \E s \in GorStates : /\ gor' = [gor EXCEPT ![l] = s]
                                                 /\ gor[l] = "clear" => s = "done"
                                                 /\ gor[l] # "done")
      BY <1>4, <2>2 DEF GoroutineSteps, directFailed, statsLoopCancelled, directDone, reserve,
            reserveFails, phase1Returned, abandoned, suppressSignals, cancelPhase2, deliver,
            drained, execute, relayPost, clear, GorStates
    <3>2. QED
      BY <1>1, <3>1 DEF Types
  <2>3. QED
    BY <2>1, <2>2
<1>5. ASSUME NEW x \in Calls, Disconnect(x) \/ CallSteps(x) PROVE OnePlace'
  <2>1. CASE Disconnect(x)
    <3>1. /\ relaySession' = 0 /\ UNCHANGED <<released, gor>>
          /\ call'[x].session = relaySession
          /\ \A y \in Calls : y # x => call'[y] = call[y]
      BY <2>1 DEF Disconnect, takenSession, Types
    <3>2. relaySession \in Logins =>
            /\ released[relaySession] = 0
            /\ gor[relaySession] \in {"clear", "done"}
            /\ \A y \in Calls : call[y].session # relaySession
      BY Zenon DEF OnePlace
    <3>3. QED
      BY <3>1, <3>2 DEF Types, OnePlace
  <2>2. CASE disconnectCancel(x)
    <3>1. ASSUME NEW m \in Logins
          PROVE  gor'[m] = gor[m] \/ (gor[m] = "select" /\ gor'[m] = "abandon")
      BY <2>2 DEF Types, disconnectCancel, CallRecords
    <3>2. ASSUME NEW y \in Calls PROVE call'[y].session = call[y].session
      BY <2>2 DEF Types, disconnectCancel, CallRecords, NoCall
    <3>3. QED
      BY <2>2, <3>1, <3>2 DEF Types, OnePlace, disconnectCancel
  <2>3. CASE disconnectRelease(x)
    <3>1. PICK s \in Logins : s = call[x].session /\ released' = [released EXCEPT ![s] = @ + 1]
      BY <2>3, Zenon DEF disconnectRelease, Types
    <3>2. /\ call'[x].session = 0 /\ UNCHANGED <<relaySession, gor>>
          /\ \A y \in Calls : y # x => call'[y] = call[y]
      BY <2>3 DEF disconnectRelease, NoCall, Types
    <3>3. /\ released[s] = 0 /\ relaySession # s /\ gor[s] \in {"clear", "done"}
          /\ \A y \in Calls : y # x => call[y].session # s
      BY <3>1 DEF OnePlace
    <3>4. QED
      BY <3>1, <3>2, <3>3 DEF Types, OnePlace
  <2>4. QED
    BY <1>5, <2>1, <2>2, <2>3 DEF CallSteps
<1>6. CASE closePort \/ UNCHANGED vars
  BY <1>1, <1>6 DEF closePort, vars
<1>7. QED
  BY <1>2, <1>3, <1>4, <1>5, <1>6 DEF Next

(* Events are under way only as Underway says. *)
LEMMA UnderwayStep == Types /\ Owned /\ Underway /\ [Next]_vars => Underway'
<1> SUFFICES ASSUME Types, Owned, Underway, [Next]_vars PROVE Underway'
  OBVIOUS
<1> USE LoginNotZero DEF Types, States, Underway, Unsettled, Working, shared, login, history
<1>1. ASSUME NEW l \in Logins, Connect(l) \/ ConnectRelay(l) PROVE Underway'
  BY <1>1 DEF Connect, ConnectRelay, start
<1>2. ASSUME NEW l \in Logins, ClientSteps(l) \/ token(l) \/ tunnelFails(l) PROVE Underway'
  <2> USE DEF raise, returned, Running
  <2>1. CASE event(l)
    BY <2>1 DEF event
  <2>2. CASE connectFails(l) \/ connectReturnsError(l) \/ dial(l) \/ noChallenge(l)
    BY <2>2 DEF connectFails, connectReturnsError, dial, noChallenge
  <2>3. CASE challenge(l) \/ unexpectedChallenge(l) \/ startACS(l) \/ waitFails(l)
    BY <2>3 DEF challenge, unexpectedChallenge, startACS, NewACSServer, waitFails, noToken
  <2>4. CASE tunnelUp(l) \/ teardown(l) \/ done(l)
    BY <2>4 DEF tunnelUp, teardown, done
  <2>5. CASE token(l) \/ tunnelFails(l)
    BY <2>5 DEF token, handleACS, tunnelFails
  <2>6. QED
    BY <1>2, <2>1, <2>2, <2>3, <2>4, <2>5 DEF ClientSteps
<1>3. ASSUME NEW l \in Logins, GoroutineSteps(l) PROVE Underway'
  <2> USE DEF raise, Running, Returned
  <2>1. CASE directFailed(l) \/ statsLoopCancelled(l) \/ directDone(l)
    BY <2>1 DEF directFailed, statsLoopCancelled, directDone
  <2>2. CASE reserve(l) \/ reserveFails(l) \/ phase1Returned(l) \/ abandoned(l)
    BY <2>2 DEF reserve, reserveFails, phase1Returned, abandoned
  <2>3. CASE suppressSignals(l) \/ cancelPhase2(l) \/ deliver(l)
    BY <2>3 DEF suppressSignals, cancelPhase2, deliver, drained, Owned
  <2>4. CASE execute(l) \/ store(l) \/ clear(l)
    BY <2>4 DEF execute, relayPost, store, clear
  <2>5. QED
    BY <1>3, <2>1, <2>2, <2>3, <2>4 DEF GoroutineSteps
<1>4. ASSUME NEW x \in Calls, Disconnect(x) \/ CallSteps(x) PROVE Underway'
  <2>1. CASE Disconnect(x)
    BY <2>1 DEF Disconnect
  <2>2. CASE disconnectCancel(x)
    <3>1. ASSUME NEW m \in Logins
          PROVE  gor'[m] = gor[m] \/ (gor[m] = "select" /\ gor'[m] = "abandon")
      BY <2>2 DEF disconnectCancel, CallRecords
    <3>2. QED
      BY <2>2, <3>1 DEF disconnectCancel
  <2>3. CASE disconnectRelease(x)
    BY <2>3 DEF disconnectRelease
  <2>4. QED
    BY <1>4, <2>1, <2>2, <2>3 DEF CallSteps
<1>5. CASE closePort
  BY <1>5 DEF closePort
<1>6. CASE UNCHANGED vars
  BY <1>6 DEF vars
<1>7. QED
  BY <1>1, <1>2, <1>3, <1>4, <1>5, <1>6 DEF Next

(* While d.state is one a client passes through, some login will still put  *)
(* it back.  A step that does not write d.state keeps the login that will   *)
(* (<1>1); the two that do write it are an event and the deferred clear.    *)
LEMMA SettlingStep == Types /\ Owned /\ Underway /\ Settling /\ [Next]_vars => Settling'
<1> SUFFICES ASSUME Types, Owned, Underway, Settling, [Next]_vars PROVE Settling'
  OBVIOUS
<1> USE LoginNotZero DEF shared, login, history
<1>1. ASSUME state' = state, \A m \in Logins : WillSettle(m) => WillSettle(m)' PROVE Settling'
  BY <1>1 DEF Settling
<1>2. ASSUME NEW l \in Logins, Connect(l) \/ ConnectRelay(l) PROVE Settling'
  <2>1. state' = state /\ client = 0 /\ con[l] = "none"
        /\ ev[l] = "none" /\ suppress' = suppress
        /\ \A m \in Logins \ {l} : con'[m] = con[m] /\ ev'[m] = ev[m]
    BY <1>2
       DEF Connect, ConnectRelay, start, Types, Owned, Underway, States, Unsettled, Working
  <2>2. QED
    BY <1>1, <2>1 DEF WillSettle, Working
<1>3. ASSUME NEW l \in Logins, ClientSteps(l) \/ token(l) \/ tunnelFails(l) PROVE Settling'
  <2> USE DEF Types, raise, returned, Running, WillSettle, Working
  <2>1. CASE event(l)
    <3>1. /\ UNCHANGED <<client, kind, suppress, con>> /\ state' = ev[l]
      BY <2>1 DEF event
    <3>2. ev[l] \in Unsettled => WillSettle(l)'
      BY <3>1 DEF Underway, Owned, OneConnection, Unsettled
    <3>3. QED
      BY <3>1, <3>2 DEF Settling
  <2>2. CASE connectFails(l) \/ connectReturnsError(l) \/ dial(l) \/ noChallenge(l)
    BY <1>1, <2>2 DEF connectFails, connectReturnsError, dial, noChallenge
  <2>3. CASE challenge(l) \/ unexpectedChallenge(l) \/ startACS(l) \/ waitFails(l)
    BY <1>1, <2>3 DEF challenge, unexpectedChallenge, startACS, NewACSServer, waitFails, noToken,
          Underway
  <2>4. CASE tunnelUp(l) \/ teardown(l) \/ done(l)
    BY <1>1, <2>4 DEF tunnelUp, teardown, done
  <2>5. CASE token(l) \/ tunnelFails(l)
    BY <1>1, <2>5 DEF token, handleACS, tunnelFails, Underway
  <2>6. QED
    BY <1>3, <2>1, <2>2, <2>3, <2>4, <2>5 DEF ClientSteps
<1>4. ASSUME NEW l \in Logins, GoroutineSteps(l) PROVE Settling'
  <2> USE DEF Types, raise, Running, Returned, WillSettle, Working
  <2>1. CASE directFailed(l) \/ statsLoopCancelled(l) \/ directDone(l)
    BY <1>1, <2>1 DEF directFailed, statsLoopCancelled, directDone
  <2>2. CASE reserve(l) \/ reserveFails(l) \/ phase1Returned(l) \/ abandoned(l)
    <3>1. CASE reserve(l)
      <4>1. client = l /\ kind[l] = "relay"
        BY <3>1 DEF reserve, Owned, OneConnection
      <4>2. QED
        BY <1>1, <3>1, <4>1 DEF reserve
    <3>2. QED
      BY <1>1, <2>2, <3>1 DEF reserveFails, phase1Returned, abandoned
  <2>3. CASE suppressSignals(l) \/ cancelPhase2(l) \/ deliver(l)
    <3>1. client = l /\ kind[l] = "relay"
      BY <2>3 DEF suppressSignals, cancelPhase2, deliver, drained, Owned, OneConnection
    <3>2. QED
      BY <1>1, <2>3, <3>1 DEF suppressSignals, cancelPhase2, deliver
  <2>4. CASE execute(l) \/ store(l)
    BY <1>1, <2>4 DEF execute, relayPost, store
  <2>5. CASE clear(l)
    <3>1. client = l /\ UNCHANGED <<kind, suppress, con, ev>>
      BY <2>5 DEF clear, Owned, OneConnection
    <3>2. CASE kind[l] = "relay"
      BY <2>5, <3>2 DEF clear, stateAfter, Settling, Unsettled
    <3>3. CASE kind[l] # "relay"
      BY <1>1, <2>5, <3>1, <3>3 DEF clear, stateAfter
    <3>4. QED
      BY <3>2, <3>3
  <2>6. QED
    BY <1>4, <2>1, <2>2, <2>3, <2>4, <2>5 DEF GoroutineSteps
<1>5. ASSUME NEW x \in Calls, Disconnect(x) \/ CallSteps(x) PROVE Settling'
  <2>1. UNCHANGED <<client, state, kind, suppress, con, ev>>
    BY <1>5 DEF Disconnect, CallSteps, disconnectCancel, disconnectRelease
  <2>2. QED
    BY <1>1, <2>1 DEF WillSettle
<1>6. CASE closePort \/ UNCHANGED vars
  BY <1>1, <1>6 DEF closePort, vars, WillSettle
<1>7. QED
  BY <1>2, <1>3, <1>4, <1>5, <1>6 DEF Next

-----------------------------------------------------------------------------

DaemonInvariant == Types /\ Owned /\ Silenced /\ OnePlace /\ Underway /\ Settling

(* The inductive invariant holds throughout. *)
THEOREM DaemonInvariantHolds == Spec => []DaemonInvariant
<1> USE LoginNotZero
<1>1. Init => DaemonInvariant
  <2> SUFFICES ASSUME Init PROVE DaemonInvariant
    OBVIOUS
  <2>1. Types
    BY DEF Init, Types, NoCall, CallRecords, States, GorStates, ConStates
  <2>2. Owned /\ Silenced
    BY DEF Init, Owned, OneConnection, Silenced
  <2>3. OnePlace
    BY DEF Init, OnePlace, NoCall
  <2>4. Underway /\ Settling
    BY DEF Init, Underway, Settling, Unsettled
  <2>5. QED
    BY <2>1, <2>2, <2>3, <2>4 DEF DaemonInvariant
<1>2. DaemonInvariant /\ [Next]_vars => DaemonInvariant'
  BY TypesStep, OwnedStep, SilencedStep, OnePlaceStep, UnderwayStep, SettlingStep
     DEF DaemonInvariant
<1>3. QED
  BY <1>1, <1>2, PTL DEF Spec

(* Never two logins at a time: d.client, which the Busy answer tests, is    *)
(* set exactly while a login's goroutine runs.                              *)
THEOREM OneConnectionHolds == Spec => []OneConnection
<1>1. DaemonInvariant => OneConnection
  BY DEF DaemonInvariant, Owned
<1>2. QED
  BY <1>1, DaemonInvariantHolds, PTL

(* Disconnect can always reach the tunnel of a direct login. *)
THEOREM DirectTunnelOwnedHolds == Spec => []DirectTunnelOwned
<1>1. DaemonInvariant => DirectTunnelOwned
  BY DEF DaemonInvariant, Owned, OneConnection, DirectTunnelOwned
<1>2. QED
  BY <1>1, DaemonInvariantHolds, PTL

(* Status settles: once no login is under way and no tunnel is left,         *)
(* d.state is idle or error, whatever the order in which the events of old  *)
(* tunnels and the resets of relay logins came.                             *)
THEOREM StatusSettledHolds == Spec => []StatusSettled
<1>1. DaemonInvariant => StatusSettled
  <2> SUFFICES ASSUME DaemonInvariant, client = 0, state \notin {"idle", "error"},
                      \A l \in Logins : con[l] \in {"none", "failed", "down"}
               PROVE  FALSE
    BY DEF StatusSettled
  <2>1. PICK l \in Logins : WillSettle(l)
    BY DEF DaemonInvariant, Types, States, Settling, Unsettled
  <2>2. ev[l] \notin {"error", "idle"}
    BY DEF DaemonInvariant, Underway
  <2>3. QED
    BY <2>1, <2>2, LoginNotZero DEF WillSettle, Working
<1>2. QED
  BY <1>1, DaemonInvariantHolds, PTL

(* No number of overlapping Disconnect calls releases a relay session       *)
(* twice.                                                                   *)
THEOREM ReleasedOnceHolds == Spec => []ReleasedOnce
<1>1. DaemonInvariant => ReleasedOnce
  BY DEF DaemonInvariant, OnePlace, ReleasedOnce
<1>2. QED
  BY <1>1, DaemonInvariantHolds, PTL

(* After relay_delivering the GUI sees no state of the login's own client:  *)
(* the goroutine signals it only once Connect has returned.                 *)
THEOREM NoVpnSignalAfterDeliveringHolds == Spec => NoVpnSignalAfterDelivering
<1>1. DaemonInvariant =>
        \A l \in Logins : (ev[l] # "none" /\ ev'[l] = "none") => ~delivering[l]
  BY DEF DaemonInvariant, Silenced
<1>2. QED
  BY <1>1, DaemonInvariantHolds, PTL DEF NoVpnSignalAfterDelivering

=============================================================================
