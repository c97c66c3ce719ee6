------------------------ MODULE ClientLifecycleProofs ------------------------
(***************************************************************************)
(* The life of a Client for any number of session monitors, logins,        *)
(* reconnects and Disconnect calls, as long as the second thread does not  *)
(* call Disconnect while the owner sets up a connection (DisconnectAt).    *)
(*                                                                         *)
(* A client is always in one of six stages.  The close of doneCh belongs   *)
(* to one thread at a time: to the one that set Disconnecting (Held), then *)
(* to the teardown goroutine it starts (Tearing, Finished).                *)
(***************************************************************************)
EXTENDS ClientLifecycle, TLAPS

Shapes ==
  /\ worker \in [Workers -> {"off", "run", "failed", "closing"}]
  /\ teardown \in [Slots -> {"none", "wait", "cleaned", "finished"}]

NoTeardown == \A s \in Slots : teardown[s] = "none"
OnlyTeardown(s) == \A r \in Slots \ {s} : teardown[r] = "none"
NoneClosing == \A w \in Workers : worker[w] # "closing"
OnlyClosing(w) == worker[w] = "closing" /\ \A v \in Workers \ {w} : worker[v] # "closing"
Quiet == AllStopped /\ user = "idle" /\ NoTeardown

\* No tunnel yet: the owner is between connections or sets one up.
Before ==
  /\ Quiet /\ ~done /\ (owner \in {"saml", "phase2"} => challenge # "none")
  /\ \/ owner \in {"idle", "rcReset"} /\ state = "New" /\ rawConn = "none" /\ ~tunDev
     \/ owner = "dial1" /\ state = "Connecting" /\ rawConn = "none" /\ ~tunDev
     \/ /\ owner \in {"phase1", "saml", "phase2", "cache", "dial2", "exchange2", "tun", "gone"}
        /\ state = "Connecting" /\ ~tunDev
     \/ owner = "mark" /\ state = "Connecting"
     \/ owner = "start" /\ state = "TunnelUp"

Running ==
  /\ owner = "up" /\ state = "TunnelUp" /\ ~done
  /\ user = "idle" /\ NoneClosing /\ NoTeardown

\* The owner waits, or has no tunnel.
Parked == owner \in {"up", "leaving"} \/ (owner \in {"idle", "gone"} /\ AllStopped)

\* One thread is inside disconnect, between the lock and the teardown.
HeldByOwner == owner = "closing" /\ user = "idle" /\ NoneClosing
HeldByUser == Parked /\ user = "closing" /\ NoneClosing
HeldBy(w) == owner \in {"up", "leaving"} /\ user = "idle" /\ OnlyClosing(w)
Held ==
  /\ state = "Disconnecting" /\ ~done /\ NoTeardown
  /\ HeldByOwner \/ HeldByUser \/ \E w \in Workers : HeldBy(w)

\* One teardown goroutine is at work.
TearingIn(s) ==
  /\ OnlyTeardown(s)
  /\ \/ teardown[s] = "wait"
     \/ teardown[s] = "cleaned" /\ AllStopped /\ ~tunDev
Tearing ==
  /\ state = "Disconnecting" /\ ~done /\ rawConn # "open"
  /\ Parked /\ user = "idle" /\ NoneClosing
  /\ \E s \in Slots : TearingIn(s)

Finished ==
  /\ state = "Disconnected" /\ ~done /\ rawConn # "open" /\ ~tunDev
  /\ Parked /\ user = "idle" /\ AllStopped
  /\ \E s \in Slots : OnlyTeardown(s) /\ teardown[s] = "finished"

Ended ==
  /\ state = "Disconnected" /\ done /\ Quiet /\ rawConn # "open" /\ ~tunDev
  /\ owner \in {"idle", "up", "leaving", "reconnect", "rcWait", "reauth", "reauthWait", "gone"}

Stage == Before \/ Running \/ Held \/ Tearing \/ Finished \/ Ended

\* What is known of the credentials.
Session == {"up", "closing", "leaving"}
Submitting == {"phase2", "cache", "dial2", "exchange2", "tun", "mark", "start"}
Retrying == {"reconnect", "rcWait", "rcReset"}

\* An assertion is submitted only while it has not been rejected.
Rejections ==
  /\ logins \in Nat /\ token \in 0 .. logins /\ rejected \subseteq 1 .. logins
  /\ owner \in {"dial1", "phase1", "saml"} =>
       logins # 0 /\ logins \notin rejected /\ token = NoToken
  /\ owner \in Submitting \cup Retrying => token \notin rejected
  /\ owner \in Session => reauthRequired \/ token \notin rejected

\* It is cached from the second phase on.
Caching ==
  /\ owner \in {"dial2", "exchange2", "tun", "mark", "start"} => cached = token
  /\ owner = "up" => /\ cached \in {NoToken, token}
                     /\ clearCredentialsOnCleanup \/ reauthRequired \/ cached = token

\* An explicit Disconnect is not forgotten before the credentials are gone.
Remembered ==
  explicit =>
    /\ owner \in Session \cup Retrying \cup {"idle", "reauth", "reauthWait", "gone"}
    /\ state \in {"New", "Disconnecting", "Disconnected"}
    /\ state = "Disconnecting" => clearCredentialsOnCleanup
    /\ state = "Disconnected" => cached = NoToken
    /\ owner \in Retrying => token = NoToken

Asked == reauthEvents \in {0, 1} /\ (reauthEvents = 1 => reauthRequired)

Credentials == Rejections /\ Caching /\ Asked

LifecycleInvariant == Shapes /\ Stage /\ Credentials /\ ~panicked

-----------------------------------------------------------------------------
\* Where the second thread may not disconnect in these theorems: while the
\* owner sets up a connection, from Connect or within a round of Reconnect,
\* and where the credentials are concerned, while Reconnect holds a copy.
NotDuringSetup ==
  DisconnectAt \cap {"dial1", "phase1", "saml", "phase2", "cache", "dial2", "exchange2", "tun",
                     "mark", "start", "rcReset"} = {}
NotWhileRetrying == DisconnectAt \cap {"reconnect", "rcWait"} = {}

Goal == Shapes /\ Stage /\ ~panicked

(* No tunnel: only the owner acts. *)
LEMMA BeforeStep ==
  ASSUME Shapes, Before, ~panicked, NotDuringSetup, Next
  PROVE  Goal'
<1>1. Quiet
  BY DEF Before
<1>2. /\ ~ \E w \in Workers : Worker(w)
      /\ ~ \E m \in Monitors : SessionExpires(m)
      /\ ~ \E s \in Slots : Teardown(s)
      /\ ~ UserCloses
  BY <1>1, Zenon DEF Worker, WorkerFails, WorkerDisconnects, WorkerCloses, WorkerStops, SessionExpires,
              Teardown, Cleanup, FinishTeardown, CloseDone, UserCloses,
              Quiet, AllStopped, NoTeardown, Workers
<1>3. Owner \/ UserDisconnects
  BY <1>2 DEF Next
<1> USE DEF threads, fields, Quiet, AllStopped, NoTeardown
<1>4. CASE Connect \/ Dial1 \/ Phase1Challenge \/ Phase1Direct \/ CollectToken
  <2>1. UNCHANGED <<threads, done>> /\ Before'
    BY <1>4 DEF Connect, Dial1, Phase1Challenge, Phase1Direct, CollectToken, Before
  <2>2. QED
    BY <2>1 DEF Goal, Shapes, Stage
<1>5. CASE Phase2Caches \/ Dial2 \/ Exchange2 \/ OpenTun \/ MarkUp
  <2>1. UNCHANGED <<threads, done>> /\ Before'
    BY <1>5 DEF Phase2Caches, Dial2, Exchange2, OpenTun, MarkUp, Before
  <2>2. QED
    BY <2>1 DEF Goal, Shapes, Stage
<1>6. CASE Phase2Start \/ ReconnectReuses \/ ReconnectNeedsLogin
  <2>1. UNCHANGED <<threads, done>> /\ Before'
    BY <1>6 DEF Phase2Start, ReconnectReuses, ReconnectNeedsLogin, Before
  <2>2. QED
    BY <2>1 DEF Goal, Shapes, Stage
<1>7. CASE SetupFails \/ Exchange2Rejected
  <2>1. UNCHANGED threads /\ Ended'
    BY <1>7 DEF SetupFails, Exchange2Rejected, setDisconnected, Before, Ended
  <2>2. QED
    BY <2>1 DEF Goal, Shapes, Stage
<1>8. CASE StartWorkers
  <2>1. Running' /\ UNCHANGED <<panicked, teardown>>
    BY <1>8 DEF StartWorkers, Before, Running, NoneClosing
  <2>2. worker' \in [Workers -> {"off", "run", "failed", "closing"}]
    BY <1>8 DEF StartWorkers
  <2>3. QED
    BY <2>1, <2>2 DEF Goal, Shapes, Stage
<1>9. CASE OwnerDisconnects \/ OwnerCloses \/ OwnerLeaves \/ OwnerSeesDone \/ Reconnect
           \/ Reauth \/ ReconnectRound \/ ReconnectGivesUp \/ ReconnectResets
  BY <1>9, Zenon DEF OwnerDisconnects, OwnerCloses, OwnerLeaves, OwnerSeesDone, Reconnect,
              Reauth, ReconnectRound, ReconnectGivesUp, ReconnectResets, Before
<1>10. CASE UserDisconnects
  <2>1. owner \in {"idle", "gone"} /\ ~Closing
    BY <1>10 DEF UserDisconnects, NotDuringSetup, Before, Closing
  <2>2. /\ state' = "Disconnecting" /\ user' = "closing"
        /\ UNCHANGED <<done, worker, teardown, owner, panicked>>
    BY <1>10, <2>1 DEF UserDisconnects, disconnectLocked
  <2>3. Held'
    BY <1>1, <2>1, <2>2 DEF Before, Held, HeldByUser, Parked, NoneClosing
  <2>4. QED
    BY <2>2, <2>3 DEF Goal, Shapes, Stage
<1>11. QED
  BY <1>3, <1>4, <1>5, <1>6, <1>7, <1>8, <1>9, <1>10 DEF Owner

(* After the end: the owner leaves or reconnects; a late Disconnect only    *)
(* clears credentials.                                                      *)
LEMMA EndedStep ==
  ASSUME Shapes, Ended, ~panicked, Next
  PROVE  Goal'
<1>1. Quiet /\ Closing /\ state = "Disconnected"
  BY DEF Ended, Closing
<1>2. /\ ~ \E w \in Workers : Worker(w)
      /\ ~ \E m \in Monitors : SessionExpires(m)
      /\ ~ \E s \in Slots : Teardown(s)
      /\ ~ UserCloses
  BY <1>1, Zenon DEF Worker, WorkerFails, WorkerDisconnects, WorkerCloses, WorkerStops, SessionExpires,
              Teardown, Cleanup, FinishTeardown, CloseDone, UserCloses,
              Quiet, AllStopped, NoTeardown, Workers
<1>3. Owner \/ UserDisconnects
  BY <1>2 DEF Next
<1> USE DEF threads, fields, Quiet, AllStopped, NoTeardown
<1>4. CASE OwnerDisconnects \/ Reauth \/ ReconnectRound \/ UserDisconnects
  <2>1. /\ UNCHANGED <<worker, teardown, panicked, state, done, rawConn, tunDev>>
        /\ user' = "idle" /\ (owner' = owner \/ owner' \in {"leaving", "reauthWait", "rcWait"})
    BY <1>1, <1>4 DEF OwnerDisconnects, Reauth, ReconnectRound, UserDisconnects, disconnectLocked, Closing
  <2>2. Ended'
    BY <2>1 DEF Ended
  <2>3. QED
    BY <2>1, <2>2 DEF Goal, Shapes, Stage
<1>5. CASE Connect \/ OwnerLeaves \/ OwnerSeesDone \/ Reconnect \/ ReconnectGivesUp
  <2>1. /\ UNCHANGED <<threads, state, done, rawConn, tunDev>>
        /\ owner' \in {"gone", "reauth", "reconnect"}
    BY <1>1, <1>5 DEF Connect, OwnerLeaves, OwnerSeesDone, Reconnect, ReconnectGivesUp
  <2>2. Ended'
    BY <2>1 DEF Ended
  <2>3. QED
    BY <2>1, <2>2 DEF Goal, Shapes, Stage
<1>6. CASE ReconnectResets
  <2>1. UNCHANGED threads /\ Before'
    BY <1>6 DEF ReconnectResets, reset, Ended, Before
  <2>2. QED
    BY <2>1 DEF Goal, Shapes, Stage
<1>7. CASE Dial1 \/ SetupFails \/ Phase1Challenge \/ Phase1Direct \/ CollectToken
           \/ Phase2Start \/ Phase2Caches \/ Dial2 \/ Exchange2 \/ Exchange2Rejected \/ OpenTun
           \/ MarkUp \/ StartWorkers \/ OwnerCloses \/ ReconnectReuses \/ ReconnectNeedsLogin
  BY <1>7, Zenon DEF Dial1, SetupFails, Phase1Challenge, Phase1Direct, CollectToken, Phase2Start,
              Phase2Caches, Dial2, Exchange2, Exchange2Rejected, OpenTun, MarkUp, StartWorkers,
              OwnerCloses, ReconnectReuses, ReconnectNeedsLogin, Ended
<1>8. QED
  BY <1>3, <1>4, <1>5, <1>6, <1>7 DEF Owner

(* While the tunnel is up or going down the owner can only disconnect, go   *)
(* on with its disconnect, or wait; a Connect that comes too early ends.    *)
LEMMA OwnerInSession ==
  ASSUME Owner, owner \in {"up", "closing", "leaving", "idle", "gone"}, ~done
  PROVE  \/ OwnerDisconnects \/ (OwnerCloses /\ owner = "closing")
         \/ (Connect /\ owner = "idle")
<1>1. ~ (Dial1 \/ SetupFails \/ Phase1Challenge \/ Phase1Direct \/ CollectToken \/ Phase2Start)
  BY Zenon DEF Dial1, SetupFails, Phase1Challenge, Phase1Direct, CollectToken, Phase2Start
<1>2. ~ (Phase2Caches \/ Dial2 \/ Exchange2 \/ Exchange2Rejected \/ OpenTun \/ MarkUp \/ StartWorkers)
  BY Zenon DEF Phase2Caches, Dial2, Exchange2, Exchange2Rejected, OpenTun, MarkUp, StartWorkers
<1>3. ~ (OwnerLeaves \/ OwnerSeesDone \/ Reconnect \/ Reauth \/ ReconnectRound \/ ReconnectGivesUp
         \/ ReconnectResets \/ ReconnectReuses \/ ReconnectNeedsLogin)
  BY Zenon DEF OwnerLeaves, OwnerSeesDone, Reconnect, Reauth, ReconnectRound, ReconnectGivesUp,
               ReconnectResets, ReconnectReuses, ReconnectNeedsLogin
<1>4. (OwnerCloses => owner = "closing") /\ (Connect => owner = "idle")
  BY Zenon DEF OwnerCloses, Connect
<1>5. QED
  BY <1>1, <1>2, <1>3, <1>4, Zenon DEF Owner

(* A goroutine that fails, expires or stops is not inside disconnect.       *)
LEMMA WorkerLeaves ==
  ASSUME Shapes,
         \/ \E w \in Workers : WorkerFails(w) \/ WorkerStops(w)
         \/ \E m \in Monitors : SessionExpires(m)
  PROVE  /\ Shapes' /\ ~AllStopped
         /\ \A w \in Workers : worker'[w] = "closing" <=> worker[w] = "closing"
         /\ UNCHANGED <<state, done, rawConn, tunDev, owner, user, teardown, panicked>>
<1>1. PICK w \in Workers : WorkerFails(w) \/ WorkerStops(w) \/ SessionExpires(w)
  BY Zenon DEF Workers
<1>2. worker[w] = "run" /\ \E x \in {"failed", "off"} : worker' = [worker EXCEPT ![w] = x]
  BY <1>1 DEF WorkerFails, WorkerStops, SessionExpires
<1>3. UNCHANGED <<state, done, rawConn, tunDev, owner, user, teardown, panicked>>
  BY <1>1 DEF WorkerFails, WorkerStops, SessionExpires, fields, rest
<1>4. QED
  BY <1>2, <1>3 DEF Shapes, AllStopped

(* The step that starts the teardown goroutine. *)
LEMMA TeardownStarts ==
  ASSUME Shapes, NoTeardown, disconnectRest
  PROVE  /\ teardown' \in [Slots -> {"none", "wait", "cleaned", "finished"}]
         /\ rawConn' # "open" /\ \E s \in Slots : TearingIn(s)'
<1>1. PICK s \in Slots : teardown' = [teardown EXCEPT ![s] = "wait"]
  BY Zenon DEF disconnectRest
<1>2. teardown'[s] = "wait" /\ \A r \in Slots \ {s} : teardown'[r] = "none"
  BY <1>1 DEF Shapes, NoTeardown
<1>3. TearingIn(s)'
  BY <1>2 DEF TearingIn, OnlyTeardown
<1>4. QED
  BY <1>1, <1>3 DEF disconnectRest, Shapes

(* The tunnel is up: whoever comes first through the lock holds the         *)
(* disconnect.                                                              *)
LEMMA RunningStep ==
  ASSUME Shapes, Running, ~panicked, Next
  PROVE  Goal'
<1>1. ~Closing /\ owner = "up" /\ ~done /\ user = "idle" /\ NoneClosing /\ NoTeardown
  BY DEF Running, Closing
<1>2. CASE Owner
  <2>1. OwnerDisconnects
    BY <1>1, <1>2, OwnerInSession
  <2>2. Held'
    BY <1>1, <2>1 DEF OwnerDisconnects, disconnectLocked, threads, Held, HeldByOwner, NoneClosing, NoTeardown
  <2>3. QED
    BY <2>1, <2>2 DEF OwnerDisconnects, threads, Goal, Shapes, Stage
<1>3. CASE \/ \E w \in Workers : WorkerFails(w) \/ WorkerStops(w)
           \/ \E m \in Monitors : SessionExpires(m)
  BY <1>3, WorkerLeaves DEF Running, NoneClosing, NoTeardown, Goal, Stage
<1>4. ASSUME NEW w \in Workers, WorkerDisconnects(w) PROVE Goal'
  <2>1. /\ worker' = [worker EXCEPT ![w] = "closing"] /\ state' = "Disconnecting"
        /\ UNCHANGED <<done, teardown, owner, user, panicked>>
    BY <1>1, <1>4 DEF WorkerDisconnects, disconnectLocked, rest
  <2>2. OnlyClosing(w)' /\ Shapes'
    BY <1>1, <2>1 DEF OnlyClosing, NoneClosing, Shapes
  <2>3. HeldBy(w)' /\ NoTeardown'
    BY <1>1, <2>1, <2>2 DEF HeldBy, NoTeardown
  <2>4. Held'
    BY <1>1, <2>1, <2>3 DEF Held
  <2>5. QED
    BY <2>1, <2>2, <2>4 DEF Goal, Stage
<1>5. CASE UserDisconnects
  <2>1. /\ user' = "closing" /\ state' = "Disconnecting"
        /\ UNCHANGED <<done, worker, teardown, owner, panicked>>
    BY <1>1, <1>5 DEF UserDisconnects, disconnectLocked
  <2>2. Held'
    BY <1>1, <2>1 DEF Held, HeldByUser, Parked, NoneClosing, NoTeardown
  <2>3. QED
    BY <2>1, <2>2 DEF Goal, Shapes, Stage
<1>6. /\ ~ UserCloses /\ ~ \E s \in Slots : Teardown(s)
      /\ ~ \E w \in Workers : WorkerCloses(w)
  BY <1>1 DEF UserCloses, Teardown, Cleanup, FinishTeardown, CloseDone, WorkerCloses, NoTeardown, NoneClosing
<1>7. QED
  BY <1>2, <1>3, <1>4, <1>5, <1>6 DEF Next, Worker

(* A call of disconnect that finds the client closing leaves the stage as   *)
(* it is, and so does a Connect.                                            *)
LEMMA LateDisconnect ==
  ASSUME Shapes, Closing,
         \/ OwnerDisconnects \/ UserDisconnects \/ Connect
         \/ \E w \in Workers : WorkerDisconnects(w)
  PROVE  /\ Shapes' /\ UNCHANGED <<state, done, rawConn, tunDev, user, teardown, panicked>>
         /\ \/ owner' = owner
            \/ owner = "up" /\ owner' = "leaving"
            \/ owner = "idle" /\ owner' = "gone"
         /\ \A w \in Workers : worker'[w] = "closing" <=> worker[w] = "closing"
         /\ AllStopped => worker' = worker
<1>1. CASE OwnerDisconnects
  BY <1>1 DEF OwnerDisconnects, disconnectLocked, threads, Shapes
<1>2. CASE UserDisconnects
  BY <1>2 DEF UserDisconnects, disconnectLocked, Shapes
<1>3. CASE Connect
  BY <1>3 DEF Connect, Closing, threads, Shapes
<1>4. ASSUME NEW w \in Workers, WorkerDisconnects(w)
      PROVE  /\ worker[w] = "failed" /\ worker' = [worker EXCEPT ![w] = "off"]
             /\ UNCHANGED <<state, done, rawConn, tunDev, teardown, owner, user, panicked>>
  BY <1>4 DEF WorkerDisconnects, disconnectLocked, rest
<1>5. CASE \E w \in Workers : WorkerDisconnects(w)
  BY <1>4, <1>5 DEF Shapes, AllStopped
<1>6. QED
  BY <1>1, <1>2, <1>3, <1>5

(* One thread holds the disconnect: it alone can start the teardown. *)
LEMMA HeldStep ==
  ASSUME Shapes, Held, ~panicked, Next
  PROVE  Goal'
<1>1. Closing /\ ~done /\ NoTeardown /\ owner \in {"up", "closing", "leaving", "idle", "gone"}
  BY DEF Held, HeldByOwner, HeldByUser, HeldBy, Parked, Closing
<1>2. ASSUME Shapes', NoTeardown', UNCHANGED <<state, done, panicked, user>>,
             \/ owner' = owner
             \/ owner = "up" /\ owner' = "leaving"
             \/ owner = "idle" /\ owner' = "gone",
             \A w \in Workers : worker'[w] = "closing" <=> worker[w] = "closing",
             AllStopped => worker' = worker
      PROVE  Goal'
  <2>1. (HeldByOwner => HeldByOwner') /\ \A w \in Workers : HeldBy(w) => HeldBy(w)'
    BY <1>2 DEF HeldByOwner, HeldBy, NoneClosing, OnlyClosing
  <2>2. HeldByUser => HeldByUser'
    BY <1>2 DEF HeldByUser, Parked, NoneClosing, AllStopped
  <2>3. Held'
    BY <1>2, <2>1, <2>2 DEF Held
  <2>4. QED
    BY <1>2, <2>3 DEF Goal, Stage
<1>3. CASE \/ \E w \in Workers : WorkerFails(w) \/ WorkerStops(w)
           \/ \E m \in Monitors : SessionExpires(m)
  BY <1>1, <1>2, <1>3, WorkerLeaves DEF NoTeardown
<1>4. CASE \/ OwnerDisconnects \/ UserDisconnects \/ Connect
           \/ \E w \in Workers : WorkerDisconnects(w)
  BY <1>1, <1>2, <1>4, LateDisconnect DEF NoTeardown
<1>5. ASSUME disconnectRest, UNCHANGED <<state, done, panicked>>, user' = "idle", NoneClosing',
             Parked', worker' \in [Workers -> {"off", "run", "failed", "closing"}]
      PROVE  Goal'
  <2>1. /\ teardown' \in [Slots -> {"none", "wait", "cleaned", "finished"}]
        /\ rawConn' # "open" /\ \E s \in Slots : TearingIn(s)'
    BY <1>1, <1>5, TeardownStarts
  <2>2. state' = "Disconnecting" /\ ~done' /\ ~panicked'
    BY <1>5 DEF Held
  <2>3. Tearing'
    BY <1>5, <2>1, <2>2 DEF Tearing
  <2>4. QED
    BY <1>5, <2>1, <2>2, <2>3 DEF Goal, Shapes, Stage
<1>6. CASE OwnerCloses /\ owner = "closing"
  <2>1. HeldByOwner
    BY <1>6 DEF Held, HeldByUser, HeldBy, Parked
  <2>2. QED
    BY <1>5, <1>6, <2>1 DEF OwnerCloses, HeldByOwner, Parked, NoneClosing, Shapes
<1>7. CASE UserCloses
  <2>1. HeldByUser
    BY <1>7 DEF UserCloses, Held, HeldByOwner, HeldBy
  <2>2. QED
    BY <1>5, <1>7, <2>1 DEF UserCloses, HeldByUser, Parked, NoneClosing, AllStopped, Shapes
<1>8. ASSUME NEW w \in Workers, WorkerCloses(w) PROVE Goal'
  <2>1. worker[w] = "closing" /\ worker' = [worker EXCEPT ![w] = "off"]
    BY <1>8 DEF WorkerCloses
  <2>2. HeldBy(w)
    BY <2>1 DEF Held, HeldByOwner, HeldByUser, HeldBy, NoneClosing, OnlyClosing
  <2>3. NoneClosing' /\ worker' \in [Workers -> {"off", "run", "failed", "closing"}]
    BY <2>1, <2>2 DEF HeldBy, OnlyClosing, NoneClosing, Shapes
  <2>4. QED
    BY <1>5, <1>8, <2>2, <2>3 DEF WorkerCloses, HeldBy, Parked, rest
<1>9. ~ \E s \in Slots : Teardown(s)
  BY <1>1 DEF Teardown, Cleanup, FinishTeardown, CloseDone, NoTeardown
<1>10. CASE Owner
  BY <1>1, <1>4, <1>6, <1>10, OwnerInSession
<1>11. QED
  BY <1>3, <1>4, <1>7, <1>8, <1>9, <1>10 DEF Next, Worker

(* One teardown goroutine is at work, and nobody else is inside disconnect. *)
LEMMA TearingStep ==
  ASSUME Shapes, Tearing, ~panicked, Next
  PROVE  Goal'
<1>1. PICK s \in Slots : TearingIn(s)
  BY DEF Tearing
<1>2. /\ Closing /\ state = "Disconnecting" /\ ~done /\ rawConn # "open"
      /\ Parked /\ user = "idle" /\ NoneClosing
      /\ owner \in {"up", "leaving", "idle", "gone"}
  BY DEF Tearing, Parked, Closing
<1>3. ASSUME Shapes', UNCHANGED <<state, done, rawConn, tunDev, user, teardown, panicked>>,
             \/ owner' = owner
             \/ owner = "up" /\ owner' = "leaving"
             \/ owner = "idle" /\ owner' = "gone",
             \A w \in Workers : worker'[w] = "closing" <=> worker[w] = "closing",
             AllStopped => worker' = worker
      PROVE  Goal'
  <2>1. TearingIn(s)'
    BY <1>1, <1>3 DEF TearingIn, OnlyTeardown, AllStopped
  <2>2. Tearing'
    BY <1>2, <1>3, <2>1 DEF Tearing, Parked, NoneClosing, AllStopped
  <2>3. QED
    BY <1>3, <2>2 DEF Goal, Stage
<1>4. CASE \/ \E w \in Workers : WorkerFails(w) \/ WorkerStops(w)
           \/ \E m \in Monitors : SessionExpires(m)
  BY <1>2, <1>3, <1>4, WorkerLeaves
<1>5. CASE \/ OwnerDisconnects \/ UserDisconnects \/ Connect
           \/ \E w \in Workers : WorkerDisconnects(w)
  BY <1>2, <1>3, <1>5, LateDisconnect
<1>6. CASE Owner
  BY <1>2, <1>5, <1>6, OwnerInSession
<1>7. ~ UserCloses /\ ~ \E w \in Workers : WorkerCloses(w)
  BY <1>2 DEF UserCloses, WorkerCloses, NoneClosing
<1>8. ASSUME NEW r \in Slots, Teardown(r) PROVE Goal'
  <2>1. r = s
    BY <1>1, <1>8 DEF Teardown, Cleanup, FinishTeardown, CloseDone, TearingIn, OnlyTeardown
  <2>2. CASE Cleanup(s)
    <3>1. /\ teardown' = [teardown EXCEPT ![s] = "cleaned"] /\ ~tunDev' /\ AllStopped
          /\ UNCHANGED <<state, done, rawConn, worker, owner, user, panicked>>
      BY <2>2 DEF Cleanup, rest
    <3>2. TearingIn(s)' /\ Shapes'
      BY <1>1, <3>1 DEF TearingIn, OnlyTeardown, AllStopped, Shapes
    <3>3. Tearing'
      BY <1>2, <3>1, <3>2 DEF Tearing, Parked, NoneClosing, AllStopped
    <3>4. QED
      BY <3>1, <3>2, <3>3 DEF Goal, Stage
  <2>3. CASE FinishTeardown(s)
    <3>1. /\ teardown' = [teardown EXCEPT ![s] = "finished"] /\ state' = "Disconnected"
          /\ UNCHANGED <<done, rawConn, tunDev, worker, owner, user, panicked>>
          /\ teardown[s] = "cleaned"
      BY <2>3 DEF FinishTeardown, rest
    <3>2. OnlyTeardown(s)' /\ teardown'[s] = "finished" /\ Shapes' /\ AllStopped /\ ~tunDev
      BY <1>1, <3>1 DEF TearingIn, OnlyTeardown, Shapes
    <3>3. Finished'
      BY <1>2, <3>1, <3>2 DEF Finished, Parked, AllStopped
    <3>4. QED
      BY <3>1, <3>2, <3>3 DEF Goal, Stage
  <2>4. ~CloseDone(s)
    BY <1>1 DEF CloseDone, TearingIn
  <2>5. QED
    BY <1>8, <2>1, <2>2, <2>3, <2>4 DEF Teardown
<1>9. QED
  BY <1>4, <1>5, <1>6, <1>7, <1>8 DEF Next, Worker

(* The teardown goroutine is about to close doneCh, which is still open. *)
LEMMA FinishedStep ==
  ASSUME Shapes, Finished, ~panicked, Next
  PROVE  Goal'
<1>1. PICK s \in Slots : OnlyTeardown(s) /\ teardown[s] = "finished"
  BY DEF Finished
<1>2. /\ Closing /\ state = "Disconnected" /\ ~done /\ rawConn # "open" /\ ~tunDev
      /\ Parked /\ user = "idle" /\ AllStopped
      /\ owner \in {"up", "leaving", "idle", "gone"}
  BY DEF Finished, Parked, Closing
<1>3. CASE OwnerDisconnects \/ UserDisconnects \/ Connect
  <2>1. /\ Shapes' /\ UNCHANGED <<state, done, rawConn, tunDev, teardown, panicked, worker>>
        /\ owner' \in {"up", "leaving", "idle", "gone"} /\ user' = "idle"
    BY <1>2, <1>3, LateDisconnect
  <2>2. Finished'
    BY <1>1, <1>2, <2>1 DEF Finished, Parked, OnlyTeardown, AllStopped
  <2>3. QED
    BY <2>1, <2>2 DEF Goal, Stage
<1>4. CASE Owner
  BY <1>2, <1>3, <1>4, OwnerInSession
<1>5. /\ ~ \E w \in Workers : Worker(w)
      /\ ~ \E m \in Monitors : SessionExpires(m)
      /\ ~ UserCloses
  BY <1>2, Zenon DEF Worker, WorkerFails, WorkerDisconnects, WorkerCloses, WorkerStops, SessionExpires,
              UserCloses, AllStopped, Workers
<1>6. ASSUME NEW r \in Slots, Teardown(r) PROVE Goal'
  <2>1. CloseDone(s)
    BY <1>1, <1>6 DEF Teardown, Cleanup, FinishTeardown, CloseDone, OnlyTeardown
  <2>2. /\ teardown' = [teardown EXCEPT ![s] = "none"] /\ done' = TRUE /\ ~panicked'
        /\ UNCHANGED <<state, rawConn, tunDev, worker, owner, user>>
    BY <1>2, <2>1, Zenon DEF CloseDone
  <2>3. NoTeardown' /\ Shapes'
    BY <1>1, <2>2 DEF OnlyTeardown, NoTeardown, Shapes
  <2>4. Ended'
    BY <1>2, <2>2, <2>3 DEF Ended, Quiet, AllStopped
  <2>5. QED
    BY <2>2, <2>3, <2>4 DEF Goal, Stage
<1>7. QED
  BY <1>3, <1>4, <1>5, <1>6 DEF Next

(* The stages follow one another, whatever step is taken. *)
LEMMA StageStep ==
  ASSUME Shapes, Stage, ~panicked, NotDuringSetup, [Next]_vars
  PROVE  Goal'
<1>1. CASE UNCHANGED vars
  BY <1>1 DEF vars, fields, Goal, Shapes, Stage, Before, Running, Held, HeldByOwner, HeldByUser, HeldBy,
              OnlyClosing, NoneClosing, Parked, Tearing, TearingIn, OnlyTeardown, Finished, Ended, Quiet,
              AllStopped, NoTeardown
<1>2. CASE Next
  BY <1>2, BeforeStep, RunningStep, HeldStep, TearingStep, FinishedStep, EndedStep DEF Stage
<1>3. QED
  BY <1>1, <1>2

-----------------------------------------------------------------------------
(* What the stages say of the threads. *)
LEMMA StageFacts ==
  ASSUME Stage
  PROVE  /\ ~AllStopped =>
               owner \in Session /\ state \in {"TunnelUp", "Disconnecting", "Disconnected"}
         /\ ~NoTeardown => owner \in Session \cup {"idle", "gone"}
         /\ owner \in {"reconnect", "rcWait", "reauth", "reauthWait"} => state = "Disconnected"
         /\ owner = "up" => state # "New"
         /\ owner \notin {"rcClosing", "reauthClosing"}
         /\ done => state = "Disconnected"
         /\ \A t \in Slots : teardown[t] = "cleaned" => state = "Disconnecting"
<1>1. ASSUME NEW t \in Slots, teardown[t] = "cleaned" PROVE state = "Disconnecting"
  BY <1>1 DEF Stage, Before, Running, Held, Tearing, Finished, Ended, Quiet, NoTeardown, OnlyTeardown
<1>2. QED
  BY <1>1 DEF Stage, Before, Running, Held, HeldByOwner, HeldByUser, HeldBy, Parked, Tearing, Finished,
       Ended, Quiet, Session

(* A rejected assertion is never the one being submitted or kept to retry. *)
LEMMA RejectionsStep ==
  ASSUME Stage, Rejections, Caching, Next
  PROVE  Rejections'
<1> USE DEF Rejections, Session, Submitting, Retrying, NoToken
<1>1. CASE Connect
  <2>1. logins' = logins + 1 /\ rejected' = rejected /\ token' = 0 /\ owner' \in {"dial1", "gone"}
    BY <1>1 DEF Connect, NoToken
  <2>2. rejected' \subseteq 1 .. logins' /\ logins' \notin rejected'
    BY <2>1
  <2>3. QED
    BY <2>1, <2>2
<1>2. CASE Dial1 \/ Phase1Challenge \/ Phase1Direct
  <2>1. /\ UNCHANGED <<logins, token, rejected, reauthRequired>>
        /\ owner \in {"dial1", "phase1"} /\ owner' \in {"phase1", "saml", "gone", "phase2"}
    BY <1>2 DEF Dial1, Phase1Challenge, Phase1Direct, history
  <2>2. QED
    BY <2>1
<1>3. CASE CollectToken
  BY <1>3 DEF CollectToken, fields, history
<1>4. CASE Phase2Start \/ Phase2Caches \/ Dial2 \/ Exchange2 \/ OpenTun \/ MarkUp \/ StartWorkers
  BY <1>4, Zenon DEF Phase2Start, Phase2Caches, Dial2, Exchange2, OpenTun, MarkUp, StartWorkers, fields, history
<1>5. CASE SetupFails
  BY <1>5 DEF SetupFails, history
<1>6. CASE Exchange2Rejected
  BY <1>6 DEF Exchange2Rejected, NoToken
<1>7. CASE OwnerDisconnects \/ OwnerCloses \/ OwnerLeaves \/ OwnerSeesDone
  BY <1>7, StageFacts, Zenon DEF OwnerDisconnects, OwnerCloses, OwnerLeaves, OwnerSeesDone, fields, history
<1>8. CASE Reconnect
  BY <1>8 DEF Reconnect, history, Caching
<1>9. CASE Reauth \/ ReconnectRound \/ ReconnectGivesUp
  BY <1>9, Zenon DEF Reauth, ReconnectRound, ReconnectGivesUp, fields, history
<1>10. CASE ReconnectResets \/ ReconnectReuses \/ ReconnectNeedsLogin
  BY <1>10, Zenon DEF ReconnectResets, ReconnectReuses, ReconnectNeedsLogin, fields, history
<1>11. ASSUME NEW m \in Monitors, SessionExpires(m) PROVE Rejections'
  <2>1. owner \in {"up", "closing", "leaving"}
    BY <1>11, StageFacts, Zenon DEF SessionExpires, AllStopped, Workers
  <2>2. QED
    BY <1>11, <2>1 DEF SessionExpires, rest, NoToken
<1>12. CASE \/ \E w \in Workers : Worker(w)
            \/ \E s \in Slots : Teardown(s)
            \/ UserDisconnects \/ UserCloses
  BY <1>12, Zenon DEF Worker, WorkerFails, WorkerDisconnects, WorkerCloses, WorkerStops, Teardown, Cleanup,
               FinishTeardown, CloseDone, UserDisconnects, UserCloses, rest, fields, history
<1>13. QED
  BY <1>1, <1>2, <1>3, <1>4, <1>5, <1>6, <1>7, <1>8, <1>9, <1>10, <1>11, <1>12, Zenon DEF Next, Owner

(* The session keeps its assertion until a disconnect or the server gives it up. *)
LEMMA CachingStep ==
  ASSUME Stage, Caching, NotDuringSetup, Next
  PROVE  Caching'
<1> USE DEF Caching, NoToken
<1>1. CASE Connect \/ Dial1 \/ Phase1Challenge \/ Phase1Direct \/ CollectToken \/ Phase2Start
  BY <1>1 DEF Connect, Dial1, Phase1Challenge, Phase1Direct, CollectToken, Phase2Start
<1>2. CASE Phase2Caches \/ Dial2 \/ Exchange2 \/ OpenTun \/ MarkUp \/ StartWorkers
  BY <1>2 DEF Phase2Caches, Dial2, Exchange2, OpenTun, MarkUp, StartWorkers, fields
<1>3. CASE SetupFails \/ Exchange2Rejected \/ Reconnect
  BY <1>3 DEF SetupFails, Exchange2Rejected, Reconnect
<1>4. CASE OwnerDisconnects \/ OwnerCloses \/ OwnerLeaves \/ OwnerSeesDone
  BY <1>4, Zenon DEF OwnerDisconnects, OwnerCloses, OwnerLeaves, OwnerSeesDone
<1>5. CASE Reauth \/ ReconnectRound \/ ReconnectGivesUp
  BY <1>5, Zenon DEF Reauth, ReconnectRound, ReconnectGivesUp
<1>6. CASE ReconnectResets \/ ReconnectReuses \/ ReconnectNeedsLogin
  BY <1>6 DEF ReconnectResets, ReconnectReuses, ReconnectNeedsLogin
<1>7. ASSUME NEW m \in Monitors, SessionExpires(m) PROVE Caching'
  <2>1. owner \in Session
    BY <1>7, StageFacts, Zenon DEF SessionExpires, AllStopped, Workers
  <2>2. QED
    BY <1>7, <2>1 DEF SessionExpires, rest, clearCredentialsLocked, Session
<1>8. ASSUME NEW w \in Workers, Worker(w) PROVE Caching'
  <2>1. owner \in Session
    BY <1>8, StageFacts DEF Worker, WorkerFails, WorkerDisconnects, WorkerCloses, WorkerStops, AllStopped
  <2>2. CASE WorkerDisconnects(w)
    BY <2>1, <2>2, Zenon DEF WorkerDisconnects, disconnectLocked, clearCredentialsLocked, keepCredentials,
                      rest, Session
  <2>3. CASE WorkerFails(w) \/ WorkerCloses(w) \/ WorkerStops(w)
    BY <2>3 DEF WorkerFails, WorkerCloses, WorkerStops, rest, fields
  <2>4. QED
    BY <1>8, <2>2, <2>3 DEF Worker
<1>9. ASSUME NEW s \in Slots, Teardown(s) PROVE Caching'
  <2>1. owner \in Session \cup {"idle", "gone"}
    BY <1>9, StageFacts DEF Teardown, Cleanup, FinishTeardown, CloseDone, NoTeardown
  <2>2. CASE FinishTeardown(s)
    BY <2>1, <2>2 DEF FinishTeardown, clearCredentialsLocked, keepCredentials, rest, Session
  <2>3. CASE Cleanup(s) \/ CloseDone(s)
    BY <2>3 DEF Cleanup, CloseDone, rest
  <2>4. QED
    BY <1>9, <2>2, <2>3 DEF Teardown
<1>10. CASE UserDisconnects
  <2>1. /\ owner \notin {"dial2", "exchange2", "tun", "mark", "start"}
        /\ owner' = owner /\ token' = token /\ clearCredentialsOnCleanup' = TRUE
        /\ cached' \in {cached, 0}
    BY <1>10, Zenon DEF UserDisconnects, NotDuringSetup, disconnectLocked, clearCredentialsLocked, keepCredentials
  <2>2. QED
    BY <2>1
<1>11. CASE UserCloses
  BY <1>11 DEF UserCloses
<1>12. QED
  BY <1>1, <1>2, <1>3, <1>4, <1>5, <1>6, <1>7, <1>8, <1>9, <1>10, <1>11, Zenon DEF Next, Owner

(* What an explicit Disconnect asked for is carried out, by whichever thread finishes. *)
LEMMA RememberedStep ==
  ASSUME Stage, Remembered, NotDuringSetup, NotWhileRetrying, Next
  PROVE  Remembered'
<1> USE DEF Remembered, Session, Retrying, NoToken
<1>1. CASE Connect
  BY <1>1 DEF Connect
<1>2. CASE Dial1 \/ Phase1Challenge \/ Phase1Direct \/ CollectToken \/ Phase2Start \/ Phase2Caches
  BY <1>2, Zenon DEF Dial1, Phase1Challenge, Phase1Direct, CollectToken, Phase2Start, Phase2Caches, history
<1>3. CASE Dial2 \/ Exchange2 \/ OpenTun \/ MarkUp \/ StartWorkers
  BY <1>3, Zenon DEF Dial2, Exchange2, OpenTun, MarkUp, StartWorkers, history
<1>4. CASE SetupFails \/ Exchange2Rejected
  BY <1>4, Zenon DEF SetupFails, Exchange2Rejected, history
<1>5. CASE OwnerDisconnects \/ UserDisconnects
  <2>1. /\ owner' \in Session \cup {"idle", "reauth", "reauthWait", "gone"}
        /\ disconnectLocked(FALSE)
    <3>1. CASE OwnerDisconnects
      BY <3>1, Zenon DEF OwnerDisconnects
    <3>2. CASE UserDisconnects
      <4>1. /\ owner \notin Submitting \cup Retrying \cup {"dial1", "phase1", "saml"}
            /\ owner' = owner /\ disconnectLocked(FALSE)
        BY <3>2, Zenon DEF UserDisconnects, NotDuringSetup, NotWhileRetrying, Submitting
      <4>2. owner \notin {"rcClosing", "reauthClosing"} /\ owner \in OwnerPCs
        BY DEF Stage, Before, Running, Held, HeldByOwner, HeldByUser, HeldBy, Parked, Tearing, Finished,
               Ended, OwnerPCs
      <4>3. QED
        BY <4>1, <4>2, Zenon DEF OwnerPCs, Submitting
    <3>3. QED
      BY <1>5, <3>1, <3>2, Zenon
  <2>2. /\ clearCredentialsOnCleanup' = TRUE
        /\ state' \in {"Disconnecting", "Disconnected"}
        /\ state' = "Disconnected" => cached' = 0
    BY <2>1, Zenon DEF disconnectLocked, Closing, clearCredentialsLocked
  <2>3. QED
    BY <2>1, <2>2
<1>6. CASE OwnerCloses
  BY <1>6, StageFacts DEF OwnerCloses, history
<1>7. CASE OwnerLeaves \/ OwnerSeesDone
  BY <1>7, Zenon DEF OwnerLeaves, OwnerSeesDone, fields, history
<1>8. CASE Reconnect
  BY <1>8, StageFacts DEF Reconnect, history, clearCredentialsLocked, keepCredentials
<1>9. CASE Reauth \/ ReconnectRound
  <2>1. state = "Disconnected" /\ Closing
    BY <1>9, StageFacts, Zenon DEF Reauth, ReconnectRound, Closing
  <2>2. /\ state' = state /\ explicit' = explicit /\ token' = token
        /\ cached' \in {cached, 0}
        /\ owner \in {"reauth", "reconnect"} /\ owner' = IF owner = "reauth" THEN "reauthWait" ELSE "rcWait"
    BY <1>9, <2>1 DEF Reauth, ReconnectRound, disconnectLocked, clearCredentialsLocked, keepCredentials,
                      history
  <2>3. QED
    BY <2>1, <2>2
<1>10. CASE ReconnectGivesUp \/ ReconnectNeedsLogin
  BY <1>10, Zenon DEF ReconnectGivesUp, ReconnectNeedsLogin, fields, history
<1>11. CASE ReconnectResets \/ ReconnectReuses
  BY <1>11, Zenon DEF ReconnectResets, ReconnectReuses, reset, history
<1>12. ASSUME NEW m \in Monitors, SessionExpires(m) PROVE Remembered'
  BY <1>12 DEF SessionExpires, rest, clearCredentialsLocked
<1>13. ASSUME NEW w \in Workers, Worker(w) PROVE Remembered'
  <2>1. CASE WorkerDisconnects(w)
    <3>1. state # "New" /\ owner \in Session
      BY <2>1, StageFacts DEF WorkerDisconnects, AllStopped
    <3>2. /\ explicit' = explicit /\ owner' = owner /\ token' = token
          /\ disconnectLocked(preserves(w))
      BY <2>1 DEF WorkerDisconnects, rest, history
    <3>3. explicit => /\ state \in {"Disconnecting", "Disconnected"} /\ state' = state
                      /\ cached' \in {cached, 0}
                      /\ clearCredentialsOnCleanup => clearCredentialsOnCleanup'
      BY <3>1, <3>2, Zenon DEF disconnectLocked, Closing, clearCredentialsLocked, keepCredentials
    <3>4. QED
      BY <3>1, <3>2, <3>3
  <2>2. CASE WorkerFails(w) \/ WorkerCloses(w) \/ WorkerStops(w)
    BY <2>2, Zenon DEF WorkerFails, WorkerCloses, WorkerStops, rest, fields, history
  <2>3. QED
    BY <1>13, <2>1, <2>2 DEF Worker
<1>14. ASSUME NEW s \in Slots, Teardown(s) PROVE Remembered'
  <2>1. CASE FinishTeardown(s)
    <3>1. state = "Disconnecting"
      BY <2>1, StageFacts DEF FinishTeardown
    <3>2. QED
      BY <2>1, <3>1 DEF FinishTeardown, clearCredentialsLocked, rest, history
  <2>2. CASE Cleanup(s) \/ CloseDone(s)
    BY <2>2, Zenon DEF Cleanup, CloseDone, rest, history
  <2>3. QED
    BY <1>14, <2>1, <2>2 DEF Teardown
<1>15. CASE UserCloses
  BY <1>15 DEF UserCloses, history
<1>16. QED
  BY <1>1, <1>2, <1>3, <1>4, <1>5, <1>6, <1>7, <1>8, <1>9, <1>10, <1>11, <1>12, <1>13, <1>14, <1>15, Zenon
     DEF Next, Owner

(* The application is asked once per login. *)
LEMMA AskedStep ==
  ASSUME Asked, Next
  PROVE  Asked'
<1> USE DEF Asked
<1>1. CASE Connect
  BY <1>1 DEF Connect
<1>2. ASSUME NEW m \in Monitors, SessionExpires(m) PROVE Asked'
  BY <1>2 DEF SessionExpires
<1>3. CASE Owner /\ ~Connect
  <2>1. UNCHANGED <<reauthEvents, reauthRequired>>
    BY <1>3, Zenon DEF Owner, Dial1, SetupFails, Phase1Challenge, Phase1Direct, CollectToken, Phase2Start,
                Phase2Caches, Dial2, Exchange2, Exchange2Rejected, OpenTun, MarkUp, StartWorkers,
                OwnerDisconnects, OwnerCloses, OwnerLeaves, OwnerSeesDone, Reconnect, Reauth,
                ReconnectRound, ReconnectGivesUp, ReconnectResets, ReconnectReuses,
                ReconnectNeedsLogin, fields, history
  <2>2. QED
    BY <2>1
<1>4. CASE \/ \E w \in Workers : Worker(w)
           \/ \E s \in Slots : Teardown(s)
           \/ UserDisconnects \/ UserCloses
  <2>1. UNCHANGED <<reauthEvents, reauthRequired>>
    BY <1>4, Zenon DEF Worker, WorkerFails, WorkerDisconnects, WorkerCloses, WorkerStops, Teardown, Cleanup,
                FinishTeardown, CloseDone, UserDisconnects, UserCloses, fields, history
  <2>2. QED
    BY <2>1
<1>5. QED
  BY <1>1, <1>2, <1>3, <1>4 DEF Next

-----------------------------------------------------------------------------
(* The invariant holds of every client that is not disconnected from outside during a setup. *)
THEOREM LifecycleInvariantHolds ==
  ASSUME NotDuringSetup
  PROVE  Spec => []LifecycleInvariant
<1>1. Init => LifecycleInvariant
  <2>1. ASSUME Init PROVE Shapes /\ Stage /\ ~panicked
    BY <2>1 DEF Init, Shapes, Stage, Before, Quiet, AllStopped, NoTeardown
  <2>2. ASSUME Init PROVE Credentials
    BY <2>2 DEF Init, Credentials, Rejections, Caching, Asked, Session, Submitting, Retrying,
                NoToken
  <2>3. QED
    BY <2>1, <2>2 DEF LifecycleInvariant
<1>2. LifecycleInvariant /\ [Next]_vars => LifecycleInvariant'
  <2> SUFFICES ASSUME LifecycleInvariant, [Next]_vars PROVE LifecycleInvariant'
    OBVIOUS
  <2>1. Goal'
    BY StageStep, NotDuringSetup DEF LifecycleInvariant
  <2>2. CASE Next
    <3>1. Credentials'
      BY <2>2, RejectionsStep, CachingStep, AskedStep, NotDuringSetup
         DEF LifecycleInvariant, Credentials
    <3>2. QED
      BY <2>1, <3>1 DEF Goal, LifecycleInvariant
  <2>3. CASE UNCHANGED vars
    <3>1. Credentials'
      BY <2>3 DEF LifecycleInvariant, vars, fields, history, Credentials, Rejections, Caching,
                  Asked
    <3>2. QED
      BY <2>1, <3>1 DEF Goal, LifecycleInvariant
  <2>4. QED
    BY <2>2, <2>3
<1>3. QED
  BY <1>1, <1>2, PTL DEF Spec

(* doneCh is never closed twice (client.go:986, 2968). *)
THEOREM DoneClosedOnceHolds ==
  ASSUME NotDuringSetup
  PROVE  Spec => []DoneClosedOnce
<1>1. LifecycleInvariant => DoneClosedOnce
  BY DEF LifecycleInvariant, DoneClosedOnce
<1>2. QED
  BY <1>1, LifecycleInvariantHolds, PTL

(* When Done is closed no goroutine of the tunnel runs, the TUN device is gone and the *)
(* socket is closed (client.go:960-990).                                               *)
THEOREM DoneMeansDownHolds ==
  ASSUME NotDuringSetup
  PROVE  Spec => []DoneMeansDown
<1>1. LifecycleInvariant => DoneMeansDown
  BY DEF LifecycleInvariant, DoneMeansDown, Stage, Before, Running, Held, Tearing, Finished, Ended, Quiet
<1>2. QED
  BY <1>1, LifecycleInvariantHolds, PTL

(* No credentials are left after an explicit Disconnect, whichever thread began the *)
(* teardown (client.go:949-957).                                                    *)
THEOREM ExplicitDisconnectClearsHolds ==
  ASSUME NotDuringSetup, NotWhileRetrying
  PROVE  Spec => []ExplicitDisconnectClears
<1>1. Init => Remembered
  BY DEF Init, Remembered
<1>2. LifecycleInvariant /\ Remembered /\ [Next]_vars => Remembered'
  <2> SUFFICES ASSUME LifecycleInvariant, Remembered, [Next]_vars PROVE Remembered'
    OBVIOUS
  <2>1. CASE Next
    BY <2>1, RememberedStep, NotDuringSetup, NotWhileRetrying DEF LifecycleInvariant
  <2>2. CASE UNCHANGED vars
    BY <2>2 DEF vars, fields, history, Remembered
  <2>3. QED
    BY <2>1, <2>2
<1>3. Remembered => ExplicitDisconnectClears
  BY DEF Remembered, ExplicitDisconnectClears
<1>4. QED
  BY <1>1, <1>2, <1>3, LifecycleInvariantHolds, PTL DEF Spec

(* A transient failure keeps the session's assertion for Reconnect (client.go:949-950). *)
THEOREM TransientFailureKeepsHolds ==
  ASSUME NotDuringSetup
  PROVE  Spec => []TransientFailureKeeps
<1>1. LifecycleInvariant => TransientFailureKeeps
  BY DEF LifecycleInvariant, Credentials, Caching, TransientFailureKeeps
<1>2. QED
  BY <1>1, LifecycleInvariantHolds, PTL

(* A rejected assertion is never submitted again (client.go:2790-2792, 1109-1111). *)
THEOREM RejectedNotResubmittedHolds ==
  ASSUME NotDuringSetup
  PROVE  Spec => []RejectedNotResubmitted
<1>1. LifecycleInvariant => RejectedNotResubmitted
  BY DEF LifecycleInvariant, Credentials, Rejections, Submitting, RejectedNotResubmitted
<1>2. QED
  BY <1>1, LifecycleInvariantHolds, PTL

(* One re-authentication event per login, however many monitors there are (client.go:2787). *)
THEOREM OneReauthEventHolds ==
  ASSUME NotDuringSetup
  PROVE  Spec => []OneReauthEvent
<1>1. LifecycleInvariant => OneReauthEvent
  BY DEF LifecycleInvariant, Credentials, Asked, OneReauthEvent
<1>2. QED
  BY <1>1, LifecycleInvariantHolds, PTL

-----------------------------------------------------------------------------
(* The client as an application sees it: Connection. *)

(* How the phase follows from State and Done. *)
LEMMA PhaseIs ==
  /\ done => Phase = "down"
  /\ ~done /\ state = "New" => Phase = "idle"
  /\ ~done /\ state = "Connecting" => Phase = "connecting"
  /\ ~done /\ state = "TunnelUp" => Phase = "up"
  /\ ~done /\ Closing => Phase = "closing"
  /\ done' => Phase' = "down"
  /\ ~done' /\ state' = "New" => Phase' = "idle"
  /\ ~done' /\ state' = "Connecting" => Phase' = "connecting"
  /\ ~done' /\ state' = "TunnelUp" => Phase' = "up"
  /\ ~done' /\ Closing' => Phase' = "closing"
<1>1. /\ done => Phase = "down"
      /\ done' => Phase' = "down"
  BY Zenon DEF Phase
<1>2. /\ ~done /\ state = "New" => Phase = "idle"
      /\ ~done' /\ state' = "New" => Phase' = "idle"
  BY Zenon DEF Phase
<1>3. /\ ~done /\ state = "Connecting" => Phase = "connecting"
      /\ ~done' /\ state' = "Connecting" => Phase' = "connecting"
  BY Zenon DEF Phase
<1>4. /\ ~done /\ state = "TunnelUp" => Phase = "up"
      /\ ~done' /\ state' = "TunnelUp" => Phase' = "up"
  BY Zenon DEF Phase
<1>5. /\ ~done /\ Closing => Phase = "closing"
      /\ ~done' /\ Closing' => Phase' = "closing"
  BY Zenon DEF Phase, Closing
<1>6. QED
  BY <1>1, <1>2, <1>3, <1>4, <1>5

(* What Connection does not tell apart. *)
LEMMA StutterStep ==
  ASSUME UNCHANGED <<state, done, doneErr, worker, tunDev, rawConn>>
  PROVE  UNCHANGED Abstract!vars
<1>1. Phase' = Phase
  BY Zenon DEF Phase
<1>2. Tunnel' = Tunnel
  BY DEF Tunnel, AllStopped
<1>3. QED
  BY <1>1, <1>2 DEF Abstract!vars

(* A goroutine, the device or the socket comes or goes within a phase. *)
LEMMA WorkStep ==
  ASSUME ~done, ~done', state \in {"Connecting", "TunnelUp", "Disconnecting", "Disconnected"},
         state' = state \/ (Closing /\ Closing'),
         doneErr' = doneErr \/ \E e \in Errors : firstError(e)
  PROVE  Abstract!Next
<1>1. Phase \in {"connecting", "up", "closing"} /\ Phase' = Phase
  BY PhaseIs DEF Closing
<1>2. Abstract!Record
  BY DEF Abstract!Record, firstError, Errors
<1>3. Tunnel' \in BOOLEAN
  BY DEF Tunnel
<1>4. QED
  BY <1>1, <1>2, <1>3 DEF Abstract!Next, Abstract!Work

(* A connection begins or comes up: nothing of the tunnel changes. *)
LEMMA BeginStep ==
  ASSUME ~done, UNCHANGED <<done, doneErr, worker, tunDev, rawConn>>,
         \/ state = "New" /\ state' = "Connecting"
         \/ state = "Connecting" /\ state' = "TunnelUp"
  PROVE  Abstract!Next
<1>1. Tunnel' = Tunnel
  BY DEF Tunnel, AllStopped
<1>2. QED
  BY <1>1, PhaseIs DEF Abstract!Next, Abstract!Begin, Abstract!Up

(* disconnect under c.mu: only the first call changes the phase. *)
LEMMA LockedStep ==
  ASSUME ~done \/ Closing, UNCHANGED <<done, doneErr, tunDev, rawConn>>,
         AllStopped' = AllStopped, state \in {"New", "Connecting", "TunnelUp"} \/ Closing,
         NEW preserve \in BOOLEAN, disconnectLocked(preserve)
  PROVE  Abstract!Next \/ UNCHANGED Abstract!vars
<1>1. Tunnel' = Tunnel
  BY DEF Tunnel
<1>2. CASE Closing
  <2>1. state' = state
    BY <1>2 DEF disconnectLocked
  <2>2. Phase' = Phase
    BY <2>1, Zenon DEF Phase
  <2>3. QED
    BY <1>1, <2>2 DEF Abstract!vars
<1>3. CASE ~Closing
  <2>1. state' = "Disconnecting"
    BY <1>3 DEF disconnectLocked
  <2>2. Phase \in {"idle", "connecting", "up"} /\ Phase' = "closing"
    BY <1>3, <2>1, PhaseIs DEF Closing
  <2>3. QED
    BY <1>1, <2>2 DEF Abstract!Next, Abstract!Disconnect
<1>4. QED
  BY <1>2, <1>3

(* Nothing of the tunnel is left when Done is closed. *)
LEMMA DownStage ==
  ASSUME Stage, done
  PROVE  Ended /\ ~Tunnel
<1>1. Ended
  BY DEF Stage, Before, Running, Held, Tearing, Finished
<1>2. QED
  BY <1>1 DEF Ended, Quiet, Tunnel

(* The owner's steps up to the running tunnel. *)
LEMMA SetupConnection ==
  ASSUME Shapes, Stage, Stage',
         \/ Connect \/ Dial1 \/ SetupFails \/ Phase1Challenge \/ Phase1Direct \/ CollectToken
         \/ Phase2Start \/ Phase2Caches \/ Dial2 \/ Exchange2 \/ Exchange2Rejected \/ OpenTun
         \/ MarkUp \/ StartWorkers \/ ReconnectReuses
  PROVE  Abstract!Next \/ UNCHANGED Abstract!vars
<1> USE DEF threads, fields
<1>1. /\ owner \in {"dial1", "phase1", "dial2", "exchange2", "tun", "mark", "rcReset", "start"} => ~done
      /\ owner \in {"dial1", "phase1", "dial2", "exchange2", "tun", "mark"} => state = "Connecting"
      /\ owner = "rcReset" => state = "New"
      /\ owner = "start" => state = "TunnelUp"
      /\ state = "New" => ~done
  BY Zenon DEF Stage, Before, Running, Held, HeldByOwner, HeldByUser, HeldBy, Parked, Tearing, Finished, Ended
<1>2. CASE Phase1Challenge \/ Phase1Direct \/ CollectToken \/ Phase2Start \/ Phase2Caches \/ Exchange2
  <2>1. UNCHANGED <<state, done, doneErr, worker, tunDev, rawConn>>
    BY <1>2, Zenon DEF Phase1Challenge, Phase1Direct, CollectToken, Phase2Start, Phase2Caches, Exchange2
  <2>2. QED
    BY <2>1, StutterStep
<1>3. CASE Connect
  <2>1. CASE state = "New"
    BY <1>1, <1>3, <2>1, BeginStep DEF Connect
  <2>2. CASE state # "New"
    BY <1>3, <2>2, StutterStep DEF Connect
  <2>3. QED
    BY <2>1, <2>2
<1>4. CASE Dial1 \/ Dial2 \/ OpenTun \/ StartWorkers
  <2>1. ~done /\ UNCHANGED <<state, done, doneErr>> /\ state \in {"Connecting", "TunnelUp"}
    BY <1>1, <1>4, Zenon DEF Dial1, Dial2, OpenTun, StartWorkers
  <2>2. QED
    BY <2>1, WorkStep
<1>5. CASE MarkUp \/ ReconnectReuses
  BY <1>1, <1>5, BeginStep DEF MarkUp, ReconnectReuses
<1>6. CASE SetupFails \/ Exchange2Rejected
  <2>1. ~done /\ state = "Connecting" /\ setDisconnected
    BY <1>1, <1>6, Zenon DEF SetupFails, Exchange2Rejected
  <2>2. done' /\ firstError("setup")
    BY <2>1 DEF setDisconnected
  <2>3. Tunnel' = FALSE
    <3>1. Ended'
      BY <2>2, Zenon DEF Stage, Before, Running, Held, Tearing, Finished
    <3>2. QED
      BY <3>1 DEF Ended, Quiet, Tunnel
  <2>4. Abstract!Record
    BY <2>2 DEF Abstract!Record, firstError, Errors
  <2>5. Phase = "connecting" /\ Phase' = "down"
    BY <2>1, <2>2, PhaseIs
  <2>6. QED
    BY <2>3, <2>4, <2>5 DEF Abstract!Next, Abstract!Fail
<1>7. QED
  BY <1>2, <1>3, <1>4, <1>5, <1>6

(* The owner's steps in and after a session, and the second caller's. *)
LEMMA SessionConnection ==
  ASSUME Shapes, Stage, Stage',
         \/ OwnerDisconnects \/ OwnerCloses \/ OwnerLeaves \/ OwnerSeesDone
         \/ Reconnect \/ Reauth \/ ReconnectRound \/ ReconnectGivesUp \/ ReconnectResets
         \/ ReconnectNeedsLogin \/ UserDisconnects \/ UserCloses
  PROVE  Abstract!Next \/ UNCHANGED Abstract!vars
<1> USE DEF threads, fields
<1>1. CASE OwnerLeaves \/ OwnerSeesDone \/ Reconnect \/ ReconnectGivesUp \/ ReconnectNeedsLogin
  <2>1. UNCHANGED <<state, done, doneErr, worker, tunDev, rawConn>>
    BY <1>1, Zenon DEF OwnerLeaves, OwnerSeesDone, Reconnect, ReconnectGivesUp, ReconnectNeedsLogin
  <2>2. QED
    BY <2>1, StutterStep
<1>2. CASE OwnerDisconnects \/ Reauth \/ ReconnectRound \/ UserDisconnects
  <2>1. /\ UNCHANGED <<done, doneErr, worker, tunDev, rawConn>>
        /\ disconnectLocked(FALSE) \/ disconnectLocked(TRUE)
    BY <1>2, Zenon DEF OwnerDisconnects, Reauth, ReconnectRound, UserDisconnects
  <2>2. AllStopped' = AllStopped
    BY <2>1 DEF AllStopped
  <2>3. (~done \/ Closing) /\ (state \in {"New", "Connecting", "TunnelUp"} \/ Closing)
    BY Zenon DEF Stage, Before, Running, Held, Tearing, Finished, Ended, Closing
  <2>4. QED
    BY <2>1, <2>2, <2>3, LockedStep, Zenon
<1>3. CASE OwnerCloses \/ UserCloses
  <2>1. UNCHANGED <<state, done, doneErr>>
    BY <1>3, Zenon DEF OwnerCloses, UserCloses
  <2>2. owner \in {"closing", "rcClosing", "reauthClosing"} \/ user = "closing"
    BY <1>3, Zenon DEF OwnerCloses, UserCloses
  <2>3. state = "Disconnecting" /\ ~done
    BY <2>2, Zenon DEF Stage, Before, Running, Held, Parked, Tearing, Finished, Ended, Quiet
  <2>4. QED
    BY <2>1, <2>3, WorkStep
<1>4. CASE ReconnectResets
  <2>1. done /\ ~done' /\ state' = "New" /\ doneErr' = "nil"
    BY <1>4 DEF ReconnectResets, reset
  <2>2. Phase = "down" /\ Phase' = "idle"
    BY <2>1, PhaseIs
  <2>3. Tunnel = FALSE
    BY <2>1, DownStage DEF Tunnel
  <2>4. Tunnel' = FALSE
    BY <2>1, <1>4, DownStage DEF Tunnel, AllStopped, ReconnectResets, reset
  <2>5. QED
    BY <2>1, <2>2, <2>3, <2>4, Zenon DEF Abstract!Next, Abstract!Reset
<1>5. QED
  BY <1>1, <1>2, <1>3, <1>4

(* The steps of the tunnel's goroutines and of the teardown. *)
LEMMA TunnelConnection ==
  ASSUME Shapes, Stage,
         \/ \E w \in Workers : Worker(w)
         \/ \E m \in Monitors : SessionExpires(m)
         \/ \E s \in Slots : Teardown(s)
  PROVE  Abstract!Next \/ UNCHANGED Abstract!vars
<1>1. ~AllStopped => ~done /\ state \in {"TunnelUp", "Disconnecting", "Disconnected"}
  BY StageFacts, DownStage DEF Ended, Quiet
<1>2. ASSUME NEW w \in Workers, WorkerFails(w) \/ WorkerStops(w) \/ WorkerCloses(w) PROVE Abstract!Next
  <2>1. /\ worker[w] \in {"run", "closing"} /\ UNCHANGED <<state, done>>
        /\ doneErr' = doneErr \/ firstError(failure(w))
    BY <1>2, Zenon DEF WorkerFails, WorkerStops, WorkerCloses, fields
  <2>2. ~AllStopped
    BY <2>1 DEF AllStopped
  <2>3. failure(w) \in Errors
    BY Zenon DEF failure, Errors
  <2>4. QED
    BY <1>1, <2>1, <2>2, <2>3, WorkStep
<1>3. ASSUME NEW w \in Workers, WorkerDisconnects(w)
      PROVE  Abstract!Next \/ UNCHANGED Abstract!vars
  <2>1. /\ worker[w] = "failed" /\ disconnectLocked(preserves(w))
        /\ UNCHANGED <<doneErr, done, rawConn, tunDev>>
        /\ worker' = [worker EXCEPT ![w] = IF Closing THEN "off" ELSE "closing"]
    BY <1>3 DEF WorkerDisconnects
  <2>2. ~AllStopped
    BY <2>1 DEF AllStopped
  <2>3. CASE Closing
    <3>1. state' = state
      BY <2>1, <2>3 DEF disconnectLocked
    <3>2. QED
      BY <1>1, <2>1, <2>2, <3>1, WorkStep
  <2>4. CASE ~Closing
    <3>1. worker'[w] = "closing"
      BY <2>1, <2>4 DEF Shapes
    <3>2. AllStopped' = AllStopped
      BY <2>2, <3>1 DEF AllStopped
    <3>3. preserves(w) \in BOOLEAN
      BY DEF preserves
    <3>4. QED
      BY <1>1, <2>1, <2>2, <2>4, <3>2, <3>3, LockedStep DEF Closing
  <2>5. QED
    BY <2>3, <2>4
<1>4. ASSUME NEW m \in Monitors, SessionExpires(m) PROVE Abstract!Next
  <2>1. worker[m] = "run" /\ UNCHANGED <<state, done>> /\ firstError("expired")
    BY <1>4 DEF SessionExpires
  <2>2. ~AllStopped
    BY <2>1, Zenon DEF AllStopped, Workers
  <2>3. QED
    BY <1>1, <2>1, <2>2, WorkStep DEF Errors
<1>5. ASSUME NEW s \in Slots, Teardown(s) PROVE Abstract!Next
  <2>1. teardown[s] # "none"
    BY <1>5, Zenon DEF Teardown, Cleanup, FinishTeardown, CloseDone
  <2>2. Closing /\ ~done
    BY <2>1 DEF Stage, Before, Running, Held, Tearing, Finished, Ended, Quiet, NoTeardown, Closing
  <2>3. CASE Cleanup(s) \/ FinishTeardown(s)
    BY <2>2, <2>3, WorkStep DEF Cleanup, FinishTeardown, Closing
  <2>4. CASE CloseDone(s)
    <3>1. teardown[s] = "finished" /\ done' /\ UNCHANGED <<doneErr, rawConn, tunDev, worker>>
      BY <2>4 DEF CloseDone
    <3>2. Finished
      BY <3>1 DEF Stage, Before, Running, Held, Tearing, TearingIn, OnlyTeardown, Ended, Quiet, NoTeardown
    <3>3. Tunnel = FALSE /\ Tunnel' = FALSE
      BY <3>1, <3>2 DEF Finished, Tunnel, AllStopped
    <3>4. Phase = "closing" /\ Phase' = "down"
      BY <2>2, <3>1, PhaseIs
    <3>5. QED
      BY <3>1, <3>3, <3>4, Zenon DEF Abstract!Next, Abstract!Finish
  <2>5. QED
    BY <1>5, <2>3, <2>4 DEF Teardown
<1>6. QED
  BY <1>2, <1>3, <1>4, <1>5 DEF Worker

(* The client implements Connection: the phases of a connection come in order, Done is     *)
(* closed when nothing of the tunnel is left, and Err is the first error until the next    *)
(* reset (client.go:960-990, 2955-2969, 1149-1169).                                        *)
THEOREM ImplementsConnectionHolds ==
  ASSUME NotDuringSetup
  PROVE  Spec => ImplementsConnection
<1>1. Init => Abstract!Init
  <2> SUFFICES ASSUME Init PROVE Abstract!Init
    OBVIOUS
  <2>1. Phase = "idle" /\ doneErr = "nil"
    BY PhaseIs DEF Init
  <2>2. Tunnel = FALSE
    BY DEF Init, Tunnel, AllStopped
  <2>3. QED
    BY <2>1, <2>2 DEF Abstract!Init
<1>2. LifecycleInvariant /\ [Next]_vars => [Abstract!Next]_(Abstract!vars)
  <2> SUFFICES ASSUME LifecycleInvariant, [Next]_vars
               PROVE  Abstract!Next \/ UNCHANGED Abstract!vars
    OBVIOUS
  <2>1. Shapes /\ Stage /\ Stage'
    BY StageStep, NotDuringSetup DEF LifecycleInvariant, Goal
  <2>2. CASE Owner
    BY <2>1, <2>2, SetupConnection, SessionConnection, Zenon DEF Owner
  <2>3. CASE UserDisconnects \/ UserCloses
    BY <2>1, <2>3, SessionConnection
  <2>4. CASE \/ \E w \in Workers : Worker(w)
             \/ \E m \in Monitors : SessionExpires(m)
             \/ \E s \in Slots : Teardown(s)
    BY <2>1, <2>4, TunnelConnection
  <2>5. CASE UNCHANGED vars
    BY <2>5, StutterStep DEF vars, fields
  <2>6. QED
    BY <2>2, <2>3, <2>4, <2>5, Zenon DEF Next
<1>3. QED
  BY <1>1, <1>2, LifecycleInvariantHolds, PTL DEF Spec, ImplementsConnection, Abstract!Spec

-----------------------------------------------------------------------------
(* Type correctness, wherever the second thread disconnects. *)

Flags ==
  /\ clearCredentialsOnCleanup \in BOOLEAN /\ reauthRequired \in BOOLEAN /\ done \in BOOLEAN
  /\ tunDev \in BOOLEAN /\ panicked \in BOOLEAN /\ explicit \in BOOLEAN

Values ==
  /\ state \in States /\ challenge \in {"none", "direct", "crv1"} /\ doneErr \in Errors
  /\ rawConn \in {"none", "open", "closed"} /\ ctx \in {"none", "live", "cancelled"}
  /\ owner \in OwnerPCs /\ user \in {"idle", "closing"} /\ Shapes

\* A login is under way only after Connect has counted it.
Numbers ==
  /\ cached \in {NoToken} \cup Tokens /\ token \in {NoToken} \cup Tokens
  /\ attempt \in 0 .. MaxReconnects /\ logins \in 0 .. MaxLogins
  /\ disconnects \in 0 .. MaxDisconnects /\ rejected \subseteq Tokens /\ reauthEvents \in Nat
  /\ owner \in {"dial1", "phase1", "saml"} => logins # 0

(* The flags. *)
LEMMA FlagsStep ==
  ASSUME Flags, Next
  PROVE  Flags'
<1> USE DEF threads, fields, history, rest, Flags
<1>1. CASE Connect \/ Dial1 \/ Phase1Challenge \/ Phase1Direct \/ CollectToken \/ Phase2Start
           \/ Phase2Caches \/ Dial2 \/ Exchange2 \/ OpenTun \/ MarkUp \/ StartWorkers
  BY <1>1, Zenon DEF Connect, Dial1, Phase1Challenge, Phase1Direct, CollectToken, Phase2Start,
       Phase2Caches, Dial2, Exchange2, OpenTun, MarkUp, StartWorkers
<1>2. CASE SetupFails \/ Exchange2Rejected
  BY <1>2, Zenon DEF SetupFails, Exchange2Rejected, setDisconnected
<1>3. CASE OwnerDisconnects \/ Reauth \/ ReconnectRound \/ UserDisconnects
  BY <1>3, Zenon DEF OwnerDisconnects, Reauth, ReconnectRound, UserDisconnects, disconnectLocked
<1>4. CASE OwnerCloses \/ UserCloses \/ OwnerLeaves \/ OwnerSeesDone \/ Reconnect \/ ReconnectGivesUp
  BY <1>4, Zenon DEF OwnerCloses, UserCloses, OwnerLeaves, OwnerSeesDone, Reconnect, ReconnectGivesUp
<1>5. CASE ReconnectResets \/ ReconnectReuses \/ ReconnectNeedsLogin
  BY <1>5, Zenon DEF ReconnectResets, reset, ReconnectReuses, ReconnectNeedsLogin
<1>6. ASSUME NEW w \in Workers, Worker(w) PROVE Flags'
  <2>1. CASE WorkerDisconnects(w)
    BY <2>1, Zenon DEF WorkerDisconnects, disconnectLocked
  <2>2. CASE WorkerFails(w) \/ WorkerCloses(w) \/ WorkerStops(w)
    BY <2>2, Zenon DEF WorkerFails, WorkerCloses, WorkerStops
  <2>3. QED
    BY <1>6, <2>1, <2>2, Zenon DEF Worker
<1>7. CASE \/ \E m \in Monitors : SessionExpires(m)
           \/ \E s \in Slots : Teardown(s)
  BY <1>7, Zenon DEF SessionExpires, Teardown, Cleanup, FinishTeardown, CloseDone
<1>8. QED
  BY <1>1, <1>2, <1>3, <1>4, <1>5, <1>6, <1>7, Zenon DEF Next, Owner

(* The states, errors and program counters. *)
LEMMA ValuesStep ==
  ASSUME Values, Next
  PROVE  Values'
<1> USE DEF threads, fields, history, rest, Values, Shapes, States, OwnerPCs
<1>1. CASE Connect \/ Dial1 \/ Phase1Challenge \/ Phase1Direct \/ CollectToken \/ Phase2Start
  <2>1. CASE Connect \/ Dial1
    BY <2>1, Zenon DEF Connect, Dial1
  <2>2. CASE Phase1Challenge \/ Phase1Direct
    BY <2>2, Zenon DEF Phase1Challenge, Phase1Direct
  <2>3. CASE CollectToken \/ Phase2Start
    BY <2>3, Zenon DEF CollectToken, Phase2Start
  <2>4. QED
    BY <1>1, <2>1, <2>2, <2>3, Zenon
<1>2. CASE Phase2Caches \/ Dial2 \/ Exchange2 \/ OpenTun \/ MarkUp \/ StartWorkers
  BY <1>2, Zenon DEF Phase2Caches, Dial2, Exchange2, OpenTun, MarkUp, StartWorkers
<1>3. CASE SetupFails \/ Exchange2Rejected
  <2>1. doneErr' \in Errors /\ state' \in States /\ challenge' \in {"none", "direct", "crv1"}
    <3>1. setDisconnected
      BY <1>3, Zenon DEF SetupFails, Exchange2Rejected
    <3>2. QED
      BY <3>1, Zenon DEF setDisconnected, firstError, clearCredentialsLocked, keepCredentials, Errors
  <2>2. owner' \in OwnerPCs /\ rawConn' \in {"none", "open", "closed"} /\ UNCHANGED <<threads, ctx>>
    BY <1>3, Zenon DEF SetupFails, Exchange2Rejected
  <2>3. QED
    BY <2>1, <2>2, Zenon
<1>4. CASE OwnerDisconnects \/ Reauth \/ ReconnectRound \/ UserDisconnects
  BY <1>4, Zenon DEF OwnerDisconnects, Reauth, ReconnectRound, UserDisconnects, disconnectLocked,
              clearCredentialsLocked, keepCredentials
<1>5. CASE OwnerCloses \/ UserCloses
  <2>1. /\ owner' \in OwnerPCs /\ user' \in {"idle", "closing"} /\ disconnectRest
        /\ UNCHANGED <<state, challenge, doneErr, worker>>
    BY <1>5, Zenon DEF OwnerCloses, UserCloses
  <2>2. QED
    BY <2>1 DEF disconnectRest
<1>6. CASE OwnerLeaves \/ OwnerSeesDone \/ Reconnect \/ ReconnectGivesUp
  BY <1>6, Zenon DEF OwnerLeaves, OwnerSeesDone, Reconnect, ReconnectGivesUp, clearCredentialsLocked,
              keepCredentials
<1>7. CASE ReconnectResets \/ ReconnectReuses \/ ReconnectNeedsLogin
  BY <1>7 DEF ReconnectResets, reset, ReconnectReuses, ReconnectNeedsLogin, Errors
<1>8. ASSUME NEW w \in Workers, WorkerFails(w) PROVE Values'
  <2>1. failure(w) \in Errors
    BY Zenon DEF failure, Errors
  <2>2. QED
    BY <1>8, <2>1 DEF WorkerFails, firstError
<1>9. ASSUME NEW w \in Workers, WorkerDisconnects(w) PROVE Values'
  BY <1>9 DEF WorkerDisconnects, disconnectLocked, clearCredentialsLocked, keepCredentials
<1>10. ASSUME NEW w \in Workers, WorkerCloses(w) \/ WorkerStops(w) PROVE Values'
  BY <1>10 DEF WorkerCloses, WorkerStops, disconnectRest
<1>11. ASSUME NEW m \in Monitors, SessionExpires(m) PROVE Values'
  <2>1. /\ challenge' = "none" /\ worker' = [worker EXCEPT ![m] = "failed"] /\ firstError("expired")
        /\ UNCHANGED <<state, rawConn, ctx, owner, user, teardown>>
    BY <1>11, Zenon DEF SessionExpires, clearCredentialsLocked
  <2>2. doneErr' \in Errors
    BY <2>1 DEF firstError, Errors
  <2>3. Shapes'
    BY <2>1, Zenon
  <2> HIDE DEF Shapes, States, OwnerPCs
  <2>4. QED
    BY <2>1, <2>2, <2>3
<1>12. ASSUME NEW s \in Slots, Teardown(s) PROVE Values'
  BY <1>12, Zenon DEF Teardown, Cleanup, FinishTeardown, CloseDone, clearCredentialsLocked, keepCredentials
<1>13. QED
  BY <1>1, <1>2, <1>3, <1>4, <1>5, <1>6, <1>7, <1>8, <1>9, <1>10, <1>11, <1>12, Zenon
     DEF Next, Owner, Worker

(* The assertions and the counters. *)
LEMMA NumbersStep ==
  ASSUME Numbers, Next
  PROVE  Numbers'
<1> USE LifecycleAssumption DEF threads, fields, history, rest, Numbers, NoToken, Tokens
<1>1. CASE Connect \/ CollectToken
  <2>1. CASE Connect
    BY <2>1 DEF Connect
  <2>2. CASE CollectToken
    BY <2>2 DEF CollectToken
  <2>3. QED
    BY <1>1, <2>1, <2>2
<1>2. CASE \/ Dial1 \/ Phase1Challenge \/ Phase1Direct \/ Phase2Start \/ Phase2Caches
           \/ Dial2 \/ Exchange2 \/ OpenTun \/ MarkUp \/ StartWorkers
  <2>1. /\ owner' \in {"dial1", "phase1", "saml"} => owner \in {"dial1", "phase1", "saml"}
        /\ cached' \in {cached, token} /\ attempt' \in {attempt, 0} /\ UNCHANGED <<token, history>>
    BY <1>2, Zenon DEF Dial1, Phase1Challenge, Phase1Direct, Phase2Start, Phase2Caches, Dial2,
              Exchange2, OpenTun, MarkUp, StartWorkers
  <2>2. QED
    BY <2>1
<1>3. CASE SetupFails \/ Exchange2Rejected
  BY <1>3, Zenon DEF SetupFails, Exchange2Rejected, setDisconnected, clearCredentialsLocked, keepCredentials
<1>4. CASE OwnerDisconnects \/ Reauth \/ ReconnectRound \/ UserDisconnects
  <2>1. cached' \in {cached, NoToken} /\ UNCHANGED <<token, logins, rejected, reauthEvents>>
    BY <1>4, Zenon DEF OwnerDisconnects, Reauth, ReconnectRound, UserDisconnects, disconnectLocked,
                clearCredentialsLocked, keepCredentials
  <2>2. owner' = owner \/ owner' \notin {"dial1", "phase1", "saml"}
    BY <1>4, Zenon DEF OwnerDisconnects, Reauth, ReconnectRound, UserDisconnects
  <2>3. attempt' = attempt \/ (attempt < MaxReconnects /\ attempt' = attempt + 1)
    BY <1>4, Zenon DEF OwnerDisconnects, Reauth, ReconnectRound, UserDisconnects
  <2>4. disconnects' = disconnects \/ (disconnects < MaxDisconnects /\ disconnects' = disconnects + 1)
    BY <1>4, Zenon DEF OwnerDisconnects, Reauth, ReconnectRound, UserDisconnects
  <2>5. QED
    BY <2>1, <2>2, <2>3, <2>4
<1>5. CASE OwnerCloses \/ UserCloses
  <2>1. /\ owner' \notin {"dial1", "phase1", "saml"} \/ owner' = owner
        /\ UNCHANGED <<cached, token, attempt, history>>
    BY <1>5, Zenon DEF OwnerCloses, UserCloses
  <2>2. QED
    BY <2>1
<1>6. CASE OwnerLeaves \/ OwnerSeesDone \/ Reconnect \/ ReconnectGivesUp
  BY <1>6, Zenon DEF OwnerLeaves, OwnerSeesDone, Reconnect, ReconnectGivesUp, clearCredentialsLocked,
              keepCredentials
<1>7. CASE ReconnectResets \/ ReconnectReuses \/ ReconnectNeedsLogin
  BY <1>7, Zenon DEF ReconnectResets, reset, ReconnectReuses, ReconnectNeedsLogin
<1>8. ASSUME NEW w \in Workers, Worker(w) PROVE Numbers'
  BY <1>8, Zenon DEF Worker, WorkerFails, WorkerDisconnects, disconnectLocked, clearCredentialsLocked,
              keepCredentials, WorkerCloses, WorkerStops
<1>9. ASSUME NEW m \in Monitors, SessionExpires(m) PROVE Numbers'
  BY <1>9 DEF SessionExpires, clearCredentialsLocked
<1>10. ASSUME NEW s \in Slots, Teardown(s) PROVE Numbers'
  BY <1>10, Zenon DEF Teardown, Cleanup, FinishTeardown, CloseDone, clearCredentialsLocked, keepCredentials
<1>11. QED
  BY <1>1, <1>2, <1>3, <1>4, <1>5, <1>6, <1>7, <1>8, <1>9, <1>10, Zenon DEF Next, Owner

(* Every variable keeps its type. *)
THEOREM TypeOKHolds == Spec => []TypeOK
<1>1. Init => Flags /\ Values /\ Numbers
  <2>1. Init => Flags
    BY Zenon DEF Init, Flags
  <2>2. Init => Values
    BY DEF Init, Values, Shapes, States, Errors, OwnerPCs
  <2>3. Init => Numbers
    BY LifecycleAssumption DEF Init, Numbers, NoToken, Tokens
  <2>4. QED
    BY <2>1, <2>2, <2>3
<1>2. Flags /\ Values /\ Numbers /\ [Next]_vars => (Flags /\ Values /\ Numbers)'
  <2> SUFFICES ASSUME Flags, Values, Numbers, [Next]_vars PROVE Flags' /\ Values' /\ Numbers'
    OBVIOUS
  <2>1. CASE Next
    BY <2>1, FlagsStep, ValuesStep, NumbersStep
  <2>2. CASE UNCHANGED vars
    <3>1. Flags'
      BY <2>2, Zenon DEF vars, fields, history, Flags
    <3>2. Values'
      BY <2>2, Zenon DEF vars, fields, Values, Shapes
    <3>3. Numbers'
      BY <2>2, Zenon DEF vars, fields, history, Numbers
    <3>4. QED
      BY <3>1, <3>2, <3>3
  <2>3. QED
    BY <2>1, <2>2
<1>3. Flags /\ Values /\ Numbers => TypeOK
  BY DEF Flags, Values, Shapes, Numbers, TypeOK
<1>4. QED
  BY <1>1, <1>2, <1>3, PTL DEF Spec
=============================================================================
