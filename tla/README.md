# Verification of go-openlawsvpn

TLA+ models of go-openlawsvpn, an OpenVPN client for AWS Client VPN endpoints
with SAML login, and of the programs around it, written from the Go source under
`src/`. TLC checks the models on small instances. TLAPS proves the safety
properties, five refinements among them, for every value of the constants.
`PROJECT.json` maps each definition to the source lines it stands for and lists
the runs, mutants, findings, hazards and theorems.

## 1. The system

| Part | Source | Role |
|---|---|---|
| Client | `client.go` | two-phase setup, tunnel goroutines, renegotiation, disconnect, reconnect |
| Reliable layer | `internal/reliable` | send queue with back-off, receive window |
| Control transport | `internal/ctls` | a `net.Conn` for TLS on top of the reliable layer |
| Data channel | `internal/datachannel` | packet IDs, replay window, key manager |
| TUN, routes, DNS | `client_tun_*.go`, `tun`, `routing`, `dns` | host resources and who owns them |
| SAML | `auth/saml` | token collection, session monitor, messages |
| Relay | `relay`, `cmd/relay-server` | agent and server of the phone-based login |
| Daemon, CLI, mobile, GUI | `cmd/daemon`, `cmd/cli`, `client_mobile*.go`, `gui-gtk` | users of the client |
| Framing, crypto, compression, MSS | `internal/framing`, `crypto`, `prf`, `compress`, `mssfix` | functions on bytes |

`Connect` dials the server and runs `tlsHandshake`. This starts the
goroutines that carry the control channel: the inbound relay, which sorts
packets by opcode and key_id; a sender per control session; and a retransmitter.
TLS itself reads and writes a `ControlTransport` between them. In Phase 1 the server
either answers with a challenge, whose SAML assertion is submitted in Phase 2
over a new connection, or with the configuration at once. Once the tunnel is
up, `tunToWire`, `wireToTun`, `keepaliveLoop`, `inactiveLoop`, `rekeyLoop`, the
resource monitor and a session monitor per key epoch run until `disconnect`
cancels their context. A teardown goroutine waits for them, cleans up, and
closes `doneCh`. `rekeyLoop` negotiates new data-channel keys over a further
control session on the same socket. The key `Manager` then holds up to three
keys at once, and timers promote the new one.

On Linux the tunnel changes the host: `openNativeTUN` adds a bypass route to the
server, the pushed routes and the DNS servers. Ledgers record what it created,
a monitor checks them while the tunnel is up, and `cleanup` takes down what is
still the client's own.

Three programs use the client. The command-line client logs in, waits and
reconnects. The D-Bus daemon runs one login at a time for the GUI and cancels it
on request. For machines without a browser, an app hands a SAML assertion to the
relay server over HTTP, and the server pushes it over a WebSocket to the
command-line client, which runs as the relay agent there.

What is hard about this code is concurrency: several goroutines, an unreliable
network, other programs on the host and impatient users act on the same
connection, and a Client lives through many connections. `hazards` in `PROJECT.json` lists where this bites.

## 2. Modules

| Module | Models | State and actions |
|---|---|---|
| `Reliable` | `SendQueue`, `RecvWindow` | operators on the two states, no variables |
| `ControlLink` | one control session in either direction | send queue, receive window, what TLS got, packets and ACKs in flight; `Send`, `Retransmit`, `Arrive`, `ArriveAck`, losses |
| `OrderedDelivery` | what TLS needs from the link, and of its transport | abstract: each segment or byte once and in order; implemented by `ControlLink`, and twice by `ControlTransport` |
| `RetransmitTimer` | `Entry.Retries`, `Entry.NextRetry` | the back-off, in `Width`-bit arithmetic |
| `ControlTransport` | `ctls.go` and the goroutines of `tlsHandshake` | both channels, the three steps of `Close`, a program counter per goroutine; `InjectInbound`, `Read`, `Write`, `Close`, raw reader, relay, sender, retransmitter |
| `MCControlLink` | | the two directions of the link, and the transport, in one TLC model |
| `ReplayWindow` | packet IDs and replay window of one key | `Encrypt`, `Arrive` (with `checkReplay`, `markSeen`), `LosePacket` |
| `Rekey` | `rekeyLoop`, `doRekey`, the relay's reset exchange, the key `Manager`, promotion timers, reconnects | one action per step of `doRekey`, opcode, timer outcome and server reaction |
| `KeyHandover` | what users of the data channel see of a key change | abstract: the connection, the key in use, the keys accepted; implemented by `Rekey` |
| `MCDataChannel` | | two scenarios of `Rekey`, and `ReplayWindow`, in one TLC model |
| `ClientLifecycle` | `Connect`, both phases, tunnel goroutines, `disconnect`, `Reconnect`, the CLI loop | fields of `Client`, a program counter per thread; one action per section under `c.mu` and per step between |
| `Connection` | what an application sees of a `Client` | abstract: `State`, `Done` and `Err`, and whether anything of the tunnel is left; implemented by `ClientLifecycle` |
| `HostResources` | `openNativeTUN`, drift monitor and `cleanup` with `routing` and `dns` | routing table, resolv.conf, systemd-resolved's link, both ledgers; one action per read or write of one of these and per failure, an administrator's change, a crash |
| `MCClient` | | `ClientLifecycle` and `HostResources` side by side in one TLC model |
| `Daemon` | `cmd/daemon/service.go` and the SAML callback server | fields of the daemon, a program counter per goroutine, client and `Disconnect` call |
| `RelayWire` | the WebSocket between agent and server | frames in flight, whole or written in part, both ends, breaks |
| `RelayServer` | `cmd/relay-server` | the store; one action per section under its lock, for HTTP handlers, WebSocket handlers and writers |
| `RelayAgent` | `relay/relay.go` with the callbacks of the CLI | `Agent.Run`, its reader in and out of step with the frames, the phase2 goroutines and their clients, exit and restart |
| `Relay` | | server and agent composed over the wire |
| `Mailbox` | what becomes of a request that was queued | abstract: queued, taken and misread requests of each connection; implemented by `Relay` |
| `MCRelay` | | four scenarios of `Relay` in one TLC model |
| `*Proofs` | | theorems about the module of that name (section 4) |

Definitions keep the names of the code. Definitions whose comment begins with
"Fault" are plausible bugs. They are used only by the mutants, each of which
replaces a definition by its fault and must make a property fail.

How the models abstract:

- A control packet is its ID, because a payload never changes once it has one.
  Packet IDs of the reliable layer do not wrap: each stands for a segment of up
  to 1024 bytes of one TLS session.
- A key is its epoch: the call of `doRekey` that made it, and its key_id. In
  `Rekey` the TLS handshake and the key-method-2 messages are one message each
  way. `ControlLink` is about the link that carries them.
- `Rekey` assumes that a key_id is used again only after packets and server
  state of its earlier use are gone. The code spaces calls of `doRekey` by 30 s
  or more.
- The server in `Rekey` does what the comments of `doRekey` say of it. It is
  external to the repository.
- A SAML assertion is the number of the login that produced it.
- A socket that `Disconnect` closes during the setup may still yield what the
  TLS transport has buffered, so the setup may go on for some steps.
- In `ControlTransport` bytes are numbered and chunks have one length. Window
  and send queue below it are those of `ControlLink`. Sending on a closed channel
  panics, as in Go.
- In `HostResources` a route is destination, hop and metric, and resolv.conf is
  whose contents it holds. The client is sequential there, because setup, monitor
  and cleanup follow each other (`ClientLifecycle` has why). `sound` records which
  promises a failed call, a crash or an administrator has made void; each
  property says which one it depends on. Reads and writes of the table, of
  resolv.conf and of the link's DNS are steps of their own, so that an
  administrator's change can come between them. Two loops over reads are one
  step: `Repair`'s lookups of the owned routes, and `inspect`'s of the link's DNS
  and domains. A change that falls between a
  read of resolv.conf and the write that follows is lost (`FileWindow`):
  `ResolvConfHandedBack` excepts it, and `LaterChangesPreserved` is about it.
- In `Daemon` and `RelayAgent` the VPN client is reduced to the states those
  programs can see. Its own threads are in `ClientLifecycle`.
- The relay models have one agent ID. The server answers 400 unless the URL
  of the WebSocket has token, hostname and agent ID in its query. `buildWSURL`
  adds none of them, as it expects them in the auth frame, so an agent is served
  only if its configured endpoint has them already. The constant
  `EndpointQuery` says whether it has; the runs set it, because without it there
  is nothing but failing dials.
- A connection is ordered and reliable until it breaks, and loses what is in
  flight then. A write can also run out of its 10 s on a connection that is
  there, after none or a part of the frame. Bytes are not modelled: a part of a
  frame is a mark on it (`cut`, `Part`), and a reader that enters it, or whose 2 s
  deadline passes inside a header, is out of step (`skewed`). It then takes the
  bytes of messages for something else until a read happens to end at the start
  of a frame. That such bytes happen to be another valid message is left out.

## 3. What the runs check

| Run | Result | States |
|---|---|---|
| `link` | holds | 30,250 |
| `data_channel` | holds | 65,484 |
| `client` | holds | 640,319 |
| `relay` | holds | 230,927 |
| `daemon` | holds | 190,253 |
| `retransmit_overflow` | violated | |
| `replay_reordered` | violated | |
| `rekey_key_reuse` | violated | |
| `lifecycle_setup_disconnect` | violated | |
| `lifecycle_clean_error` | violated | |
| `relay_exit` | violated | |
| `resources_admin_overwritten` | violated | |

**link.** The inbound relay acknowledges a P_CONTROL_V1 packet before
`RecvWindow.Receive` decides whether to keep it. That is safe only if the
sender keeps within the window. `Directions` has both links of a session.
Downstream the peer keeps to the window and the relay acknowledges whatever
arrives (`limit = WindowSize`, `ackOutside`). Upstream the client's queue has no
limit, and the peer, as an OpenVPN receiver, does not acknowledge what it drops.
In both directions nothing that left the queue is lost (`AckedIsHeld`), the
window's buffer is bounded and an ACK in flight is for a packet that is held
(`LinkInvariant`, the inductive invariant of section 4), TLS sees the stream in
order and once (`ImplementsOrderedDelivery`), the receiver catches up with the
sender for good (`EventuallyDelivered`), and every segment is acknowledged in the
end (`EventuallyDrained`). Window 3 with four packets lets the sender upstream pass
the window, leaves two gaps at once, and delivers several packets in one call.
The other scenario is the transport above the link: in each direction it is an
`OrderedDelivery` of bytes (`ImplementsByteStreams`), and a closed socket ends
every goroutine, after all that `Write` accepted has gone out
(`ClosedSocketEndsAll`, with two exceptions, see section 5). Channels of
capacity 1, two chunks each way of two bytes, and segments of one byte make
every channel fill up, `Read` stop inside a chunk, and a chunk need two
segments.

**data_channel.** Three scenarios. In "reuse" the link loses nothing, three key_ids
serve four renegotiations, and one attempt in a row may fail, so ids are used
again while earlier epochs are held. In "lossy" packets are lost and sent
again, with one renegotiation per connection and a reconnect while timers of
the old connection are armed. Checked: `decryptChannel` picks the right key for
every key held (`SelectsRightEpoch`); a prepared key always has the timer that
promotes it (`PreparedHasTimer`); the client never encrypts with a key the server
has not activated (`SendKeyActiveAtServer`); the control TLS session belongs to
the present connection and the relay delivers to it (`ControlSessionReachable`);
a new key is accepted before it is used, the one it replaces until the next is
installed, and no older key comes back (`ImplementsKeyHandover`); on a lossy link
a reset that was sent leads to a promoted key unless the attempt fails or the
connection ends (`LossyRekeyTakesEffect`). In "replay" eight packets of one key
pass through a window of three on a transport that keeps order (TCP) but loses
and repeats packets, so the top laps the window: none is delivered twice
(`DeliveredOnce`).

**client, the threads.** Two logins, two reconnect rounds, two session monitors, ping-exit,
and a second thread that calls `Disconnect` before the first login, while the
tunnel is up or being closed, while a new login is awaited, and afterwards. Two
monitors are enough for two rejections of one session. `inactiveLoop` ends the
session with preserved credentials, as `keepaliveLoop` does with ping-restart, so
ping-restart needs no run of its own. Checked: `doneCh` is closed once
(`DoneClosedOnce`); when it is closed all goroutines, the TUN device and the
socket are gone (`DoneMeansDown`); an explicit `Disconnect` leaves no credentials
even when it loses the race to start the teardown (`ExplicitDisconnectClears`); a
transient failure keeps them (`TransientFailureKeeps`); a rejected assertion is
not submitted again (`RejectedNotResubmitted`); the application is asked to log in
once (`OneReauthEvent`); the phases of a connection come in order, its error is
never replaced by another until the next reset, and Done finds nothing of the
tunnel left (`ImplementsConnection`); a teardown that has begun ends
(`DisconnectCompletes`). `Connection` lets an error be recorded while a clean
`Disconnect` is under way, as the code does; that this contradicts the comment of
`WaitForDisconnect` is the finding `lifecycle_clean_error`.

**client, the host.** One tunnel from setup to cleanup, beside an administrator
who makes two changes to routes, resolv.conf or the link at any moment, with one
failing call or a crash. Two changes are enough to take a route away and put
another in its place between the client's lookup and its removal. Checked: a
teardown leaves no route of the client (`NoRouteLeft`) and hands resolv.conf
back (`ResolvConfHandedBack`, with the exceptions it names); the default route
never goes through the tunnel without a route to the server beside it
(`NoRoutingLoop`); the client removes only its own routes
(`OnlyOwnRoutesRemoved`); lost routes come back (`LostRouteRestored`). The run
has one tunnel; the safety properties are proved for any number.

**daemon.** Two logins, each direct or through the relay, and two `Disconnect`
calls that may overlap each other and any step of a login. The second login can
start while threads of the first are still at work. Checked: `d.client` is set
exactly while a login's goroutine runs (`OneConnection`); a direct tunnel can
always be taken down (`DirectTunnelOwned`); with no login and no tunnel, Status
is idle or error (`StatusSettled`); a relay session is released once
(`ReleasedOnce`); after `relay_delivering` the GUI sees no state of the login's
own client (`NoVpnSignalAfterDelivering`); a cancelled login frees the daemon
(`CancelFreesDaemon`), and every login gives the callback port back
(`PortFreed`).

**relay.** Four scenarios, each with one part of the model. In "requests" two
apps interleave their requests over one connection with a channel of capacity 1,
so pushes are also refused. In "reconnect" the agent dials again, after a break
or a restart, while the handler of its first connection may still be at work. In
"garbled" frames are written in part and the agent's reader falls out of step. In
"login" the phase2 goroutines and their clients do all they can. Checked: an old
connection never takes the record of a newer one (`LatestOwnsRecord`); the agent
takes what the server queued, in that order, each request once, nothing of a
connection it has lost, and handles it while its reader is in step
(`ImplementsMailbox`); a queued release stops the agent unless the connection is
lost, a write fails or the reader falls out of step first (`ReleaseStopsAgent`);
a failed write to an agent that is gone takes it off its connection
(`WriteErrorUnregisters`). "Queued" is not "answered 200": `handleRelease`
answers 200 also when `pushToAgent` found no channel or a full one, and none of
these properties is about such a release.

The seven violations are findings; `PROJECT.json` quotes the lines they
contradict.

- `replay_reordered`: `markSeen` never shifts the window when the top moves, so
  marks are read for the wrong packets. A repeated packet that arrives behind a
  later one is delivered twice.
- `rekey_key_reuse`: failed attempts use up key_ids, so after six failures in a
  row the next key has the key_id of the key in use and is never selected. With
  `MaxFailures <= KeyIDs - 2` `SelectsRightEpoch` is proved.
- `lifecycle_setup_disconnect`: `Disconnect` during a setup that then fails
  closes `doneCh` twice, which panics. With `Disconnect` at any other moment,
  `DoneClosedOnce` is proved.
- `retransmit_overflow`: the back-off product leaves the range of
  `time.Duration` at 33 retries, is negative, and passes the test against the
  cap. The run uses 10 bits, where the same happens at 8 retries.
- `lifecycle_clean_error`: `Disconnect` closes the socket and cancels the context
  without a word in `doneErr`, and a goroutine that has not yet seen this records
  its own error: `tunToWire` its write on the closed socket, `keepaliveLoop` a
  deadline that passes at that moment. `WaitForDisconnect` then returns it, where
  its comment promises nil. The property assumes that goroutines go on
  (`FairSpec`) and has no second thread.
- `relay_exit`: a release reaches `OnDisconnect`, which starts a teardown that
  runs in a goroutine of its own and cancels the context. `Agent.Run` returns and
  the process ends without waiting for it, so the bypass route and resolv.conf may
  stay as the tunnel left them. The property is about a process that has handled
  a release with a client at work. The run has one phase2 goroutine and one
  connection.
- `resources_admin_overwritten`: `Ownership.Cleanup` reads resolv.conf, finds its
  own contents, and writes the backup. What an administrator writes between the
  two is overwritten.

Deadlock checking is off in every cfg: all of these systems may come to rest
(everything sent, the client gone).

### Fairness

- `link`: the retransmit ticker runs while the connection lives (WF), and a
  packet or ACK that is sent again and again is received some time (SF). TLS
  writes are not fair. In the transport scenario every goroutine that can take a
  step takes one (WF), while the peer, new writes and the closing of the socket
  are not owed.
- `data_channel`: steps of `doRekey`, tickers and timers happen (WF); of the
  packets of the epoch being negotiated each sort gets through when it is
  repeated (SF). Nothing makes a renegotiation start or fail. The property is
  stated for the lossy scenario only, as the others have no retransmission.
- `client`: the scheduler does not stop while a thread is owed a step (`Owed`,
  WF): those of `disconnect` and of its teardown goroutine, and of a goroutine
  whose context is cancelled. Each of these leads to the end of its thread, so no
  one of them can be passed over for ever. All loops select on the context;
  `tunToWire` also reads the TUN device, with a deadline of 500 ms. Connections,
  failures and calls are not owed. On the host's side the monitor's ticker goes on
  while the tunnel is up (WF).
- `daemon`: the client's threads, the goroutines of a login, `Disconnect` calls
  that have begun and the closing of the port go on (WF). Nothing is owed by the
  user, the browser or a tunnel that is up.
- `relay`: handlers, writers and `Agent.Run` are scheduled (WF). A dead
  connection is noticed, as the server reads with a deadline of 90 s. Nothing is
  assumed of the network, apps, signals, restarts, the outcome of a login, reads
  that run out of time on a connection that is there, or a reader out of step.

## 4. What is proved

Every theorem holds for all values of the constants that satisfy the
assumptions named in the modules. "Needs" is what it takes beside them.

| Module | Theorems | Needs |
|---|---|---|
| `ControlLinkProofs` | `LinkInvariantHolds`, `AckedIsHeldHolds`, `PendingInWindowHolds`, `ImplementsOrderedDeliveryHolds` | `WindowRespected`: in a direction whose receiver acknowledges everything, the sender keeps to the window |
| `ControlTransportProofs` | `TransportInvariantHolds`, `ImplementsByteStreamsHolds` | |
| `ReplayWindowProofs` | `ReplayInvariantHolds`, `DeliveredOnceHolds` | `Ordered`: packets arrive in the order they were sent |
| `RekeyProofs` | `RekeyInvariantHolds`, `SelectsRightEpochHolds`, `PreparedHasTimerHolds`, `SendKeyActiveAtServerHolds`, `ControlSessionReachableHolds`, `ImplementsKeyHandoverHolds` | `EnoughIDs`: `MaxFailures + 2 <= KeyIDs` |
| `ClientLifecycleProofs` | `LifecycleInvariantHolds`, `DoneClosedOnceHolds`, `DoneMeansDownHolds`, `TransientFailureKeepsHolds`, `RejectedNotResubmittedHolds`, `OneReauthEventHolds`, `ImplementsConnectionHolds` | `NotDuringSetup`: the second thread's `Disconnect` does not come during a setup |
| | `ExplicitDisconnectClearsHolds` | `NotDuringSetup` and `NotWhileRetrying`: nor between two rounds of `Reconnect` |
| | `TypeOKHolds` | |
| `HostResourcesProofs` | `HostInvariantHolds`, `NoRouteLeftHolds`, `ResolvConfHandedBackHolds`, `NoRoutingLoopHolds`, `OnlyOwnRoutesRemovedHolds` | |
| `DaemonProofs` | `DaemonInvariantHolds`, `OneConnectionHolds`, `DirectTunnelOwnedHolds`, `StatusSettledHolds`, `ReleasedOnceHolds`, `NoVpnSignalAfterDeliveringHolds` | |
| `RelayProofs` | `RelayInvariantHolds`, `LatestOwnsRecordHolds`, `ImplementsMailboxHolds` | |

`Ordered`, `EnoughIDs` and `NotDuringSetup` are needed: without them the runs
`replay_reordered`, `rekey_key_reuse` and `lifecycle_setup_disconnect` have
counterexamples. So is `NotWhileRetrying`: with `"reconnect"` or `"rcWait"` in
`DisconnectAt`, TLC finds that `Reconnect` goes on with its own copy of the
credentials after the `Disconnect` and caches them again.

Hardly any of the properties is inductive as it stands, so each module has an
inductive invariant. TLC checks the one of the link in its run.

- `LinkInvariant`. An ACK in flight must be for a packet the receiver holds. For
  a receiver that acknowledges whatever arrives this needs `nextID <= expected +
  WindowSize`, and that holds because the packet the receiver waits for has not
  been acknowledged, so it holds the sender back. What TLS got is exactly `First
  .. expected - 1`, from which refinement follows: every arrival extends the
  delivered prefix or stutters. The lemmas on `Reliable` say that `Receive` moves
  `expected` to the first gap.
- `TransportInvariant` says where every chunk is: read, in `readBuf`, in the
  channel, or with the relay, in this order and without a gap, and the same on
  the way out. `Close` at any moment moves no chunk. Each stream is then an
  `OrderedDelivery`: a `Read` takes the next bytes, and only an accepted chunk or a
  segment that was sent lengthens what is there.
- `ReplayInvariant`. The window's marks are shifted wrongly, but with order kept
  only the slot of the newest packet is ever asked for, and that one is right.
- `RekeyInvariant`. key_ids form a ring. `nextKeyID` is ahead of the key in use
  by one place for the call under way and one for each call that failed since, so
  an id comes back only after `KeyIDs - 1` failures in a row. Timers of the
  present connection belong to the prepared key, and the relay's session of each
  held key is the one of its epoch. The keys held are in the order they were made
  (`Ages`), so for `KeyHandover` `Prepare` is the step that installs a younger key,
  `Promote` the one that puts it to use, and no key is hidden behind another with
  its key_id (`AcceptedIs`).
- `LifecycleInvariant` splits a connection into six stages and names, for each,
  the one thread that will close `doneCh`. A second part says what is known of
  the credentials: what was rejected, what is cached, and who has been asked. For
  `Connection`, a phase is read off `state` and `done`; the stage says that the
  tunnel is gone when the last teardown closes `doneCh`. Types need neither the
  stages nor an assumption.
- `HostInvariant`. Every route through the device is the client's, and there is
  none without a device; the only other route it made is the one `bypass`
  names. While the default route is in the table, the ledger or the loop's list,
  the server has a route. At each step of setup, monitor and cleanup it is known
  which DNS back-end is in use, and between a read and a write what was read
  (`BackendKnown`). The backup is what resolv.conf would hold, as long as the file
  is the client's and no change has fallen into a `FileWindow`.
- `DaemonInvariant`. `d.client` names the one login whose goroutine runs, a
  delivering login has no client event left, and a relay session is in one place:
  with the daemon, with one `Disconnect` call, or released. `StatusSettled` needs in
  addition that, while a status is unsettled, some thread still has to settle it.
- `RelayInvariant`. A connection that no handler serves yet has no frames. The
  frames queued for a connection are those taken, then those in flight, then
  others; while the path is intact and the writer at work the others are what
  waits in the channel, and a frame written in part is the last. So the frame the
  agent reads next, in or out of step, is the one after those it has taken: a
  step of `Mailbox`. A connection counts as lost from the moment the agent can
  read nothing more from it.

Only model-checked: the liveness properties (`EventuallyDelivered`,
`EventuallyDrained`, `ClosedSocketEndsAll`, `LossyRekeyTakesEffect`,
`DisconnectCompletes`, `LostRouteRestored`, `CancelFreesDaemon`, `PortFreed`,
`ReleaseStopsAgent`, `WriteErrorUnregisters`), as they rest on fairness, which is
beyond TLAPS. Every safety property of a passing run is proved. The refinements are
proved for the safety part of each specification, which is all the abstract ones
have.

## 5. What is not modelled

- Cryptography, framing, compression, MSS clamping, and the parsing of options,
  profiles and messages: functions on bytes or text without state of their own.
- TUN devices, the layout of netlink messages, and routes and DNS on Darwin, iOS
  and Android; the GTK application; the mock server and test environment.
- The data path: `wireToTun`, `tunToWire` and the relay's hand-over to `dataCh`
  appear only as goroutines that may fail or be stopped. `cleanup` closes `dataCh`
  while the relay may be sending to it; this hazard has no property.
- Renegotiation started by the server, which the client acknowledges and drops.
- `Manager.Rotate`, which nothing calls, and the time and byte limits of a key:
  only the moment a renegotiation starts depends on them, and it is free in the
  model. The wrap of a key's packet counter is left out with them.
- The reports of route and DNS drift. A failed lookup counts as no drift and
  clears the record of what was reported, so a drift that stays is reported again
  after it.
- Pings and the delays of the relay agent's back-off, and the end of the daemon's
  process on a signal.

Met while modelling and not covered by a run:

- `reliable.go:143` says that packets outside the window are not acknowledged,
  while the inbound relay (`client.go:1872`) acknowledges them first; see
  `WindowRespected`.
- `Reconnect` on a live tunnel copies the assertion before its teardown; a
  monitor may see it rejected after the copy. The CLI, which the model follows,
  calls `Reconnect` only after `Done`.
- `InjectInbound` and `Write` test `closed`, release the lock and then send. A
  `Close` in between makes the send panic. `ClosedSocketEndsAll` excepts this, and
  a relay that waits for room in `inbound` when TLS has no reader left.
- A `Disconnect` between two rounds of `Reconnect` does not stop it, and the
  credentials it clears are cached again (`NotWhileRetrying`).
- The comment of `buildWSURL` says that all registration data is sent in the auth
  frame, while the server takes them from the URL, answers 400 without them and
  ignores the auth frame (see `EndpointQuery`).
- A release is answered 200 whether or not it was queued. One read out of step
  is lost, and the agent goes on.
- An agent that is gone stays listed until something is pushed to it, because
  its handler waits for the writer. On a stalled connection a write that runs out
  of time ends the writer only, and the agent's pings keep the handler.
- The relay server looks for an active session and creates one in two sections
  under its lock, so two apps can reserve one agent.
- Cancelling a login does not stop a Phase 2 that has dialled, so the tunnel of a
  cancelled relay login can come up on the daemon's machine with nothing to take
  it down. `DirectTunnelOwned` is about direct logins.
- A relay login that fails after its reservation does not release it.
- A crash leaves resolv.conf and the bypass route behind, and the next session
  takes both for the host's own.

## 6. What could follow

- The data path of one connection, with `dataCh`, its closing and the counters.
- Server-started renegotiation, were the client to support it.
- An abstract specification of a relayed login (reserved, pushed, answered,
  released), if the server comes to change a session's state: today every session
  stays "initiated".
- An abstract specification of the client's hold on its host, which the ledgers
  implement, and one of the daemon as the GUI sees it.
